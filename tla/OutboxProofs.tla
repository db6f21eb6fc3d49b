------------------------------ MODULE OutboxProofs ------------------------------
(***************************************************************************)
(* Proofs about Outbox, for any number of workers, connections, tenants    *)
(* and events, any batch sizes, and either backend.                        *)
(***************************************************************************)
EXTENDS Outbox, FiniteSetTheorems, TLAPS

-----------------------------------------------------------------------------
\* Two claims never hold the same row.
LocksApart == \A v, w \in Worker : v # w => locked[v] \cap locked[w] = {}

\* Rows are locked only while a claim runs, and only a worker that holds no
\* events runs one.
ClaimsRun ==
  \A w \in Worker :
    /\ using[w] = None => locked[w] = {}
    /\ using[w] # None => backend = "postgres" /\ batch[w] = {} /\ done[w] = {}

\* The sequence numbers the rows as they come.
RowIds == backend = "postgres" => \A e \in 1 .. last : id[e] = e

\* Under the policies a claim locks rows of the tenant of its connection, and a
\* batch is what one claim locked.
LocksOfSession ==
  backend = "postgres" /\ rls =>
    \A w \in Worker : \A e \in locked[w] : tenant_id[e] = session[using[w]]

NoNilEvents == \A e \in 1 .. last : tenant_id[e] \in Tenant

IInv == TypeOK /\ HandedOutOnce /\ LocksApart /\ ClaimsRun /\ RowIds

-----------------------------------------------------------------------------
(***************************************************************************)
(* IInv is inductive: one lemma per action.                                *)
(***************************************************************************)
\* Initially nothing is anywhere.
LEMMA InitIInv == Init => IInv
  BY OutboxAssumption
  DEF Init, IInv, TypeOK, HandedOutOnce, LocksApart, ClaimsRun, RowIds, Event

\* Another call only changes the tenant of a connection.
LEMMA OtherCallIInv ==
  ASSUME IInv, NEW c \in Conn, NEW t \in Tenant, OtherCall(c, t)
  PROVE  IInv'
  BY DEF IInv, TypeOK, HandedOutOnce, LocksApart, ClaimsRun, RowIds, OtherCall,
         set_tenant_on_conn, eventVars, workerVars, boundVars

\* An enqueue that fails leaves no event.
LEMMA EnqueueFailsIInv ==
  ASSUME IInv, NEW c \in Conn, NEW t \in Tenant, enqueue_fails(c, t)
  PROVE  IInv'
<1>1. session' \in [Conn -> Tenant \cup {NilTenant}] /\ failures' \in Nat
  BY DEF IInv, TypeOK, enqueue_fails, set_tenant_on_conn
<1>. QED
  BY <1>1 DEF IInv, TypeOK, HandedOutOnce, LocksApart, ClaimsRun, RowIds, enqueue_fails,
              eventVars, workerVars

\* A new event is waiting and nowhere else.
LEMMA EnqueueIInv ==
  ASSUME IInv, NEW c \in Conn, NEW t \in Tenant, enqueue(c, t)
  PROVE  IInv'
<1>. USE OutboxAssumption DEF IInv, enqueue, workerVars, boundVars
<1>1. last \in Nat /\ last + 1 \in Event /\ last' = last + 1 /\ 1 .. last' = 1 .. last \cup {last'}
  BY DEF TypeOK, Event
<1>2. new_id \in Nat
  <2>1. waiting \subseteq 1 .. last
    BY DEF TypeOK
  <2>2. IsFiniteSet(1 .. last)
    BY ONLY <1>1, FS_Interval, 1 \in Int, last \in Int
  <2>3. IsFiniteSet(waiting)
    BY ONLY <2>1, <2>2, FS_Subset
  <2>4. Cardinality(waiting) \in Nat
    BY ONLY <2>3, FS_CardinalityType
  <2>. QED BY <1>1, <2>4 DEF new_id
<1>3. TypeOK'
  <2>1. session' \in [Conn -> Tenant \cup {NilTenant}]
    BY DEF TypeOK, set_tenant_on_conn
  <2>2. id' \in [Event -> Nat] /\ tenant_id' \in [Event -> Tenant \cup {NilTenant}]
    BY <1>1, <1>2 DEF TypeOK
  <2>3. waiting \subseteq waiting' /\ waiting' \subseteq 1 .. last' /\ 1 .. last \subseteq 1 .. last'
    BY <1>1 DEF TypeOK
  <2>. QED BY <1>1, <2>1, <2>2, <2>3 DEF TypeOK
<1>4. HandedOutOnce'
  BY <1>1 DEF TypeOK, HandedOutOnce
<1>5. LocksApart' /\ ClaimsRun'
  BY DEF LocksApart, ClaimsRun
<1>6. RowIds'
  BY <1>1 DEF TypeOK, RowIds, new_id, Event
<1>. QED BY <1>3, <1>4, <1>5, <1>6

\* What is popped moves from the queue to one batch.
LEMMA PopIInv ==
  ASSUME IInv, NEW w \in Worker, NEW size \in Size, pop_batch(w, size)
  PROVE  IInv'
<1>. USE DEF IInv, pop_batch, eventVars, boundVars
<1>1. \A v \in Worker : locked[v] = {}
  BY DEF ClaimsRun
<1>2. Oldest(waiting, size) \subseteq waiting
  BY DEF Oldest
<1>3. TypeOK'
  BY <1>1, <1>2 DEF TypeOK
<1>4. HandedOutOnce'
  BY <1>2 DEF TypeOK, HandedOutOnce
<1>5. LocksApart' /\ ClaimsRun' /\ RowIds'
  BY DEF TypeOK, LocksApart, ClaimsRun, RowIds
<1>. QED BY <1>3, <1>4, <1>5

\* A claim locks waiting rows that no other claim has locked.
LEMMA ClaimIInv ==
  ASSUME IInv, NEW w \in Worker, NEW c \in Conn, NEW size \in Size, claim_batch(w, c, size)
  PROVE  IInv'
<1>. USE OutboxAssumption DEF IInv, claim_batch, eventVars, boundVars
<1>1. Selected(c, size) \subseteq waiting \ Locked
  BY DEF Selected, Oldest, Visible
<1>2. \A v \in Worker : v # w => locked'[v] = locked[v] /\ using'[v] = using[v]
  BY DEF TypeOK
<1>3. locked'[w] = Selected(c, size) /\ using'[w] = c
  BY DEF TypeOK
<1>4. \A v \in Worker : locked[v] \subseteq Locked
  BY DEF Locked
<1>5. TypeOK'
  BY <1>1 DEF TypeOK
<1>6. LocksApart'
  BY <1>1, <1>2, <1>3, <1>4 DEF LocksApart
<1>7. ClaimsRun'
  BY <1>2, <1>3 DEF TypeOK, ClaimsRun, Idle
<1>8. HandedOutOnce' /\ RowIds'
  BY DEF HandedOutOnce, RowIds
<1>. QED BY <1>5, <1>6, <1>7, <1>8

\* What was locked moves to the batch; other claims keep what they locked.
LEMMA CommitIInv ==
  ASSUME IInv, NEW w \in Worker, claim_commits(w)
  PROVE  IInv'
<1>. USE DEF IInv, claim_commits, eventVars, boundVars
<1>1. \A v \in Worker : v # w =>
        locked'[v] = locked[v] /\ using'[v] = using[v] /\ batch'[v] = batch[v]
  BY DEF TypeOK
<1>2. locked'[w] = {} /\ using'[w] = None /\ batch'[w] = locked[w]
  BY DEF TypeOK
<1>3. locked[w] \subseteq waiting
  BY DEF TypeOK
<1>4. \A v \in Worker : locked'[v] \subseteq waiting'
  BY <1>1, <1>2 DEF TypeOK, LocksApart
<1>5. TypeOK'
  BY <1>3, <1>4 DEF TypeOK
<1>6. LocksApart' /\ ClaimsRun' /\ RowIds'
  BY <1>1, <1>2 DEF LocksApart, ClaimsRun, RowIds
<1>7. HandedOutOnce'
  BY <1>1, <1>2, <1>3 DEF HandedOutOnce
<1>. QED BY <1>5, <1>6, <1>7

\* A failed claim lets its rows go, or settles them; other claims keep what they
\* locked.
LEMMA FailIInv ==
  ASSUME IInv, NEW w \in Worker, claim_fails(w)
  PROVE  IInv'
<1>. USE DEF IInv, claim_fails, eventVars
<1>1. waiting' \subseteq waiting /\ waiting \ locked[w] \subseteq waiting'
  OBVIOUS
<1>2. \A v \in Worker : locked'[v] \subseteq waiting'
  BY <1>1 DEF TypeOK, LocksApart
<1>3. \A v \in Worker : v # w => locked'[v] = locked[v] /\ using'[v] = using[v]
  BY DEF TypeOK
<1>4. locked'[w] = {} /\ using'[w] = None
  BY DEF TypeOK
<1>5. TypeOK'
  BY <1>1, <1>2 DEF TypeOK
<1>6. HandedOutOnce'
  BY <1>1 DEF HandedOutOnce
<1>7. LocksApart' /\ ClaimsRun' /\ RowIds'
  BY <1>3, <1>4 DEF LocksApart, ClaimsRun, RowIds
<1>. QED BY <1>5, <1>6, <1>7

\* What is published moves from the batch to the bus.
LEMMA PublishIInv ==
  ASSUME IInv, NEW w \in Worker, NEW e \in Event, publish(w, e)
  PROVE  IInv'
<1>. USE DEF IInv, publish, eventVars, boundVars
<1>1. \A v \in Worker : v # w => batch'[v] = batch[v] /\ done'[v] = done[v]
  BY DEF TypeOK
<1>2. batch'[w] = batch[w] \ {e} /\ done'[w] = done[w] \cup {e}
  BY DEF TypeOK
<1>3. TypeOK'
  BY <1>1, <1>2 DEF TypeOK
<1>4. HandedOutOnce'
  BY <1>1, <1>2 DEF HandedOutOnce
<1>5. ClaimsRun'
  BY <1>1, <1>2 DEF ClaimsRun
<1>6. LocksApart' /\ RowIds'
  BY DEF LocksApart, RowIds
<1>. QED BY <1>3, <1>4, <1>5, <1>6

\* Marking finds no row to change: ids are unique, and claims have settled all.
LEMMA MarkKeepsWaiting ==
  ASSUME IInv, NEW w \in Worker, NEW c \in Conn, mark_published(w, c)
  PROVE  waiting' = waiting
<1>1. CASE backend = "memory"
  BY <1>1 DEF mark_published
<1>2. CASE backend = "postgres"
  <2>1. \A e \in waiting, d \in done[w] : id[e] = id[d] => e = d
    BY <1>2 DEF IInv, TypeOK, RowIds
  <2>2. done[w] \cap waiting = {}
    BY DEF IInv, TypeOK, HandedOutOnce
  <2>. QED BY <1>2, <2>1, <2>2 DEF mark_published, Visible
<1>. QED BY <1>1, <1>2 DEF IInv, TypeOK

\* Marking forgets the batch.
LEMMA MarkIInv ==
  ASSUME IInv, NEW w \in Worker, NEW c \in Conn, mark_published(w, c)
  PROVE  IInv'
<1>. USE DEF IInv, mark_published, eventVars, boundVars
<1>1. waiting' = waiting
  BY MarkKeepsWaiting
<1>2. done' \in [Worker -> SUBSET delivered]
  BY DEF TypeOK
<1>3. \A v \in Worker : done[v] = {} => done'[v] = {}
  BY DEF TypeOK
<1>4. TypeOK'
  BY <1>1, <1>2 DEF TypeOK
<1>5. HandedOutOnce'
  BY <1>1 DEF HandedOutOnce
<1>6. ClaimsRun'
  BY <1>3 DEF ClaimsRun
<1>7. LocksApart' /\ RowIds'
  BY DEF LocksApart, RowIds
<1>. QED BY <1>4, <1>5, <1>6, <1>7

\* A crash leaves the rows whose claim did not commit, and what the bus got.
LEMMA CrashIInv ==
  ASSUME IInv, Crash
  PROVE  IInv'
<1>1. waiting' \subseteq waiting
  BY DEF Crash
<1>2. /\ last' = last /\ id' = id /\ delivered' = delivered /\ backend' = backend
      /\ tenant_id' = tenant_id /\ rls' = rls /\ failures' = failures
      /\ crashes' = crashes + 1
      /\ session' = [c \in Conn |-> NilTenant]
      /\ using' = [w \in Worker |-> None]
      /\ locked' = [w \in Worker |-> {}]
      /\ batch' = [w \in Worker |-> {}]
      /\ done' = [w \in Worker |-> {}]
  BY DEF Crash, eventVars
<1>. QED
  BY <1>1, <1>2 DEF IInv, TypeOK, HandedOutOnce, LocksApart, ClaimsRun, RowIds

\* Every step, or a stuttering one, keeps IInv.
LEMMA NextIInv == IInv /\ [Next]_vars => IInv'
<1>1. ASSUME IInv, Next PROVE IInv'
  BY <1>1, OtherCallIInv, EnqueueIInv, EnqueueFailsIInv, PopIInv, ClaimIInv, CommitIInv, FailIInv,
     PublishIInv, MarkIInv, CrashIInv
  DEF Next, Claim, Finish
<1>2. ASSUME IInv, UNCHANGED vars PROVE IInv'
  BY <1>2 DEF IInv, TypeOK, HandedOutOnce, LocksApart, ClaimsRun, RowIds, vars,
              eventVars, workerVars, boundVars
<1>. QED BY <1>1, <1>2

\* IInv holds in every reachable state.
LEMMA AlwaysIInv == Spec => []IInv
  BY InitIInv, NextIInv, PTL DEF Spec

\* The variables of Outbox have their types: events are only where events were
\* enqueued, rows are locked only while they wait.
THEOREM TypeCorrect == Spec => []TypeOK
  BY AlwaysIInv, PTL DEF IInv

\* However claims overlap, fail and crash, no event is handed out twice.
THEOREM EventsHandedOutOnce == Spec => []HandedOutOnce
  BY AlwaysIInv, PTL DEF IInv

-----------------------------------------------------------------------------
(***************************************************************************)
(* Nothing is lost but by a crash or a failed claim.                       *)
(***************************************************************************)
\* One step: an event leaves the queue for a batch, and a batch for the bus.
LEMMA StepLosesNothing ==
  ASSUME IInv, [Next]_vars,
         NEW e \in (waiting \cup InHand) \ (waiting \cup InHand)'
  PROVE  \/ e \in delivered'
         \/ crashes' # crashes
         \/ \E w \in Worker : ClaimFailed(w) /\ e \in locked[w]
<1>. USE DEF IInv
<1>1. ASSUME waiting \subseteq waiting', batch' = batch
      PROVE  FALSE
  BY <1>1 DEF InHand
<1>2. ASSUME NEW w \in Worker,
             \A v \in Worker : v # w => batch'[v] = batch[v],
             batch[w] \subseteq batch'[w],
             waiting \subseteq waiting' \cup batch'[w]
      PROVE  FALSE
  BY <1>2 DEF InHand
<1>3. CASE \E c \in Conn, t \in Tenant :
             enqueue(c, t) \/ enqueue_fails(c, t) \/ OtherCall(c, t)
  BY <1>1, <1>3 DEF enqueue, enqueue_fails, OtherCall, workerVars
<1>4. ASSUME NEW w \in Worker, NEW size \in Size, pop_batch(w, size)
      PROVE  FALSE
  BY <1>2, <1>4 DEF TypeOK, pop_batch, Idle
<1>5. ASSUME NEW w \in Worker, NEW c \in Conn, NEW size \in Size, claim_batch(w, c, size)
      PROVE  FALSE
  BY <1>1, <1>5 DEF claim_batch
<1>6. ASSUME NEW w \in Worker, claim_commits(w)
      PROVE  FALSE
  <2>1. batch[w] = {}
    BY <1>6 DEF ClaimsRun, claim_commits
  <2>. QED BY <1>2, <1>6, <2>1 DEF TypeOK, claim_commits
<1>7. ASSUME NEW w \in Worker, claim_fails(w)
      PROVE  ClaimFailed(w) /\ e \in locked[w]
  <2>1. ClaimFailed(w)
    BY <1>7 DEF TypeOK, claim_fails, ClaimFailed
  <2>2. batch' = batch /\ waiting \ locked[w] \subseteq waiting'
    BY <1>7 DEF claim_fails
  <2>3. e \in waiting /\ e \notin waiting'
    BY <2>2 DEF InHand
  <2>. QED BY <2>1, <2>2, <2>3
<1>8. ASSUME NEW w \in Worker, NEW f \in Event, publish(w, f)
      PROVE  e \in delivered'
  <2>1. waiting' = waiting /\ delivered' = delivered \cup {f}
    BY <1>8 DEF publish
  <2>2. \A v \in Worker : batch[v] \subseteq batch'[v] \cup {f}
    BY <1>8 DEF TypeOK, publish
  <2>. QED BY <2>1, <2>2 DEF InHand
<1>9. ASSUME NEW w \in Worker, NEW c \in Conn, mark_published(w, c)
      PROVE  FALSE
  <2>1. waiting' = waiting
    BY <1>9, MarkKeepsWaiting
  <2>. QED BY <1>1, <1>9, <2>1 DEF mark_published
<1>10. CASE Crash
  BY <1>10 DEF TypeOK, Crash
<1>11. CASE UNCHANGED vars
  BY <1>1, <1>11 DEF vars, workerVars
<1>. QED
  BY <1>3, <1>4, <1>5, <1>6, <1>7, <1>8, <1>9, <1>10, <1>11 DEF Next, Claim, Finish

\* An event no worker holds and no queue keeps has reached the bus, or the process
\* crashed with it, or the claim that had locked it ended in an error.
THEOREM NothingElseLosesEvents == Spec => LostOnlyByCrashOrFailedClaim
<1>1. ASSUME IInv, [Next]_vars
      PROVE  \A e \in (waiting \cup InHand) \ (waiting \cup InHand)' :
               \/ e \in delivered'
               \/ crashes' # crashes
               \/ \E w \in Worker : ClaimFailed(w) /\ e \in locked[w]
  BY <1>1, StepLosesNothing
<1>. QED
  BY <1>1, AlwaysIInv, PTL DEF Spec, LostOnlyByCrashOrFailedClaim

-----------------------------------------------------------------------------
(***************************************************************************)
(* The tenants of a batch.  JInv is inductive where IInv holds.            *)
(***************************************************************************)
JInv == NoNilEvents /\ LocksOfSession /\ BatchOfOneTenant

\* Initially there is no event, no lock and no batch.
LEMMA InitJInv == Init => JInv
  BY OutboxAssumption
  DEF Init, JInv, NoNilEvents, LocksOfSession, BatchOfOneTenant

\* Enqueues and other calls change the tenant of free connections only, and
\* claims hold theirs.
LEMMA CallJInv ==
  ASSUME IInv, JInv, NEW c \in Conn, NEW t \in Tenant,
         enqueue(c, t) \/ enqueue_fails(c, t) \/ OtherCall(c, t)
  PROVE  JInv'
<1>. USE OutboxAssumption DEF IInv, JInv
<1>1. /\ backend' = backend /\ rls' = rls
      /\ using' = using /\ locked' = locked /\ batch' = batch /\ done' = done
  BY DEF enqueue, enqueue_fails, OtherCall, workerVars
<1>2. last \in Nat /\ last' \in Nat /\ last' \in {last, last + 1} /\ last' \in 0 .. MaxEvents
  BY DEF TypeOK, enqueue, enqueue_fails, OtherCall, eventVars
<1>3. \A e \in 1 .. last : tenant_id'[e] = tenant_id[e]
  BY <1>2 DEF TypeOK, Event, enqueue, enqueue_fails, OtherCall, eventVars
<1>4. NoNilEvents'
  BY <1>2, <1>3 DEF NoNilEvents, TypeOK, Event, enqueue, enqueue_fails, OtherCall, eventVars
<1>5. \A w \in Worker : locked[w] \cup batch[w] \cup done[w] \subseteq 1 .. last
  BY DEF TypeOK
<1>6. ASSUME backend = "postgres", NEW w \in Worker, using[w] # None
      PROVE  session'[using[w]] = session[using[w]]
  BY <1>6 DEF TypeOK, enqueue, enqueue_fails, OtherCall, Free, set_tenant_on_conn
<1>7. LocksOfSession'
  BY <1>1, <1>3, <1>5, <1>6 DEF LocksOfSession, ClaimsRun
<1>8. BatchOfOneTenant'
  BY <1>1, <1>3, <1>5 DEF BatchOfOneTenant
<1>. QED BY <1>4, <1>7, <1>8

\* A claim sees rows of the tenant of its connection only.
LEMMA ClaimJInv ==
  ASSUME IInv, JInv, NEW w \in Worker, NEW c \in Conn, NEW size \in Size, claim_batch(w, c, size)
  PROVE  JInv'
<1>. USE DEF IInv, JInv, claim_batch, eventVars, boundVars
<1>1. \A e \in Selected(c, size) : rls => tenant_id[e] = session[c]
  BY DEF Selected, Oldest, Visible
<1>2. \A v \in Worker : v # w => locked'[v] = locked[v] /\ using'[v] = using[v]
  BY DEF TypeOK
<1>3. locked'[w] = Selected(c, size) /\ using'[w] = c
  BY DEF TypeOK
<1>4. LocksOfSession'
  BY <1>1, <1>2, <1>3 DEF LocksOfSession
<1>. QED BY <1>4 DEF NoNilEvents, BatchOfOneTenant

\* The rows a claim locked, all of one tenant, become the batch.
LEMMA CommitJInv ==
  ASSUME IInv, JInv, NEW w \in Worker, claim_commits(w)
  PROVE  JInv'
<1>. USE OutboxAssumption DEF IInv, JInv, claim_commits, eventVars, boundVars
<1>1. \A v \in Worker : v # w =>
        locked'[v] = locked[v] /\ using'[v] = using[v] /\ batch'[v] = batch[v]
  BY DEF TypeOK
<1>2. locked'[w] = {} /\ batch'[w] = locked[w] /\ done[w] = {}
  BY DEF TypeOK, ClaimsRun
<1>3. LocksOfSession' /\ NoNilEvents'
  BY <1>1, <1>2 DEF LocksOfSession, NoNilEvents
<1>4. ASSUME backend = "postgres", rls
      PROVE  \E t \in Tenant : \A e \in locked[w] : tenant_id[e] = t
  <2>1. CASE locked[w] = {}
    BY <2>1
  <2>2. CASE locked[w] # {}
    <3>1. PICK e \in locked[w] : TRUE
      BY <2>2
    <3>2. e \in 1 .. last
      BY DEF TypeOK
    <3>3. tenant_id[e] \in Tenant
      BY <3>2 DEF NoNilEvents
    <3>4. \A f \in locked[w] : tenant_id[f] = tenant_id[e]
      BY <1>4 DEF LocksOfSession
    <3>. QED BY <3>3, <3>4
  <2>. QED BY <2>1, <2>2
<1>5. BatchOfOneTenant'
  BY <1>1, <1>2, <1>4 DEF BatchOfOneTenant
<1>. QED BY <1>3, <1>5

\* The rest of a claim moves events within one worker, or forgets them.
LEMMA RestJInv ==
  ASSUME IInv, JInv, NEW w \in Worker,
         \/ claim_fails(w)
         \/ \E e \in Event : publish(w, e)
         \/ \E c \in Conn : mark_published(w, c)
  PROVE  JInv'
<1>. USE DEF IInv, JInv
<1>1. /\ backend' = backend /\ rls' = rls /\ last' = last /\ tenant_id' = tenant_id
      /\ session' = session
  BY DEF claim_fails, publish, mark_published, eventVars
<1>2. NoNilEvents'
  BY <1>1 DEF NoNilEvents
<1>3. \A v \in Worker : locked'[v] = {} \/ (locked'[v] = locked[v] /\ using'[v] = using[v])
  BY DEF TypeOK, claim_fails, publish, mark_published
<1>4. LocksOfSession'
  BY <1>1, <1>3 DEF LocksOfSession
<1>5. \A v \in Worker : batch'[v] \cup done'[v] \subseteq batch[v] \cup done[v]
  BY DEF TypeOK, claim_fails, publish, mark_published
<1>6. BatchOfOneTenant'
  BY <1>1, <1>5 DEF BatchOfOneTenant
<1>. QED BY <1>2, <1>4, <1>6

\* Every step, or a stuttering one, keeps JInv.
LEMMA NextJInv == IInv /\ JInv /\ [Next]_vars => JInv'
<1>1. ASSUME IInv, JInv, NEW w \in Worker, NEW size \in Size, pop_batch(w, size) PROVE JInv'
  BY <1>1 DEF JInv, NoNilEvents, LocksOfSession, BatchOfOneTenant, pop_batch, eventVars
<1>2. ASSUME IInv, JInv, Crash PROVE JInv'
  <2>1. /\ backend' = backend /\ rls' = rls /\ last' = last /\ tenant_id' = tenant_id
        /\ locked' = [w \in Worker |-> {}] /\ batch' = [w \in Worker |-> {}]
        /\ done' = [w \in Worker |-> {}]
    BY <1>2 DEF Crash, eventVars
  <2>. QED
    BY <1>2, <2>1, OutboxAssumption DEF JInv, NoNilEvents, LocksOfSession, BatchOfOneTenant
<1>3. ASSUME JInv, UNCHANGED vars PROVE JInv'
  BY <1>3 DEF JInv, NoNilEvents, LocksOfSession, BatchOfOneTenant, vars, eventVars, workerVars
<1>. QED
  BY <1>1, <1>2, <1>3, CallJInv, ClaimJInv, CommitJInv, RestJInv DEF Next, Claim, Finish

\* Under the policies, a worker is never handed events of two tenants, whatever
\* other calls leave on the connections.
THEOREM BatchesOfOneTenant == Spec => []BatchOfOneTenant
<1>1. JInv => BatchOfOneTenant
  BY DEF JInv
<1>. QED
  BY <1>1, AlwaysIInv, InitJInv, NextJInv, PTL DEF Spec
=============================================================================
