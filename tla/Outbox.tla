--------------------------------- MODULE Outbox ---------------------------------
(***************************************************************************)
(* The OutboxRepository trait and its two implementations, a VecDeque      *)
(* behind one RwLock and the table outbox_events, with the workers that    *)
(* docs/storage_plan.md gives them: claim a batch, publish each event to   *)
(* the bus, mark the batch.  Nothing in the program runs such a worker     *)
(* yet; what it does with a batch is the trait's contract.                 *)
(*                                                                         *)
(* Events are numbered in the order they were enqueued.  Which backend     *)
(* runs, and whether the policies bind the role, is chosen at start-up.    *)
(***************************************************************************)
EXTENDS Integers, FiniteSets

CONSTANTS
  Tenant,      \* tenant UUIDs
  NilTenant,   \* the tenant of a session that set none
  None,        \* no connection
  Worker,      \* tasks that publish events
  Conn,        \* pooled connections
  Size,        \* the batch sizes workers ask for
  MaxEvents,   \* bound on events, for model checking
  MaxFailures, \* bound on statements that fail, for model checking
  MaxCrashes   \* bound on crashes, for model checking

ASSUME OutboxAssumption ==
  /\ Tenant # {} /\ NilTenant \notin Tenant /\ None \notin Conn
  /\ Size \subseteq Nat \ {0}
  /\ {MaxEvents, MaxFailures, MaxCrashes} \subseteq Nat

VARIABLES
  backend,    \* "memory" or "postgres"
  rls,        \* row-level security binds the database role
  last,       \* the number of the latest event
  id,         \* the id each event was given
  tenant_id,  \* the tenant each event belongs to
  waiting,    \* events in the queue; rows whose published_at is null
  session,    \* app.current_tenant of each connection
  using,      \* the connection each worker's running claim holds
  locked,     \* the rows it has locked
  batch,      \* events a worker claimed and has still to publish
  done,       \* events of its batch it has published
  delivered,  \* history variable: events the bus got
  failures,   \* statements that failed so far
  crashes     \* crashes so far

eventVars  == <<last, id, tenant_id>>
workerVars == <<using, locked, batch, done>>
boundVars  == <<failures, crashes>>
vars == <<backend, rls, eventVars, waiting, session, workerVars, delivered, boundVars>>

Event == 1 .. MaxEvents

-----------------------------------------------------------------------------
\* A connection no running claim holds.
Free(c) == \A w \in Worker : using[w] # c

\* set_tenant_on_conn.  The setting outlives the call that made it.
set_tenant_on_conn(c, t) == session' = [session EXCEPT ![c] = t]

\* Any call of another repository leaves its tenant on the connection it used.
OtherCall(c, t) ==
  /\ backend = "postgres" /\ Free(c)
  /\ set_tenant_on_conn(c, t)
  /\ UNCHANGED <<backend, rls, eventVars, waiting, workerVars, delivered, boundVars>>

\* Faulty: the table numbers its rows as the queue does.
new_id_Length == Cardinality(waiting) + 1

\* The id of the next event: the queue's length plus one, or the sequence's next.
new_id == IF backend = "memory" THEN Cardinality(waiting) + 1 ELSE last + 1

enqueue(c, t) ==
  /\ last < MaxEvents
  /\ last' = last + 1
  /\ id' = [id EXCEPT ![last + 1] = new_id]
  /\ tenant_id' = [tenant_id EXCEPT ![last + 1] = t]
  /\ waiting' = waiting \cup {last + 1}
  /\ \/ backend = "memory" /\ session' = session
     \/ backend = "postgres" /\ Free(c) /\ set_tenant_on_conn(c, t)
  /\ UNCHANGED <<backend, rls, workerVars, delivered, boundVars>>

\* The INSERT is refused or does not get through: the session may have its tenant
\* already.  A lost answer to an INSERT that took effect is an enqueue.
enqueue_fails(c, t) ==
  /\ backend = "postgres" /\ Free(c)
  /\ failures < MaxFailures
  /\ failures' = failures + 1
  /\ session' = session \/ set_tenant_on_conn(c, t)
  /\ UNCHANGED <<backend, rls, eventVars, waiting, workerVars, delivered, crashes>>

-----------------------------------------------------------------------------
(***************************************************************************)
(* claim_batch.  In memory it pops from the front.  In PostgreSQL it runs  *)
(* on whatever connection it gets, whose tenant it does not set, and is    *)
(* two steps here: the rows are selected and locked, then the statement    *)
(* commits and its rows are returned, or the call ends in an error.        *)
(***************************************************************************)
Oldest(S, size) == {e \in S : Cardinality({f \in S : f < e}) < size}

\* Faulty: the policy is not applied; the session's tenant always filters.
Visible_All(c) == waiting
Visible_Session(c) == {e \in waiting : tenant_id[e] = session[c]}

Visible(c) == {e \in waiting : rls => tenant_id[e] = session[c]}

Locked == UNION {locked[w] : w \in Worker}

\* Faulty: does not skip the rows that another claim has locked.
Selected_Locked(c, size) == Oldest(Visible(c), size)

Selected(c, size) == Oldest(Visible(c) \ Locked, size)

Idle(w) == using[w] = None /\ batch[w] = {} /\ done[w] = {}

pop_batch(w, size) ==
  /\ backend = "memory" /\ Idle(w)
  /\ batch' = [batch EXCEPT ![w] = Oldest(waiting, size)]
  /\ waiting' = waiting \ Oldest(waiting, size)
  /\ UNCHANGED <<backend, rls, eventVars, session, using, locked, done, delivered, boundVars>>

claim_batch(w, c, size) ==
  /\ backend = "postgres" /\ Idle(w) /\ Free(c)
  /\ using'  = [using EXCEPT ![w] = c]
  /\ locked' = [locked EXCEPT ![w] = Selected(c, size)]
  /\ UNCHANGED <<backend, rls, eventVars, waiting, session, batch, done, delivered, boundVars>>

\* Faulty: published_at is left to mark_published.
claim_commits_Unmarked(w) ==
  /\ using[w] # None
  /\ batch' = [batch EXCEPT ![w] = locked[w]]
  /\ using'  = [using EXCEPT ![w] = None]
  /\ locked' = [locked EXCEPT ![w] = {}]
  /\ UNCHANGED <<backend, rls, eventVars, waiting, session, done, delivered, boundVars>>

claim_commits(w) ==
  /\ using[w] # None
  /\ waiting' = waiting \ locked[w]
  /\ batch' = [batch EXCEPT ![w] = locked[w]]
  /\ using'  = [using EXCEPT ![w] = None]
  /\ locked' = [locked EXCEPT ![w] = {}]
  /\ UNCHANGED <<backend, rls, eventVars, session, done, delivered, boundVars>>

\* The statement failed and let its rows go; or it committed, and the rows were lost
\* on their way or one of them was not understood.
claim_fails(w) ==
  /\ using[w] # None
  /\ failures < MaxFailures
  /\ failures' = failures + 1
  /\ waiting' = waiting \/ waiting' = waiting \ locked[w]
  /\ using'  = [using EXCEPT ![w] = None]
  /\ locked' = [locked EXCEPT ![w] = {}]
  /\ UNCHANGED <<backend, rls, eventVars, session, batch, done, delivered, crashes>>

\* The bus gets an event of the batch: the first in memory, whose batches are
\* in order, any in PostgreSQL, where RETURNING has none.
publish(w, e) ==
  /\ e \in batch[w]
  /\ backend = "memory" => \A f \in batch[w] : e <= f
  /\ delivered' = delivered \cup {e}
  /\ batch' = [batch EXCEPT ![w] = @ \ {e}]
  /\ done'  = [done EXCEPT ![w] = @ \cup {e}]
  /\ UNCHANGED <<backend, rls, eventVars, waiting, session, using, locked, boundVars>>

\* A no-op in memory; in PostgreSQL it goes by id, under the policy.
mark_published(w, c) ==
  /\ done[w] # {} /\ batch[w] = {}
  /\ \/ backend = "memory" /\ waiting' = waiting
     \/ /\ backend = "postgres" /\ Free(c)
        /\ waiting' = waiting \ {e \in Visible(c) : \E d \in done[w] : id[e] = id[d]}
  /\ done' = [done EXCEPT ![w] = {}]
  /\ UNCHANGED <<backend, rls, eventVars, session, using, locked, batch, delivered, boundVars>>

\* The process dies and is started again, with new connections.  The queue dies
\* with it; a claim that was running commits or not.
Crash ==
  /\ crashes < MaxCrashes
  /\ crashes' = crashes + 1
  /\ \E W \in SUBSET Worker :
       waiting' = IF backend = "memory" THEN {} ELSE waiting \ UNION {locked[w] : w \in W}
  /\ session' = [c \in Conn |-> NilTenant]
  /\ using'   = [w \in Worker |-> None]
  /\ locked'  = [w \in Worker |-> {}]
  /\ batch'   = [w \in Worker |-> {}]
  /\ done'    = [w \in Worker |-> {}]
  /\ UNCHANGED <<backend, rls, eventVars, delivered, failures>>

-----------------------------------------------------------------------------
Init ==
  /\ backend \in {"memory", "postgres"}
  /\ rls \in BOOLEAN
  /\ last = 0
  /\ id = [e \in Event |-> 0]
  /\ tenant_id = [e \in Event |-> NilTenant]
  /\ waiting = {}
  /\ session = [c \in Conn |-> NilTenant]
  /\ using   = [w \in Worker |-> None]
  /\ locked  = [w \in Worker |-> {}]
  /\ batch   = [w \in Worker |-> {}]
  /\ done    = [w \in Worker |-> {}]
  /\ delivered = {}
  /\ failures = 0 /\ crashes = 0

Claim(w) ==
  \E size \in Size : pop_batch(w, size) \/ \E c \in Conn : claim_batch(w, c, size)

Finish(w) ==
  \/ claim_commits(w)
  \/ \E e \in Event : publish(w, e)
  \/ \E c \in Conn : mark_published(w, c)

Next ==
  \/ \E c \in Conn, t \in Tenant : enqueue(c, t) \/ enqueue_fails(c, t) \/ OtherCall(c, t)
  \/ \E w \in Worker : Claim(w) \/ Finish(w) \/ claim_fails(w)
  \/ Crash

Spec == Init /\ [][Next]_vars

\* A worker claims again and again, and goes through with what it claimed.
FairSpec == Spec /\ \A w \in Worker : WF_vars(Claim(w)) /\ WF_vars(Finish(w))

-----------------------------------------------------------------------------
\* The variables have their types; only events that were enqueued are anywhere.
TypeOK ==
  /\ backend \in {"memory", "postgres"} /\ rls \in BOOLEAN
  /\ last \in 0 .. MaxEvents /\ failures \in Nat /\ crashes \in Nat
  /\ id \in [Event -> Nat]
  /\ tenant_id \in [Event -> Tenant \cup {NilTenant}]
  /\ session \in [Conn -> Tenant \cup {NilTenant}]
  /\ using \in [Worker -> Conn \cup {None}]
  /\ waiting \subseteq 1 .. last /\ delivered \subseteq 1 .. last
  /\ locked \in [Worker -> SUBSET waiting]
  /\ batch \in [Worker -> SUBSET (1 .. last)]
  /\ done \in [Worker -> SUBSET delivered]

\* No event is handed to two workers, or to one while it is still waiting, or
\* again after the bus got it: however claims overlap, each is published once.
HandedOutOnce ==
  /\ waiting \cap delivered = {}
  /\ \A v \in Worker : batch[v] \cap (waiting \cup delivered) = {}
  /\ \A v, w \in Worker : v # w => batch[v] \cap batch[w] = {}

InHand == UNION {batch[w] : w \in Worker}

\* The claim of w has ended in an error.
ClaimFailed(w) == using[w] # None /\ using'[w] = None /\ failures' # failures

\* An event that is neither waiting nor in hand any more has reached the bus.  It is
\* claim_batch that settles an event, so there are two exceptions: what a crash
\* finds in hand or being claimed, and the rows of a claim that ends in an error.
LostOnlyByCrashOrFailedClaim ==
  [][\A e \in (waiting \cup InHand) \ (waiting \cup InHand)' :
       \/ e \in delivered'
       \/ crashes' # crashes
       \/ \E w \in Worker : ClaimFailed(w) /\ e \in locked[w]]_vars

\* Under the policies a worker gets the events of one tenant only, and none from
\* a connection no tenant was set on.
BatchOfOneTenant ==
  backend = "postgres" /\ rls =>
    \A w \in Worker : \E t \in Tenant : \A e \in batch[w] \cup done[w] : tenant_id[e] = t

\* Every event is claimed in the end: in memory, and where no policy binds; under
\* the policies if its tenant stays the one of every connection.
EventsLeave ==
  \A e \in Event :
    /\ e \in waiting
    /\ backend = "memory" \/ ~rls \/ [](\A c \in Conn : session[c] = tenant_id[e])
    ~> e \notin waiting
=============================================================================
