------------------------------ MODULE PostgresPool ------------------------------
(***************************************************************************)
(* A call of the PostgreSQL repository, taken apart.  A task acquires a    *)
(* connection of the pool, sets app.current_tenant on it, and runs one     *)
(* statement; what the statement does depends on the tenant it finds set,  *)
(* on its now(), which is when it starts, and, if it deletes, on the rows  *)
(* it saw then.  It takes effect when it commits.  Between these steps     *)
(* other tasks run, and this one's future may be dropped.                  *)
(*                                                                         *)
(* NodeRepository has the statements and the policies, for calls that take *)
(* effect at once; this module shows what of it is left for calls that     *)
(* overlap.                                                                *)
(***************************************************************************)
EXTENDS NodeRepository

CONSTANTS
  NilTenant,  \* the tenant of a connection on which none was set
  Conn,       \* connections of the pool
  Task,       \* tasks that call the repository
  MaxCalls,   \* bound on calls, for model checking
  MaxFaults   \* bound on failures and dropped futures, for model checking

ASSUME PoolAssumption ==
  /\ Backend = "postgres"
  /\ NilTenant \notin Tenant
  /\ None \notin Conn
  /\ MaxCalls \in Nat /\ MaxFaults \in Nat

VARIABLES
  session,  \* app.current_tenant of each connection
  call,     \* the call each task is making
  since,    \* history variable: the stores committed while its statement runs
  calls,    \* calls so far
  begun,    \* statements so far
  faults    \* failures and dropped futures so far

vars == <<rows, now, session, call, since, calls, begun, faults>>

Store(t, i, d) == [op |-> "store", tenant |-> t, id |-> i, doc |-> d]
Purge(t, k)    == [op |-> "purge", tenant |-> t, key |-> k]
Read(t)        == [op |-> "read", tenant |-> t]

Request ==
  {Store(t, i, d) : t \in Tenant, i \in Id, d \in Doc}
  \cup {Purge(t, k) : t \in Tenant, k \in Key}
  \cup {Read(t) : t \in Tenant}

\* time is the statement's now(), nr its place in the order they start, and seen
\* the rows it is to delete.
NoCall == [pc |-> "idle", req |-> None, conn |-> None, time |-> 0, nr |-> 0, seen |-> {}]

Call ==
  [pc : {"idle", "acquire", "set", "run", "commit"}, req : Request \cup {None},
   conn : Conn \cup {None}, time : Nat, nr : Nat, seen : SUBSET Id]

At(w, pc) == call[w].pc = pc

Goto(w, pc) == call' = [call EXCEPT ![w].pc = pc]

\* A connection in the pool.
Free(c) == \A w \in Task : call[w].conn # c

-----------------------------------------------------------------------------
Begin(w, req) ==
  /\ At(w, "idle") /\ calls < MaxCalls
  /\ calls' = calls + 1
  /\ call' = [call EXCEPT ![w] = [NoCall EXCEPT !.pc = "acquire", !.req = req]]
  /\ UNCHANGED <<rows, now, session, since, begun, faults>>

acquire(w, c) ==
  /\ At(w, "acquire") /\ Free(c)
  /\ call' = [call EXCEPT ![w].pc = "set", ![w].conn = c]
  /\ UNCHANGED <<rows, now, session, since, calls, begun, faults>>

\* Faulty: the tenant is set on a connection that has none only.
Tenanted_Kept(w) == IF session[call[w].conn] = NilTenant THEN call[w].req.tenant
                    ELSE session[call[w].conn]

Tenanted(w) == call[w].req.tenant

set_tenant_on_conn(w) ==
  /\ At(w, "set")
  /\ session' = [session EXCEPT ![call[w].conn] = Tenanted(w)]
  /\ Goto(w, "run")
  /\ UNCHANGED <<rows, now, since, calls, begun, faults>>

\* What a DELETE sees when it starts.
Snapshot(req) ==
  IF req.op = "purge" THEN {r.id : r \in Matching(req.tenant, req.key)} ELSE {}

\* The statement starts: now() and what it can see are fixed.
statement(w) ==
  /\ At(w, "run")
  /\ Tick
  /\ begun' = begun + 1
  /\ call' = [call EXCEPT ![w].pc = "commit", ![w].time = now', ![w].nr = begun',
                          ![w].seen = Snapshot(call[w].req)]
  /\ since' = [since EXCEPT ![w] = {}]
  /\ UNCHANGED <<rows, session, calls, faults>>

-----------------------------------------------------------------------------
\* The policies compare with the tenant that is set, not with the call's.
PolicyRefuses(w) ==
  LET req == call[w].req
      set == session[call[w].conn]
  IN  Rls /\ (set # req.tenant \/ \E r \in Conflicting(req.tenant, req.id) : r.tenant # set)

StoreRefused(w) ==
  PolicyRefuses(w) \/ Unregistered(call[w].req.tenant, call[w].req.id)

\* Faulty: removes one of them, as the in-memory repository does.
Erased_One(w) ==
  LET match == {r \in Matching(call[w].req.tenant, call[w].req.key) : r.id \in call[w].seen}
  IN  {r \in match : \A s \in match : r.id <= s.id}

\* A DELETE removes, of the rows it saw, those that still match and that the policy
\* shows it, in the version they have by then.
Erased(w) ==
  {r \in Matching(call[w].req.tenant, call[w].req.key) :
     r.id \in call[w].seen /\ (Rls => r.tenant = session[call[w].conn])}

\* What the statement does.
Effect(w) ==
  LET req == call[w].req IN
  \/ /\ req.op = "store" /\ ~StoreRefused(w)
     /\ rows' = Written(req.tenant, req.id, req.doc, call[w].time)
  \/ /\ req.op = "store" /\ StoreRefused(w)
     /\ rows' = rows
  \/ /\ req.op = "purge"
     /\ rows' = rows \ Erased(w)
  \/ /\ req.op = "read"
     /\ rows' = rows

Stored == {r.id : r \in rows}

\* What other statements make of it: rows that are gone are not seen any more, also
\* when their ids come back, and the stores it made are remembered.
Observe(w) ==
  /\ call' = [v \in Task |->
       IF v = w THEN NoCall
       ELSE [call[v] EXCEPT !.seen = @ \cap Stored']]
  /\ since' = [v \in Task |->
       IF v # w /\ At(v, "commit") /\ call[w].req.op = "store"
       THEN since[v] \cup {[id |-> call[w].req.id, nr |-> call[w].nr]}
       ELSE IF v = w THEN {} ELSE since[v]]

\* Nobody may be waiting for the answer any more; the statement ends all the same,
\* and the connection goes back with the tenant that was set.
commit(w) ==
  /\ At(w, "commit")
  /\ Effect(w)
  /\ Observe(w)
  /\ UNCHANGED <<now, session, calls, begun, faults>>

\* Faulty: the connection of a dropped future is not given back.
GiveBack_Leak(w) == [call[w] EXCEPT !.pc = "idle"]

\* The connection is a local of the call's future, and goes back with it.
GiveBack(w) == NoCall

\* The future is dropped before its statement started.  The server may have been told
\* the tenant.
Drop(w) ==
  /\ call[w].pc \in {"acquire", "set", "run"}
  /\ faults < MaxFaults
  /\ faults' = faults + 1
  /\ \/ session' = session
     \/ At(w, "set") /\ session' = [session EXCEPT ![call[w].conn] = Tenanted(w)]
  /\ call' = [call EXCEPT ![w] = GiveBack(w)]
  /\ UNCHANGED <<rows, now, since, calls, begun>>

\* The connection breaks; the pool opens another in its place.  A statement that was
\* running may have committed.
Break(w) ==
  /\ call[w].pc \in {"set", "run", "commit"}
  /\ faults < MaxFaults
  /\ faults' = faults + 1
  /\ session' = [session EXCEPT ![call[w].conn] = NilTenant]
  /\ \/ At(w, "commit") /\ Effect(w) /\ Observe(w)
     \/ rows' = rows /\ since' = since /\ call' = [call EXCEPT ![w] = NoCall]
  /\ UNCHANGED <<now, calls, begun>>

\* The pool's acquire timeout.
TimeOut(w) ==
  /\ At(w, "acquire") /\ \A c \in Conn : ~Free(c)
  /\ call' = [call EXCEPT ![w] = NoCall]
  /\ UNCHANGED <<rows, now, session, since, calls, begun, faults>>

-----------------------------------------------------------------------------
Init ==
  /\ RepoInit
  /\ session = [c \in Conn |-> NilTenant]
  /\ call = [w \in Task |-> NoCall]
  /\ since = [w \in Task |-> {}]
  /\ calls = 0 /\ begun = 0 /\ faults = 0

Step(w) ==
  \/ \E c \in Conn : acquire(w, c)
  \/ set_tenant_on_conn(w)
  \/ statement(w)
  \/ commit(w)

Next ==
  \E w \in Task :
    \/ \E req \in Request : Begin(w, req)
    \/ Step(w) \/ Drop(w) \/ Break(w) \/ TimeOut(w)

Spec == Init /\ [][Next]_vars

\* Tokio polls a task that was woken, and the database answers.
FairSpec == Spec /\ \A w \in Task : WF_vars(Step(w))

-----------------------------------------------------------------------------
\* The variables have their types, and no connection is used by two tasks.
TypeOK ==
  /\ RepoTypeOK
  /\ session \in [Conn -> Tenant \cup {NilTenant}]
  /\ calls \in Nat /\ begun \in Nat /\ faults \in Nat
  /\ call \in [Task -> Call]
  /\ since \in [Task -> SUBSET [id : Id, nr : Nat]]
  /\ \A w \in Task :
       /\ ~At(w, "idle") => call[w].req \in Request
       /\ call[w].conn = None <=> call[w].pc \in {"idle", "acquire"}
  /\ \A v, w \in Task : call[v].conn = call[w].conn /\ v # w => call[v].conn = None

\* A statement runs under the tenant its call was made for, whatever calls that used
\* the connection before, were dropped halfway or broke left on it.
StatementTenant ==
  \A w \in Task :
    call[w].pc \in {"run", "commit"} => session[call[w].conn] = call[w].req.tenant

Commits(w) == At(w, "commit") /\ ~At(w, "commit")'

\* A statement that started later committed first.
Overtaken(w) == \E s \in since[w] : s.nr > call[w].nr

\* A store that took effect is the newest of its key, and no older than the version
\* it replaced, unless a store that began after it committed before it: its time
\* is then the older one, though it wrote last.
WritesInOrder ==
  [][\A w \in Task :
       LET req == call[w].req IN
       Commits(w) /\ req.op = "store" /\ rows' # rows /\ ~Overtaken(w) =>
         \E r \in rows' :
           /\ r.id = req.id /\ r.doc = req.doc /\ r.updated = call[w].time
           /\ \A s \in rows : s.id = r.id => s.updated <= r.updated
           /\ \A s \in rows' :
                s.tenant = r.tenant /\ KeyOf(s.doc) = KeyOf(r.doc) => s.updated <= r.updated]_vars

\* A purge leaves no node under its key but those that were stored while it ran.
PurgeSparesOnlyNew ==
  [][\A w \in Task :
       LET req == call[w].req IN
       Commits(w) /\ req.op = "purge" /\ faults' = faults =>
         \A r \in rows' :
           r.tenant = req.tenant /\ KeyOf(r.doc) = req.key => \E s \in since[w] : s.id = r.id]_vars

\* Every call ends, without the help of a timeout: a task holds one connection, and
\* waits for none while it does.
CallsEnd == \A w \in Task : At(w, "acquire") ~> At(w, "idle")
=============================================================================
