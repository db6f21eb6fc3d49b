--------------------------- MODULE PostgresPoolProofs ---------------------------
(***************************************************************************)
(* Theorems about every behaviour of PostgresPool, for any number of       *)
(* connections and tasks, with and without row-level security, and about   *)
(* the lifetimes a lookup answers for the rows they leave.                 *)
(***************************************************************************)
EXTENDS PostgresPool, CapsuleTtl, TLAPS

\* The statement of a purge has yet to remove the nodes of its key, or knows that
\* they were stored since it started.
PurgesSeeAll ==
  \A w \in Task :
    At(w, "commit") /\ call[w].req.op = "purge" =>
      \A r \in Matching(call[w].req.tenant, call[w].req.key) :
        r.id \in call[w].seen \/ \E s \in since[w] : s.id = r.id

\* The statements that run are numbered as they started, and so are their times.
StartsInOrder ==
  /\ \A r \in rows : r.updated <= now
  /\ \A w \in Task : At(w, "commit") => call[w].time <= now /\ call[w].nr <= begun
  /\ \A v, w \in Task :
       At(v, "commit") /\ At(w, "commit") /\ v # w =>
         /\ call[v].nr # call[w].nr
         /\ call[v].nr < call[w].nr => call[v].time <= call[w].time

\* A row is newer than a statement that runs only if a later one has committed.
NewerOvertook ==
  \A w \in Task : At(w, "commit") =>
    \A r \in rows : r.updated <= call[w].time \/ Overtaken(w)

-----------------------------------------------------------------------------
(***************************************************************************)
(* The steps in between, and those with an effect.                         *)
(***************************************************************************)
\* A statement of w ends with its effect, by a commit or as its connection breaks.
Ends(w) == At(w, "commit") /\ Effect(w) /\ Observe(w) /\ now' = now /\ begun' = begun

\* The rows a store writes are rows.
LEMMA WrittenRows ==
  ASSUME rows \subseteq Row, NEW t \in Tenant, NEW i \in Id, NEW d \in Doc, NEW time \in Nat
  PROVE  /\ Written(t, i, d, time) \subseteq Row
         /\ \A r \in Written(t, i, d, time) :
              r \in rows \/ (r.id = i /\ r.updated = time)
  BY DEF Written, Overwritten, Rewritten, Version, Row, Conflicting

\* A request has what its kind needs.
LEMMA RequestParts ==
  ASSUME NEW req \in Request
  PROVE  /\ req.tenant \in Tenant
         /\ req.op = "store" => req.id \in Id /\ req.doc \in Doc
         /\ req.op = "purge" => req.key \in Key
  BY DEF Request, Store, Purge, Read

\* An effect leaves rows, each of them an old one or the one that is stored.
LEMMA EffectRows ==
  ASSUME TypeOK, NEW w \in Task, At(w, "commit"), Effect(w)
  PROVE  /\ rows' \subseteq Row
         /\ \A r \in rows' :
              r \in rows \/ (call[w].req.op = "store" /\ r.id = call[w].req.id
                             /\ r.updated = call[w].time)
<1>1. call[w].req \in Request /\ call[w].time \in Nat /\ rows \subseteq Row
  BY DEF TypeOK, At, RepoTypeOK, Call
<1>2. CASE rows' \subseteq rows
  BY <1>1, <1>2
<1>3. CASE /\ call[w].req.op = "store"
           /\ rows' = Written(call[w].req.tenant, call[w].req.id, call[w].req.doc, call[w].time)
  BY <1>1, <1>3, RequestParts, WrittenRows
<1>. QED BY <1>2, <1>3 DEF Effect

-----------------------------------------------------------------------------
(***************************************************************************)
(* Types.                                                                  *)
(***************************************************************************)
\* Initially every task is idle.
LEMMA InitTypes == Init => TypeOK
<1>. SUFFICES ASSUME Init PROVE TypeOK
  OBVIOUS
<1>1. \A w \in Task : call[w] = NoCall
  BY DEF Init
<1>2. NoCall \in Call /\ NoCall.pc = "idle" /\ NoCall.conn = None
  BY DEF NoCall, Call
<1>3. call \in [Task -> Call]
  BY <1>2 DEF Init
<1>. QED
  BY <1>1, <1>2, <1>3 DEF Init, RepoInit, TypeOK, RepoTypeOK, At

\* The end of a statement gives its connection back.
LEMMA EndsTypes ==
  ASSUME TypeOK, NEW w \in Task, Ends(w),
         session' \in [Conn -> Tenant \cup {NilTenant}],
         UNCHANGED calls, faults' \in Nat
  PROVE  TypeOK'
<1>1. RepoTypeOK'
  BY EffectRows DEF Ends, TypeOK, RepoTypeOK
<1>2. call'[w] = NoCall /\ since'[w] = {}
  BY DEF Ends, Observe
<1>4. ASSUME NEW v \in Task, v # w
      PROVE  /\ call'[v] \in Call
             /\ call'[v].pc = call[v].pc /\ call'[v].req = call[v].req /\ call'[v].conn = call[v].conn
  <2>1. call[v] \in Call
    BY DEF TypeOK
  <2>2. call' = [u \in Task |-> IF u = w THEN NoCall ELSE [call[u] EXCEPT !.seen = @ \cap Stored']]
    BY DEF Ends, Observe
  <2>3. call'[v] = [call[v] EXCEPT !.seen = @ \cap Stored']
    BY <1>4, <2>2
  <2>. QED BY <2>1, <2>3 DEF Call
<1>5. NoCall \in Call
  BY DEF NoCall, Call
<1>6. call' \in [Task -> Call]
  <2>1. \A v \in Task : call'[v] \in Call
    BY <1>2, <1>4, <1>5
  <2>. QED BY <2>1 DEF Ends, Observe
<1>7. since' \in [Task -> SUBSET [id : Id, nr : Nat]]
  <2>1. call[w].req \in Request /\ call[w].nr \in Nat
    BY DEF Ends, TypeOK, At, Call
  <2>2. call[w].req.op = "store" => [id |-> call[w].req.id, nr |-> call[w].nr] \in [id : Id, nr : Nat]
    BY <2>1, RequestParts
  <2>3. \A v \in Task : since'[v] \subseteq [id : Id, nr : Nat]
    BY <2>2 DEF Ends, Observe, TypeOK
  <2>. QED BY <2>3 DEF Ends, Observe
<1>8. begun' \in Nat /\ calls' \in Nat
  BY DEF Ends, TypeOK
<1>9. \A v \in Task :
        /\ ~At(v, "idle")' => call'[v].req \in Request
        /\ call'[v].conn = None <=> call'[v].pc \in {"idle", "acquire"}
  BY <1>2, <1>4 DEF TypeOK, At, NoCall
<1>10. \A u, v \in Task : call'[u].conn = call'[v].conn /\ u # v => call'[u].conn = None
  BY <1>2, <1>4 DEF TypeOK, NoCall
<1>. QED
  BY <1>1, <1>6, <1>7, <1>8, <1>9, <1>10 DEF TypeOK, At

\* A step that only moves one task along keeps the types.
LEMMA MoveTypes ==
  ASSUME TypeOK, NEW w \in Task, NEW new \in Call, call' = [call EXCEPT ![w] = new],
         RepoTypeOK',
         session' \in [Conn -> Tenant \cup {NilTenant}],
         since' \in [Task -> SUBSET [id : Id, nr : Nat]],
         calls' \in Nat, begun' \in Nat, faults' \in Nat,
         new.pc # "idle" => new.req \in Request,
         new.conn = None <=> new.pc \in {"idle", "acquire"},
         \A v \in Task : v # w /\ new.conn # None => call[v].conn # new.conn
  PROVE  TypeOK'
<1>1. call' \in [Task -> Call] /\ call'[w] = new
  BY DEF TypeOK
<1>2. \A v \in Task : v # w => call'[v] = call[v]
  BY DEF TypeOK
<1>3. \A v \in Task :
        /\ ~At(v, "idle")' => call'[v].req \in Request
        /\ call'[v].conn = None <=> call'[v].pc \in {"idle", "acquire"}
  BY <1>1, <1>2 DEF TypeOK, At
<1>4. \A u, v \in Task : call'[u].conn = call'[v].conn /\ u # v => call'[u].conn = None
  BY <1>1, <1>2 DEF TypeOK
<1>. QED BY <1>1, <1>3, <1>4 DEF TypeOK, At

-----------------------------------------------------------------------------
(***************************************************************************)
(* The steps, each as what becomes of the call of one task.                *)
(***************************************************************************)
\* The call of w becomes new, and the statements that run are left alone.
Aside(w, new) ==
  /\ call' = [call EXCEPT ![w] = new] /\ new \in Call
  /\ new.pc # "commit"
  /\ new.pc # "idle" => new.req \in Request
  /\ new.conn = None <=> new.pc \in {"idle", "acquire"}
  /\ \A v \in Task : v # w /\ new.conn # None => call[v].conn # new.conn
  /\ new.pc = "run" => session'[new.conn] = new.req.tenant
  /\ UNCHANGED <<rows, now, since, begun>>

\* The tenant changes on the connection of w only.
SessionOf(w) ==
  /\ session' \in [Conn -> Tenant \cup {NilTenant}]
  /\ \A c \in Conn : c # call[w].conn => session'[c] = session[c]

Bounds == calls' \in Nat /\ faults' \in Nat

\* A call begins without a connection.
LEMMA BeginAside ==
  ASSUME TypeOK, NEW w \in Task, NEW req \in Request, Begin(w, req)
  PROVE  (\E new \in Call : Aside(w, new)) /\ SessionOf(w) /\ Bounds
<1>. DEFINE new == [NoCall EXCEPT !.pc = "acquire", !.req = req]
<1>1. new \in Call /\ new.pc = "acquire" /\ new.req = req /\ new.conn = None
  BY DEF NoCall, Call
<1>2. call' = [call EXCEPT ![w] = new]
  BY DEF Begin
<1>. HIDE DEF new
<1>3. Aside(w, new)
  BY <1>1, <1>2 DEF Aside, Begin
<1>. QED BY <1>1, <1>3 DEF SessionOf, Bounds, Begin, TypeOK

\* It gets a connection nobody has.
LEMMA AcquireAside ==
  ASSUME TypeOK, NEW w \in Task, NEW c \in Conn, acquire(w, c)
  PROVE  (\E new \in Call : Aside(w, new)) /\ SessionOf(w) /\ Bounds
<1>. DEFINE new == [call[w] EXCEPT !.pc = "set", !.conn = c]
<1>1. call[w] \in Call /\ call[w].req \in Request
  BY DEF TypeOK, acquire, At
<1>2. new \in Call /\ new.pc = "set" /\ new.req = call[w].req /\ new.conn = c
  BY <1>1 DEF Call
<1>3. call' = [call EXCEPT ![w] = new]
  BY <1>1 DEF acquire, Call, TypeOK
<1>. HIDE DEF new
<1>4. Aside(w, new)
  BY <1>1, <1>2, <1>3, PoolAssumption DEF Aside, acquire, Free
<1>. QED BY <1>2, <1>4 DEF SessionOf, Bounds, acquire, TypeOK

\* It sets its tenant there.
LEMMA SetTenantAside ==
  ASSUME TypeOK, NEW w \in Task, set_tenant_on_conn(w)
  PROVE  (\E new \in Call : Aside(w, new)) /\ SessionOf(w) /\ Bounds
<1>. DEFINE new == [call[w] EXCEPT !.pc = "run"]
<1>1. /\ call[w] \in Call /\ call[w].req \in Request /\ call[w].conn \in Conn
      /\ call[w].conn # None
      /\ \A v \in Task : v # w => call[v].conn # call[w].conn
  BY DEF TypeOK, set_tenant_on_conn, At, Call
<1>2. new \in Call /\ new.pc = "run" /\ new.req = call[w].req /\ new.conn = call[w].conn
  BY <1>1 DEF Call
<1>3. call' = [call EXCEPT ![w] = new]
  BY <1>1 DEF set_tenant_on_conn, Goto, Call, TypeOK
<1>. HIDE DEF new
<1>4. /\ session' \in [Conn -> Tenant \cup {NilTenant}]
      /\ session'[call[w].conn] = call[w].req.tenant
      /\ \A c \in Conn : c # call[w].conn => session'[c] = session[c]
  BY <1>1, RequestParts DEF TypeOK, set_tenant_on_conn, Tenanted
<1>5. Aside(w, new)
  BY <1>1, <1>2, <1>3, <1>4 DEF Aside, set_tenant_on_conn
<1>. QED BY <1>2, <1>4, <1>5 DEF SessionOf, Bounds, set_tenant_on_conn, TypeOK

\* It is given up, and its connection goes back.
LEMMA GiveUpAside ==
  ASSUME TypeOK, NEW w \in Task,
         \/ Drop(w)
         \/ TimeOut(w)
         \/ Break(w) /\ rows' = rows /\ since' = since /\ call' = [call EXCEPT ![w] = NoCall]
  PROVE  (\E new \in Call : Aside(w, new)) /\ SessionOf(w) /\ Bounds
<1>1. NoCall \in Call /\ NoCall.pc = "idle" /\ NoCall.conn = None
  BY DEF NoCall, Call
<1>2. call' = [call EXCEPT ![w] = NoCall]
  BY DEF Drop, GiveBack, TimeOut
<1>3. UNCHANGED <<rows, now, since, begun>>
  BY DEF Drop, TimeOut, Break
<1>4. Aside(w, NoCall)
  BY <1>1, <1>2, <1>3 DEF Aside
<1>5. Bounds
  BY DEF Drop, TimeOut, Break, Bounds, TypeOK
<1>6. SessionOf(w)
  <2>1. CASE session' = session
    BY <2>1 DEF SessionOf, TypeOK
  <2>2. CASE At(w, "set") /\ session' = [session EXCEPT ![call[w].conn] = Tenanted(w)]
    <3>1. Tenanted(w) \in Tenant
      BY <2>2, RequestParts DEF TypeOK, At, Tenanted
    <3>. QED BY <2>2, <3>1 DEF SessionOf, TypeOK
  <2>3. CASE session' = [session EXCEPT ![call[w].conn] = NilTenant]
    BY <2>3 DEF SessionOf, TypeOK
  <2>. QED BY <2>1, <2>2, <2>3 DEF Drop, TimeOut, Break
<1>. QED BY <1>1, <1>4, <1>5, <1>6

\* The statement of w has started: what its call is now.
Starts(w, new) ==
  /\ call' = [call EXCEPT ![w] = new] /\ new \in Call
  /\ At(w, "run")
  /\ new.pc = "commit" /\ new.req = call[w].req /\ new.conn = call[w].conn
  /\ new.time = now' /\ new.nr = begun' /\ new.seen = Snapshot(call[w].req)
  /\ now' \in Nat /\ now <= now' /\ begun' = begun + 1
  /\ since' = [since EXCEPT ![w] = {}]
  /\ UNCHANGED <<rows, session, calls, faults>>

\* The statement starts later than all before.
LEMMA StatementStarts ==
  ASSUME TypeOK, NEW w \in Task, statement(w)
  PROVE  \E new \in Call : Starts(w, new)
<1>. DEFINE new == [call[w] EXCEPT !.pc = "commit", !.time = now', !.nr = begun',
                                   !.seen = Snapshot(call[w].req)]
<1>1. call[w] \in Call /\ begun \in Nat /\ now \in Nat
  BY DEF TypeOK, RepoTypeOK
<1>2. now' \in Nat /\ now <= now' /\ begun' = begun + 1 /\ begun' \in Nat
  BY <1>1, ClockAssumption DEF statement, Tick
<1>3. Snapshot(call[w].req) \subseteq Id
  BY DEF Snapshot, Matching, TypeOK, RepoTypeOK, Row
<1>4. new \in Call
  BY <1>1, <1>2, <1>3 DEF Call
<1>5. /\ new.pc = "commit" /\ new.req = call[w].req /\ new.conn = call[w].conn
      /\ new.time = now' /\ new.nr = begun' /\ new.seen = Snapshot(call[w].req)
  BY <1>1 DEF Call
<1>6. call' = [call EXCEPT ![w] = new]
  BY <1>1 DEF statement, Call, TypeOK
<1>. HIDE DEF new
<1>7. Starts(w, new)
  BY <1>2, <1>4, <1>5, <1>6 DEF Starts, statement
<1>. QED BY <1>4, <1>7

\* The end of a statement leaves the other calls where they are.
LEMMA EndsOthers ==
  ASSUME TypeOK, NEW w \in Task, Ends(w), NEW v \in Task, v # w
  PROVE  /\ call'[v].pc = call[v].pc /\ call'[v].req = call[v].req
         /\ call'[v].conn = call[v].conn
         /\ call'[v].time = call[v].time /\ call'[v].nr = call[v].nr
         /\ call'[v].seen = call[v].seen \cap Stored'
         /\ since'[v] = IF At(v, "commit") /\ call[w].req.op = "store"
                        THEN since[v] \cup {[id |-> call[w].req.id, nr |-> call[w].nr]}
                        ELSE since[v]
<1>1. call[v] \in Call
  BY DEF TypeOK
<1>2. call' = [u \in Task |-> IF u = w THEN NoCall ELSE [call[u] EXCEPT !.seen = @ \cap Stored']]
  BY DEF Ends, Observe
<1>3. call'[v] = [call[v] EXCEPT !.seen = @ \cap Stored']
  BY <1>2
<1>4. since'[v] = IF At(v, "commit") /\ call[w].req.op = "store"
                  THEN since[v] \cup {[id |-> call[w].req.id, nr |-> call[w].nr]}
                  ELSE since[v]
  BY DEF Ends, Observe
<1>. QED BY <1>1, <1>3, <1>4 DEF Call

\* A step moves a call along beside the statements, starts one, or ends one; a
\* statement that ends without its effect has failed.
Case1(w) == /\ \E new \in Call : Aside(w, new)
            /\ SessionOf(w) /\ Bounds
            /\ At(w, "commit") => faults' # faults

Case2(w) == \E new \in Call : Starts(w, new)

Case3(w) == Ends(w) /\ SessionOf(w) /\ Bounds /\ UNCHANGED calls

LEMMA StepCases ==
  ASSUME TypeOK, Next
  PROVE  \E w \in Task : Case1(w) \/ Case2(w) \/ Case3(w)
<1>1. PICK w \in Task :
        \/ \E req \in Request : Begin(w, req)
        \/ Step(w) \/ Drop(w) \/ Break(w) \/ TimeOut(w)
  BY DEF Next
<1>. SUFFICES Case1(w) \/ Case2(w) \/ Case3(w)
  OBVIOUS
<1>2. ASSUME NEW req \in Request, Begin(w, req) PROVE Case1(w)
  BY <1>2, BeginAside DEF Case1, Begin, At
<1>3. ASSUME NEW c \in Conn, acquire(w, c) PROVE Case1(w)
  BY <1>3, AcquireAside DEF Case1, acquire, At
<1>4. CASE set_tenant_on_conn(w)
  BY <1>4, SetTenantAside DEF Case1, set_tenant_on_conn, At
<1>5. CASE statement(w)
  BY <1>5, StatementStarts DEF Case2
<1>6. CASE commit(w)
  <2>1. Ends(w) /\ UNCHANGED <<session, calls, faults>>
    BY <1>6 DEF commit, Ends
  <2>. QED BY <2>1 DEF Case3, SessionOf, Bounds, TypeOK
<1>7. CASE Drop(w)
  BY <1>7, GiveUpAside DEF Case1, Drop, At
<1>8. CASE TimeOut(w)
  BY <1>8, GiveUpAside DEF Case1, TimeOut, At
<1>9. CASE Break(w)
  <2>1. CASE At(w, "commit") /\ Effect(w) /\ Observe(w)
    <3>1. Ends(w) /\ UNCHANGED calls
      BY <1>9, <2>1 DEF Break, Ends
    <3>2. SessionOf(w)
      BY <1>9 DEF Break, SessionOf, TypeOK
    <3>3. Bounds
      BY <1>9 DEF Break, Bounds, TypeOK
    <3>. QED BY <3>1, <3>2, <3>3 DEF Case3
  <2>2. CASE rows' = rows /\ since' = since /\ call' = [call EXCEPT ![w] = NoCall]
    <3>1. faults' # faults
      BY <1>9 DEF Break, TypeOK
    <3>. QED BY <1>9, <2>2, <3>1, GiveUpAside DEF Case1
  <2>. QED BY <1>9, <2>1, <2>2 DEF Break
<1>. QED BY <1>1, <1>2, <1>3, <1>4, <1>5, <1>6, <1>7, <1>8, <1>9 DEF Step

-----------------------------------------------------------------------------
(***************************************************************************)
(* Each part of the invariant is kept.                                     *)
(***************************************************************************)
\* Every step keeps the types.
LEMMA NextTypes ==
  ASSUME TypeOK, Next
  PROVE  TypeOK'
<1>1. PICK w \in Task : Case1(w) \/ Case2(w) \/ Case3(w)
  BY StepCases
<1>2. CASE Case1(w)
  <2>1. PICK new \in Call : Aside(w, new)
    BY <1>2 DEF Case1
  <2>. QED
    BY <1>2, <2>1, MoveTypes DEF Case1, Aside, SessionOf, Bounds, TypeOK, RepoTypeOK
<1>3. CASE Case2(w)
  <2>1. PICK new \in Call : Starts(w, new)
    BY <1>3 DEF Case2
  <2>2. /\ call[w].req \in Request /\ call[w].conn # None
        /\ \A v \in Task : v # w => call[v].conn # call[w].conn
    BY <2>1 DEF Starts, TypeOK, At
  <2>3. since' \in [Task -> SUBSET [id : Id, nr : Nat]]
    BY <2>1 DEF Starts, TypeOK
  <2>4. RepoTypeOK'
    BY <2>1 DEF Starts, TypeOK, RepoTypeOK
  <2>5. /\ session' \in [Conn -> Tenant \cup {NilTenant}]
        /\ calls' \in Nat /\ begun' \in Nat /\ faults' \in Nat
    BY <2>1 DEF Starts, TypeOK
  <2>6. new.pc = "commit" /\ new.req = call[w].req /\ new.conn = call[w].conn
    BY <2>1 DEF Starts
  <2>7. call' = [call EXCEPT ![w] = new]
    BY <2>1 DEF Starts
  <2>8. /\ new.pc # "idle" => new.req \in Request
        /\ new.conn = None <=> new.pc \in {"idle", "acquire"}
        /\ \A v \in Task : v # w /\ new.conn # None => call[v].conn # new.conn
    BY <2>2, <2>6
  <2>. QED
    BY <2>3, <2>4, <2>5, <2>7, <2>8, MoveTypes
<1>4. CASE Case3(w)
  BY <1>4, EndsTypes DEF Case3, SessionOf, Bounds
<1>. QED BY <1>1, <1>2, <1>3, <1>4

\* The connection of another task keeps its tenant.
LEMMA OthersKeepTenant ==
  ASSUME TypeOK, NEW w \in Task, SessionOf(w), NEW v \in Task, v # w,
         call[v].pc \in {"run", "commit"}
  PROVE  session'[call[v].conn] = session[call[v].conn]
<1>1. call[v].conn \in Conn /\ call[v].conn # call[w].conn
  BY DEF TypeOK, Call
<1>. QED BY <1>1 DEF SessionOf

\* Every step keeps the tenants of the statements.
LEMMA NextTenants ==
  ASSUME TypeOK, StatementTenant, Next
  PROVE  StatementTenant'
<1>1. PICK w \in Task : Case1(w) \/ Case2(w) \/ Case3(w)
  BY StepCases
<1>. SUFFICES ASSUME NEW v \in Task, call'[v].pc \in {"run", "commit"}
              PROVE  session'[call'[v].conn] = call'[v].req.tenant
  BY DEF StatementTenant
<1>2. CASE Case1(w)
  <2>1. PICK new \in Call : Aside(w, new)
    BY <1>2 DEF Case1
  <2>2. CASE v = w
    BY <2>1, <2>2 DEF Aside, TypeOK
  <2>3. CASE v # w
    <3>1. call'[v] = call[v]
      BY <2>1, <2>3 DEF Aside, TypeOK
    <3>. QED BY <1>2, <2>3, <3>1, OthersKeepTenant DEF Case1, StatementTenant
  <2>. QED BY <2>2, <2>3
<1>3. CASE Case2(w)
  <2>1. PICK new \in Call : Starts(w, new)
    BY <1>3 DEF Case2
  <2>. QED BY <2>1 DEF Starts, At, TypeOK, StatementTenant
<1>4. CASE Case3(w)
  <2>1. v # w
    BY <1>4 DEF Case3, Ends, Observe, NoCall
  <2>2. Ends(w) /\ SessionOf(w)
    BY <1>4 DEF Case3
  <2>3. call'[v].pc = call[v].pc /\ call'[v].req = call[v].req /\ call'[v].conn = call[v].conn
    BY <2>1, <2>2, EndsOthers
  <2>4. session'[call[v].conn] = session[call[v].conn]
    BY <2>1, <2>2, <2>3, OthersKeepTenant
  <2>. QED BY <2>3, <2>4 DEF StatementTenant
<1>. QED BY <1>1, <1>2, <1>3, <1>4

\* Every step keeps what the purges know.
LEMMA NextPurges ==
  ASSUME TypeOK, PurgesSeeAll, Next
  PROVE  PurgesSeeAll'
<1>1. PICK w \in Task : Case1(w) \/ Case2(w) \/ Case3(w)
  BY StepCases
<1>. SUFFICES ASSUME NEW v \in Task, call'[v].pc = "commit", call'[v].req.op = "purge",
                     NEW r \in rows', r.tenant = call'[v].req.tenant,
                     KeyOf(r.doc) = call'[v].req.key
              PROVE  r.id \in call'[v].seen \/ \E s \in since'[v] : s.id = r.id
  BY DEF PurgesSeeAll, At, Matching
<1>2. CASE Case1(w)
  <2>1. PICK new \in Call : Aside(w, new)
    BY <1>2 DEF Case1
  <2>2. v # w
    BY <2>1 DEF Aside, TypeOK
  <2>3. call'[v] = call[v] /\ rows' = rows /\ since' = since
    BY <2>1, <2>2 DEF Aside, TypeOK
  <2>. QED BY <2>3 DEF PurgesSeeAll, At, Matching
<1>3. CASE Case2(w)
  <2>1. PICK new \in Call : Starts(w, new)
    BY <1>3 DEF Case2
  <2>2. CASE v = w
    BY <2>1, <2>2 DEF Starts, TypeOK, Snapshot, Matching
  <2>3. CASE v # w
    <3>1. call'[v] = call[v] /\ rows' = rows /\ since'[v] = since[v]
      BY <2>1, <2>3 DEF Starts, TypeOK
    <3>. QED BY <3>1 DEF PurgesSeeAll, At, Matching
  <2>. QED BY <2>2, <2>3
<1>4. CASE Case3(w)
  <2>1. v # w /\ Ends(w)
    BY <1>4 DEF Case3, Ends, Observe, NoCall
  <2>2. At(v, "commit") /\ call[v].req = call'[v].req
    BY <2>1, EndsOthers DEF At
  <2>3. CASE r \in rows
    <3>1. r.id \in call[v].seen \/ \E s \in since[v] : s.id = r.id
      BY <2>2, <2>3 DEF PurgesSeeAll, Matching
    <3>2. r.id \in Stored'
      BY DEF Stored
    <3>. QED BY <2>1, <3>1, <3>2, EndsOthers
  <2>4. CASE call[w].req.op = "store" /\ r.id = call[w].req.id
    <3>. DEFINE s == [id |-> call[w].req.id, nr |-> call[w].nr]
    <3>1. s \in since'[v] /\ s.id = r.id
      BY <2>1, <2>2, <2>4, EndsOthers
    <3>. QED BY <3>1
  <2>. QED BY <2>1, <2>3, <2>4, EffectRows DEF Ends
<1>. QED BY <1>1, <1>2, <1>3, <1>4

\* Every step keeps the order of the statements.
LEMMA NextOrder ==
  ASSUME TypeOK, StartsInOrder, Next
  PROVE  StartsInOrder'
<1>1. PICK w \in Task : Case1(w) \/ Case2(w) \/ Case3(w)
  BY StepCases
<1>. USE DEF At
<1>2. CASE Case1(w)
  <2>1. PICK new \in Call : Aside(w, new)
    BY <1>2 DEF Case1
  <2>2. /\ rows' = rows /\ now' = now /\ begun' = begun /\ call'[w].pc # "commit"
        /\ \A v \in Task : v # w => call'[v] = call[v]
    BY <2>1 DEF Aside, TypeOK
  <2>. QED BY <2>2 DEF StartsInOrder
<1>3. CASE Case2(w)
  <2>1. PICK new \in Call : Starts(w, new)
    BY <1>3 DEF Case2
  <2>2. /\ rows' = rows /\ now <= now' /\ begun' = begun + 1
        /\ call'[w].time = now' /\ call'[w].nr = begun + 1
        /\ \A v \in Task : v # w => call'[v] = call[v]
    BY <2>1 DEF Starts, TypeOK
  <2>3. /\ now \in Nat /\ now' \in Nat /\ begun \in Nat
        /\ \A v \in Task : call[v].time \in Nat /\ call[v].nr \in Nat
        /\ \A r \in rows : r.updated \in Nat
    BY <2>1 DEF Starts, TypeOK, RepoTypeOK, Call, Row
  <2>4. \A r \in rows' : r.updated <= now'
    BY <2>2, <2>3 DEF StartsInOrder
  <2>5. \A v \in Task : At(v, "commit")' => call'[v].time <= now' /\ call'[v].nr <= begun'
    BY <2>2, <2>3 DEF StartsInOrder
  <2>6. \A u, v \in Task :
          At(u, "commit")' /\ At(v, "commit")' /\ u # v =>
            /\ call'[u].nr # call'[v].nr
            /\ call'[u].nr < call'[v].nr => call'[u].time <= call'[v].time
    <3>. SUFFICES ASSUME NEW u \in Task, NEW v \in Task, u # v,
                         At(u, "commit")', At(v, "commit")'
                  PROVE  /\ call'[u].nr # call'[v].nr
                         /\ call'[u].nr < call'[v].nr => call'[u].time <= call'[v].time
      OBVIOUS
    <3>1. CASE u = w
      <4>1. call'[v] = call[v] /\ call[v].nr <= begun
        BY <2>2, <3>1 DEF StartsInOrder
      <4>. QED BY <2>2, <2>3, <3>1, <4>1
    <3>2. CASE v = w
      <4>1. call'[u] = call[u] /\ call[u].nr <= begun /\ call[u].time <= now
        BY <2>2, <3>2 DEF StartsInOrder
      <4>. QED BY <2>2, <2>3, <3>2, <4>1
    <3>3. CASE u # w /\ v # w
      BY <2>2, <3>3 DEF StartsInOrder
    <3>. QED BY <3>1, <3>2, <3>3
  <2>. QED BY <2>4, <2>5, <2>6 DEF StartsInOrder
<1>4. CASE Case3(w)
  <2>1. Ends(w) /\ call[w].pc = "commit" /\ now' = now /\ begun' = begun /\ call'[w].pc # "commit"
    BY <1>4 DEF Case3, Ends, Observe, NoCall
  <2>2. \A r \in rows' : r.updated <= now'
    BY <2>1, EffectRows DEF Ends, StartsInOrder
  <2>3. \A v \in Task : v # w =>
          call'[v].pc = call[v].pc /\ call'[v].time = call[v].time /\ call'[v].nr = call[v].nr
    BY <2>1, EndsOthers
  <2>. QED BY <2>1, <2>2, <2>3 DEF StartsInOrder
<1>. QED BY <1>1, <1>2, <1>3, <1>4

\* Every step keeps the rows older than the statements none has overtaken.
LEMMA NextNewer ==
  ASSUME TypeOK, StartsInOrder, NewerOvertook, Next
  PROVE  NewerOvertook'
<1>1. PICK w \in Task : Case1(w) \/ Case2(w) \/ Case3(w)
  BY StepCases
<1>. SUFFICES ASSUME NEW v \in Task, call'[v].pc = "commit", NEW r \in rows'
              PROVE  r.updated <= call'[v].time \/ \E s \in since'[v] : s.nr > call'[v].nr
  BY DEF NewerOvertook, At, Overtaken
<1>2. CASE Case1(w)
  <2>1. PICK new \in Call : Aside(w, new)
    BY <1>2 DEF Case1
  <2>2. v # w
    BY <2>1 DEF Aside, TypeOK
  <2>3. call'[v] = call[v] /\ rows' = rows /\ since' = since
    BY <2>1, <2>2 DEF Aside, TypeOK
  <2>. QED BY <2>3 DEF NewerOvertook, At, Overtaken
<1>3. CASE Case2(w)
  <2>1. PICK new \in Call : Starts(w, new)
    BY <1>3 DEF Case2
  <2>2. CASE v = w
    <3>1. call'[v].time = now' /\ r \in rows /\ now <= now' /\ now \in Nat /\ now' \in Nat
      BY <2>1, <2>2 DEF Starts, TypeOK, RepoTypeOK
    <3>2. r.updated <= now /\ r.updated \in Nat
      BY <3>1 DEF StartsInOrder, TypeOK, RepoTypeOK, Row
    <3>. QED BY <3>1, <3>2
  <2>3. CASE v # w
    <3>1. call'[v] = call[v] /\ rows' = rows /\ since'[v] = since[v]
      BY <2>1, <2>3 DEF Starts, TypeOK
    <3>. QED BY <3>1 DEF NewerOvertook, At, Overtaken
  <2>. QED BY <2>2, <2>3
<1>4. CASE Case3(w)
  <2>1. v # w /\ Ends(w) /\ At(w, "commit")
    BY <1>4 DEF Case3, Ends, Observe, NoCall
  <2>2. At(v, "commit") /\ call'[v].time = call[v].time /\ call'[v].nr = call[v].nr
    BY <2>1, EndsOthers DEF At
  <2>3. CASE r \in rows
    <3>1. r.updated <= call[v].time \/ \E s \in since[v] : s.nr > call[v].nr
      BY <2>2, <2>3 DEF NewerOvertook, Overtaken
    <3>. QED BY <2>1, <2>2, <3>1, EndsOthers
  <2>4. CASE call[w].req.op = "store" /\ r.updated = call[w].time
    <3>1. /\ call[w].nr \in Nat /\ call[v].nr \in Nat
          /\ call[w].nr # call[v].nr
          /\ call[w].nr < call[v].nr => call[w].time <= call[v].time
      BY <2>1, <2>2 DEF StartsInOrder, TypeOK, Call
    <3>2. CASE call[w].nr < call[v].nr
      BY <2>2, <2>4, <3>1, <3>2
    <3>3. CASE call[w].nr > call[v].nr
      <4>. DEFINE s == [id |-> call[w].req.id, nr |-> call[w].nr]
      <4>1. s \in since'[v]
        BY <2>1, <2>2, <2>4, EndsOthers
      <4>2. s.nr > call'[v].nr
        BY <2>2, <3>3
      <4>. QED BY <4>1, <4>2
    <3>. QED BY <3>1, <3>2, <3>3
  <2>. QED BY <2>1, <2>3, <2>4, EffectRows DEF Ends
<1>. QED BY <1>1, <1>2, <1>3, <1>4

-----------------------------------------------------------------------------
(***************************************************************************)
(* The theorems.                                                           *)
(***************************************************************************)
\* TypeOK and StatementTenant with what the action properties rest on.
PoolInv == TypeOK /\ StatementTenant /\ PurgesSeeAll /\ StartsInOrder /\ NewerOvertook

\* PoolInv is an invariant.
THEOREM PoolInvariant == Spec => []PoolInv
<1>1. Init => PoolInv
  <2>1. ASSUME Init PROVE rows = {} /\ \A w \in Task : call[w].pc = "idle"
    BY <2>1 DEF Init, RepoInit, NoCall
  <2>. QED
    BY <2>1, InitTypes
       DEF PoolInv, StatementTenant, PurgesSeeAll, StartsInOrder, NewerOvertook, At
<1>2. PoolInv /\ [Next]_vars => PoolInv'
  <2>1. CASE Next
    BY <2>1, NextTypes, NextTenants, NextPurges, NextOrder, NextNewer DEF PoolInv
  <2>2. CASE UNCHANGED vars
    BY <2>2 DEF vars, PoolInv, TypeOK, RepoTypeOK, StatementTenant, PurgesSeeAll, Matching,
                StartsInOrder, NewerOvertook, Overtaken, At
  <2>. QED BY <2>1, <2>2
<1>. QED BY <1>1, <1>2, PTL DEF Spec

\* The variables have their types, and no connection is used by two tasks
\* (PgPool::acquire).
THEOREM PoolTypes == Spec => []TypeOK
BY PoolInvariant, PTL DEF PoolInv

\* A statement runs under the tenant of its call, whatever was left on the connection
\* (set_tenant_on_conn at the start of every call).
THEOREM StatementsRunUnderTheirTenant == Spec => []StatementTenant
BY PoolInvariant, PTL DEF PoolInv

\* A step that ends a statement, other than by failing, has its effect.
LEMMA CommitEnds ==
  ASSUME TypeOK, [Next]_vars, NEW w \in Task, Commits(w), rows' # rows \/ faults' = faults
  PROVE  Effect(w)
<1>1. Next
  BY DEF vars, Commits, At
<1>2. PICK v \in Task : Case1(v) \/ Case2(v) \/ Case3(v)
  BY <1>1, StepCases
<1>3. CASE Case1(v)
  <2>1. PICK new \in Call : Aside(v, new)
    BY <1>3 DEF Case1
  <2>2. v # w => call'[w] = call[w]
    BY <2>1 DEF Aside, TypeOK
  <2>. QED BY <1>3, <2>1, <2>2 DEF Case1, Aside, Commits, At
<1>4. CASE Case2(v)
  <2>1. PICK new \in Call : Starts(v, new)
    BY <1>4 DEF Case2
  <2>. QED BY <2>1 DEF Starts, Commits, At, TypeOK
<1>5. CASE Case3(v)
  <2>1. v # w => call'[w].pc = call[w].pc
    BY <1>5, EndsOthers DEF Case3
  <2>. QED BY <1>5, <2>1 DEF Case3, Ends, Commits, At
<1>. QED BY <1>2, <1>3, <1>4, <1>5

\* A store leaves its node in the table.
LEMMA StoreWrites ==
  ASSUME TypeOK, NEW t, NEW i, NEW d, NEW time
  PROVE  \E r \in Written(t, i, d, time) : r.id = i /\ r.doc = d /\ r.updated = time
<1>1. CASE Conflicting(t, i) = {}
  <2>1. Version(t, i, d, time, time) \in Written(t, i, d, time)
    BY <1>1 DEF Written, Overwritten
  <2>. QED BY <2>1 DEF Version
<1>2. CASE Conflicting(t, i) # {}
  <2>1. PICK r \in Conflicting(t, i) : r.id = i
    BY <1>2 DEF Conflicting
  <2>2. Rewritten(r, d, time) \in Written(t, i, d, time)
    BY <1>2 DEF Written, Overwritten
  <2>. QED BY <2>1, <2>2 DEF Rewritten, Version
<1>. QED BY <1>1, <1>2

\* A store no later one has overtaken is the newest of its node and of its key
\* (updated_at = now() in upsert).
THEOREM StoresInOrder == Spec => WritesInOrder
<1>. DEFINE A(w) ==
       LET req == call[w].req IN
       Commits(w) /\ req.op = "store" /\ rows' # rows /\ ~Overtaken(w) =>
         \E r \in rows' :
           /\ r.id = req.id /\ r.doc = req.doc /\ r.updated = call[w].time
           /\ \A s \in rows : s.id = r.id => s.updated <= r.updated
           /\ \A s \in rows' :
                s.tenant = r.tenant /\ KeyOf(s.doc) = KeyOf(r.doc) => s.updated <= r.updated
<1>1. ASSUME PoolInv, [Next]_vars, NEW w \in Task PROVE A(w)
  <2>. SUFFICES ASSUME Commits(w), call[w].req.op = "store", rows' # rows, ~Overtaken(w)
                PROVE  \E r \in rows' :
                         /\ r.id = call[w].req.id /\ r.doc = call[w].req.doc
                         /\ r.updated = call[w].time
                         /\ \A s \in rows : s.id = r.id => s.updated <= r.updated
                         /\ \A s \in rows' :
                              s.tenant = r.tenant /\ KeyOf(s.doc) = KeyOf(r.doc) =>
                                s.updated <= r.updated
    OBVIOUS
  <2>1. Effect(w) /\ At(w, "commit") /\ TypeOK
    BY <1>1, CommitEnds DEF PoolInv, Commits
  <2>2. rows' = Written(call[w].req.tenant, call[w].req.id, call[w].req.doc, call[w].time)
    BY <2>1 DEF Effect
  <2>3. \A s \in rows : s.updated <= call[w].time
    BY <1>1, <2>1 DEF PoolInv, NewerOvertook
  <2>4. \A s \in rows' : s.updated <= call[w].time
    <3>1. call[w].time \in Nat
      BY <2>1 DEF TypeOK, Call
    <3>. QED BY <2>1, <2>3, <3>1, EffectRows
  <2>. QED BY <2>1, <2>2, <2>3, <2>4, StoreWrites
<1>2. PoolInv /\ [Next]_vars => [\A w \in Task : A(w)]_vars
  BY <1>1
<1>. QED BY <1>2, PoolInvariant, PTL DEF Spec, WritesInOrder

\* A purge leaves no node of its key but those stored while it ran (one DELETE for
\* every match, on the snapshot of when it starts).
THEOREM PurgesAreComplete == Spec => PurgeSparesOnlyNew
<1>. DEFINE A(w) ==
       LET req == call[w].req IN
       Commits(w) /\ req.op = "purge" /\ faults' = faults =>
         \A r \in rows' :
           r.tenant = req.tenant /\ KeyOf(r.doc) = req.key => \E s \in since[w] : s.id = r.id
<1>1. ASSUME PoolInv, [Next]_vars, NEW w \in Task PROVE A(w)
  <2>. SUFFICES ASSUME Commits(w), call[w].req.op = "purge", faults' = faults,
                       NEW r \in rows', r.tenant = call[w].req.tenant,
                       KeyOf(r.doc) = call[w].req.key
                PROVE  \E s \in since[w] : s.id = r.id
    OBVIOUS
  <2>1. Effect(w) /\ At(w, "commit")
    BY <1>1, CommitEnds DEF PoolInv, Commits
  <2>2. rows' = rows \ Erased(w)
    BY <2>1 DEF Effect
  <2>3. r \in Matching(call[w].req.tenant, call[w].req.key)
    BY <2>2 DEF Matching
  <2>4. r.id \notin call[w].seen
    BY <1>1, <2>1, <2>2, <2>3 DEF Erased, PoolInv, StatementTenant, At
  <2>. QED BY <1>1, <2>1, <2>3, <2>4 DEF PoolInv, PurgesSeeAll
<1>2. PoolInv /\ [Next]_vars => [\A w \in Task : A(w)]_vars
  BY <1>1
<1>. QED BY <1>2, PoolInvariant, PTL DEF Spec, PurgeSparesOnlyNew

-----------------------------------------------------------------------------
(***************************************************************************)
(* What from_node answers of a stored capsule's lifetime, for every date,  *)
(* every lifetime and every number of ticks in a second.                   *)
(***************************************************************************)
\* The quotient by a positive number, by what it is.
LEMMA Quotient ==
  ASSUME NEW d \in Nat, NEW n \in Nat \ {0}
  PROVE  d \div n \in Nat /\ (d \div n) * n <= d /\ d < (d \div n) * n + n
  OBVIOUS

\* Multiples have no remainder.
LEMMA WholeQuotient ==
  ASSUME NEW q \in Nat, NEW n \in Nat \ {0}
  PROVE  (q * n) \div n = q
  OBVIOUS

\* A lifetime and a date are answered together: from_node derives one from the other.
THEOREM TtlAndDate ==
  ASSUME NEW c \in Lifetime, NEW updated \in Int
  PROVE  PopulatedTogether(c, updated)
<1>. USE TtlAssumption
<1>1. \A d \in Int : num_seconds(d) \in Int
  BY TtlAssumption DEF num_seconds
<1>2. \A n \in Int : AtLeastZero(n) \in Nat
  BY DEF AtLeastZero
<1>3. CASE c.expires_at # None
  <2>1. c.expires_at \in Int
    BY <1>3 DEF Lifetime
  <2>2. c.expires_at - updated \in Int
    BY <2>1
  <2>3. AtLeastZero(num_seconds(c.expires_at - updated)) # None
    BY <1>1, <1>2, <2>2
  <2>4. ttl_seconds(c, updated) # None
    BY <1>3, <2>3 DEF ttl_seconds
  <2>. QED BY <1>3, <2>4 DEF PopulatedTogether, expires_at
<1>4. CASE c.expires_at = None /\ c.ttl_seconds # None
  <2>1. c.ttl_seconds \in Int
    BY <1>4 DEF Lifetime
  <2>2. updated + c.ttl_seconds * Second \in Int
    BY <2>1
  <2>3. expires_at(c, updated) # None
    BY <1>4, <2>2 DEF expires_at
  <2>. QED BY <1>4, <2>3 DEF PopulatedTogether, ttl_seconds
<1>5. CASE c.expires_at = None /\ c.ttl_seconds = None
  BY <1>5 DEF PopulatedTogether, ttl_seconds, expires_at
<1>. QED BY <1>3, <1>4, <1>5

\* The remaining seconds are as many as fit before the date, and none after it.
THEOREM RemainingFits ==
  ASSUME NEW c \in Lifetime, NEW updated \in Int, NEW time \in Int
  PROVE  RemainingExact(c, updated, time)
<1>. USE TtlAssumption
<1>. DEFINE date == expires_at(c, updated)
            left == ttl_remaining_seconds(c, updated, time)
<1>1. SUFFICES ASSUME date # None
      PROVE  /\ left \in Nat
             /\ time > date => left = 0
             /\ time <= date => time + left * Second <= date /\ date < time + (left + 1) * Second
  BY DEF RemainingExact
<1>2. date \in Int
  <2>1. \A n \in Int : updated + n * Second \in Int
    OBVIOUS
  <2>2. /\ c.expires_at # None => c.expires_at \in Int
        /\ c.ttl_seconds # None => c.ttl_seconds \in Int
    BY DEF Lifetime
  <2>. QED BY <1>1, <2>1, <2>2 DEF expires_at
<1>3. left = AtLeastZero(num_seconds(date - time))
  BY <1>1 DEF ttl_remaining_seconds
<1>. HIDE DEF date, left
<1>4. CASE time <= date
  <2>. DEFINE d == date - time
              q == d \div Second
  <2>1. d \in Nat
    BY <1>2, <1>4
  <2>. HIDE DEF d
  <2>2. q \in Nat /\ q * Second <= d /\ d < q * Second + Second
    BY <2>1, Quotient
  <2>3. num_seconds(d) = q
    BY <2>1 DEF num_seconds
  <2>. HIDE DEF q
  <2>4. left = q
    BY <1>3, <2>2, <2>3 DEF AtLeastZero, d
  <2>5. date = time + d
    BY <1>2 DEF d
  <2>6. (q + 1) * Second = q * Second + Second /\ q * Second \in Nat
    BY <2>2
  <2>. QED BY <1>4, <2>1, <2>2, <2>4, <2>5, <2>6
<1>5. CASE time > date
  <2>. DEFINE d == time - date
  <2>1. d \in Nat /\ ~(date - time >= 0) /\ -(date - time) = d
    BY <1>2, <1>5
  <2>. HIDE DEF d
  <2>2. num_seconds(date - time) = -(d \div Second)
    BY <2>1 DEF num_seconds
  <2>3. d \div Second \in Nat
    BY <2>1, Quotient
  <2>4. left = 0
    BY <1>3, <2>2, <2>3 DEF AtLeastZero
  <2>. QED BY <1>2, <1>5, <2>4
<1>. QED BY <1>2, <1>4, <1>5

\* What ttl_seconds promises is what is left at the time of the write.
THEOREM WholeLifetimeAtFirst ==
  ASSUME NEW c \in Lifetime, NEW updated \in Int
  PROVE  FullWhenWritten(c, updated)
<1>. USE TtlAssumption
<1>1. SUFFICES ASSUME c.ttl_seconds # None, c.expires_at = None
      PROVE  ttl_remaining_seconds(c, updated, updated) = AtLeastZero(c.ttl_seconds)
  BY DEF FullWhenWritten, ttl_seconds
<1>. DEFINE t == c.ttl_seconds
<1>2. t \in Int
  BY <1>1 DEF Lifetime
<1>3. expires_at(c, updated) = updated + t * Second /\ t * Second \in Int
  BY <1>1, <1>2 DEF expires_at
<1>4. updated + t * Second # None /\ updated + t * Second - updated = t * Second
  BY <1>2
<1>5. ttl_remaining_seconds(c, updated, updated) = AtLeastZero(num_seconds(t * Second))
  BY <1>3, <1>4 DEF ttl_remaining_seconds
<1>. HIDE DEF t
<1>6. CASE t >= 0
  <2>1. t \in Nat /\ t * Second \in Nat /\ t * Second >= 0
    BY <1>2, <1>6
  <2>2. num_seconds(t * Second) = t
    BY <2>1, WholeQuotient DEF num_seconds
  <2>. QED BY <1>5, <2>2 DEF t
<1>7. CASE t < 0
  <2>. DEFINE s == -t
  <2>1. s \in Nat /\ t = -s
    BY <1>2, <1>7
  <2>. HIDE DEF s
  <2>2. -(t * Second) = s * Second /\ s * Second \in Nat
    BY <2>1
  <2>3. (s * Second) \div Second = s
    BY <2>1, WholeQuotient
  <2>4. ~(t * Second >= 0)
    BY <1>2, <1>7
  <2>5. num_seconds(t * Second) = t
    BY <2>1, <2>2, <2>3, <2>4 DEF num_seconds
  <2>. QED BY <1>5, <2>5 DEF t
<1>. QED BY <1>2, <1>6, <1>7

\* Whatever calls overlap, are dropped or broken, each stored row has a time from_node
\* can answer exactly from.
THEOREM LifetimesAreExact == Spec => []LifetimesExact
<1>1. ASSUME TypeOK, NEW r \in rows
      PROVE  r.updated \in Int /\ now \in Int
  BY <1>1 DEF TypeOK, RepoTypeOK, Row
<1>2. TypeOK => LifetimesExact
  BY <1>1, TtlAndDate, RemainingFits, WholeLifetimeAtFirst DEF LifetimesExact
<1>. QED BY <1>2, PoolTypes, PTL
=============================================================================
