------------------------------- MODULE NodeStore -------------------------------
(***************************************************************************)
(* Clients calling a NodeRepository in any order, with the last call and   *)
(* its result.  The order of the calls is the order in which they get the  *)
(* lock (in memory) or commit (PostgreSQL).                                *)
(***************************************************************************)
EXTENDS NodeRepository

VARIABLE call  \* the last call: operation, tenant, argument and result

vars == <<rows, now, call>>

Called(op, t, arg, out) ==
  call' = [op |-> op, tenant |-> t, arg |-> arg, out |-> out]

NoCall == [op |-> "none", tenant |-> None, arg |-> None, out |-> None]

Init == RepoInit /\ call = NoCall

Upsert(t, i, d) ==
  \E out \in {Created, Updated, Err} :
    /\ upsert(t, i, d, out)
    /\ Called("upsert", t, <<i, d>>, out)

Get(t, i) ==
  /\ UNCHANGED repoVars
  /\ \E out \in get(t, i) : Called("get", t, i, out)

GetByKey(t, k) ==
  /\ UNCHANGED repoVars
  /\ \E out \in get_by_key(t, k) : Called("get_by_key", t, k, out)

DeleteByKey(t, k) ==
  \E out \in rows \cup {None, Err} :
    /\ delete_by_key(t, k, out)
    /\ Called("delete_by_key", t, k, out)

Next ==
  \E t \in Tenant :
    \/ \E i \in Id, d \in Doc : Upsert(t, i, d)
    \/ \E i \in Id : Get(t, i)
    \/ \E k \in Key : GetByKey(t, k)
    \/ \E k \in Key : DeleteByKey(t, k)

Spec == Init /\ [][Next]_vars

-----------------------------------------------------------------------------
Results == Row \cup {None, Err, Created, Updated}

\* The stored nodes are rows, and a call's result is a row, an upsert outcome,
\* Ok(None) or an error.
TypeOK == RepoTypeOK /\ call.out \in Results

\* A write that answered Created or Updated is visible to its tenant, under its
\* id and as a newest node of its key; as the only newest one when the clock
\* moved since the write before it.
ReadYourWrite ==
  call.op = "upsert" /\ call.out # Err =>
    \E r \in rows :
      /\ r.tenant = call.tenant /\ r.id = call.arg[1] /\ r.doc = call.arg[2]
      /\ r \in Newest(call.tenant, KeyOf(r.doc))
      /\ 0 \notin ClockSteps => Newest(call.tenant, KeyOf(r.doc)) = {r}

\* A call made for one tenant neither adds, changes nor removes a node of
\* another: the per-tenant maps in memory, the policies in PostgreSQL.
TenantIsolation ==
  [][\A r \in (rows \ rows') \cup (rows' \ rows) : r.tenant = call'.tenant]_vars

\* Writing a node again keeps its created_at, never takes its updated_at back,
\* and leaves updated_at alone only if it leaves the document alone.
VersionsAge ==
  [][\A r \in rows, s \in rows' :
       r.tenant = s.tenant /\ r.id = s.id =>
         /\ s.created = r.created
         /\ r.updated <= s.updated
         /\ s.doc # r.doc => s.updated = now']_vars

\* A purge that returned a node has removed it, one that returned nothing
\* leaves no node of the key, and in PostgreSQL neither does one that did.
RemovedIsGone ==
  call.op = "delete_by_key" /\ call.out # Err =>
    /\ call.out \notin rows
    /\ call.out = None \/ Backend = "postgres" => Matching(call.tenant, call.arg) = {}

-----------------------------------------------------------------------------
(***************************************************************************)
(* The mapping to NodeContract: a row without its times is a node, and     *)
(* updated_at says which was written after which.                          *)
(***************************************************************************)
Plain(r) == [tenant |-> r.tenant, id |-> r.id, doc |-> r.doc]

PlainOf(S) == {Plain(r) : r \in S}

NewerOf(S) ==
  {p \in PlainOf(S) \X PlainOf(S) :
     \E r, s \in S : p = <<Plain(r), Plain(s)>> /\ s.updated < r.updated}

PlainOut(out) == IF out \in {None, Err, Created, Updated} THEN out ELSE Plain(out)

Contract == INSTANCE NodeContract WITH
  nodes <- PlainOf(rows),
  newer <- NewerOf(rows),
  call  <- [call EXCEPT !.out = PlainOut(@)]

\* When the clock moves at every write, each repository is a set of nodes that
\* remembers the order in which they were last written, whatever its backend.
ImplementsContract == Contract!Spec
=============================================================================
