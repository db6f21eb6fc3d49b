----------------------------- MODULE NodeContract -----------------------------
(***************************************************************************)
(* What a caller of NodeRepository may rely on, without clocks, rows or    *)
(* locks: a set of nodes, the order in which they were last written, and   *)
(* the last call with its result.  A lookup by key returns the latest of   *)
(* the nodes with that key.  A failed call either happened or did not.     *)
(***************************************************************************)
CONSTANTS Tenant, Id, Key, Doc, KeyOf(_), None, Err, Created, Updated

VARIABLES
  nodes,  \* the nodes that are stored
  newer,  \* which was written after which, as pairs
  call    \* the last call and its result

vars == <<nodes, newer, call>>

Called(op, t, arg, out) ==
  call' = [op |-> op, tenant |-> t, arg |-> arg, out |-> out]

WithId(t, i)  == {n \in nodes : n.tenant = t /\ n.id = i}
WithKey(t, k) == {n \in nodes : n.tenant = t /\ KeyOf(n.doc) = k}

\* The one of S that was written after the others, if any.
LatestOf(S) ==
  IF S = {} THEN {None} ELSE {n \in S : \A m \in S \ {n} : <<n, m>> \in newer}

Among(S) == newer \cap (S \X S)

Init ==
  /\ nodes = {} /\ newer = {}
  /\ call = [op |-> "none", tenant |-> None, arg |-> None, out |-> None]

Write(t, i, d) ==
  LET same == WithId(t, i)
      kept == nodes \ same
      node == [tenant |-> t, id |-> i, doc |-> d]
      done == IF same = {} THEN Created ELSE Updated
  IN  /\ nodes' = kept \cup {node}
      /\ newer' = Among(kept) \cup ({node} \X kept)
      /\ \E out \in {done, Err} : Called("upsert", t, <<i, d>>, out)

Read(t, i) ==
  /\ UNCHANGED <<nodes, newer>>
  /\ \E out \in LatestOf(WithId(t, i)) : Called("get", t, i, out)

ReadByKey(t, k) ==
  /\ UNCHANGED <<nodes, newer>>
  /\ \E out \in LatestOf(WithKey(t, k)) : Called("get_by_key", t, k, out)

\* One match or more is erased; one of those erased is returned.
Erase(t, k) ==
  \E gone \in SUBSET WithKey(t, k) :
    /\ nodes' = nodes \ gone
    /\ newer' = Among(nodes \ gone)
    /\ \/ \E n \in gone : Called("delete_by_key", t, k, n)
       \/ WithKey(t, k) = {} /\ Called("delete_by_key", t, k, None)
       \/ Called("delete_by_key", t, k, Err)

Fail ==
  /\ UNCHANGED <<nodes, newer>>
  /\ \E t \in Tenant :
       \/ \E i \in Id, d \in Doc : Called("upsert", t, <<i, d>>, Err)
       \/ \E i \in Id : Called("get", t, i, Err)
       \/ \E k \in Key : Called("get_by_key", t, k, Err)

Next ==
  \/ Fail
  \/ \E t \in Tenant :
       \/ \E i \in Id, d \in Doc : Write(t, i, d)
       \/ \E i \in Id : Read(t, i)
       \/ \E k \in Key : ReadByKey(t, k) \/ Erase(t, k)

Spec == Init /\ [][Next]_vars
=============================================================================
