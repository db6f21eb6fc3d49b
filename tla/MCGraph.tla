--------------------------------- MODULE MCGraph ---------------------------------
(***************************************************************************)
(* Graph with a few nodes.  Edges and listings meet in nothing but the     *)
(* nodes, and are checked apart: two tenants that link nodes and list      *)
(* none, or one that lists nodes and links none, over either backend.      *)
(* What a behaviour does is chosen in its first state.                     *)
(***************************************************************************)
EXTENDS Graph

CONSTANTS t1, k1, k2, note, task

VARIABLE topic

MCDoc == {k1, k2} \X {note, task}
MCKeyOf(d) == d[1]
MCKindOf(d) == d[2]

Memory == INSTANCE Graph WITH Backend <- "memory", Faults <- FALSE

\* Two ids, of one kind.
Linking == reader' = reader /\ \A r \in rows' : r.id < 3 /\ KindOf(r.doc) = note

\* One tenant and one key, and a listing of one kind.
Listing ==
  /\ links' = 0 /\ now' <= 1 /\ reader'.tenant \in {None, t1} /\ reader'.kind \in {None, note}
  /\ \A r \in rows' : r.tenant = t1 /\ KeyOf(r.doc) = k1

MCInit == Init /\ topic \in {"links", "lists", "lists in memory"}

MCNext ==
  /\ topic' = topic
  /\ \/ topic = "links" /\ Next /\ Linking
     \/ topic = "lists" /\ Next /\ Listing
     \/ topic = "lists in memory" /\ Memory!Next /\ Listing

MCSpec == MCInit /\ [][MCNext]_<<vars, topic>>
=============================================================================
