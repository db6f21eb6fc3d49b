------------------------------- MODULE MCNodeApi -------------------------------
(***************************************************************************)
(* The dashboard's API with two handlers: NodeApi with two tenants and ids *)
(* and one document, and ScedgeBridge with and without a URL.  They share  *)
(* nothing but the server, and are checked apart: which of them runs is    *)
(* chosen in the first state.                                              *)
(***************************************************************************)
EXTENDS NodeApi, ScedgeBridge, TLC

CONSTANTS t1, td, i1, i2, d1, k1, h1, h2

VARIABLE part

MCInit == Init /\ BridgeInit /\ part \in {"nodes", "bridge"}

MCNext ==
  /\ part' = part
  /\ \/ part = "nodes" /\ Next /\ UNCHANGED bridgeVars
     \/ part = "bridge" /\ BridgeNext /\ UNCHANGED vars

MCSpec == MCInit /\ [][MCNext]_<<vars, bridgeVars, part>>

MCKeyOf(d) == k1

NamesAlike == Permutations(Handler) \cup Permutations(Id)
=============================================================================
