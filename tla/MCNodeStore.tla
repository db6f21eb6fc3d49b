------------------------------ MODULE MCNodeStore ------------------------------
(***************************************************************************)
(* NodeStore with a few tenants, ids and documents.                        *)
(***************************************************************************)
EXTENDS NodeStore, TLC

CONSTANTS t1, t2, i1, i2, k1, k2

MCKeyOf(d) == d[1]
MCDoc == {<<k1, "v1">>, <<k1, "v2">>, <<k2, "v1">>}

\* Neither tenants nor ids are told apart by anything but equality.
Interchangeable == Permutations({t1, t2}) \cup Permutations({i1, i2})
=============================================================================
