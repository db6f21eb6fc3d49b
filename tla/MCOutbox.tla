-------------------------------- MODULE MCOutbox --------------------------------
(***************************************************************************)
(* Outbox with two workers, two connections and two tenants.               *)
(***************************************************************************)
EXTENDS Outbox
CONSTANTS t1, t2, w1, w2, c1, c2
=============================================================================
