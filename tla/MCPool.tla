---------------------------------- MODULE MCPool ----------------------------------
(***************************************************************************)
(* PostgresPool with three tasks over two connections, and CapsuleTtl for  *)
(* the rows they store: three ticks are a second, and a difference of      *)
(* dates may end within one.                                               *)
(***************************************************************************)
EXTENDS PostgresPool, CapsuleTtl

CONSTANT k1

MCKeyOf(d) == d[1]
MCDoc == {<<k1, "v1">>}

\* Lifetimes and dates from before the epoch on.
MCTtls  == -1 .. 2
MCDates == -1 .. 7
=============================================================================
