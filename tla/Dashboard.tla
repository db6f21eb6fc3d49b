------------------------------- MODULE Dashboard -------------------------------
(***************************************************************************)
(* state.rs: the counters and the bounded history that the admin UI shows. *)
(* Each operation holds the one lock of DashboardData for all it does.     *)
(* Timestamps are left out.                                                *)
(***************************************************************************)
EXTENDS Naturals, Sequences

CONSTANT MaxHistory  \* MAX_HISTORY, 200 in the program

ASSUME HistoryAssumption == MaxHistory \in Nat \ {0}

VARIABLES
  metrics,  \* Metrics
  history   \* the latest events, newest first

dashboardVars == <<metrics, history>>

NoMetrics == [total_stores |-> 0, total_lookups |-> 0, total_purges |-> 0,
              cache_hits |-> 0, cache_misses |-> 0]

DashboardInit == metrics = NoMetrics /\ history = <<>>

HistoryEvent(type, tenant, node, flag) ==
  [type |-> type, tenant |-> tenant, node |-> node, flag |-> flag]

\* Faulty: drops the newest; a history longer than the bound by one.
kept_Oldest == IF Len(history) = MaxHistory THEN Tail(history) ELSE history
kept_OneMore ==
  IF Len(history) > MaxHistory THEN SubSeq(history, 1, Len(history) - 1) ELSE history

\* What stays when an event is added: a full history loses its last.
kept ==
  IF Len(history) = MaxHistory THEN SubSeq(history, 1, Len(history) - 1) ELSE history

push_history(e) == history' = <<e>> \o kept

record_store(e) ==
  /\ metrics' = [metrics EXCEPT !.total_stores = @ + 1]
  /\ push_history(e)

\* Faulty: a miss is not counted as a miss.
looked_up_HitsOnly(e) ==
  [metrics EXCEPT !.total_lookups = @ + 1, !.cache_hits = @ + (IF e.flag THEN 1 ELSE 0)]

looked_up(e) ==
  IF e.flag
  THEN [metrics EXCEPT !.total_lookups = @ + 1, !.cache_hits = @ + 1]
  ELSE [metrics EXCEPT !.total_lookups = @ + 1, !.cache_misses = @ + 1]

record_lookup(e) == metrics' = looked_up(e) /\ push_history(e)

record_purge(e) ==
  /\ metrics' = [metrics EXCEPT !.total_purges = @ + 1]
  /\ push_history(e)

clear_history == history' = <<>> /\ UNCHANGED metrics

DashboardTypeOK ==
  /\ metrics \in [DOMAIN NoMetrics -> Nat]
  /\ Len(history) <= MaxHistory
=============================================================================
