-------------------------------- MODULE NodeApi --------------------------------
(***************************************************************************)
(* The generic node operations of server/http.rs and server/grpc.rs over a *)
(* NodeRepository and the dashboard.  A store or a lookup is two steps of  *)
(* its handler: the awaited repository call, and then, under another lock, *)
(* the dashboard's record of it and the answer.  Handlers of both servers  *)
(* run at the same time and interleave between the two.                    *)
(*                                                                         *)
(* Requests refused before they reach the repository (gRPC arguments that  *)
(* do not parse) change nothing and are left out.                          *)
(***************************************************************************)
EXTENDS NodeRepository, Dashboard

CONSTANTS
  Handler,        \* requests served at the same time, by either server
  DefaultTenant,  \* DEFAULT_TENANT_ID
  MaxRequests     \* bound on recorded requests, for model checking

ASSUME ApiAssumption == DefaultTenant \in Tenant /\ MaxRequests \in Nat

VARIABLES
  pending,  \* what each handler has still to record, None when it is idle
  log,      \* history variable: all that was recorded, newest first
  cleared   \* history variable: the length of log when the history was cleared

ghostVars == <<log, cleared>>
vars == <<repoVars, dashboardVars, pending, ghostVars>>

\* req.tenant_id.unwrap_or(default_tenant_id)
tenant_of(hint) == IF hint = None THEN DefaultTenant ELSE hint

\* KnowledgeNode::new draws a new id; a request may name one instead.
node_ids(node) == IF node = None THEN {i \in Id : \A r \in rows : r.id # i} ELSE {node}

Events == [type: {"STORE", "LOOKUP", "PURGE"}, tenant: Tenant,
           node: Id \cup {None}, flag: BOOLEAN]

ASSUME NoneAssumption == None \notin Tenant /\ None \notin Id /\ None \notin Events

Accept(h) ==
  /\ pending[h] = None
  /\ Len(log) + Cardinality({g \in Handler : pending[g] # None}) < MaxRequests

\* Faulty: every success is called a creation.
created_Always(out) == out # Err

created(out) == out = Created

\* A repository error ends the request: expect panics over HTTP, gRPC answers
\* with a status.  Neither is recorded.
Store(h, t, node, d) ==
  /\ Accept(h)
  /\ \E i \in node_ids(node), out \in {Created, Updated, Err} :
       /\ upsert(t, i, d, out)
       /\ \/ out = Err /\ pending' = pending
          \/ /\ out # Err
             /\ pending' = [pending EXCEPT ![h] = HistoryEvent("STORE", t, i, created(out))]
  /\ UNCHANGED <<dashboardVars, ghostVars>>

api_store(h, hint, node, d) == Store(h, tenant_of(hint), node, d)

upsert_node(h, node, d) == Store(h, DefaultTenant, node, d)

\* An error is recorded and answered as a node that was not found.
api_lookup(h, hint, i) ==
  LET t == tenant_of(hint)
  IN  /\ Accept(h)
      /\ \E found \in get(t, i) :
           pending' = [pending EXCEPT ![h] = HistoryEvent("LOOKUP", t, i, found \in rows)]
      /\ UNCHANGED <<repoVars, dashboardVars, ghostVars>>

Logged(e) == log' = <<e>> \o log /\ cleared' = cleared

Record(h) ==
  /\ pending[h] # None
  /\ \/ pending[h].type = "STORE" /\ record_store(pending[h])
     \/ pending[h].type = "LOOKUP" /\ record_lookup(pending[h])
  /\ Logged(pending[h])
  /\ pending' = [pending EXCEPT ![h] = None]
  /\ UNCHANGED repoVars

\* This purge only tells the dashboard; no node is removed.
api_purge(h, hint) ==
  LET e == HistoryEvent("PURGE", tenant_of(hint), None, FALSE)
  IN  /\ Accept(h)
      /\ record_purge(e)
      /\ Logged(e)
      /\ UNCHANGED <<repoVars, pending>>

api_history_clear ==
  /\ clear_history
  /\ cleared' = Len(log)
  /\ UNCHANGED <<repoVars, pending, log>>

\* The process dies and is started again: the dashboard and the in-memory map
\* are new, and what was pending is never recorded.
Restart ==
  /\ rows' = IF Backend = "memory" THEN {} ELSE rows
  /\ now' = now
  /\ metrics' = NoMetrics /\ history' = <<>>
  /\ pending' = [h \in Handler |-> None]
  /\ log' = <<>> /\ cleared' = 0

Init ==
  /\ RepoInit /\ DashboardInit
  /\ pending = [h \in Handler |-> None]
  /\ log = <<>> /\ cleared = 0

Next ==
  \/ \E h \in Handler :
       \/ \E hint \in Tenant \cup {None}, node \in Id \cup {None}, d \in Doc :
            api_store(h, hint, node, d)
       \/ \E node \in Id \cup {None}, d \in Doc : upsert_node(h, node, d)
       \/ \E hint \in Tenant \cup {None}, i \in Id : api_lookup(h, hint, i)
       \/ \E hint \in Tenant \cup {None} : api_purge(h, hint)
       \/ Record(h)
  \/ api_history_clear
  \/ Restart

Spec == Init /\ [][Next]_vars

-----------------------------------------------------------------------------
\* The variables have their types, and what is pending is a store or a lookup.
TypeOK ==
  /\ RepoTypeOK /\ DashboardTypeOK
  /\ history \in Seq(Events) /\ log \in Seq(Events)
  /\ cleared \in 0 .. Len(log)
  /\ pending \in [Handler -> {None} \cup {e \in Events : e.type # "PURGE"}]

\* The history is what was recorded since it was last cleared, newest first, up
\* to its bound.
HistoryIsRecent ==
  LET recent == Len(log) - cleared
  IN  /\ Len(history) = IF recent <= MaxHistory THEN recent ELSE MaxHistory
      /\ \A n \in 1 .. Len(history) : history[n] = log[n]

Count(Test(_)) == Cardinality({n \in DOMAIN log : Test(log[n])})

\* The counters count every recorded request once, each lookup as a hit or a
\* miss, also the requests the history has dropped or was cleared of.
CountersAddUp ==
  /\ metrics.total_stores = Count(LAMBDA e : e.type = "STORE")
  /\ metrics.total_lookups = Count(LAMBDA e : e.type = "LOOKUP")
  /\ metrics.total_purges = Count(LAMBDA e : e.type = "PURGE")
  /\ metrics.cache_hits = Count(LAMBDA e : e.type = "LOOKUP" /\ e.flag)
  /\ metrics.cache_hits + metrics.cache_misses = metrics.total_lookups

Creates(e, t, i) == e = HistoryEvent("STORE", t, i, TRUE)

Told(t, i) == \E n \in DOMAIN log : Creates(log[n], t, i)
Tells(h, t, i) == Creates(pending[h], t, i)

\* However many stores of a node run at once, one is told that it created the
\* node, if any, and the node is stored.
CreatedOnce ==
  \A t \in Tenant, i \in Id :
    /\ \A m, n \in DOMAIN log : Creates(log[m], t, i) /\ Creates(log[n], t, i) => m = n
    /\ \A g, h \in Handler : Tells(g, t, i) /\ Tells(h, t, i) => g = h
    /\ Told(t, i) => \A h \in Handler : ~Tells(h, t, i)
    /\ Told(t, i) \/ (\E h \in Handler : Tells(h, t, i)) =>
         \E r \in rows : r.tenant = t /\ r.id = i
=============================================================================
