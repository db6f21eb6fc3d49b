----------------------------- MODULE NodeApiProofs -----------------------------
(***************************************************************************)
(* Theorems about NodeApi, for any number of handlers, tenants, ids and    *)
(* requests, both backends, with faults and restarts.                      *)
(***************************************************************************)
EXTENDS NodeApi, NodeRepositoryProofs, SequenceTheorems, FiniteSetTheorems, FunctionTheorems

Stored(t, i) == \E r \in rows : r.tenant = t /\ r.id = i

-----------------------------------------------------------------------------
\* A recorded event becomes the first of the log and moves the others by one.
LEMMA LogGrows ==
  ASSUME log \in Seq(Events), NEW e \in Events, Logged(e)
  PROVE  /\ log' \in Seq(Events) /\ cleared' = cleared
         /\ Len(log) \in Nat /\ Len(log') = Len(log) + 1
         /\ DOMAIN log = 1 .. Len(log) /\ DOMAIN log' = 1 .. Len(log')
         /\ log'[1] = e
         /\ \A n \in DOMAIN log : log'[n + 1] = log[n]
         /\ \A n \in DOMAIN log' : n = 1 \/ (n - 1 \in DOMAIN log /\ log'[n] = log[n - 1])
<1> DEFINE one == <<e>>
<1>1. one \in Seq(Events) /\ Len(one) = 1 /\ one[1] = e
  OBVIOUS
<1> HIDE DEF one
<1>2. log' = one \o log /\ cleared' = cleared
  BY DEF Logged, one
<1>3. Len(log) \in Nat /\ DOMAIN log = 1 .. Len(log)
  BY LenProperties
<1>4. /\ log' \in Seq(Events) /\ Len(log') = Len(log) + 1
      /\ \A n \in 1 .. Len(log) + 1 : log'[n] = IF n <= 1 THEN one[n] ELSE log[n - 1]
  BY <1>1, <1>2, ConcatProperties
<1>5. DOMAIN log' = 1 .. Len(log')
  BY <1>4, LenProperties
<1> QED
  BY <1>1, <1>2, <1>3, <1>4, <1>5

\* What a full history keeps of itself is all but its last event.
LEMMA KeptEvents ==
  ASSUME history \in Seq(Events), Len(history) <= MaxHistory
  PROVE  /\ kept \in Seq(Events) /\ Len(kept) \in Nat
         /\ Len(kept) = IF Len(history) = MaxHistory THEN Len(history) - 1 ELSE Len(history)
         /\ \A n \in 1 .. Len(kept) : kept[n] = history[n]
<1>1. /\ Len(history) \in Nat /\ DOMAIN history = 1 .. Len(history)
      /\ \A n \in 1 .. Len(history) : history[n] \in Events
  BY LenProperties, ElementOfSeq
<1>2. CASE Len(history) = MaxHistory
  <2> DEFINE m == Len(history) - 1
  <2>1. m \in Nat /\ kept = SubSeq(history, 1, m)
    BY <1>1, <1>2, HistoryAssumption DEF kept
  <2>2. \A n \in 1 .. m : history[n] \in Events
    BY <1>1, <2>1
  <2> HIDE DEF m
  <2>3. /\ SubSeq(history, 1, m) \in Seq(Events)
        /\ Len(SubSeq(history, 1, m)) = IF 1 <= m THEN m - 1 + 1 ELSE 0
        /\ \A n \in 1 .. m - 1 + 1 : SubSeq(history, 1, m)[n] = history[1 + n - 1]
    BY <2>1, <2>2, SubSeqProperties
  <2>4. Len(kept) = m /\ \A n \in 1 .. m : kept[n] = history[n]
    BY <2>1, <2>3
  <2> QED
    BY <1>2, <2>1, <2>3, <2>4 DEF m
<1>3. CASE Len(history) # MaxHistory
  BY <1>1, <1>3 DEF kept
<1> QED
  BY <1>2, <1>3

\* Adding one event to the history and to the log keeps the one a prefix of the
\* other, up to the bound and the last clearing.
LEMMA PushKeepsRecent ==
  ASSUME TypeOK, HistoryIsRecent, NEW e \in Events, push_history(e), Logged(e)
  PROVE  /\ history' \in Seq(Events) /\ Len(history') <= MaxHistory
         /\ HistoryIsRecent'
<1> DEFINE one == <<e>>
<1>1. one \in Seq(Events) /\ Len(one) = 1 /\ one[1] = e
  OBVIOUS
<1> HIDE DEF one
<1>2. history' = one \o kept
  BY DEF push_history, one
<1>3. history \in Seq(Events) /\ Len(history) \in Nat /\ Len(history) <= MaxHistory
  BY LenProperties DEF TypeOK, DashboardTypeOK
<1>4. /\ kept \in Seq(Events) /\ Len(kept) \in Nat
      /\ Len(kept) = IF Len(history) = MaxHistory THEN Len(history) - 1 ELSE Len(history)
      /\ \A n \in 1 .. Len(kept) : kept[n] = history[n]
  BY <1>3, KeptEvents
<1>5. /\ history' \in Seq(Events) /\ Len(history') = 1 + Len(kept)
      /\ \A n \in 1 .. 1 + Len(kept) : history'[n] = IF n <= 1 THEN one[n] ELSE kept[n - 1]
  <2>1. one \in Seq(Events) /\ kept \in Seq(Events)
    BY <1>1, <1>4
  <2>2. /\ one \o kept \in Seq(Events) /\ Len(one \o kept) = Len(one) + Len(kept)
        /\ \A n \in 1 .. Len(one) + Len(kept) :
             (one \o kept)[n] = IF n <= Len(one) THEN one[n] ELSE kept[n - Len(one)]
    BY ONLY <2>1, ConcatProperties
  <2> QED
    BY <2>2, <1>1, <1>2
<1>6. Len(history') <= MaxHistory
  BY <1>3, <1>4, <1>5, HistoryAssumption
<1>7. log \in Seq(Events) /\ cleared \in 0 .. Len(log)
  BY DEF TypeOK
<1>8. /\ cleared' = cleared /\ Len(log) \in Nat /\ Len(log') = Len(log) + 1
      /\ DOMAIN log = 1 .. Len(log) /\ log'[1] = e
      /\ \A n \in DOMAIN log : log'[n + 1] = log[n]
  BY <1>7, LogGrows
<1>9. Len(history) <= Len(log)
  BY <1>3, <1>7, <1>8, HistoryAssumption DEF HistoryIsRecent
<1>10. Len(history') = IF Len(log') - cleared' <= MaxHistory
                       THEN Len(log') - cleared' ELSE MaxHistory
  <2>1. /\ cleared \in Nat /\ MaxHistory \in Nat
        /\ Len(history) = IF Len(log) - cleared <= MaxHistory
                          THEN Len(log) - cleared ELSE MaxHistory
    BY <1>7, <1>8, HistoryAssumption DEF HistoryIsRecent
  <2>2. Len(log) \in Nat /\ Len(log') = Len(log) + 1 /\ cleared' = cleared
    BY <1>8
  <2>3. Len(history') = IF Len(history) = MaxHistory THEN Len(history) ELSE Len(history) + 1
    BY <1>3, <1>4, <1>5
  <2>4. Len(history) \in Nat
    BY <1>3
  <2> QED
    BY ONLY <2>1, <2>2, <2>3, <2>4
<1>11. ASSUME NEW n \in 1 .. Len(history') PROVE history'[n] = log'[n]
  <2>1. CASE n = 1
    BY <2>1, <1>1, <1>4, <1>5, <1>8
  <2>2. CASE n # 1
    <3>1. n - 1 \in 1 .. Len(kept) /\ history'[n] = kept[n - 1]
      BY <2>2, <1>4, <1>5
    <3>2. n - 1 \in 1 .. Len(history) /\ n - 1 \in DOMAIN log
      BY <3>1, <1>3, <1>4, <1>8, <1>9
    <3>3. history[n - 1] = log[n - 1]
      BY <3>2 DEF HistoryIsRecent
    <3> QED
      BY <3>1, <3>2, <3>3, <1>4, <1>8
  <2> QED
    BY <2>1, <2>2
<1> QED
  BY <1>5, <1>6, <1>10, <1>11 DEF HistoryIsRecent

-----------------------------------------------------------------------------
\* An upsert removes no node of any tenant; when it answers Created, the node was
\* not there and is now.
LEMMA UpsertStores ==
  ASSUME NEW t \in Tenant, NEW i \in Id, NEW d \in Doc, NEW out, upsert(t, i, d, out)
  PROVE  /\ \A u \in Tenant, j \in Id : Stored(u, j) => Stored(u, j)'
         /\ out = Created => ~Stored(t, i) /\ Stored(t, i)'
<1>1. CASE rows' = rows /\ out = Err
  BY <1>1, SentinelAssumption DEF Stored
<1>2. CASE /\ rows' = Written(t, i, d, now')
           /\ out = Created => Conflicting(t, i) = {}
  <2>1. ASSUME NEW u \in Tenant, NEW j \in Id, Stored(u, j)
        PROVE  Stored(u, j)'
    <3>1. PICK r \in rows : r.tenant = u /\ r.id = j
      BY <2>1 DEF Stored
    <3>2. CASE r \in Conflicting(t, i)
      <4>1. Rewritten(r, d, now') \in rows'
        BY <3>2, <1>2 DEF Written, Overwritten
      <4>2. Rewritten(r, d, now').tenant = u /\ Rewritten(r, d, now').id = j
        BY <3>1 DEF Rewritten, Version
      <4> QED
        BY <4>1, <4>2 DEF Stored
    <3>3. CASE r \notin Conflicting(t, i)
      BY <3>1, <3>3, <1>2 DEF Written, Stored
    <3> QED
      BY <3>2, <3>3
  <2>2. ASSUME out = Created PROVE ~Stored(t, i) /\ Stored(t, i)'
    <3>1. Conflicting(t, i) = {}
      BY <2>2, <1>2
    <3>2. ~Stored(t, i)
      BY <3>1 DEF Conflicting, Stored
    <3>3. Version(t, i, d, now', now') \in rows'
      BY <3>1, <1>2 DEF Written, Overwritten
    <3>4. Version(t, i, d, now', now').tenant = t /\ Version(t, i, d, now', now').id = i
      BY DEF Version
    <3> QED
      BY <3>2, <3>3, <3>4 DEF Stored
  <2> QED
    BY <2>1, <2>2
<1>3. upsert(t, i, d, out) =>
        \/ rows' = rows /\ out = Err
        \/ rows' = Written(t, i, d, now') /\ (out = Created => Conflicting(t, i) = {})
  BY SentinelAssumption DEF upsert
<1> QED
  BY <1>1, <1>2, <1>3

-----------------------------------------------------------------------------
\* Inductive: the types with what keeps the repository's rows well formed.
TypeInv == TypeOK /\ PrimaryKey /\ TimesOrdered

\* A store calls the repository once and leaves its result to be recorded.
LEMMA StorePends ==
  ASSUME NEW h \in Handler, NEW t \in Tenant, NEW node \in Id \cup {None}, NEW d \in Doc,
         Store(h, t, node, d)
  PROVE  /\ pending[h] = None
         /\ UNCHANGED <<metrics, history, log, cleared>>
         /\ \E i \in Id, out \in {Created, Updated, Err} :
              /\ upsert(t, i, d, out)
              /\ \/ pending' = pending
                 \/ pending' = [pending EXCEPT ![h] = HistoryEvent("STORE", t, i, out = Created)]
<1>1. PICK i \in node_ids(node), out \in {Created, Updated, Err} :
             /\ upsert(t, i, d, out)
             /\ \/ out = Err /\ pending' = pending
                \/ /\ out # Err
                   /\ pending' = [pending EXCEPT ![h] = HistoryEvent("STORE", t, i, created(out))]
  BY DEF Store
<1>2. i \in Id
  BY <1>1 DEF node_ids
<1> QED
  BY <1>1, <1>2 DEF Store, Accept, created, dashboardVars, ghostVars

\* The two ways to store a node are one, for a tenant.
LEMMA StoreTenants ==
  ASSUME NEW h \in Handler, NEW node, NEW d,
         \/ \E hint \in Tenant \cup {None} : api_store(h, hint, node, d)
         \/ upsert_node(h, node, d)
  PROVE  \E t \in Tenant : Store(h, t, node, d)
  BY ApiAssumption DEF api_store, upsert_node, tenant_of

\* What each step of NodeApi does, with its parameters.
LEMMA NextCases ==
  ASSUME Next
  PROVE  \/ \E h \in Handler, t \in Tenant, node \in Id \cup {None}, d \in Doc : Store(h, t, node, d)
         \/ \E h \in Handler, hint \in Tenant \cup {None}, i \in Id : api_lookup(h, hint, i)
         \/ \E h \in Handler, hint \in Tenant \cup {None} : api_purge(h, hint)
         \/ \E h \in Handler : Record(h)
         \/ api_history_clear
         \/ Restart
  BY StoreTenants DEF Next

\* A lookup leaves its event to be recorded.
LEMMA LookupPends ==
  ASSUME NEW h \in Handler, NEW hint \in Tenant \cup {None}, NEW i \in Id, api_lookup(h, hint, i)
  PROVE  /\ pending[h] = None
         /\ UNCHANGED <<rows, now, metrics, history, log, cleared>>
         /\ \E t \in Tenant, hit \in BOOLEAN :
              pending' = [pending EXCEPT ![h] = HistoryEvent("LOOKUP", t, i, hit)]
<1>1. tenant_of(hint) \in Tenant
  BY ApiAssumption DEF tenant_of
<1>2. PICK found \in get(tenant_of(hint), i) :
             pending' = [pending EXCEPT ![h] = HistoryEvent("LOOKUP", tenant_of(hint), i, found \in rows)]
  BY DEF api_lookup
<1>3. (found \in rows) \in BOOLEAN
  OBVIOUS
<1> QED
  BY <1>1, <1>2, <1>3 DEF api_lookup, Accept, repoVars, dashboardVars, ghostVars

\* A purge records one event, for a tenant.
LEMMA PurgeRecords ==
  ASSUME NEW h \in Handler, NEW hint \in Tenant \cup {None}, api_purge(h, hint)
  PROVE  \E e \in Events :
           /\ e.type = "PURGE" /\ record_purge(e) /\ Logged(e)
           /\ UNCHANGED <<rows, now, pending>>
<1> DEFINE e == HistoryEvent("PURGE", tenant_of(hint), None, FALSE)
<1>1. tenant_of(hint) \in Tenant
  BY ApiAssumption DEF tenant_of
<1>2. e \in Events /\ e.type = "PURGE"
  BY <1>1 DEF Events, HistoryEvent
<1> QED
  BY <1>2 DEF api_purge, repoVars

\* What is recorded was pending.
LEMMA RecordPending ==
  ASSUME TypeOK, NEW h \in Handler, Record(h)
  PROVE  /\ pending[h] \in Events
         /\ record_store(pending[h]) \/ record_lookup(pending[h])
         /\ push_history(pending[h]) /\ Logged(pending[h])
         /\ pending' = [pending EXCEPT ![h] = None]
         /\ UNCHANGED <<rows, now>>
  BY DEF Record, TypeOK, record_store, record_lookup, repoVars

\* Counting one more keeps counters that are numbers.
LEMMA CountedOnce ==
  ASSUME NEW Fields, NEW m \in [Fields -> Nat], NEW x \in Fields
  PROVE  [m EXCEPT ![x] = @ + 1] \in [Fields -> Nat]
  OBVIOUS

\* The three kinds of record leave numbers in the metrics.
LEMMA MetricsStay ==
  ASSUME DashboardTypeOK, NEW e \in Events, record_store(e) \/ record_lookup(e) \/ record_purge(e)
  PROVE  metrics' \in [DOMAIN NoMetrics -> Nat]
<1> DEFINE Fields == {"total_stores", "total_lookups", "total_purges", "cache_hits", "cache_misses"}
           more(m, x) == [m EXCEPT ![x] = @ + 1]
<1>1. DOMAIN NoMetrics = Fields
  BY DEF NoMetrics
<1>2. metrics \in [Fields -> Nat]
  BY <1>1 DEF DashboardTypeOK
<1>3. \A x \in Fields : more(metrics, x) \in [Fields -> Nat]
  BY <1>2, CountedOnce
<1>4. \A m \in [Fields -> Nat], x \in Fields : more(m, x) \in [Fields -> Nat]
  BY CountedOnce
<1>5. \/ metrics' = more(metrics, "total_stores")
      \/ metrics' = more(metrics, "total_purges")
      \/ metrics' = more(more(metrics, "total_lookups"), "cache_hits")
      \/ metrics' = more(more(metrics, "total_lookups"), "cache_misses")
  BY <1>2 DEF record_store, record_lookup, record_purge, looked_up
<1> HIDE DEF more
<1>6. metrics' \in [Fields -> Nat]
  BY <1>3, <1>4, <1>5
<1> QED
  BY <1>1, <1>6

-----------------------------------------------------------------------------
\* A handler with nothing pending tells nobody of a creation.
LEMMA NoneCreates ==
  ASSUME NEW t \in Tenant, NEW i \in Id
  PROVE  ~Creates(None, t, i)
<1>1. HistoryEvent("STORE", t, i, TRUE) \in Events
  BY DEF HistoryEvent, Events
<1> QED
  BY <1>1, NoneAssumption DEF Creates

Pendings == {None} \cup {e \in Events : e.type # "PURGE"}

\* One step keeps the types, and the rows well formed.
LEMMA TypeStep ==
  ASSUME TypeInv, HistoryIsRecent, [Next]_vars
  PROVE  TypeInv' /\ HistoryIsRecent'
<1> USE DEF Pendings
<1>1. ASSUME NEW h \in Handler, NEW t \in Tenant, NEW node \in Id \cup {None}, NEW d \in Doc,
             Store(h, t, node, d)
      PROVE  TypeInv' /\ HistoryIsRecent'
  <2>1. PICK i \in Id, out \in {Created, Updated, Err} :
               /\ upsert(t, i, d, out)
               /\ \/ pending' = pending
                  \/ pending' = [pending EXCEPT ![h] = HistoryEvent("STORE", t, i, out = Created)]
    BY <1>1, StorePends
  <2>2. UNCHANGED <<metrics, history, log, cleared>>
    BY <1>1, StorePends
  <2>3. (RepoTypeOK /\ PrimaryKey /\ TimesOrdered)'
    BY <2>1, UpsertPreserves DEF TypeInv, TypeOK, RepoInv
  <2>4. HistoryEvent("STORE", t, i, out = Created) \in Pendings
    BY DEF HistoryEvent, Events
  <2>5. pending' \in [Handler -> Pendings]
    BY <2>1, <2>4 DEF TypeInv, TypeOK
  <2>6. HistoryIsRecent'
    BY <2>2 DEF HistoryIsRecent
  <2> QED
    BY <2>2, <2>3, <2>5, <2>6 DEF TypeInv, TypeOK, DashboardTypeOK
<1>2. ASSUME NEW h \in Handler, NEW hint \in Tenant \cup {None}, NEW i \in Id,
             api_lookup(h, hint, i)
      PROVE  TypeInv' /\ HistoryIsRecent'
  <2>1. UNCHANGED <<rows, now, metrics, history, log, cleared>>
    BY <1>2, LookupPends
  <2>2. PICK t \in Tenant, hit \in BOOLEAN :
               pending' = [pending EXCEPT ![h] = HistoryEvent("LOOKUP", t, i, hit)]
    BY <1>2, LookupPends
  <2>3. HistoryEvent("LOOKUP", t, i, hit) \in Pendings
    BY DEF HistoryEvent, Events
  <2>4. pending' \in [Handler -> Pendings]
    BY <2>2, <2>3 DEF TypeInv, TypeOK
  <2> QED
    BY <2>1, <2>4 DEF TypeInv, TypeOK, DashboardTypeOK, RepoTypeOK, PrimaryKey,
                      TimesOrdered, HistoryIsRecent
<1>3. ASSUME NEW e \in Events, record_store(e) \/ record_lookup(e) \/ record_purge(e),
             Logged(e), UNCHANGED <<rows, now>>, pending' \in [Handler -> Pendings]
      PROVE  TypeInv' /\ HistoryIsRecent'
  <2>1. push_history(e)
    BY <1>3 DEF record_store, record_lookup, record_purge
  <2>2. history' \in Seq(Events) /\ Len(history') <= MaxHistory /\ HistoryIsRecent'
    BY <1>3, <2>1, PushKeepsRecent DEF TypeInv
  <2>3. metrics' \in [DOMAIN NoMetrics -> Nat]
    BY <1>3, MetricsStay DEF TypeInv, TypeOK
  <2>4. /\ log \in Seq(Events) /\ cleared \in 0 .. Len(log)
    BY DEF TypeInv, TypeOK
  <2>5. log' \in Seq(Events) /\ cleared' = cleared /\ Len(log) \in Nat /\ Len(log') = Len(log) + 1
    BY <1>3, <2>4, LogGrows
  <2>6. cleared' \in 0 .. Len(log')
    BY <2>4, <2>5
  <2>7. (RepoTypeOK /\ PrimaryKey /\ TimesOrdered)'
    BY <1>3 DEF TypeInv, TypeOK, RepoTypeOK, PrimaryKey, TimesOrdered
  <2> QED
    BY <1>3, <2>2, <2>3, <2>5, <2>6, <2>7 DEF TypeInv, TypeOK, DashboardTypeOK
<1>4. ASSUME NEW h \in Handler, NEW hint \in Tenant \cup {None}, api_purge(h, hint)
      PROVE  TypeInv' /\ HistoryIsRecent'
  <2>1. PICK e \in Events : /\ record_purge(e) /\ Logged(e)
                            /\ UNCHANGED <<rows, now, pending>>
    BY <1>4, PurgeRecords
  <2> QED
    BY <2>1, <1>3 DEF TypeInv, TypeOK
<1>5. ASSUME NEW h \in Handler, Record(h)
      PROVE  TypeInv' /\ HistoryIsRecent'
  <2>1. /\ pending[h] \in Events
        /\ record_store(pending[h]) \/ record_lookup(pending[h])
        /\ Logged(pending[h]) /\ UNCHANGED <<rows, now>>
        /\ pending' = [pending EXCEPT ![h] = None]
    BY <1>5, RecordPending DEF TypeInv
  <2>2. pending' \in [Handler -> Pendings]
    BY <2>1 DEF TypeInv, TypeOK
  <2> QED
    BY <2>1, <2>2, <1>3
<1>6. CASE api_history_clear
  <2>1. /\ history' = <<>> /\ UNCHANGED <<rows, now, metrics, pending, log>>
        /\ cleared' = Len(log)
    BY <1>6 DEF api_history_clear, clear_history, repoVars
  <2>2. /\ Len(log) \in Nat /\ history' \in Seq(Events) /\ Len(history') = 0
    BY <2>1, LenProperties, EmptySeq DEF TypeInv, TypeOK
  <2>3. HistoryIsRecent'
    BY <2>1, <2>2, HistoryAssumption DEF HistoryIsRecent
  <2> QED
    BY <2>1, <2>2, <2>3, HistoryAssumption
    DEF TypeInv, TypeOK, DashboardTypeOK, RepoTypeOK, PrimaryKey, TimesOrdered
<1>7. CASE Restart
  <2>1. /\ rows' \in {{}, rows} /\ now' = now /\ metrics' = NoMetrics
        /\ history' = <<>> /\ log' = <<>> /\ cleared' = 0
        /\ pending' = [h \in Handler |-> None]
    BY <1>7 DEF Restart
  <2>2. /\ history' \in Seq(Events) /\ Len(history') = 0
        /\ log' \in Seq(Events) /\ Len(log') = 0
    BY <2>1, EmptySeq
  <2>3. HistoryIsRecent'
    BY <2>1, <2>2, HistoryAssumption DEF HistoryIsRecent
  <2>4. (RepoTypeOK /\ PrimaryKey /\ TimesOrdered)'
    BY <2>1 DEF TypeInv, TypeOK, RepoTypeOK, PrimaryKey, TimesOrdered
  <2>5. NoMetrics \in [DOMAIN NoMetrics -> Nat]
    BY DEF NoMetrics
  <2> QED
    BY <2>1, <2>2, <2>3, <2>4, <2>5, HistoryAssumption DEF TypeInv, TypeOK, DashboardTypeOK
<1>8. CASE UNCHANGED vars
  BY <1>8 DEF TypeInv, TypeOK, DashboardTypeOK, RepoTypeOK, PrimaryKey, TimesOrdered,
              HistoryIsRecent, vars, repoVars, dashboardVars, ghostVars
<1> QED
  BY <1>1, <1>2, <1>4, <1>5, <1>6, <1>7, <1>8, NextCases

Inv == TypeInv /\ HistoryIsRecent /\ CreatedOnce

\* A node some store was told it created, or is about to be told.
Claimed(t, i) == Told(t, i) \/ \E h \in Handler : Tells(h, t, i)

\* A step that records nothing, and leaves one handler with what is not a new
\* claim to a node, keeps the claims as they are.
LEMMA SameClaims ==
  ASSUME Inv, UNCHANGED log, pending' \in [Handler -> Pendings],
         NEW t \in Tenant, NEW i \in Id,
         \A g \in Handler : Tells(g, t, i)' => Tells(g, t, i),
         Stored(t, i) => Stored(t, i)'
  PROVE  /\ \A m, n \in DOMAIN log' :
              Creates(log'[m], t, i) /\ Creates(log'[n], t, i) => m = n
         /\ \A g, h \in Handler : Tells(g, t, i)' /\ Tells(h, t, i)' => g = h
         /\ Told(t, i)' => \A h \in Handler : ~Tells(h, t, i)'
         /\ Claimed(t, i)' => Stored(t, i)'
<1>1. Told(t, i)' <=> Told(t, i)
  BY DEF Told, Creates, HistoryEvent
<1>2. /\ \A m, n \in DOMAIN log : Creates(log[m], t, i) /\ Creates(log[n], t, i) => m = n
      /\ \A g, h \in Handler : Tells(g, t, i) /\ Tells(h, t, i) => g = h
      /\ Told(t, i) => \A h \in Handler : ~Tells(h, t, i)
      /\ Told(t, i) \/ (\E h \in Handler : Tells(h, t, i)) => Stored(t, i)
  BY DEF Inv, CreatedOnce, Stored
<1> QED
  BY <1>1, <1>2 DEF Claimed

\* The parts of CreatedOnce, for one node, put together.
LEMMA CreatedOnceParts ==
  CreatedOnce <=>
    \A t \in Tenant, i \in Id :
      /\ \A m, n \in DOMAIN log : Creates(log[m], t, i) /\ Creates(log[n], t, i) => m = n
      /\ \A g, h \in Handler : Tells(g, t, i) /\ Tells(h, t, i) => g = h
      /\ Told(t, i) => \A h \in Handler : ~Tells(h, t, i)
      /\ Claimed(t, i) => Stored(t, i)
  BY DEF CreatedOnce, Claimed, Stored

\* One step tells no second store that it created a node that some store did.
LEMMA CreatedStep ==
  ASSUME Inv, [Next]_vars, TypeInv'
  PROVE  CreatedOnce'
<1> USE DEF Pendings
<1> SUFFICES ASSUME NEW t \in Tenant, NEW i \in Id
             PROVE
      /\ \A m, n \in DOMAIN log' : Creates(log'[m], t, i) /\ Creates(log'[n], t, i) => m = n
      /\ \A g, h \in Handler : Tells(g, t, i)' /\ Tells(h, t, i)' => g = h
      /\ Told(t, i)' => \A h \in Handler : ~Tells(h, t, i)'
      /\ Claimed(t, i)' => Stored(t, i)'
  BY DEF CreatedOnce, Claimed, Stored
<1>a. /\ \A m, n \in DOMAIN log : Creates(log[m], t, i) /\ Creates(log[n], t, i) => m = n
      /\ \A g, h \in Handler : Tells(g, t, i) /\ Tells(h, t, i) => g = h
      /\ Told(t, i) => \A h \in Handler : ~Tells(h, t, i)
      /\ Claimed(t, i) => Stored(t, i)
  BY CreatedOnceParts DEF Inv
<1>b. pending \in [Handler -> Pendings] /\ pending' \in [Handler -> Pendings]
  BY DEF Inv, TypeInv, TypeOK
<1>c. \A u \in Tenant, j \in Id : ~Creates(None, u, j)
  BY NoneCreates
<1>1. ASSUME NEW h \in Handler, NEW u \in Tenant, NEW node \in Id \cup {None}, NEW d \in Doc,
             Store(h, u, node, d), ~Claimed(t, i)
      PROVE  /\ \A g \in Handler : Tells(g, t, i)' => g = h
             /\ UNCHANGED log /\ (Claimed(t, i)' => Stored(t, i)')
  <2>1. PICK j \in Id, out \in {Created, Updated, Err} :
               /\ upsert(u, j, d, out)
               /\ \/ pending' = pending
                  \/ pending' = [pending EXCEPT ![h] = HistoryEvent("STORE", u, j, out = Created)]
    BY <1>1, StorePends
  <2>2. UNCHANGED log
    BY <1>1, StorePends
  <2>3. \A g \in Handler : ~Tells(g, t, i) /\ ~Told(t, i)
    BY <1>1 DEF Claimed
  <2>4. ~Told(t, i)'
    BY <2>2, <2>3 DEF Told
  <2>5. ASSUME NEW g \in Handler, Tells(g, t, i)'
        PROVE  g = h /\ Stored(t, i)'
    <3>1. g = h /\ HistoryEvent("STORE", u, j, out = Created) = HistoryEvent("STORE", t, i, TRUE)
      BY <2>1, <2>3, <2>5, <1>b DEF Tells, Creates
    <3>2. u = t /\ j = i /\ out = Created
      BY <3>1 DEF HistoryEvent
    <3> QED
      BY <3>1, <3>2, <2>1, UpsertStores
  <2> QED
    BY <2>2, <2>4, <2>5 DEF Claimed
<1>2. ASSUME NEW h \in Handler, NEW u \in Tenant, NEW node \in Id \cup {None}, NEW d \in Doc,
             Store(h, u, node, d), Claimed(t, i)
      PROVE  /\ UNCHANGED log /\ Stored(t, i)'
             /\ \A g \in Handler : Tells(g, t, i)' => Tells(g, t, i)
  <2>1. PICK j \in Id, out \in {Created, Updated, Err} :
               /\ upsert(u, j, d, out)
               /\ \/ pending' = pending
                  \/ pending' = [pending EXCEPT ![h] = HistoryEvent("STORE", u, j, out = Created)]
    BY <1>2, StorePends
  <2>2. Stored(t, i) /\ Stored(t, i)' /\ (out = Created => ~Stored(u, j))
    BY <1>a, <1>2, <2>1, UpsertStores
  <2>3. ASSUME NEW g \in Handler, Tells(g, t, i)', ~Tells(g, t, i) PROVE FALSE
    <3>1. HistoryEvent("STORE", u, j, out = Created) = HistoryEvent("STORE", t, i, TRUE)
      BY <2>1, <2>3, <1>b DEF Tells, Creates
    <3>2. u = t /\ j = i /\ out = Created
      BY <3>1 DEF HistoryEvent
    <3> QED
      BY <3>2, <2>2
  <2> QED
    BY <1>2, <2>2, <2>3, StorePends
<1>3. ASSUME NEW h \in Handler, NEW u \in Tenant, NEW node \in Id \cup {None}, NEW d \in Doc,
             Store(h, u, node, d)
      PROVE
      /\ \A m, n \in DOMAIN log' : Creates(log'[m], t, i) /\ Creates(log'[n], t, i) => m = n
      /\ \A f, g \in Handler : Tells(f, t, i)' /\ Tells(g, t, i)' => f = g
      /\ Told(t, i)' => \A g \in Handler : ~Tells(g, t, i)'
      /\ Claimed(t, i)' => Stored(t, i)'
  <2>1. CASE Claimed(t, i)
    BY <1>2, <1>3, <1>b, <2>1, SameClaims
  <2>2. CASE ~Claimed(t, i)
    <3>1. /\ \A g \in Handler : Tells(g, t, i)' => g = h
          /\ UNCHANGED log /\ (Claimed(t, i)' => Stored(t, i)')
      BY <1>1, <1>3, <2>2
    <3>2. ~Told(t, i) /\ ~Told(t, i)'
      BY <2>2, <3>1 DEF Claimed, Told
    <3> QED
      BY <3>1, <3>2, <1>a
  <2> QED
    BY <2>1, <2>2
<1>4. ASSUME NEW h \in Handler, NEW hint \in Tenant \cup {None}, NEW j \in Id,
             api_lookup(h, hint, j)
      PROVE  UNCHANGED <<rows, log>> /\ \A g \in Handler : Tells(g, t, i)' => Tells(g, t, i)
  <2>1. PICK u \in Tenant, hit \in BOOLEAN :
               pending' = [pending EXCEPT ![h] = HistoryEvent("LOOKUP", u, j, hit)]
    BY <1>4, LookupPends
  <2>2. ~Creates(HistoryEvent("LOOKUP", u, j, hit), t, i)
    BY DEF Creates, HistoryEvent
  <2> QED
    BY <1>4, <1>b, <2>1, <2>2, LookupPends DEF Tells
<1>5. ASSUME NEW e \in Events, Logged(e)
      PROVE  /\ Told(t, i)' => Told(t, i) \/ Creates(e, t, i)
             /\ (Creates(e, t, i) => ~Told(t, i)) =>
                  \A m, n \in DOMAIN log' : Creates(log'[m], t, i) /\ Creates(log'[n], t, i) => m = n
  <2>1. log \in Seq(Events)
    BY DEF Inv, TypeInv, TypeOK
  <2>2. /\ Len(log) \in Nat /\ DOMAIN log = 1 .. Len(log)
        /\ Len(log') = Len(log) + 1 /\ DOMAIN log' = 1 .. Len(log')
        /\ log'[1] = e
        /\ \A n \in DOMAIN log' : n = 1 \/ (n - 1 \in DOMAIN log /\ log'[n] = log[n - 1])
    BY <1>5, <2>1, LogGrows
  <2>3. ASSUME NEW n \in DOMAIN log', Creates(log'[n], t, i)
        PROVE  (n = 1 /\ Creates(e, t, i)) \/ (Told(t, i) /\ n - 1 \in DOMAIN log /\ Creates(log[n - 1], t, i))
    BY <2>2, <2>3 DEF Told
  <2>4. ASSUME Creates(e, t, i) => ~Told(t, i), NEW m \in DOMAIN log', NEW n \in DOMAIN log',
               Creates(log'[m], t, i), Creates(log'[n], t, i)
        PROVE  m = n
    <3>1. CASE Creates(e, t, i)
      BY <3>1, <2>3, <2>4
    <3>2. CASE ~Creates(e, t, i)
      <4>1. m - 1 = n - 1
        BY <3>2, <2>3, <2>4, <1>a
      <4> QED
        BY <4>1, <2>2
    <3> QED
      BY <3>1, <3>2
  <2> QED
    BY <2>3, <2>4 DEF Told
<1>6. ASSUME NEW h \in Handler, NEW hint \in Tenant \cup {None}, api_purge(h, hint)
      PROVE
      /\ \A m, n \in DOMAIN log' : Creates(log'[m], t, i) /\ Creates(log'[n], t, i) => m = n
      /\ \A f, g \in Handler : Tells(f, t, i)' /\ Tells(g, t, i)' => f = g
      /\ Told(t, i)' => \A g \in Handler : ~Tells(g, t, i)'
      /\ Claimed(t, i)' => Stored(t, i)'
  <2>1. PICK e \in Events : /\ e.type = "PURGE" /\ Logged(e)
                            /\ UNCHANGED <<rows, pending>>
    BY <1>6, PurgeRecords
  <2>2. ~Creates(e, t, i)
    BY <2>1 DEF Creates, HistoryEvent
  <2>3. Told(t, i)' => Told(t, i)
    BY <2>1, <2>2, <1>5
  <2>4. \A g \in Handler : Tells(g, t, i)' <=> Tells(g, t, i)
    BY <2>1 DEF Tells
  <2>5. Stored(t, i)' <=> Stored(t, i)
    BY <2>1 DEF Stored
  <2>6. \A m, n \in DOMAIN log' : Creates(log'[m], t, i) /\ Creates(log'[n], t, i) => m = n
    BY <2>1, <2>2, <1>5
  <2> QED
    BY <2>3, <2>4, <2>5, <2>6, <1>a DEF Claimed
<1>7. ASSUME NEW h \in Handler, Record(h)
      PROVE
      /\ \A m, n \in DOMAIN log' : Creates(log'[m], t, i) /\ Creates(log'[n], t, i) => m = n
      /\ \A f, g \in Handler : Tells(f, t, i)' /\ Tells(g, t, i)' => f = g
      /\ Told(t, i)' => \A g \in Handler : ~Tells(g, t, i)'
      /\ Claimed(t, i)' => Stored(t, i)'
  <2>1. /\ pending[h] \in Events /\ Logged(pending[h]) /\ UNCHANGED rows
        /\ pending' = [pending EXCEPT ![h] = None]
    BY <1>7, RecordPending DEF Inv, TypeInv
  <2>2. Told(t, i)' => Told(t, i) \/ Tells(h, t, i)
    BY <2>1, <1>5 DEF Tells
  <2>3. \A m, n \in DOMAIN log' : Creates(log'[m], t, i) /\ Creates(log'[n], t, i) => m = n
    BY <2>1, <1>5, <1>a DEF Tells
  <2>4. \A g \in Handler : Tells(g, t, i)' => g # h /\ Tells(g, t, i)
    BY <2>1, <1>b, <1>c DEF Tells
  <2>5. Stored(t, i)' <=> Stored(t, i)
    BY <2>1 DEF Stored
  <2> QED
    BY <2>2, <2>3, <2>4, <2>5, <1>a DEF Claimed
<1>8. CASE Restart
  <2>1. log' = <<>> /\ \A g \in Handler : pending'[g] = None
    BY <1>8 DEF Restart
  <2>2. DOMAIN log' = {}
    BY <2>1
  <2> QED
    BY <2>1, <2>2, <1>c DEF Told, Tells, Claimed
<1>9. ASSUME UNCHANGED <<rows, log, pending>>
      PROVE  UNCHANGED <<rows, log>> /\ \A g \in Handler : Tells(g, t, i)' => Tells(g, t, i)
  BY <1>9 DEF Tells
<1>10. ASSUME UNCHANGED <<rows, log>>, \A g \in Handler : Tells(g, t, i)' => Tells(g, t, i)
       PROVE
      /\ \A m, n \in DOMAIN log' : Creates(log'[m], t, i) /\ Creates(log'[n], t, i) => m = n
      /\ \A g, h \in Handler : Tells(g, t, i)' /\ Tells(h, t, i)' => g = h
      /\ Told(t, i)' => \A h \in Handler : ~Tells(h, t, i)'
      /\ Claimed(t, i)' => Stored(t, i)'
  <2>1. Stored(t, i) => Stored(t, i)'
    BY <1>10 DEF Stored
  <2> QED
    BY <1>10, <2>1, <1>b, SameClaims
<1>11. CASE api_history_clear \/ UNCHANGED vars
  <2>1. UNCHANGED <<rows, log, pending>>
    BY <1>11 DEF api_history_clear, vars, repoVars, ghostVars
  <2> QED
    BY <2>1, <1>9, <1>10
<1> QED
  BY <1>3, <1>4, <1>6, <1>7, <1>8, <1>10, <1>11, NextCases

-----------------------------------------------------------------------------
\* At the start nothing is stored, recorded or pending.
LEMMA InitInv ==
  ASSUME Init
  PROVE  Inv
<1>1. /\ rows = {} /\ now = 0 /\ metrics = NoMetrics
      /\ history = <<>> /\ log = <<>> /\ cleared = 0
      /\ pending = [h \in Handler |-> None]
  BY DEF Init, RepoInit, DashboardInit
<1>2. /\ history \in Seq(Events) /\ Len(history) = 0
      /\ log \in Seq(Events) /\ Len(log) = 0
  BY <1>1, EmptySeq
<1>3. NoMetrics \in [DOMAIN NoMetrics -> Nat]
  BY DEF NoMetrics
<1>4. TypeInv /\ HistoryIsRecent
  BY <1>1, <1>2, <1>3, HistoryAssumption
  DEF TypeInv, TypeOK, DashboardTypeOK, RepoTypeOK, PrimaryKey, TimesOrdered, HistoryIsRecent
<1>5. CreatedOnce
  <2>1. \A t \in Tenant, i \in Id : ~Creates(None, t, i)
    BY NoneCreates
  <2>2. DOMAIN log = {} /\ \A h \in Handler : pending[h] = None
    BY <1>1
  <2> QED
    BY <2>1, <2>2 DEF CreatedOnce, Told, Tells
<1> QED
  BY <1>4, <1>5 DEF Inv

\* The invariant is inductive.
LEMMA InvHolds == Spec => []Inv
<1>1. Inv /\ [Next]_vars => Inv'
  BY TypeStep, CreatedStep DEF Inv
<1> QED
  BY <1>1, InitInv, PTL DEF Spec

\* For both backends and any number of concurrent requests, failures and
\* restarts, the variables have their types, and the history its bound.
THEOREM ApiTypes == Spec => []TypeOK
<1>1. Inv => TypeOK
  BY DEF Inv, TypeInv
<1> QED
  BY <1>1, InvHolds, PTL

\* The history is the latest recorded events since it was cleared, newest first,
\* as many as MaxHistory allows, whatever MaxHistory is.
THEOREM HistoryStaysRecent == Spec => []HistoryIsRecent
<1>1. Inv => HistoryIsRecent
  BY DEF Inv
<1> QED
  BY <1>1, InvHolds, PTL

\* Of any number of concurrent stores of a node at most one is told that it
\* created the node, since the start of the process.
THEOREM OneCreation == Spec => []CreatedOnce
<1>1. Inv => CreatedOnce
  BY DEF Inv
<1> QED
  BY <1>1, InvHolds, PTL

-----------------------------------------------------------------------------
(***************************************************************************)
(* The counters.  What a counter counts is a set of positions of the log,  *)
(* and a new event moves all of them by one: the positions before and      *)
(* after are as many, but for the new event's own.                         *)
(***************************************************************************)
\* Where a log has an event of S.
Positions(L, S) == {n \in DOMAIN L : L[n] \in S}

Stores  == {e \in Events : e.type = "STORE"}
Lookups == {e \in Events : e.type = "LOOKUP"}
Purges  == {e \in Events : e.type = "PURGE"}
Hits    == {e \in Lookups : e.flag}

\* The sets that the counters count.
LEMMA CountedPositions ==
  ASSUME NEW L \in Seq(Events)
  PROVE  /\ Positions(L, Stores) = {n \in DOMAIN L : L[n].type = "STORE"}
         /\ Positions(L, Lookups) = {n \in DOMAIN L : L[n].type = "LOOKUP"}
         /\ Positions(L, Purges) = {n \in DOMAIN L : L[n].type = "PURGE"}
         /\ Positions(L, Hits) = {n \in DOMAIN L : L[n].type = "LOOKUP" /\ L[n].flag}
<1>1. \A n \in DOMAIN L : L[n] \in Events
  OBVIOUS
<1> QED
  BY <1>1 DEF Positions, Stores, Lookups, Purges, Hits

\* A log is finite, and so are its positions.
LEMMA PositionsFinite ==
  ASSUME NEW L \in Seq(Events), NEW S
  PROVE  IsFiniteSet(Positions(L, S)) /\ Cardinality(Positions(L, S)) \in Nat
<1>1. Len(L) \in Nat /\ DOMAIN L = 1 .. Len(L)
  BY LenProperties
<1>2. IsFiniteSet(1 .. Len(L))
  BY <1>1, FS_Interval
<1>3. Positions(L, S) \in SUBSET (1 .. Len(L))
  BY <1>1 DEF Positions
<1>4. IsFiniteSet(Positions(L, S))
  BY <1>2, <1>3, FS_Subset
<1> QED
  BY <1>4, FS_CardinalityType

\* An empty log has nothing to count.
LEMMA NothingCounted ==
  ASSUME log = <<>>, metrics = NoMetrics
  PROVE  CountersAddUp
<1>1. log \in Seq(Events) /\ DOMAIN log = {}
  OBVIOUS
<1>2. \A S : Positions(log, S) = {}
  BY <1>1 DEF Positions
<1> QED
  BY <1>1, <1>2, CountedPositions, FS_EmptySet DEF CountersAddUp, Count, NoMetrics

\* A recorded event adds one position to those of its kind, and to no others.
LEMMA PositionsGrow ==
  ASSUME log \in Seq(Events), NEW e \in Events, Logged(e), NEW S
  PROVE  Cardinality(Positions(log', S)) = Cardinality(Positions(log, S)) + IF e \in S THEN 1 ELSE 0
<1> DEFINE old == Positions(log, S)
           moved == {n \in DOMAIN log' : n # 1 /\ log'[n] \in S}
           move == [n \in old |-> n + 1]
<1>1. /\ Len(log) \in Nat /\ Len(log') = Len(log) + 1
      /\ DOMAIN log = 1 .. Len(log) /\ DOMAIN log' = 1 .. Len(log')
      /\ log'[1] = e
      /\ \A n \in DOMAIN log : log'[n + 1] = log[n]
      /\ \A n \in DOMAIN log' : n = 1 \/ (n - 1 \in DOMAIN log /\ log'[n] = log[n - 1])
  BY LogGrows
<1>2. \A n \in old : n \in Nat /\ n + 1 \in moved
  BY <1>1 DEF Positions
<1>3. \A n \in moved : n - 1 \in old /\ (n - 1) + 1 = n
  BY <1>1 DEF Positions
<1>4. 1 \notin moved
  OBVIOUS
<1>5. Positions(log', S) = IF e \in S THEN moved \cup {1} ELSE moved
  <2>1. 1 \in DOMAIN log'
    BY <1>1
  <2> QED
    BY <1>1, <2>1 DEF Positions
<1>6. IsFiniteSet(old) /\ Cardinality(old) \in Nat
  BY PositionsFinite
<1> HIDE DEF old, moved
<1>7. move \in Bijection(old, moved)
  <2>1. move \in [old -> moved]
    BY <1>2
  <2>2. \A m, n \in old : move[m] = move[n] => m = n
    BY <1>2
  <2>3. \A n \in moved : \E m \in old : move[m] = n
    BY <1>3
  <2> QED
    BY <2>1, <2>2, <2>3, Fun_IsBij
<1>8. IsFiniteSet(moved) /\ Cardinality(moved) = Cardinality(old)
  BY <1>6, <1>7, FS_Bijection DEF ExistsBijection
<1>9. Cardinality(moved \cup {1}) = Cardinality(old) + 1
  BY <1>4, <1>8, FS_AddElement
<1> QED
  BY <1>5, <1>6, <1>8, <1>9 DEF old

\* What a recorded event does to the counters, it does to the positions.
LEMMA RecordCounts ==
  ASSUME TypeOK, CountersAddUp, NEW e \in Events, Logged(e),
         \/ e.type = "STORE" /\ record_store(e)
         \/ e.type = "LOOKUP" /\ record_lookup(e)
         \/ e.type = "PURGE" /\ record_purge(e)
  PROVE  CountersAddUp'
<1> DEFINE counted(S) == Cardinality(Positions(log, S))
<1>1. log \in Seq(Events) /\ log' \in Seq(Events)
  BY LogGrows DEF TypeOK
<1>2. /\ \A S : Cardinality(Positions(log', S)) = counted(S) + IF e \in S THEN 1 ELSE 0
      /\ \A S : counted(S) \in Nat
  BY <1>1, PositionsGrow, PositionsFinite
<1>3. /\ e \in Stores <=> e.type = "STORE"
      /\ e \in Lookups <=> e.type = "LOOKUP"
      /\ e \in Purges <=> e.type = "PURGE"
      /\ e \in Hits <=> e.type = "LOOKUP" /\ e.flag
  BY DEF Stores, Lookups, Purges, Hits
<1> DEFINE Fields == {"total_stores", "total_lookups", "total_purges", "cache_hits", "cache_misses"}
<1>4. metrics \in [Fields -> Nat]
  <2>1. DOMAIN NoMetrics = Fields
    BY DEF NoMetrics
  <2> QED
    BY <2>1 DEF TypeOK, DashboardTypeOK
<1>5. /\ metrics.total_stores = counted(Stores)
      /\ metrics.total_lookups = counted(Lookups)
      /\ metrics.total_purges = counted(Purges)
      /\ metrics.cache_hits = counted(Hits)
      /\ metrics.cache_hits + metrics.cache_misses = metrics.total_lookups
  BY <1>1, CountedPositions DEF CountersAddUp, Count
<1>6. /\ metrics'.total_stores = metrics.total_stores + IF e \in Stores THEN 1 ELSE 0
      /\ metrics'.total_lookups = metrics.total_lookups + IF e \in Lookups THEN 1 ELSE 0
      /\ metrics'.total_purges = metrics.total_purges + IF e \in Purges THEN 1 ELSE 0
      /\ metrics'.cache_hits = metrics.cache_hits + IF e \in Hits THEN 1 ELSE 0
      /\ metrics'.cache_misses =
           metrics.cache_misses + IF e \in Lookups /\ e \notin Hits THEN 1 ELSE 0
  <2>1. CASE e.type = "STORE" /\ record_store(e)
    BY <1>3, <1>4, <2>1 DEF record_store
  <2>2. CASE e.type = "PURGE" /\ record_purge(e)
    BY <1>3, <1>4, <2>2 DEF record_purge
  <2>3. CASE e.type = "LOOKUP" /\ e.flag /\ record_lookup(e)
    BY <1>3, <1>4, <2>3 DEF record_lookup, looked_up
  <2>4. CASE e.type = "LOOKUP" /\ ~e.flag /\ record_lookup(e)
    BY <1>3, <1>4, <2>4 DEF record_lookup, looked_up
  <2> QED
    BY <2>1, <2>2, <2>3, <2>4
<1>7. metrics'.cache_hits + metrics'.cache_misses = metrics'.total_lookups
  BY <1>3, <1>4, <1>5, <1>6
<1> HIDE DEF counted
<1>8. /\ metrics'.total_stores = Cardinality(Positions(log', Stores))
      /\ metrics'.total_lookups = Cardinality(Positions(log', Lookups))
      /\ metrics'.total_purges = Cardinality(Positions(log', Purges))
      /\ metrics'.cache_hits = Cardinality(Positions(log', Hits))
  BY <1>2, <1>5, <1>6
<1> QED
  BY <1>1, <1>7, <1>8, CountedPositions DEF CountersAddUp, Count

\* Whatever is recorded in whatever order, and whatever the history has dropped, the
\* counters agree with the log.
LEMMA CountersStep ==
  ASSUME Inv, CountersAddUp, [Next]_vars
  PROVE  CountersAddUp'
<1>1. ASSUME UNCHANGED <<metrics, log>> PROVE CountersAddUp'
  BY <1>1 DEF CountersAddUp, Count
<1>2. TypeOK
  BY DEF Inv, TypeInv
<1>3. ASSUME NEW h \in Handler, Record(h) PROVE CountersAddUp'
  <2>1. pending[h] \in Events /\ Logged(pending[h])
    BY <1>2, <1>3, RecordPending
  <2>2. \/ pending[h].type = "STORE" /\ record_store(pending[h])
        \/ pending[h].type = "LOOKUP" /\ record_lookup(pending[h])
    BY <1>3 DEF Record
  <2> QED
    BY <1>2, <2>1, <2>2, RecordCounts
<1>4. ASSUME NEW h \in Handler, NEW hint \in Tenant \cup {None}, api_purge(h, hint)
      PROVE  CountersAddUp'
  BY <1>2, <1>4, PurgeRecords, RecordCounts
<1>5. CASE Restart
  <2>1. log' = <<>> /\ metrics' = NoMetrics
    BY <1>5 DEF Restart
  <2>2. log' \in Seq(Events) /\ DOMAIN log' = {}
    BY <2>1
  <2>3. \A S : Positions(log', S) = {}
    BY <2>2 DEF Positions
  <2> QED
    BY <2>1, <2>2, <2>3, CountedPositions, FS_EmptySet DEF CountersAddUp, Count, NoMetrics
<1>6. CASE api_history_clear \/ UNCHANGED vars
  BY <1>1, <1>6 DEF api_history_clear, clear_history, vars, dashboardVars, ghostVars
<1> QED
  BY <1>1, <1>3, <1>4, <1>5, <1>6, NextCases, StorePends, LookupPends

\* Every request that was recorded since the start is counted once, under what it was,
\* and each lookup as a hit or a miss: also those the history has dropped or was
\* cleared of.
THEOREM CountersAreExact == Spec => []CountersAddUp
<1>1. Init => CountersAddUp
  <2>1. Init => log = <<>> /\ metrics = NoMetrics
    BY DEF Init, DashboardInit
  <2> QED
    BY <2>1, NothingCounted
<1>2. Inv /\ CountersAddUp /\ [Next]_vars => CountersAddUp'
  BY CountersStep
<1> QED
  BY <1>1, <1>2, InvHolds, PTL DEF Spec
=============================================================================
