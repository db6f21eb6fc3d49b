---------------------------- MODULE NodeStoreProofs ----------------------------
(***************************************************************************)
(* Theorems about every behaviour of NodeStore, for all values of its      *)
(* constants.  The inductive invariant adds the types, the primary key and *)
(* the order of the times to what is to be shown of the last call: the     *)
(* newest row of a key is the one just written only because no stored row  *)
(* is ahead of the clock.                                                  *)
(***************************************************************************)
EXTENDS NodeStore, NodeRepositoryProofs

\* Both backends keep tenants apart, except PostgreSQL with its policies off.
Scoped == Backend = "memory" \/ Rls

LEMMA InitRepoInv == Init => RepoInv /\ TypeOK
  BY DEF Init, NoCall, RepoInit, RepoInv, RepoTypeOK, PrimaryKey, TimesOrdered,
         TypeOK, Results

LEMMA NextRepoInv ==
  ASSUME RepoInv, TypeOK, [Next]_vars
  PROVE  RepoInv' /\ TypeOK'
<1>1. ASSUME NEW t \in Tenant, NEW i \in Id, NEW d \in Doc, Upsert(t, i, d)
      PROVE  RepoInv' /\ TypeOK'
  <2>1. PICK out \in {Created, Updated, Err} :
          upsert(t, i, d, out) /\ Called("upsert", t, <<i, d>>, out)
    BY <1>1 DEF Upsert
  <2>2. RepoInv'
    BY <2>1, UpsertPreserves
  <2>3. call'.out \in Results
    BY <2>1 DEF Called, Results
  <2> QED
    BY <2>2, <2>3 DEF RepoInv, TypeOK, Results, Row
<1>2. ASSUME NEW t \in Tenant, NEW i \in Id, Get(t, i)
      PROVE  RepoInv' /\ TypeOK'
  BY <1>2 DEF Get, get, Fault, Called, repoVars, RepoInv, RepoTypeOK, PrimaryKey,
              TimesOrdered, TypeOK, Results
<1>3. ASSUME NEW t \in Tenant, NEW k \in Key, GetByKey(t, k)
      PROVE  RepoInv' /\ TypeOK'
  BY <1>3 DEF GetByKey, get_by_key, Newest, Matching, Fault, Called, repoVars,
              RepoInv, RepoTypeOK, PrimaryKey, TimesOrdered, TypeOK, Results
<1>4. ASSUME NEW t \in Tenant, NEW k \in Key, DeleteByKey(t, k)
      PROVE  RepoInv' /\ TypeOK'
  <2>1. PICK out \in rows \cup {None, Err} :
          delete_by_key(t, k, out) /\ Called("delete_by_key", t, k, out)
    BY <1>4 DEF DeleteByKey
  <2>2. RepoInv'
    BY <2>1, DeletePreserves
  <2>3. call'.out \in Results
    BY <2>1 DEF Called, Results, RepoInv, RepoTypeOK
  <2> QED
    BY <2>2, <2>3 DEF RepoInv, TypeOK, Results, Row
<1>5. ASSUME UNCHANGED vars
      PROVE  RepoInv' /\ TypeOK'
  BY <1>5 DEF vars, RepoInv, RepoTypeOK, PrimaryKey, TimesOrdered, TypeOK, Results
<1> QED
  BY <1>1, <1>2, <1>3, <1>4, <1>5 DEF Next

\* The repository only ever stores rows, and a call returns one of them, an
\* outcome, Ok(None) or an error.
THEOREM TypeCorrect == Spec => []TypeOK
<1>1. Init => RepoInv /\ TypeOK
  BY InitRepoInv
<1>2. RepoInv /\ TypeOK /\ [Next]_vars => RepoInv' /\ TypeOK'
  BY NextRepoInv
<1> QED
  BY <1>1, <1>2, PTL DEF Spec

\* The primary key holds for every interleaving of calls, on both backends.
THEOREM PrimaryKeyHolds == Spec => []PrimaryKey
<1>1. Init => RepoInv /\ TypeOK
  BY InitRepoInv
<1>2. RepoInv /\ TypeOK /\ [Next]_vars => RepoInv' /\ TypeOK'
  BY NextRepoInv
<1>3. RepoInv => PrimaryKey
  BY DEF RepoInv
<1> QED
  BY <1>1, <1>2, <1>3, PTL DEF Spec

\* No node is newer than the clock, or younger than its last version.
THEOREM TimesStayOrdered == Spec => []TimesOrdered
<1>1. Init => RepoInv /\ TypeOK
  BY InitRepoInv
<1>2. RepoInv /\ TypeOK /\ [Next]_vars => RepoInv' /\ TypeOK'
  BY NextRepoInv
<1>3. RepoInv => TimesOrdered
  BY DEF RepoInv
<1> QED
  BY <1>1, <1>2, <1>3, PTL DEF Spec

LEMMA ReadsChangeNothing ==
  ASSUME NEW t, NEW x, Get(t, x) \/ GetByKey(t, x)
  PROVE  UNCHANGED repoVars /\ call'.op \in {"get", "get_by_key"} /\ call'.tenant = t
  BY DEF Get, GetByKey, Called, repoVars

LEMMA ReadYourWriteStep ==
  ASSUME Scoped, RepoInv, ReadYourWrite, [Next]_vars
  PROVE  ReadYourWrite'
<1>1. ASSUME NEW t \in Tenant, NEW i \in Id, NEW d \in Doc, Upsert(t, i, d)
      PROVE  ReadYourWrite'
  <2>1. PICK out \in {Created, Updated, Err} :
          upsert(t, i, d, out) /\ Called("upsert", t, <<i, d>>, out)
    BY <1>1 DEF Upsert
  <2>2. call' = [op |-> "upsert", tenant |-> t, arg |-> <<i, d>>, out |-> out]
    BY <2>1 DEF Called
  <2>3. CASE out = Err
    BY <2>2, <2>3 DEF ReadYourWrite
  <2>4. CASE out # Err
    <3>1. \E r \in rows' :
            /\ r.tenant = t /\ r.id = i /\ r.doc = d /\ r.updated = now'
            /\ r \in Newest(t, KeyOf(d))'
            /\ 0 \notin ClockSteps => Newest(t, KeyOf(d))' = {r}
      BY <2>1, <2>4, UpsertWrites DEF Scoped
    <3> QED
      BY <2>2, <3>1 DEF ReadYourWrite, Newest, Matching
  <2> QED
    BY <2>3, <2>4
<1>2. ASSUME NEW t, NEW x, Get(t, x) \/ GetByKey(t, x)
      PROVE  ReadYourWrite'
  BY <1>2, ReadsChangeNothing DEF ReadYourWrite
<1>3. ASSUME NEW t, NEW k, DeleteByKey(t, k)
      PROVE  ReadYourWrite'
  BY <1>3 DEF DeleteByKey, Called, ReadYourWrite
<1>4. ASSUME UNCHANGED vars
      PROVE  ReadYourWrite'
  BY <1>4 DEF vars, ReadYourWrite, Newest, Matching
<1> QED
  BY <1>1, <1>2, <1>3, <1>4 DEF Next

\* In memory, and in PostgreSQL when its policies bind the role, a write that
\* was answered is what the tenant reads back, by id and by key.
THEOREM WritesAreRead ==
  ASSUME Scoped
  PROVE  Spec => []ReadYourWrite
<1>1. Init => RepoInv /\ TypeOK /\ ReadYourWrite
  BY InitRepoInv DEF Init, NoCall, ReadYourWrite
<1>2. RepoInv /\ TypeOK /\ ReadYourWrite /\ [Next]_vars
        => RepoInv' /\ TypeOK' /\ ReadYourWrite'
  BY NextRepoInv, ReadYourWriteStep
<1> QED
  BY <1>1, <1>2, PTL DEF Spec

LEMMA IsolationStep ==
  ASSUME Scoped, RepoInv, [Next]_vars
  PROVE  [\A r \in (rows \ rows') \cup (rows' \ rows) : r.tenant = call'.tenant]_vars
<1> SUFFICES ASSUME Next, NEW r \in (rows \ rows') \cup (rows' \ rows)
             PROVE  r.tenant = call'.tenant
  OBVIOUS
<1>1. ASSUME NEW t \in Tenant, NEW i \in Id, NEW d \in Doc, Upsert(t, i, d)
      PROVE  r.tenant = call'.tenant
  <2>1. PICK out : upsert(t, i, d, out) /\ Called("upsert", t, <<i, d>>, out)
    BY <1>1 DEF Upsert
  <2>2. call'.tenant = t
    BY <2>1 DEF Called
  <2>3. ~Refused(t, i) /\ rows' = Written(t, i, d, now')
    BY <2>1 DEF upsert
  <2>4. CASE r \in Conflicting(t, i)
    BY <2>2, <2>3, <2>4, BackendAssumption DEF Refused, Hidden, Conflicting, Scoped
  <2>5. CASE r \in Overwritten(t, i, d, now')
    BY <2>2, <2>3, <2>5, OverwrittenTenant DEF Scoped
  <2> QED
    BY <2>3, <2>4, <2>5 DEF Written
<1>2. ASSUME NEW t, NEW x, Get(t, x) \/ GetByKey(t, x)
      PROVE  r.tenant = call'.tenant
  BY <1>2, ReadsChangeNothing DEF repoVars
<1>3. ASSUME NEW t, NEW k, DeleteByKey(t, k)
      PROVE  r.tenant = call'.tenant
  BY <1>3 DEF DeleteByKey, delete_by_key, Deleted, Called, Matching
<1> QED
  BY <1>1, <1>2, <1>3 DEF Next

\* With scoped backends no call of one tenant touches a node of another.
THEOREM TenantsAreIsolated ==
  ASSUME Scoped
  PROVE  Spec => TenantIsolation
<1>1. Init => RepoInv /\ TypeOK
  BY InitRepoInv
<1>2. RepoInv /\ TypeOK /\ [Next]_vars => RepoInv' /\ TypeOK'
  BY NextRepoInv
<1>3. RepoInv /\ [Next]_vars =>
        [\A r \in (rows \ rows') \cup (rows' \ rows) : r.tenant = call'.tenant]_vars
  BY IsolationStep
<1> QED
  BY <1>1, <1>2, <1>3, PTL DEF Spec, TenantIsolation

Ages(r, s) ==
  /\ s.created = r.created
  /\ r.updated <= s.updated
  /\ s.doc # r.doc => s.updated = now'

LEMMA SameRowAges ==
  ASSUME RepoInv, NEW r \in rows, NEW s \in rows, r.id = s.id, r.tenant = s.tenant
  PROVE  Ages(r, s)
<1>1. r = s
  BY DEF RepoInv, PrimaryKey
<1> QED
  BY <1>1 DEF Ages, RepoInv, RepoTypeOK, Row

LEMMA AgeingStep ==
  ASSUME RepoInv, [Next]_vars
  PROVE  [\A r \in rows, s \in rows' :
            r.tenant = s.tenant /\ r.id = s.id => Ages(r, s)]_vars
<1> SUFFICES ASSUME Next, NEW r \in rows, NEW s \in rows',
                    r.tenant = s.tenant, r.id = s.id
             PROVE  Ages(r, s)
  OBVIOUS
<1>1. CASE s \in rows
  BY <1>1, SameRowAges
<1>2. CASE s \notin rows
  <2>1. PICK t \in Tenant, i \in Id, d \in Doc :
          \E out \in {Created, Updated, Err} : upsert(t, i, d, out)
    BY <1>2 DEF Next, Upsert, Get, GetByKey, DeleteByKey, delete_by_key, repoVars
  <2>2. s \in Overwritten(t, i, d, now')
    BY <1>2, <2>1 DEF upsert, Written
  <2>3. now' \in Nat /\ now <= now' /\ now \in Nat
    BY <2>1, TickAdvances DEF upsert, RepoInv, RepoTypeOK
  <2>4. s.id = i /\ s.updated = now' /\ (Backend = "memory" => s.tenant = t)
    BY <2>2, <2>3, OverwrittenRow
  <2>5. r \in Conflicting(t, i)
    BY <2>4 DEF Conflicting
  <2>6. s = Rewritten(r, d, now')
    BY <2>2, <2>5, OneConflict DEF Overwritten, RepoInv
  <2>7. r.updated \in Nat /\ r.updated <= now
    BY DEF RepoInv, RepoTypeOK, TimesOrdered, Row
  <2> QED
    BY <2>3, <2>6, <2>7 DEF Rewritten, Version, Ages
<1> QED
  BY <1>1, <1>2

\* A node that is written again keeps its birth and only gets newer.
THEOREM VersionsOnlyAge == Spec => VersionsAge
<1>1. Init => RepoInv /\ TypeOK
  BY InitRepoInv
<1>2. RepoInv /\ TypeOK /\ [Next]_vars => RepoInv' /\ TypeOK'
  BY NextRepoInv
<1>3. RepoInv /\ [Next]_vars =>
        [\A r \in rows, s \in rows' :
           r.tenant = s.tenant /\ r.id = s.id =>
             /\ s.created = r.created
             /\ r.updated <= s.updated
             /\ s.doc # r.doc => s.updated = now']_vars
  BY AgeingStep DEF Ages
<1> QED
  BY <1>1, <1>2, <1>3, PTL DEF Spec, VersionsAge

LEMMA RemovedStep ==
  ASSUME RepoInv, RemovedIsGone, [Next]_vars
  PROVE  RemovedIsGone'
<1>1. ASSUME NEW t, NEW k, DeleteByKey(t, k)
      PROVE  RemovedIsGone'
  <2>1. PICK out \in rows \cup {None, Err} :
          /\ delete_by_key(t, k, out)
          /\ call' = [op |-> "delete_by_key", tenant |-> t, arg |-> k, out |-> out]
    BY <1>1 DEF DeleteByKey, Called
  <2>2. None \notin rows /\ Err \notin rows
    BY SentinelAssumption DEF RepoInv, RepoTypeOK
  <2>3. CASE out = None
    <3>1. Matching(t, k) = {} /\ rows' = rows
      BY <2>1, <2>2, <2>3, SentinelAssumption DEF delete_by_key, Matching
    <3> QED
      BY <2>1, <2>2, <2>3, <3>1 DEF RemovedIsGone, Matching
  <2>4. CASE out \in rows
    <3>1. out \in Matching(t, k) /\ rows' = rows \ Deleted(t, k, out)
      BY <2>1, <2>2, <2>4 DEF delete_by_key
    <3> QED
      BY <2>1, <2>2, <2>4, <3>1, BackendAssumption DEF RemovedIsGone, Matching, Deleted
  <2>5. CASE out = Err
    BY <2>1, <2>5 DEF RemovedIsGone
  <2> QED
    BY <2>1, <2>3, <2>4, <2>5
<1>2. ASSUME NEW t, NEW x, Get(t, x) \/ GetByKey(t, x)
      PROVE  RemovedIsGone'
  BY <1>2, ReadsChangeNothing DEF RemovedIsGone
<1>3. ASSUME NEW t, NEW i, NEW d, Upsert(t, i, d)
      PROVE  RemovedIsGone'
  BY <1>3 DEF Upsert, Called, RemovedIsGone
<1>4. ASSUME UNCHANGED vars
      PROVE  RemovedIsGone'
  BY <1>4 DEF vars, RemovedIsGone, Matching
<1> QED
  BY <1>1, <1>2, <1>3, <1>4 DEF Next

\* After a purge was answered its node is gone; in PostgreSQL, so is its key.
THEOREM PurgesRemove == Spec => []RemovedIsGone
<1>1. Init => RepoInv /\ TypeOK /\ RemovedIsGone
  BY InitRepoInv DEF Init, NoCall, RemovedIsGone
<1>2. RepoInv /\ TypeOK /\ RemovedIsGone /\ [Next]_vars
        => RepoInv' /\ TypeOK' /\ RemovedIsGone'
  BY NextRepoInv, RemovedStep
<1> QED
  BY <1>1, <1>2, PTL DEF Spec

-----------------------------------------------------------------------------
(***************************************************************************)
(* NodeStore implements NodeContract.  A row without its times is a node,  *)
(* and no two rows are the same node by the primary key; the order of the  *)
(* writes is that of updated_at, as long as no two rows share one.         *)
(***************************************************************************)

\* No two stored rows were written at the same time.
StrictTimes == \A r, s \in rows : r.updated = s.updated => r = s

RefInv == RepoInv /\ TypeOK /\ StrictTimes

PlainApart(S) == \A r, s \in S : Plain(r) = Plain(s) => r = s

LEMMA RowsApart ==
  ASSUME RepoInv
  PROVE  PlainApart(rows)
  BY DEF RepoInv, RepoTypeOK, PrimaryKey, PlainApart, Plain, Row

\* Without some of the rows the rest are the same nodes in the same order.
LEMMA Removing ==
  ASSUME NEW S, NEW T, T \subseteq S, PlainApart(S)
  PROVE  /\ PlainOf(S \ T) = PlainOf(S) \ PlainOf(T)
         /\ NewerOf(S \ T) = NewerOf(S) \cap (PlainOf(S \ T) \X PlainOf(S \ T))
<1>1. PlainOf(S \ T) = PlainOf(S) \ PlainOf(T)
  BY DEF PlainOf, PlainApart
<1>2. ASSUME NEW p \in NewerOf(S \ T)
      PROVE  p \in NewerOf(S) \cap (PlainOf(S \ T) \X PlainOf(S \ T))
  <2>1. p \in PlainOf(S \ T) \X PlainOf(S \ T)
    BY <1>2 DEF NewerOf
  <2>2. p \in PlainOf(S) \X PlainOf(S)
    BY <1>1, <2>1
  <2>3. PICK r \in S \ T, s \in S \ T : p = <<Plain(r), Plain(s)>> /\ s.updated < r.updated
    BY <1>2 DEF NewerOf
  <2> QED
    BY <2>1, <2>2, <2>3 DEF NewerOf
<1>3. ASSUME NEW p \in NewerOf(S), p \in PlainOf(S \ T) \X PlainOf(S \ T)
      PROVE  p \in NewerOf(S \ T)
  <2>1. PICK r \in S, s \in S : p = <<Plain(r), Plain(s)>> /\ s.updated < r.updated
    BY <1>3 DEF NewerOf
  <2>2. Plain(r) \in PlainOf(S \ T) /\ Plain(s) \in PlainOf(S \ T)
    BY <1>3, <2>1
  <2>3. r \in S \ T /\ s \in S \ T
    BY <2>2 DEF PlainOf, PlainApart
  <2> QED
    BY <1>3, <2>1, <2>3 DEF NewerOf
<1> QED
  BY <1>1, <1>2, <1>3

\* A row written after all the others is a new node, the latest.
LEMMA Adding ==
  ASSUME NEW S, NEW w, S \subseteq Row, w \in Row,
         \A s \in S : s.updated < w.updated
  PROVE  /\ PlainOf(S \cup {w}) = PlainOf(S) \cup {Plain(w)}
         /\ NewerOf(S \cup {w}) = NewerOf(S) \cup ({Plain(w)} \X PlainOf(S))
<1>1. PlainOf(S \cup {w}) = PlainOf(S) \cup {Plain(w)}
  BY DEF PlainOf
<1>2. ASSUME NEW p \in NewerOf(S \cup {w})
      PROVE  p \in NewerOf(S) \cup ({Plain(w)} \X PlainOf(S))
  <2>1. PICK r \in S \cup {w}, s \in S \cup {w} :
          p = <<Plain(r), Plain(s)>> /\ s.updated < r.updated
    BY <1>2 DEF NewerOf
  <2>2. s \in S
    BY <2>1 DEF Row
  <2>3. Plain(s) \in PlainOf(S)
    BY <2>2 DEF PlainOf
  <2>4. CASE r = w
    BY <2>1, <2>3, <2>4
  <2>5. CASE r \in S
    <3>1. Plain(r) \in PlainOf(S)
      BY <2>5 DEF PlainOf
    <3> QED
      BY <2>1, <2>2, <2>3, <2>5, <3>1 DEF NewerOf
  <2> QED
    BY <2>4, <2>5
<1>3. ASSUME NEW p \in NewerOf(S) \cup ({Plain(w)} \X PlainOf(S))
      PROVE  p \in NewerOf(S \cup {w})
  <2>1. CASE p \in NewerOf(S)
    BY <1>1, <2>1 DEF NewerOf
  <2>2. CASE p \in {Plain(w)} \X PlainOf(S)
    <3>1. PICK s \in S : p = <<Plain(w), Plain(s)>>
      BY <2>2 DEF PlainOf
    <3>2. p \in PlainOf(S \cup {w}) \X PlainOf(S \cup {w})
      BY <1>1, <2>2
    <3> QED
      BY <3>1, <3>2 DEF NewerOf
  <2> QED
    BY <1>3, <2>1, <2>2
<1> QED
  BY <1>1, <1>2, <1>3

\* Results that are not rows stay what they are.
LEMMA PlainOutcome ==
  /\ PlainOut(None) = None /\ PlainOut(Err) = Err
  /\ PlainOut(Created) = Created /\ PlainOut(Updated) = Updated
  BY DEF PlainOut

LEMMA PlainResult ==
  ASSUME NEW r \in Row
  PROVE  PlainOut(r) = Plain(r)
  BY SentinelAssumption DEF PlainOut

LEMMA PlainCall ==
  ASSUME NEW op, NEW t, NEW arg, NEW out, Called(op, t, arg, out)
  PROVE  Contract!Called(op, t, arg, PlainOut(out))
  BY DEF Called, Contract!Called

\* The nodes with an id, or with a key, are the rows with it.
LEMMA SameMatches ==
  ASSUME NEW t, NEW i, NEW k
  PROVE  /\ Contract!WithId(t, i) = PlainOf({r \in rows : r.tenant = t /\ r.id = i})
         /\ Contract!WithKey(t, k) = PlainOf(Matching(t, k))
  BY DEF Contract!WithId, Contract!WithKey, PlainOf, Plain, Matching

\* A newest row of a set is the latest of the nodes in it.
LEMMA NewestIsLatest ==
  ASSUME StrictTimes, RepoInv, NEW M \in SUBSET rows, NEW r \in M,
         \A s \in M : s.updated <= r.updated
  PROVE  Plain(r) \in Contract!LatestOf(PlainOf(M))
<1>1. Plain(r) \in PlainOf(M)
  BY DEF PlainOf
<1>2. ASSUME NEW m \in PlainOf(M) \ {Plain(r)}
      PROVE  <<Plain(r), m>> \in NewerOf(rows)
  <2>1. PICK s \in M : m = Plain(s)
    BY DEF PlainOf
  <2>2. s.updated < r.updated
    BY <2>1 DEF StrictTimes, RepoInv, RepoTypeOK, Row
  <2>3. <<Plain(r), m>> \in PlainOf(rows) \X PlainOf(rows)
    BY <2>1 DEF PlainOf
  <2> QED
    BY <2>1, <2>2, <2>3 DEF NewerOf
<1> QED
  BY <1>1, <1>2 DEF Contract!LatestOf

LEMMA NoneIsLatest == Contract!LatestOf(PlainOf({})) = {None}
  BY DEF Contract!LatestOf, PlainOf

\* A step on which rows stay is one on which the nodes and their order stay.
LEMMA NothingWritten ==
  ASSUME rows' = rows
  PROVE  (PlainOf(rows))' = PlainOf(rows) /\ (NewerOf(rows))' = NewerOf(rows)
  OBVIOUS

LEMMA GetRefines ==
  ASSUME RefInv, NEW t \in Tenant, NEW i \in Id, Get(t, i)
  PROVE  Contract!Next
<1> DEFINE M == {r \in rows : r.tenant = t /\ r.id = i}
<1>1. PICK out \in get(t, i) : rows' = rows /\ Called("get", t, i, out)
  BY DEF Get, repoVars
<1>2. Contract!Called("get", t, i, PlainOut(out))
  BY <1>1, PlainCall
<1>3. CASE out = Err
  BY <1>1, <1>2, <1>3, NothingWritten, PlainOutcome DEF Contract!Next, Contract!Fail
<1>4. CASE out # Err
  <2>1. IF M = {} THEN out = None ELSE out \in M
    BY <1>1, <1>4 DEF get, Fault
  <2>2. PlainOut(out) \in Contract!LatestOf(PlainOf(M))
    <3>1. CASE M = {}
      BY <2>1, <3>1, NoneIsLatest, PlainOutcome
    <3>2. CASE M # {}
      <4>1. out \in M /\ out \in Row
        BY <2>1, <3>2 DEF RefInv, RepoInv, RepoTypeOK
      <4>2. \A s \in M : s.updated <= out.updated
        <5> SUFFICES ASSUME NEW s \in M
                     PROVE  s.updated <= out.updated
          OBVIOUS
        <5>1. s = out
          BY <4>1 DEF RefInv, RepoInv, PrimaryKey
        <5> QED
          BY <4>1, <5>1 DEF Row
      <4> QED
        BY <4>1, <4>2, NewestIsLatest, PlainResult DEF RefInv
    <3> QED
      BY <3>1, <3>2
  <2>3. Contract!Read(t, i)
    BY <1>1, <1>2, <2>2, NothingWritten, SameMatches DEF Contract!Read
  <2> QED
    BY <2>3 DEF Contract!Next
<1> QED
  BY <1>3, <1>4

LEMMA GetByKeyRefines ==
  ASSUME RefInv, NEW t \in Tenant, NEW k \in Key, GetByKey(t, k)
  PROVE  Contract!Next
<1>1. PICK out \in get_by_key(t, k) : rows' = rows /\ Called("get_by_key", t, k, out)
  BY DEF GetByKey, repoVars
<1>2. Contract!Called("get_by_key", t, k, PlainOut(out))
  BY <1>1, PlainCall
<1>3. CASE out = Err
  BY <1>1, <1>2, <1>3, NothingWritten, PlainOutcome DEF Contract!Next, Contract!Fail
<1>4. CASE out # Err
  <2>1. IF Matching(t, k) = {} THEN out = None ELSE out \in Newest(t, k)
    BY <1>1, <1>4 DEF get_by_key, Fault
  <2>2. PlainOut(out) \in Contract!LatestOf(PlainOf(Matching(t, k)))
    <3>1. CASE Matching(t, k) = {}
      BY <2>1, <3>1, NoneIsLatest, PlainOutcome
    <3>2. CASE Matching(t, k) # {}
      <4>1. /\ out \in Matching(t, k) /\ Matching(t, k) \subseteq rows
            /\ \A s \in Matching(t, k) : s.updated <= out.updated
        BY <2>1, <3>2 DEF Newest, Matching
      <4>2. out \in Row
        BY <4>1 DEF RefInv, RepoInv, RepoTypeOK
      <4> QED
        BY <4>1, <4>2, NewestIsLatest, PlainResult DEF RefInv
    <3> QED
      BY <3>1, <3>2
  <2>3. Contract!ReadByKey(t, k)
    BY <1>1, <1>2, <2>2, NothingWritten, SameMatches DEF Contract!ReadByKey
  <2> QED
    BY <2>3 DEF Contract!Next
<1> QED
  BY <1>3, <1>4

LEMMA DeleteRefines ==
  ASSUME RefInv, NEW t \in Tenant, NEW k \in Key, DeleteByKey(t, k)
  PROVE  Contract!Next
<1>1. PICK out \in rows \cup {None, Err} :
        delete_by_key(t, k, out) /\ Called("delete_by_key", t, k, out)
  BY DEF DeleteByKey
<1>2. Contract!Called("delete_by_key", t, k, PlainOut(out))
  BY <1>1, PlainCall
<1>3. \A T : T \subseteq Matching(t, k) /\ rows' = rows \ T =>
        /\ PlainOf(T) \subseteq Contract!WithKey(t, k)
        /\ (PlainOf(rows))' = PlainOf(rows) \ PlainOf(T)
        /\ (NewerOf(rows))' = Contract!Among(PlainOf(rows) \ PlainOf(T))
  <2> SUFFICES ASSUME NEW T, T \subseteq Matching(t, k), rows' = rows \ T
               PROVE  /\ PlainOf(T) \subseteq Contract!WithKey(t, k)
                      /\ (PlainOf(rows))' = PlainOf(rows) \ PlainOf(T)
                      /\ (NewerOf(rows))' = Contract!Among(PlainOf(rows) \ PlainOf(T))
    OBVIOUS
  <2>1. PlainOf(T) \subseteq Contract!WithKey(t, k)
    <3>1. Contract!WithKey(t, k) = PlainOf(Matching(t, k))
      BY SameMatches
    <3> QED
      BY <3>1 DEF PlainOf
  <2>2. T \subseteq rows
    BY DEF Matching
  <2>3. /\ PlainOf(rows \ T) = PlainOf(rows) \ PlainOf(T)
        /\ NewerOf(rows \ T) = NewerOf(rows) \cap (PlainOf(rows \ T) \X PlainOf(rows \ T))
    BY <2>2, Removing, RowsApart DEF RefInv
  <2> QED
    BY <2>1, <2>3 DEF Contract!Among
<1>4. CASE out = None
  <2>1. Matching(t, k) = {} /\ rows' = rows
    BY <1>1, <1>4, SentinelAssumption
       DEF delete_by_key, RefInv, RepoInv, RepoTypeOK, Matching
  <2>2. Contract!WithKey(t, k) = {}
    BY <2>1, SameMatches DEF PlainOf
  <2>3. Contract!Erase(t, k)
    <3>1. /\ PlainOf({}) \subseteq Contract!WithKey(t, k)
          /\ (PlainOf(rows))' = PlainOf(rows) \ PlainOf({})
          /\ (NewerOf(rows))' = Contract!Among(PlainOf(rows) \ PlainOf({}))
      BY <1>3, <2>1
    <3> QED
      BY <1>2, <1>4, <2>2, <3>1, PlainOutcome DEF Contract!Erase
  <2> QED
    BY <2>3 DEF Contract!Next
<1>5. CASE out = Err
  <2>1. PICK T \in SUBSET Matching(t, k) : rows' = rows \ T
    BY <1>1, <1>5, SentinelAssumption
       DEF delete_by_key, RefInv, RepoInv, RepoTypeOK, Matching
  <2>2. Contract!Erase(t, k)
    BY <1>2, <1>3, <1>5, <2>1, PlainOutcome DEF Contract!Erase
  <2> QED
    BY <2>2 DEF Contract!Next
<1>6. CASE out \notin {None, Err}
  <2>1. out \in Matching(t, k) /\ rows' = rows \ Deleted(t, k, out)
    BY <1>1, <1>6 DEF delete_by_key
  <2>2. Deleted(t, k, out) \subseteq Matching(t, k) /\ out \in Deleted(t, k, out)
    BY <2>1 DEF Deleted
  <2>3. out \in Row
    BY <2>1 DEF Matching, RefInv, RepoInv, RepoTypeOK
  <2>4. Plain(out) \in PlainOf(Deleted(t, k, out)) /\ PlainOut(out) = Plain(out)
    BY <2>2, <2>3, PlainResult DEF PlainOf
  <2>5. Contract!Erase(t, k)
    BY <1>2, <1>3, <2>1, <2>2, <2>4 DEF Contract!Erase
  <2> QED
    BY <2>5 DEF Contract!Next
<1> QED
  BY <1>4, <1>5, <1>6

LEMMA UpsertRefines ==
  ASSUME Scoped, 0 \notin ClockSteps, RefInv,
         NEW t \in Tenant, NEW i \in Id, NEW d \in Doc, Upsert(t, i, d)
  PROVE  Contract!Next /\ StrictTimes'
<1>1. PICK out \in {Created, Updated, Err} :
        upsert(t, i, d, out) /\ Called("upsert", t, <<i, d>>, out)
  BY DEF Upsert
<1>2. Contract!Called("upsert", t, <<i, d>>, PlainOut(out)) /\ PlainOut(out) = out
  BY <1>1, PlainCall, PlainOutcome
<1>3. CASE rows' = rows /\ out = Err
  <2>1. Contract!Fail
    BY <1>2, <1>3, NothingWritten DEF Contract!Fail
  <2> QED
    BY <1>3, <2>1 DEF Contract!Next, StrictTimes, RefInv
<1>4. CASE ~Refused(t, i) /\ rows' = Written(t, i, d, now')
  <2> DEFINE kept == rows \ Conflicting(t, i)
  <2>1. now \in Nat /\ now' \in Nat /\ now < now'
    BY <1>1, TickAdvances DEF upsert, RefInv, RepoInv, RepoTypeOK
  <2>2. PICK w : w \in Overwritten(t, i, d, now')
    <3>1. CASE Conflicting(t, i) = {}
      BY <3>1 DEF Overwritten
    <3>2. CASE Conflicting(t, i) # {}
      BY <3>2 DEF Overwritten
    <3> QED
      BY <3>1, <3>2
  <2>3. Overwritten(t, i, d, now') = {w}
    BY <2>2, OneOverwritten DEF RefInv, RepoInv
  <2>4. w \in Row /\ w.id = i /\ w.doc = d /\ w.updated = now' /\ w.tenant = t
    BY <1>4, <2>1, <2>2, OverwrittenRow, OverwrittenTenant DEF Scoped, RefInv
  <2>5. rows' = kept \cup {w}
    BY <1>4, <2>3 DEF Written
  <2>6. kept \subseteq Row /\ \A s \in kept : s.updated < w.updated
    <3>1. ASSUME NEW s \in kept
          PROVE  s \in Row /\ s.updated < w.updated
      BY <2>1, <2>4 DEF RefInv, RepoInv, RepoTypeOK, TimesOrdered, Row
    <3> QED
      BY <3>1
  <2>7. Conflicting(t, i) = {r \in rows : r.tenant = t /\ r.id = i}
    BY <1>4, BackendAssumption DEF Refused, Hidden, Conflicting, Scoped
  <2>8. Contract!WithId(t, i) = PlainOf(Conflicting(t, i))
    BY <2>7, SameMatches
  <2>9. /\ PlainOf(kept) = PlainOf(rows) \ Contract!WithId(t, i)
        /\ NewerOf(kept) = Contract!Among(PlainOf(rows) \ Contract!WithId(t, i))
    <3>1. Conflicting(t, i) \subseteq rows
      BY DEF Conflicting
    <3> QED
      BY <2>8, <3>1, Removing, RowsApart DEF RefInv, Contract!Among
  <2>10. Plain(w) = [tenant |-> t, id |-> i, doc |-> d]
    BY <2>4 DEF Plain
  <2>11. /\ PlainOf(kept \cup {w}) = PlainOf(kept) \cup {Plain(w)}
         /\ NewerOf(kept \cup {w}) = NewerOf(kept) \cup ({Plain(w)} \X PlainOf(kept))
    BY <2>4, <2>6, Adding
  <2>12. /\ (PlainOf(rows))' = PlainOf(kept \cup {w})
         /\ (NewerOf(rows))' = NewerOf(kept \cup {w})
    BY <2>5
  <2>13. out \in {IF Contract!WithId(t, i) = {} THEN Created ELSE Updated, Err}
    <3>1. Contract!WithId(t, i) = {} <=> Conflicting(t, i) = {}
      BY <2>8 DEF PlainOf
    <3> QED
      BY <1>1, <3>1 DEF upsert
  <2>14. Contract!Write(t, i, d)
    BY <1>2, <2>9, <2>10, <2>11, <2>12, <2>13 DEF Contract!Write
  <2>15. StrictTimes'
    <3> SUFFICES ASSUME NEW r \in rows', NEW s \in rows', r.updated = s.updated
                 PROVE  r = s
      BY DEF StrictTimes
    <3>1. CASE r = w /\ s = w
      BY <3>1
    <3>2. CASE r \in kept /\ s \in kept
      BY <3>2 DEF RefInv, StrictTimes
    <3>3. CASE r \in kept /\ s = w
      BY <2>1, <2>4, <2>6, <3>3 DEF Row
    <3>4. CASE r = w /\ s \in kept
      BY <2>1, <2>4, <2>6, <3>4 DEF Row
    <3> QED
      BY <2>5, <3>1, <3>2, <3>3, <3>4
  <2> QED
    BY <2>14, <2>15 DEF Contract!Next
<1> QED
  BY <1>1, <1>3, <1>4 DEF upsert

LEMMA InitRefines == Init => RefInv /\ Contract!Init
<1> SUFFICES ASSUME Init
             PROVE  RefInv /\ Contract!Init
  OBVIOUS
<1>1. rows = {} /\ call = NoCall
  BY DEF Init, RepoInit
<1>2. PlainOf(rows) = {} /\ NewerOf(rows) = {}
  BY <1>1 DEF PlainOf, NewerOf
<1>3. [call EXCEPT !.out = PlainOut(@)] = NoCall
  BY <1>1, PlainOutcome DEF NoCall
<1> QED
  BY <1>1, <1>2, <1>3, InitRepoInv DEF RefInv, StrictTimes, NoCall, Contract!Init

LEMMA NextRefines ==
  ASSUME Scoped, 0 \notin ClockSteps, RefInv, [Next]_vars
  PROVE  RefInv' /\ [Contract!Next]_(Contract!vars)
<1>1. RepoInv' /\ TypeOK'
  BY NextRepoInv DEF RefInv
<1>2. ASSUME NEW t \in Tenant, NEW i \in Id, NEW d \in Doc, Upsert(t, i, d)
      PROVE  Contract!Next /\ StrictTimes'
  BY <1>2, UpsertRefines
<1>3. ASSUME NEW t \in Tenant, NEW i \in Id, Get(t, i)
      PROVE  Contract!Next /\ StrictTimes'
  BY <1>3, GetRefines DEF Get, repoVars, StrictTimes, RefInv
<1>4. ASSUME NEW t \in Tenant, NEW k \in Key, GetByKey(t, k)
      PROVE  Contract!Next /\ StrictTimes'
  BY <1>4, GetByKeyRefines DEF GetByKey, repoVars, StrictTimes, RefInv
<1>5. ASSUME NEW t \in Tenant, NEW k \in Key, DeleteByKey(t, k)
      PROVE  Contract!Next /\ StrictTimes'
  <2>1. rows' \subseteq rows
    BY <1>5, DeletePreserves DEF DeleteByKey, RefInv
  <2> QED
    BY <1>5, <2>1, DeleteRefines DEF StrictTimes, RefInv
<1>6. CASE UNCHANGED vars
  <2>1. UNCHANGED Contract!vars
    BY <1>6 DEF vars, Contract!vars
  <2> QED
    BY <1>1, <1>6, <2>1 DEF vars, StrictTimes, RefInv
<1> QED
  BY <1>1, <1>2, <1>3, <1>4, <1>5, <1>6 DEF Next, RefInv

\* When every write moves the clock and tenants are kept apart, each backend is
\* a set of nodes that remembers the order of their last writes.
THEOREM RefinesContract ==
  ASSUME Scoped, 0 \notin ClockSteps
  PROVE  Spec => ImplementsContract
<1>1. Init => RefInv /\ Contract!Init
  BY InitRefines
<1>2. RefInv /\ [Next]_vars => RefInv' /\ [Contract!Next]_(Contract!vars)
  BY NextRefines
<1> QED
  BY <1>1, <1>2, PTL DEF Spec, ImplementsContract, Contract!Spec
=============================================================================
