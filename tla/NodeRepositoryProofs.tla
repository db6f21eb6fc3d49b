-------------------------- MODULE NodeRepositoryProofs --------------------------
(***************************************************************************)
(* What the operators of NodeRepository preserve and return, for every set *)
(* of tenants, ids, keys and documents, both backends, with and without    *)
(* row-level security and faults.  NodeStoreProofs and                     *)
(* CapsuleServiceProofs cite these lemmas.                                 *)
(***************************************************************************)
EXTENDS NodeRepository, TLAPS

RepoInv == RepoTypeOK /\ PrimaryKey /\ TimesOrdered

\* One row may clash with a write: the key it conflicts on is the primary key.
LEMMA OneConflict ==
  ASSUME PrimaryKey, NEW t, NEW i,
         NEW r \in Conflicting(t, i), NEW s \in Conflicting(t, i)
  PROVE  r = s
  BY BackendAssumption DEF PrimaryKey, Conflicting

\* The clock is a number, and a write does not take it back.
LEMMA TickAdvances ==
  ASSUME now \in Nat, Tick
  PROVE  now' \in Nat /\ now <= now' /\ (0 \notin ClockSteps => now < now')
  BY ClockAssumption DEF Tick

\* What an upsert puts in the place of the row it conflicts with, or adds.
LEMMA OverwrittenRow ==
  ASSUME RepoInv, NEW t \in Tenant, NEW i \in Id, NEW d \in Doc,
         NEW time \in Nat, now <= time,
         NEW r \in Overwritten(t, i, d, time)
  PROVE  /\ r \in Row /\ r.id = i /\ r.doc = d /\ r.updated = time
         /\ r.created <= time
         /\ Backend = "memory" => r.tenant = t
<1>1. CASE Conflicting(t, i) = {}
  BY <1>1 DEF Overwritten, Rewritten, Version, Row
<1>2. CASE Conflicting(t, i) # {}
  <2>1. PICK s \in Conflicting(t, i) : 
             r = Rewritten(s, d, time)
    BY <1>2 DEF Overwritten
  <2>2. s \in Row /\ s.id = i /\ (Backend = "memory" => s.tenant = t)
    BY <2>1 DEF Conflicting, RepoInv, RepoTypeOK
  <2>3. s.created <= time
    BY <2>1, <2>2 DEF Conflicting, RepoInv, RepoTypeOK, TimesOrdered, Row
  <2> QED
    BY <2>1, <2>2, <2>3 DEF Rewritten, Version, Row
<1> QED
  BY <1>1, <1>2

\* All the rows an upsert puts in place share tenant, id, document and times.
LEMMA OneOverwritten ==
  ASSUME PrimaryKey, NEW t, NEW i, NEW d, NEW time,
         NEW r \in Overwritten(t, i, d, time), NEW s \in Overwritten(t, i, d, time)
  PROVE  r = s
<1>1. CASE Conflicting(t, i) = {}
  BY <1>1 DEF Overwritten
<1>2. CASE Conflicting(t, i) # {}
  BY <1>2, OneConflict DEF Overwritten
<1> QED
  BY <1>1, <1>2

\* In memory, and under row-level security, a write that is not refused leaves
\* its row with the writing tenant.
LEMMA OverwrittenTenant ==
  ASSUME RepoInv, Backend = "memory" \/ Rls,
         NEW t \in Tenant, NEW i \in Id, NEW d, NEW time, ~Refused(t, i),
         NEW r \in Overwritten(t, i, d, time)
  PROVE  r.tenant = t
<1>1. CASE Conflicting(t, i) = {}
  BY <1>1 DEF Overwritten, Rewritten, Version
<1>2. CASE Conflicting(t, i) # {}
  <2>1. PICK s \in Conflicting(t, i) : r = Rewritten(s, d, time)
    BY <1>2 DEF Overwritten
  <2>2. s.tenant = t
    BY <2>1, BackendAssumption DEF Refused, Hidden, Conflicting
  <2> QED
    BY <2>1, <2>2 DEF Rewritten, Version
<1> QED
  BY <1>1, <1>2

\* An upsert, whatever its outcome, keeps types, primary key and time order.
LEMMA UpsertPreserves ==
  ASSUME RepoInv, NEW t \in Tenant, NEW i \in Id, NEW d \in Doc, NEW out,
         upsert(t, i, d, out)
  PROVE  RepoInv'
<1>1. now \in Nat /\ now' \in Nat /\ now <= now'
  BY TickAdvances DEF upsert, RepoInv, RepoTypeOK
<1>2. CASE rows' = rows
  BY <1>1, <1>2 DEF RepoInv, RepoTypeOK, PrimaryKey, TimesOrdered, Row
<1>3. CASE rows' = Written(t, i, d, now')
  <2>1. ASSUME NEW r \in rows'
        PROVE  r \in rows \ Conflicting(t, i) \/ r \in Overwritten(t, i, d, now')
    BY <1>3, <2>1 DEF Written
  <2>2. ASSUME NEW r \in Overwritten(t, i, d, now')
        PROVE  /\ r \in Row /\ r.id = i /\ r.doc = d /\ r.updated = now'
               /\ r.created <= now'
               /\ Backend = "memory" => r.tenant = t
    BY <1>1, <2>2, OverwrittenRow
  <2>3. RepoTypeOK'
    BY <1>1, <2>1, <2>2 DEF RepoInv, RepoTypeOK
  <2>4. TimesOrdered'
    BY <1>1, <2>1, <2>2 DEF RepoInv, RepoTypeOK, TimesOrdered, Row
  <2>5. PrimaryKey'
    <3> SUFFICES ASSUME NEW r \in rows', NEW s \in rows', r.id = s.id,
                        Backend = "memory" => r.tenant = s.tenant
                 PROVE  r = s
      BY DEF PrimaryKey
    <3>1. CASE r \in rows \ Conflicting(t, i) /\ s \in rows \ Conflicting(t, i)
      BY <3>1 DEF RepoInv, PrimaryKey
    <3>2. CASE r \in Overwritten(t, i, d, now') /\ s \in Overwritten(t, i, d, now')
      BY <3>2, OneOverwritten DEF RepoInv
    <3>3. CASE r \in rows \ Conflicting(t, i) /\ s \in Overwritten(t, i, d, now')
      BY <3>3, <2>2 DEF Conflicting
    <3>4. CASE r \in Overwritten(t, i, d, now') /\ s \in rows \ Conflicting(t, i)
      BY <3>4, <2>2 DEF Conflicting
    <3> QED
      BY <2>1, <3>1, <3>2, <3>3, <3>4
  <2> QED
    BY <2>3, <2>4, <2>5 DEF RepoInv
<1> QED
  BY <1>2, <1>3 DEF upsert

\* An upsert that answers has written the document, as the newest of its key.
LEMMA UpsertWrites ==
  ASSUME RepoInv, Backend = "memory" \/ Rls,
         NEW t \in Tenant, NEW i \in Id, NEW d \in Doc, NEW out,
         upsert(t, i, d, out), out # Err
  PROVE  \E r \in rows' :
           /\ r.tenant = t /\ r.id = i /\ r.doc = d /\ r.updated = now'
           /\ r \in Newest(t, KeyOf(d))'
           /\ 0 \notin ClockSteps => Newest(t, KeyOf(d))' = {r}
<1>1. /\ now \in Nat /\ now' \in Nat /\ now <= now'
      /\ 0 \notin ClockSteps => now < now'
  BY TickAdvances DEF upsert, RepoInv, RepoTypeOK
<1>2. ~Refused(t, i) /\ rows' = Written(t, i, d, now')
  BY DEF upsert
<1>3. PICK r : r \in Overwritten(t, i, d, now')
  <2>1. CASE Conflicting(t, i) = {}
    BY <2>1 DEF Overwritten
  <2>2. CASE Conflicting(t, i) # {}
    BY <2>2 DEF Overwritten
  <2> QED
    BY <2>1, <2>2
<1>4. /\ r \in rows' /\ r.id = i /\ r.doc = d /\ r.updated = now'
  BY <1>1, <1>2, <1>3, OverwrittenRow DEF Written
<1>5. r.tenant = t
  BY <1>2, <1>3, OverwrittenTenant
<1>6. ASSUME NEW s \in rows'
      PROVE  /\ s.updated \in Nat /\ s.updated <= now'
             /\ s # r => s.updated <= now
  <2>1. CASE s \in Overwritten(t, i, d, now')
    <3>1. s = r
      BY <2>1, <1>3, OneOverwritten DEF RepoInv
    <3> QED
      BY <3>1, <1>1, <1>4
  <2>2. CASE s \in rows
    BY <2>2, <1>1 DEF RepoInv, RepoTypeOK, TimesOrdered, Row
  <2> QED
    BY <1>6, <1>2, <2>1, <2>2 DEF Written
<1>7. r \in Newest(t, KeyOf(d))'
  BY <1>4, <1>5, <1>6 DEF Newest, Matching
<1>8. ASSUME 0 \notin ClockSteps, NEW s \in Newest(t, KeyOf(d))'
      PROVE  s = r
  <2>1. s \in rows' /\ r.updated <= s.updated
    BY <1>4, <1>5, <1>8 DEF Newest, Matching
  <2> QED
    BY <2>1, <1>1, <1>4, <1>6, <1>8
<1> QED
  BY <1>4, <1>5, <1>7, <1>8

\* A purge removes rows and adds none.
LEMMA DeletePreserves ==
  ASSUME RepoInv, NEW t, NEW k, NEW out, delete_by_key(t, k, out)
  PROVE  RepoInv' /\ rows' \subseteq rows
<1>1. rows' \subseteq rows /\ now' = now
  BY DEF delete_by_key
<1> QED
  BY <1>1 DEF RepoInv, RepoTypeOK, PrimaryKey, TimesOrdered
=============================================================================
