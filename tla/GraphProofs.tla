------------------------------ MODULE GraphProofs ------------------------------
(***************************************************************************)
(* Theorems about every behaviour of Graph, for all values of its          *)
(* constants.  What is to be shown of the edges is inductive with the      *)
(* repository's invariant: a node is younger than no edge it has, because  *)
(* no stored row is ahead of the clock that an edge's time comes from, and *)
(* the one node of an id is the one the edge was checked against, because  *)
(* ids are unique and deletions cascade.                                   *)
(***************************************************************************)
EXTENDS Graph, NodeRepositoryProofs, FiniteSetTheorems

GInv == RepoInv /\ TypeOK /\ NoInheritedEdges

\* Initially there is neither a node nor an edge.
LEMMA InitGInv == Init => GInv
  BY DEF Init, GInv, RepoInit, RepoInv, RepoTypeOK, PrimaryKey, TimesOrdered, TypeOK,
         NoInheritedEdges

\* Storing a node keeps it, or the one in its place, as old as it was.
LEMMA StoreKeepsOld ==
  ASSUME RepoInv, NEW t \in Tenant, NEW i \in Id, NEW d \in Doc, NEW out,
         upsert(t, i, d, out), Backend = "postgres",
         NEW r \in rows
  PROVE  \E s \in rows' : s.id = r.id /\ s.created = r.created
<1>1. CASE rows' = rows
  BY <1>1
<1>2. CASE rows' = Written(t, i, d, now')
  <2>1. CASE r \in Conflicting(t, i)
    <3>1. Rewritten(r, d, now') \in Overwritten(t, i, d, now')
      BY <2>1 DEF Overwritten
    <3>2. /\ Rewritten(r, d, now').id = r.id
          /\ Rewritten(r, d, now').created = r.created
      BY DEF Rewritten, Version
    <3>. QED BY <1>2, <3>1, <3>2 DEF Written
  <2>2. CASE r \notin Conflicting(t, i)
    BY <1>2, <2>2 DEF Written
  <2>. QED BY <2>1, <2>2
<1>. QED BY <1>1, <1>2 DEF upsert

\* A write of a node, whatever happens to the edges, adds none.
LEMMA NodesChangeTypes ==
  ASSUME TypeOK, RepoInv', NodesChange
  PROVE  TypeOK' /\ edges' \subseteq edges
  BY DEF TypeOK, NodesChange, RepoInv

\* Storing a node gives no edge a younger node.
LEMMA StoreGInv ==
  ASSUME GInv, NEW t \in Tenant, NEW i \in Id, NEW d \in Doc, Store(t, i, d)
  PROVE  GInv'
<1>. USE DEF GInv
<1>1. PICK out \in {Created, Updated, Err} : upsert(t, i, d, out)
  BY DEF Store
<1>2. RepoInv'
  BY <1>1, UpsertPreserves
<1>3. TypeOK' /\ edges' \subseteq edges
  BY <1>2, NodesChangeTypes DEF Store
<1>4. NoInheritedEdges'
  <2>1. ASSUME Backend = "postgres", NEW e \in edges', NEW j \in Id, j \in {e.src, e.dst}
        PROVE  \E s \in rows' : s.id = j /\ s.created <= e.created
    <3>1. PICK r \in rows : r.id = j /\ r.created <= e.created
      BY <1>3, <2>1 DEF NoInheritedEdges
    <3>. QED BY <1>1, <2>1, <3>1, StoreKeepsOld
  <2>. QED BY <2>1 DEF NoInheritedEdges
<1>. QED BY <1>2, <1>3, <1>4

\* A deletion takes the edges of what it deletes along.
LEMMA DeleteGInv ==
  ASSUME GInv, NEW t \in Tenant, NEW k \in Key, Delete(t, k)
  PROVE  GInv'
<1>. USE DEF GInv
<1>1. PICK out \in rows \cup {None, Err} : delete_by_key(t, k, out)
  BY DEF Delete
<1>2. RepoInv' /\ rows' \subseteq rows
  BY <1>1, DeletePreserves
<1>3. TypeOK' /\ edges' \subseteq edges
  BY <1>2, NodesChangeTypes DEF Delete
<1>4. NoInheritedEdges'
  <2>1. ASSUME Backend = "postgres", NEW e \in edges', NEW j \in Id, j \in {e.src, e.dst}
        PROVE  \E s \in rows' : s.id = j /\ s.created <= e.created
    <3>1. PICK r \in rows : r.id = j /\ r.created <= e.created
      BY <1>3, <2>1 DEF NoInheritedEdges
    <3>2. j \in Ids(rows)
      BY <3>1 DEF Ids
    <3>3. e \notin Cascade(Ids(rows) \ Ids(rows'))
      BY <2>1 DEF Delete, NodesChange
    <3>4. j \in Ids(rows')
      BY <1>3, <2>1, <3>2, <3>3 DEF Cascade
    <3>5. PICK s \in rows' : s.id = j
      BY <3>4 DEF Ids
    <3>6. s = r
      BY <1>2, <2>1, <3>1, <3>5 DEF RepoInv, PrimaryKey
    <3>. QED BY <3>1, <3>5, <3>6
  <2>. QED BY <2>1 DEF NoInheritedEdges
<1>. QED BY <1>2, <1>3, <1>4

\* The foreign keys find both nodes of a new edge, and neither is ahead of the clock.
LEMMA LinkGInv ==
  ASSUME GInv, NEW t \in Tenant, NEW src \in Id, NEW dst \in Id, NEW rel \in Rel, NEW out,
         link(t, src, dst, rel, out)
  PROVE  GInv'
<1>. USE DEF GInv
<1>1. now \in Nat /\ now' \in Nat /\ now <= now' /\ rows' = rows
  BY TickAdvances DEF link, RepoInv, RepoTypeOK
<1>2. RepoInv'
  <2>1. RepoTypeOK' /\ PrimaryKey'
    BY <1>1 DEF RepoInv, RepoTypeOK, PrimaryKey
  <2>2. \A r \in rows : r.updated \in Nat
    BY DEF RepoInv, RepoTypeOK, Row
  <2>3. TimesOrdered'
    BY <1>1, <2>2 DEF RepoInv, TimesOrdered
  <2>. QED BY <2>1, <2>3 DEF RepoInv
<1>3. CASE edges' = edges /\ links' = links
  BY <1>1, <1>2, <1>3 DEF TypeOK, NoInheritedEdges, RepoInv
<1>4. CASE /\ Backend = "postgres" => ForeignKeys(t, src, dst)
           /\ links' = links + 1
           /\ edges' = edges \cup {[nr |-> links', tenant |-> t, src |-> src, dst |-> dst,
                                    rel |-> rel, created |-> now']}
  <2>. DEFINE new == [nr |-> links', tenant |-> t, src |-> src, dst |-> dst,
                      rel |-> rel, created |-> now']
  <2>1. links \in Nat /\ links' \in Nat /\ links < links'
    BY <1>4 DEF TypeOK
  <2>2. new \in Edge /\ new.nr = links' /\ new.src = src /\ new.dst = dst /\ new.created = now'
    BY <1>1, <2>1 DEF Edge
  <2>3. edges' = edges \cup {new}
    BY <1>4
  <2>. HIDE DEF new
  <2>4. \A e \in edges : e \in Edge /\ e.nr \in 1 .. links
    BY DEF TypeOK
  <2>5. \A e \in edges : e.nr \in Nat /\ e.nr # links' /\ e.nr \in 1 .. links'
    BY <2>1, <2>4
  <2>6. TypeOK'
    BY <1>2, <2>1, <2>2, <2>3, <2>4, <2>5 DEF TypeOK, RepoInv
  <2>7. ASSUME Backend = "postgres", NEW j \in Id, j \in {src, dst}
        PROVE  \E r \in rows : r.id = j /\ r.created <= now'
    <3>1. PICK r \in rows : r.id = j
      BY <1>4, <2>7 DEF ForeignKeys, Ids
    <3>2. r.created \in Nat /\ r.updated \in Nat /\ r.created <= r.updated /\ r.updated <= now
      BY DEF RepoInv, RepoTypeOK, Row, TimesOrdered
    <3>. QED BY <1>1, <3>1, <3>2
  <2>8. NoInheritedEdges'
    BY <1>1, <2>2, <2>3, <2>7 DEF NoInheritedEdges
  <2>. QED BY <1>2, <2>6, <2>8
<1>. QED BY <1>3, <1>4 DEF link

\* Every step, or a stuttering one, keeps GInv.
LEMMA NextGInv == GInv /\ [Next]_vars => GInv'
<1>1. ASSUME GInv, UNCHANGED <<rows, now, edges, links>> PROVE GInv'
  BY <1>1 DEF GInv, RepoInv, RepoTypeOK, PrimaryKey, TimesOrdered, TypeOK, NoInheritedEdges
<1>2. ASSUME GInv, Next PROVE GInv'
  BY <1>1, <1>2, StoreGInv, DeleteGInv, LinkGInv DEF Next, BeginListing, NextPage
<1>. QED BY <1>1, <1>2 DEF vars

\* Edges stay edges, with numbers of their own.
THEOREM GraphTypes == Spec => []TypeOK
<1>1. GInv => TypeOK
  BY DEF GInv
<1>. QED BY <1>1, InitGInv, NextGInv, PTL DEF Spec

\* In PostgreSQL an edge never joins a node that was stored after it: under an id
\* that is used again, none of the former node's edges is left, whichever tenant
\* linked and whichever deleted it.
THEOREM EdgesAreNotInherited == Spec => []NoInheritedEdges
<1>1. GInv => NoInheritedEdges
  BY DEF GInv
<1>. QED BY <1>1, InitGInv, NextGInv, PTL DEF Spec

\* Whatever ids the edges have, under the policies a tenant's edges lead it to its own
\* nodes.
THEOREM NeighborsBelong == Spec => []NeighborsAreOwn
<1>1. ASSUME Backend = "postgres", Rls, NEW t \in Tenant, NEW i \in Id, NEW rel \in Rel \cup {None},
             NEW limit \in Limit, NEW result \in neighbors(t, i, rel, limit), NEW r \in result
      PROVE  r.tenant = t /\ \E e \in edges : e.tenant = t /\ e.src = i /\ e.dst = r.id
  <2>. DEFINE joining == {e \in Leaving(t, i, rel) : Joined(t, e) # {}}
  <2>1. neighbors(t, i, rel, limit) = {UNION {Joined(t, e) : e \in T} : T \in Limited(joining, limit, Newer)}
    BY <1>1 DEF neighbors
  <2>2. PICK T \in Limited(joining, limit, Newer) : result = UNION {Joined(t, e) : e \in T}
    BY <2>1
  <2>3. T \subseteq Leaving(t, i, rel)
    BY <2>2 DEF Limited
  <2>4. PICK e \in T : r \in Joined(t, e)
    BY <2>2
  <2>. QED BY <1>1, <2>3, <2>4 DEF Joined, Leaving
<1>2. NeighborsAreOwn
  BY <1>1 DEF NeighborsAreOwn
<1>. QED BY <1>2, PTL

-----------------------------------------------------------------------------
(***************************************************************************)
(* Listings.  Between two pages a listing has only the id of the node it   *)
(* stands on.  PlaceHeld says what keeps that enough in memory: the node   *)
(* is still listed and was not created again, so the nodes that stay and   *)
(* are not behind it are those already visited.                            *)
(***************************************************************************)
Readers ==
  [state : {"idle", "reading", "ended"}, tenant : Tenant \cup {None}, kind : Kind \cup {None},
   limit : Nat, cursor : Id \cup {None}, pages : Nat, seen : [Id -> Nat],
   steady : SUBSET Id, lost : BOOLEAN]

Listed == OfKind(rows, reader.tenant, reader.kind)

PlaceHeld ==
  /\ reader.cursor = None => \A i \in Id : reader.seen[i] = 0
  /\ reader.cursor # None /\ Backend = "memory" =>
       \E c \in Listed :
         /\ c.id = reader.cursor
         /\ \A r \in Listed :
              r.id \in reader.steady => reader.seen[r.id] = IF Behind(r, c) THEN 0 ELSE 1

LInv ==
  /\ RepoInv /\ IsFiniteSet(rows)
  /\ reader \in Readers
  /\ reader.steady \subseteq Ids(Listed)
  /\ reader.state = "reading" /\ ~reader.lost => PlaceHeld
  /\ ListingComplete

-----------------------------------------------------------------------------
(***************************************************************************)
(* The order of a listing, and its pages.                                  *)
(***************************************************************************)
\* A finite set of rows, no two under one id.
Listable(S) == IsFiniteSet(S) /\ S \subseteq Row /\ \A r, s \in S : r.id = s.id => r = s

\* Both backends list in a strict total order.
LEMMA BeforeOrders ==
  ASSUME NEW S, Listable(S)
  PROVE  /\ \A r \in S : ~Before(r, r)
         /\ \A r, s, q \in S : Before(r, s) /\ Before(s, q) => Before(r, q)
         /\ \A r, s \in S : r = s \/ Before(r, s) \/ Before(s, r)
<1>1. ASSUME NEW r \in S PROVE r.created \in Int /\ r.id \in Int
  <2>1. r \in Row
    BY DEF Listable
  <2>2. r.created \in Nat /\ r.id \in Id
    BY <2>1 DEF Row
  <2>3. r.id \in Int
    BY <2>2, OrderAssumption, Zenon
  <2>. QED BY <2>2, <2>3
<1>. QED BY <1>1 DEF Before, Listable

\* The nodes that are listed before a node.
Front(S, r) == {s \in S : Before(s, r)}

\* A set of nodes that is not empty has a first one.
LEMMA FirstExists ==
  ASSUME NEW S, Listable(S), NEW T \in SUBSET S, T # {}
  PROVE  \E r \in T : \A s \in T : s = r \/ Before(r, s)
<1>. DEFINE fronts == {Front(T, r) : r \in T}
            R == StrictSubsetOrdering(T)
<1>1. IsFiniteSet(T) /\ Listable(T)
  BY FS_Subset DEF Listable
<1>2. fronts \subseteq FiniteSubsetsOf(T)
  BY <1>1, FS_Subset DEF FiniteSubsetsOf, Front
<1>3. fronts # {}
  OBVIOUS
<1>4. IsWellFoundedOn(R, FiniteSubsetsOf(T))
  BY FS_StrictSubsetOrderingWellFounded
<1>. HIDE DEF fronts, R
<1>5. PICK F \in fronts : \A G \in fronts : <<G, F>> \notin R
  BY <1>2, <1>3, <1>4, WFMin
<1>6. PICK r \in T : F = Front(T, r)
  BY <1>5 DEF fronts
<1>7. ASSUME NEW s \in T, Before(s, r) PROVE FALSE
  <2>1. Front(T, s) \subseteq Front(T, r) /\ s \in Front(T, r) /\ s \notin Front(T, s)
    BY <1>1, <1>7, BeforeOrders DEF Front
  <2>2. <<Front(T, s), Front(T, r)>> \in R
    BY <2>1 DEF R, StrictSubsetOrdering, Front
  <2>. QED BY <1>5, <1>6, <2>2 DEF fronts
<1>. QED BY <1>1, <1>7, BeforeOrders

\* And a last one, which LastOf is.
LEMMA LastExists ==
  ASSUME NEW T, Listable(T), T # {}
  PROVE  LastOf(T) \in T /\ \A s \in T : s = LastOf(T) \/ Before(s, LastOf(T))
<1>. DEFINE Rest(r) == {s \in T : Before(r, s)}
            rests == {Rest(r) : r \in T}
            R == StrictSubsetOrdering(T)
<1>1. rests \subseteq FiniteSubsetsOf(T)
  BY FS_Subset DEF FiniteSubsetsOf, Listable
<1>2. rests # {}
  OBVIOUS
<1>3. IsWellFoundedOn(R, FiniteSubsetsOf(T))
  BY FS_StrictSubsetOrderingWellFounded
<1>. HIDE DEF rests, R
<1>4. PICK F \in rests : \A G \in rests : <<G, F>> \notin R
  BY <1>1, <1>2, <1>3, WFMin
<1>5. PICK r \in T : F = Rest(r)
  BY <1>4 DEF rests
<1>6. ASSUME NEW s \in T, Before(r, s) PROVE FALSE
  <2>1. Rest(s) \subseteq Rest(r) /\ s \in Rest(r) /\ s \notin Rest(s)
    BY <1>6, BeforeOrders
  <2>2. <<Rest(s), Rest(r)>> \in R
    BY <2>1 DEF R, StrictSubsetOrdering
  <2>. QED BY <1>4, <1>5, <2>2 DEF rests
<1>7. \A s \in T : s = r \/ Before(s, r)
  BY <1>6, BeforeOrders
<1>. QED BY <1>7 DEF LastOf

\* What a page has of the nodes it may take.
Page(S, limit) == {r \in S : Cardinality(Front(S, r)) < limit}

\* A page leaves out no node that is listed before one of its own.
LEMMA PageFromFront ==
  ASSUME NEW S, Listable(S), NEW limit \in Nat, NEW r \in Page(S, limit), NEW s \in S, Before(s, r)
  PROVE  s \in Page(S, limit)
<1>1. r \in S
  BY DEF Page
<1>2. Front(S, s) \in SUBSET Front(S, r)
  BY <1>1, BeforeOrders DEF Front
<1>3. IsFiniteSet(Front(S, r))
  BY FS_Subset DEF Front, Listable
<1>4. /\ IsFiniteSet(Front(S, s))
      /\ Cardinality(Front(S, s)) <= Cardinality(Front(S, r))
  BY <1>2, <1>3, FS_Subset
<1>5. Cardinality(Front(S, s)) \in Nat /\ Cardinality(Front(S, r)) \in Nat
  BY <1>3, <1>4, FS_CardinalityType
<1>. QED BY <1>4, <1>5 DEF Page

\* A page that is not full has all there is: the first node left out would have
\* limit nodes before it, and those are on the page.
LEMMA LastPageTakesAll ==
  ASSUME NEW S, Listable(S), NEW limit \in Nat, Cardinality(Page(S, limit)) < limit
  PROVE  Page(S, limit) = S
<1>. DEFINE out == S \ Page(S, limit)
<1>1. SUFFICES ASSUME out # {} PROVE FALSE
  BY DEF Page
<1>2. PICK r \in out : \A s \in out : s = r \/ Before(r, s)
  BY <1>1, FirstExists
<1>3. Front(S, r) \in SUBSET Page(S, limit)
  <2>. SUFFICES ASSUME NEW s \in Front(S, r), s \in out PROVE FALSE
    BY DEF Front
  <2>1. Before(s, r) /\ (s = r \/ Before(r, s)) /\ s \in S /\ r \in S
    BY <1>2 DEF Front
  <2>. QED BY <2>1, BeforeOrders
<1>4. IsFiniteSet(Page(S, limit))
  BY FS_Subset DEF Page, Listable
<1>5. /\ IsFiniteSet(Front(S, r))
      /\ Cardinality(Front(S, r)) <= Cardinality(Page(S, limit))
  BY <1>3, <1>4, FS_Subset
<1>6. Cardinality(Front(S, r)) \in Nat /\ Cardinality(Page(S, limit)) \in Nat
  BY <1>4, <1>5, FS_CardinalityType
<1>. QED BY <1>2, <1>5, <1>6 DEF Page

-----------------------------------------------------------------------------
(***************************************************************************)
(* What writes do to a listing.                                            *)
(***************************************************************************)
\* A node that is still stored after a write was created when it was before.
LEMMA SameBirth ==
  ASSUME RepoInv, NEW t, NEW i, NEW d, NEW out, upsert(t, i, d, out),
         NEW r \in rows, NEW s \in rows', r.id = s.id, r.tenant = s.tenant
  PROVE  s.created = r.created
<1>. USE DEF RepoInv, PrimaryKey
<1>1. CASE s \in rows
  BY <1>1
<1>2. CASE s \in Overwritten(t, i, d, now') /\ Conflicting(t, i) = {}
  <2>1. s.id = i /\ s.tenant = t
    BY <1>2 DEF Overwritten, Version
  <2>2. r \in Conflicting(t, i)
    BY <2>1 DEF Conflicting
  <2>. QED BY <1>2, <2>2
<1>3. CASE s \in Overwritten(t, i, d, now') /\ Conflicting(t, i) # {}
  <2>1. PICK q \in Conflicting(t, i) : s = Rewritten(q, d, now')
    BY <1>3 DEF Overwritten
  <2>2. s.id = q.id /\ s.tenant = q.tenant /\ s.created = q.created /\ q \in rows
    BY <2>1 DEF Rewritten, Version, Conflicting
  <2>3. q = r
    BY <2>2
  <2>. QED BY <2>2, <2>3
<1>. QED BY <1>1, <1>2, <1>3 DEF upsert, Written

\* An upsert puts one row in the place of one or none.
LEMMA UpsertFinite ==
  ASSUME RepoInv, IsFiniteSet(rows), NEW t, NEW i, NEW d, NEW out, upsert(t, i, d, out)
  PROVE  IsFiniteSet(rows')
<1>1. IsFiniteSet(Overwritten(t, i, d, now'))
  <2>1. PICK r \in Overwritten(t, i, d, now') : TRUE
    <3>1. CASE Conflicting(t, i) = {}
      BY <3>1 DEF Overwritten
    <3>2. CASE Conflicting(t, i) # {}
      BY <3>2 DEF Overwritten
    <3>. QED BY <3>1, <3>2
  <2>2. Overwritten(t, i, d, now') = {r}
    BY OneOverwritten DEF RepoInv
  <2>. QED BY <2>2, FS_Singleton
<1>2. IsFiniteSet(rows \ Conflicting(t, i))
  BY FS_Subset
<1>3. rows' \in {rows, (rows \ Conflicting(t, i)) \cup Overwritten(t, i, d, now')}
  BY DEF upsert, Written
<1>. QED BY <1>1, <1>2, <1>3, FS_Union

\* What is listed for one caller has one node per id.
LEMMA ListedListable ==
  ASSUME RepoInv, IsFiniteSet(rows), NEW t, NEW kind
  PROVE  Listable(OfKind(rows, t, kind))
<1>1. OfKind(rows, t, kind) \in SUBSET rows
  BY DEF OfKind
<1>2. IsFiniteSet(OfKind(rows, t, kind))
  BY <1>1, FS_Subset
<1>. QED BY <1>1, <1>2 DEF Listable, OfKind, RepoInv, RepoTypeOK, PrimaryKey

\* A write keeps what holds of a listing: what stays keeps its time and so its place,
\* and what does not stay is no longer asked for.
LEMMA WriteKeepsListing ==
  ASSUME LInv, NodesChange, RepoInv', IsFiniteSet(rows'),
         \A r \in rows, s \in rows' : r.id = s.id /\ r.tenant = s.tenant => s.created = r.created
  PROVE  LInv'
<1>. USE DEF LInv
<1>1. reader \in Readers
  OBVIOUS
<1>2. /\ reader' \in Readers
      /\ reader'.state = reader.state /\ reader'.tenant = reader.tenant
      /\ reader'.kind = reader.kind /\ reader'.cursor = reader.cursor
      /\ reader'.seen = reader.seen
      /\ reader'.steady = reader.steady \cap Ids(Listed')
      /\ reader'.lost = (reader.lost \/ (reader.cursor # None /\ reader.cursor \notin Ids(Listed')))
  <2>. DEFINE listed == Ids(OfKind(rows', reader.tenant, reader.kind))
  <2>1. reader' = [reader EXCEPT !.steady = @ \cap listed,
                                 !.lost = @ \/ (reader.cursor # None /\ reader.cursor \notin listed)]
    BY DEF NodesChange
  <2>. HIDE DEF listed
  <2>2. /\ reader' \in Readers
        /\ reader'.state = reader.state /\ reader'.tenant = reader.tenant
        /\ reader'.kind = reader.kind /\ reader'.cursor = reader.cursor
        /\ reader'.seen = reader.seen
        /\ reader'.steady = reader.steady \cap listed
        /\ reader'.lost = (reader.lost \/ (reader.cursor # None /\ reader.cursor \notin listed))
    BY <1>1, <2>1 DEF Readers
  <2>3. Listed' = OfKind(rows', reader.tenant, reader.kind)
    BY <2>2 DEF Listed
  <2>. QED BY <2>2, <2>3 DEF listed
<1>3. ASSUME reader'.state = "reading", ~reader'.lost PROVE PlaceHeld'
  <2>1. PlaceHeld /\ (reader.cursor # None => reader.cursor \in Ids(Listed'))
    BY <1>2, <1>3
  <2>2. ASSUME reader.cursor # None, Backend = "memory"
        PROVE  \E c \in Listed' :
                 /\ c.id = reader.cursor
                 /\ \A r \in Listed' :
                      r.id \in reader'.steady => reader.seen[r.id] = IF Behind(r, c) THEN 0 ELSE 1
    <3>1. PICK c \in Listed :
                 /\ c.id = reader.cursor
                 /\ \A r \in Listed :
                      r.id \in reader.steady => reader.seen[r.id] = IF Behind(r, c) THEN 0 ELSE 1
      BY <2>1, <2>2 DEF PlaceHeld
    <3>2. PICK b \in Listed' : b.id = reader.cursor
      BY <2>1, <2>2 DEF Ids
    <3>3. ASSUME NEW r \in Listed', NEW q \in Listed, r.id = q.id PROVE r.created = q.created
      BY <1>2, <3>3 DEF Listed, OfKind
    <3>4. ASSUME NEW r \in Listed', r.id \in reader'.steady
          PROVE  reader.seen[r.id] = IF Behind(r, b) THEN 0 ELSE 1
      <4>1. r.id \in Ids(Listed) /\ r.id \in reader.steady
        BY <1>2, <3>4
      <4>2. PICK q \in Listed : q.id = r.id
        BY <4>1 DEF Ids
      <4>3. r.created = q.created /\ b.created = c.created
        BY <3>1, <3>2, <3>3, <4>2
      <4>4. Behind(r, b) <=> Behind(q, c)
        BY <3>1, <3>2, <4>2, <4>3 DEF Behind, Before
      <4>. QED BY <3>1, <4>1, <4>2, <4>4
    <3>. QED BY <3>2, <3>4
  <2>. QED BY <1>2, <2>1, <2>2 DEF PlaceHeld
<1>4. ListingComplete'
  BY <1>2 DEF ListingComplete
<1>. QED BY <1>2, <1>3, <1>4

-----------------------------------------------------------------------------
(***************************************************************************)
(* The next page.                                                          *)
(***************************************************************************)
\* The nodes of the next page are those behind the cursor that are listed first.
LEMMA PageOfListing ==
  ASSUME NEW t, NEW kind, NEW limit, NEW cursor
  PROVE  query_by_kind(t, kind, limit, cursor) =
           Page(PageFrom(OfKind(rows, t, kind), cursor), limit)
  BY DEF query_by_kind, Page, Front

\* With its place held, the page has none of the nodes that were visited, and when it
\* is not full, all of the others.
LEMMA PageVisits ==
  ASSUME LInv, reader.state = "reading", ~reader.lost, ~Misplaced,
         NEW S, S = PageFrom(Listed, reader.cursor),
         NEW r \in Listed, r.id \in reader.steady
  PROVE  reader.seen[r.id] = IF r \in S THEN 0 ELSE 1
<1>. USE DEF LInv
<1>1. PlaceHeld
  OBVIOUS
<1>2. CASE reader.cursor = None
  <2>1. None \notin Id /\ \A c \in Listed : c.id \in Id
    BY OrderAssumption DEF RepoInv, RepoTypeOK, Listed, OfKind, Row
  <2>2. r \in S
    BY <1>2, <2>1 DEF PageFrom
  <2>. QED BY <1>1, <1>2, <2>1, <2>2 DEF PlaceHeld
<1>3. CASE reader.cursor # None
  <2>1. Backend = "memory"
    BY <1>3, BackendAssumption DEF Misplaced
  <2>2. PICK c \in Listed :
               /\ c.id = reader.cursor
               /\ \A q \in Listed :
                    q.id \in reader.steady => reader.seen[q.id] = IF Behind(q, c) THEN 0 ELSE 1
    BY <1>1, <1>3, <2>1 DEF PlaceHeld
  <2>3. \A b \in Listed : b.id = c.id => b = c
    BY ListedListable DEF Listed, Listable
  <2>4. r \in S <=> Behind(r, c)
    BY <2>1, <2>2, <2>3 DEF PageFrom
  <2>. QED BY <2>2, <2>4
<1>. QED BY <1>2, <1>3

\* What asking for a page does to the reader.
LEMMA PageReader ==
  ASSUME reader \in Readers, RepoInv, IsFiniteSet(rows), NextPage,
         NEW page, page = query_by_kind(reader.tenant, reader.kind, reader.limit, reader.cursor)
  PROVE  /\ reader.state = "reading" /\ rows' = rows /\ now' = now
         /\ reader' \in Readers
         /\ reader'.tenant = reader.tenant /\ reader'.kind = reader.kind
         /\ reader'.steady = reader.steady
         /\ reader'.lost = (reader.lost \/ Misplaced)
         /\ \A i \in Id : reader'.seen[i] = reader.seen[i] + IF i \in Ids(page) THEN 1 ELSE 0
         /\ reader'.cursor = IF page = {} THEN reader.cursor ELSE LastOf(page).id
         /\ reader'.state = IF Cardinality(page) < reader.limit THEN "ended" ELSE "reading"
<1>1. /\ reader.state = "reading" /\ rows' = rows /\ now' = now
      /\ reader' = [reader EXCEPT
           !.pages  = @ + 1,
           !.seen   = [i \in Id |-> @[i] + IF i \in Ids(page) THEN 1 ELSE 0],
           !.cursor = IF page = {} THEN @ ELSE LastOf(page).id,
           !.lost   = @ \/ Misplaced,
           !.state  = IF Cardinality(page) < reader.limit THEN "ended" ELSE "reading"]
  BY DEF NextPage
<1>2. page \subseteq OfKind(rows, reader.tenant, reader.kind)
  BY DEF query_by_kind, PageFrom
<1>3. page # {} => LastOf(page).id \in Id
  <2>1. Listable(page)
    BY <1>2, ListedListable, FS_Subset DEF Listable
  <2>2. page # {} => LastOf(page) \in page
    BY <2>1, LastExists
  <2>. QED BY <2>1, <2>2 DEF Listable, Row
<1>. DEFINE seen == [i \in Id |-> reader.seen[i] + IF i \in Ids(page) THEN 1 ELSE 0]
            cursor == IF page = {} THEN reader.cursor ELSE LastOf(page).id
            state == IF Cardinality(page) < reader.limit THEN "ended" ELSE "reading"
<1>4. /\ seen \in [Id -> Nat] /\ cursor \in Id \cup {None}
      /\ state \in {"reading", "ended"}
  BY <1>3 DEF Readers
<1>5. \A i \in Id : seen[i] = reader.seen[i] + IF i \in Ids(page) THEN 1 ELSE 0
  OBVIOUS
<1>6. PICK lost \in BOOLEAN : lost = (reader.lost \/ Misplaced)
  OBVIOUS
<1>7. reader' = [reader EXCEPT !.pages = @ + 1, !.seen = seen, !.cursor = cursor,
                               !.lost = lost, !.state = state]
  BY <1>1, <1>6
<1>8. /\ cursor = IF page = {} THEN reader.cursor ELSE LastOf(page).id
      /\ state = IF Cardinality(page) < reader.limit THEN "ended" ELSE "reading"
      /\ reader.pages + 1 \in Nat
  BY DEF Readers
<1>. HIDE DEF seen, cursor, state
<1>9. reader' \in Readers
  BY <1>4, <1>7, <1>8 DEF Readers
<1>10. /\ reader'.seen = seen /\ reader'.cursor = cursor
       /\ reader'.lost = lost /\ reader'.state = state
       /\ reader'.tenant = reader.tenant /\ reader'.kind = reader.kind
       /\ reader'.steady = reader.steady
  BY <1>7 DEF Readers
<1>. QED BY <1>1, <1>5, <1>6, <1>8, <1>9, <1>10

\* The next page keeps the listing's place, or ends it with every node that stayed
\* visited once.
LEMMA PageKeepsListing ==
  ASSUME LInv, NextPage
  PROVE  LInv'
<1>. USE DEF LInv
<1>. DEFINE S == PageFrom(Listed, reader.cursor)
            page == Page(S, reader.limit)
<1>1. page = query_by_kind(reader.tenant, reader.kind, reader.limit, reader.cursor)
  BY PageOfListing DEF Listed
<1>2. Listable(Listed) /\ S \in SUBSET Listed
  BY ListedListable DEF Listed, PageFrom
<1>3. Listable(S)
  BY <1>2, FS_Subset DEF Listable
<1>4. reader.limit \in Nat /\ page \subseteq S
  BY DEF Readers, Page
<1>. HIDE DEF S, page
<1>5. /\ reader.state = "reading" /\ rows' = rows /\ now' = now
      /\ reader' \in Readers
      /\ reader'.tenant = reader.tenant /\ reader'.kind = reader.kind
      /\ reader'.steady = reader.steady
      /\ reader'.lost = (reader.lost \/ Misplaced)
      /\ \A i \in Id : reader'.seen[i] = reader.seen[i] + IF i \in Ids(page) THEN 1 ELSE 0
      /\ reader'.cursor = IF page = {} THEN reader.cursor ELSE LastOf(page).id
      /\ reader'.state = IF Cardinality(page) < reader.limit THEN "ended" ELSE "reading"
  BY <1>1, PageReader
<1>6. RepoInv' /\ IsFiniteSet(rows')
  BY <1>5 DEF RepoInv, RepoTypeOK, PrimaryKey, TimesOrdered
<1>7. Listed' = Listed
  BY <1>5 DEF Listed, OfKind
<1>8. reader'.steady \subseteq Ids(Listed')
  BY <1>5, <1>7
<1>9. ASSUME ~reader'.lost, NEW r \in Listed, r.id \in reader.steady
      PROVE  reader'.seen[r.id] = IF r \in S /\ r \notin page THEN 0 ELSE 1
  <2>1. ~reader.lost /\ ~Misplaced
    BY <1>5, <1>9
  <2>2. reader.seen[r.id] = IF r \in S THEN 0 ELSE 1
    BY <1>5, <1>9, <2>1, PageVisits DEF S
  <2>3. r.id \in Ids(page) <=> r \in page
    BY <1>2, <1>4 DEF Ids, Listable
  <2>4. r.id \in Id
    BY <1>9 DEF Readers
  <2>. QED BY <1>4, <1>5, <2>2, <2>3, <2>4
<1>10. ASSUME reader'.state = "reading", ~reader'.lost PROVE PlaceHeld'
  <2>1. CASE page = {}
    <3>1. reader'.cursor = reader.cursor /\ PlaceHeld
      BY <1>5, <1>10, <2>1
    <3>2. \A i \in Id : reader'.seen[i] = reader.seen[i]
      BY <1>5, <2>1 DEF Ids, Readers
    <3>3. \A r \in Listed : r.id \in reader.steady => r.id \in Id
      BY DEF Readers
    <3>. QED BY <1>5, <1>7, <3>1, <3>2, <3>3 DEF PlaceHeld
  <2>2. CASE page # {}
    <3>. DEFINE c == LastOf(page)
    <3>1. c \in page /\ \A r \in page : r = c \/ Before(r, c)
      <4>1. Listable(page)
        BY <1>3, <1>4, FS_Subset DEF Listable
      <4>. QED BY <2>2, <4>1, LastExists
    <3>. HIDE DEF c
    <3>2. c \in S /\ c \in Listed /\ c.id \in Id /\ None \notin Id
      BY <1>2, <1>4, <3>1, OrderAssumption DEF Listable, Row
    <3>3. reader'.cursor = c.id /\ reader'.cursor # None
      BY <1>5, <2>2, <3>2 DEF c
    <3>4. ASSUME Backend = "memory", NEW r \in Listed, r.id \in reader.steady
          PROVE  reader'.seen[r.id] = IF Behind(r, c) THEN 0 ELSE 1
      <4>1. CASE r \in page
        <5>1. ~Behind(r, c)
          BY <1>2, <3>1, <3>2, <3>4, <4>1, BeforeOrders DEF Behind
        <5>. QED BY <1>9, <1>10, <3>4, <4>1, <5>1
      <4>2. CASE r \in S /\ r \notin page
        <5>1. ~Before(r, c) /\ r # c
          BY <1>3, <1>4, <3>1, <4>2, PageFromFront DEF page
        <5>2. Behind(r, c)
          BY <1>3, <3>2, <4>2, <5>1, BeforeOrders DEF Behind
        <5>. QED BY <1>9, <1>10, <3>4, <4>2, <5>2
      <4>3. CASE r \notin S
        <5>1. PICK b \in Listed : b.id = reader.cursor /\ ~Behind(r, b)
          BY <3>4, <4>3 DEF S, PageFrom
        <5>2. Behind(c, b)
          BY <3>2, <3>4, <5>1 DEF S, PageFrom
        <5>3. ~Behind(r, c)
          BY <1>2, <3>2, <3>4, <5>1, <5>2, BeforeOrders DEF Behind
        <5>4. r \notin page
          BY <1>4, <4>3
        <5>. QED BY <1>9, <1>10, <3>4, <4>3, <5>3
      <4>. QED BY <4>1, <4>2, <4>3
    <3>. QED BY <1>5, <1>7, <3>2, <3>3, <3>4 DEF PlaceHeld, Behind, Before
  <2>. QED BY <2>1, <2>2
<1>11. ListingComplete'
  <2>. SUFFICES ASSUME reader'.state = "ended", ~reader'.lost, NEW i \in reader'.steady
                PROVE  reader'.seen[i] = 1
    BY DEF ListingComplete
  <2>1. page = S
    BY <1>3, <1>4, <1>5, LastPageTakesAll DEF page
  <2>2. PICK r \in Listed : r.id = i
    BY <1>5 DEF Ids
  <2>. QED BY <1>5, <1>9, <2>1, <2>2
<1>. QED BY <1>5, <1>6, <1>8, <1>10, <1>11

-----------------------------------------------------------------------------
\* A listing begins with nothing visited.
LEMMA BeginsListing ==
  ASSUME LInv, NEW t \in Tenant, NEW kind \in Kind, NEW limit \in Limit,
         BeginListing(t, kind, limit)
  PROVE  LInv'
<1>. USE DEF LInv
<1>1. /\ rows' = rows /\ now' = now
      /\ reader' = [state |-> "reading", tenant |-> t, kind |-> kind, limit |-> limit,
                    cursor |-> None, pages |-> 0, seen |-> [i \in Id |-> 0],
                    steady |-> Ids(OfKind(rows, t, kind)), lost |-> FALSE]
  BY DEF BeginListing, NoReader
<1>2. Ids(OfKind(rows, t, kind)) \subseteq Id
  BY DEF Ids, OfKind, RepoInv, RepoTypeOK, Row
<1>3. reader' \in Readers
  BY <1>1, <1>2, LimitAssumption DEF Readers
<1>4. RepoInv' /\ IsFiniteSet(rows')
  BY <1>1 DEF RepoInv, RepoTypeOK, PrimaryKey, TimesOrdered
<1>5. reader'.steady = Ids(Listed')
  BY <1>1 DEF Listed, OfKind
<1>6. PlaceHeld' /\ ListingComplete'
  BY <1>1 DEF PlaceHeld, ListingComplete
<1>. QED BY <1>3, <1>4, <1>5, <1>6

\* Every step, or a stuttering one, keeps LInv.
LEMMA ListingStep == LInv /\ [Next]_vars => LInv'
<1>. SUFFICES ASSUME LInv, [Next]_vars PROVE LInv'
  OBVIOUS
<1>. USE DEF LInv
<1>1. ASSUME NEW t \in Tenant, NEW i \in Id, NEW d \in Doc, Store(t, i, d) PROVE LInv'
  <2>1. PICK out \in {Created, Updated, Err} : upsert(t, i, d, out)
    BY <1>1 DEF Store
  <2>2. RepoInv' /\ IsFiniteSet(rows')
    BY <2>1, UpsertPreserves, UpsertFinite
  <2>3. \A r \in rows, s \in rows' : r.id = s.id /\ r.tenant = s.tenant => s.created = r.created
    BY <2>1, SameBirth
  <2>. QED BY <1>1, <2>2, <2>3, WriteKeepsListing DEF Store
<1>2. ASSUME NEW t \in Tenant, NEW k \in Key, Delete(t, k) PROVE LInv'
  <2>1. PICK out \in rows \cup {None, Err} : delete_by_key(t, k, out)
    BY <1>2 DEF Delete
  <2>2. RepoInv' /\ rows' \subseteq rows
    BY <2>1, DeletePreserves
  <2>3. IsFiniteSet(rows')
    BY <2>2, FS_Subset
  <2>4. \A r \in rows, s \in rows' : r.id = s.id /\ r.tenant = s.tenant => s.created = r.created
    BY <2>2 DEF RepoInv, PrimaryKey
  <2>. QED BY <1>2, <2>2, <2>3, <2>4, WriteKeepsListing DEF Delete
<1>3. ASSUME rows' = rows, reader' = reader, RepoInv' PROVE LInv'
  BY <1>3 DEF Listed, OfKind, PlaceHeld, ListingComplete
<1>4. ASSUME NEW t \in Tenant, NEW src \in Id, NEW dst \in Id, NEW rel \in Rel,
             NEW out \in {None, Err}, link(t, src, dst, rel, out)
      PROVE  LInv'
  <2>1. now \in Nat /\ now' \in Nat /\ now <= now' /\ rows' = rows /\ reader' = reader
    BY <1>4, TickAdvances DEF link, RepoInv, RepoTypeOK
  <2>2. \A r \in rows : r.updated \in Nat
    BY DEF RepoInv, RepoTypeOK, Row
  <2>3. RepoInv'
    BY <2>1, <2>2 DEF RepoInv, RepoTypeOK, PrimaryKey, TimesOrdered
  <2>. QED BY <1>3, <2>1, <2>3
<1>5. CASE UNCHANGED vars
  BY <1>3, <1>5 DEF vars, RepoInv, RepoTypeOK, PrimaryKey, TimesOrdered
<1>. QED BY <1>1, <1>2, <1>4, <1>5, BeginsListing, PageKeepsListing DEF Next

\* Whatever is stored, deleted and stored again between the pages of a listing, and
\* whatever its limit: each node that stayed is visited, and once, if the listing did
\* not lose its place.
THEOREM ListingsAreComplete == Spec => []ListingComplete
<1>1. Init => LInv
  <2>. SUFFICES ASSUME Init PROVE LInv
    OBVIOUS
  <2>1. rows = {} /\ now = 0 /\ reader = NoReader
    BY DEF Init, RepoInit
  <2>2. RepoInv
    BY <2>1 DEF RepoInv, RepoTypeOK, PrimaryKey, TimesOrdered
  <2>3. reader \in Readers
    BY <2>1 DEF NoReader, Readers
  <2>. QED BY <2>1, <2>2, <2>3, FS_EmptySet DEF LInv, NoReader, ListingComplete
<1>2. LInv => ListingComplete
  BY DEF LInv
<1>. QED BY <1>1, <1>2, ListingStep, PTL DEF Spec
=============================================================================
