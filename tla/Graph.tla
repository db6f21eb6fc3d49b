---------------------------------- MODULE Graph ----------------------------------
(***************************************************************************)
(* The graph over the stored nodes: the EdgeRepository trait with its two  *)
(* implementations, and query_by_kind, which lists the nodes of a kind     *)
(* page by page.                                                           *)
(*                                                                         *)
(* Edges live in a list per tenant in memory and in table knowledge_edges  *)
(* in PostgreSQL, whose foreign keys delete an edge with either node.      *)
(* A caller of query_by_kind asks for page after page, each from the last  *)
(* node of the one before, until a page is not full.  Nothing in the       *)
(* program links or lists nodes yet; the callers are those of the traits.  *)
(***************************************************************************)
EXTENDS NodeRepository

CONSTANTS
  KindOf(_),  \* the kind of a document
  Kind,       \* node kinds
  Rel,        \* edge relations
  Limit,      \* the limits callers ask for
  MaxLinks,   \* bound on links, for model checking
  MaxPages    \* bound on the pages of a listing, for model checking

\* UUIDs are compared as the numbers they are, and limits are usize and u32.
ASSUME OrderAssumption == Id \subseteq Int /\ None \notin Id
ASSUME LimitAssumption == Limit \subseteq Nat

VARIABLES
  edges,   \* the stored edges
  links,   \* how many were ever stored
  reader   \* a caller in the middle of a listing

vars == <<rows, now, edges, links, reader>>

\* nr is the position in the list, and the fresh UUID of either backend.
Edge == [nr : Nat, tenant : Tenant, src : Id, dst : Id, rel : Rel, created : Nat]

Ids(S) == {r.id : r \in S}

-----------------------------------------------------------------------------
(***************************************************************************)
(* Writes.                                                                 *)
(***************************************************************************)
\* The foreign keys of an edge.  They are checked past the policies: a node of
\* any tenant will do.
ForeignKeys(t, src, dst) == t \in Registered /\ {src, dst} \subseteq Ids(rows)

link(t, src, dst, rel, out) ==
  /\ links < MaxLinks
  /\ Tick
  /\ \/ /\ Backend = "postgres" => ForeignKeys(t, src, dst)
        /\ links' = links + 1
        /\ edges' = edges \cup {[nr |-> links', tenant |-> t, src |-> src, dst |-> dst,
                                 rel |-> rel, created |-> now']}
        /\ out = None \/ (Faults /\ out = Err)
     \/ /\ Faults \/ (Backend = "postgres" /\ ~ForeignKeys(t, src, dst))
        /\ UNCHANGED <<edges, links>>
        /\ out = Err
  /\ UNCHANGED <<rows, reader>>

\* Faulty: only the edges that start at the node go with it.
Cascade_Source(gone) == {e \in edges : e.src \in gone}

\* ON DELETE CASCADE; the list in memory knows nothing of the nodes.
Cascade(gone) ==
  IF Backend = "memory" THEN {} ELSE {e \in edges : {e.src, e.dst} \cap gone # {}}

OfKind(S, t, kind) == {r \in S : r.tenant = t /\ KindOf(r.doc) = kind}

\* What every write of nodes does to the edges, and to what a listing should find.
NodesChange ==
  /\ edges' = edges \ Cascade(Ids(rows) \ Ids(rows'))
  /\ LET listed == Ids(OfKind(rows', reader.tenant, reader.kind))
     IN  reader' = [reader EXCEPT
           !.steady = @ \cap listed,
           !.lost   = @ \/ (reader.cursor # None /\ reader.cursor \notin listed)]
  /\ UNCHANGED links

Store(t, i, d) ==
  /\ \E out \in {Created, Updated, Err} : upsert(t, i, d, out)
  /\ NodesChange

Delete(t, k) ==
  /\ \E out \in rows \cup {None, Err} : delete_by_key(t, k, out)
  /\ NodesChange

-----------------------------------------------------------------------------
(***************************************************************************)
(* neighbors: the set of results the call may return.  The memory answers  *)
(* a placeholder that names the target of each of the first edges, the     *)
(* database the nodes the newest edges lead to.                            *)
(***************************************************************************)
\* Faulty: the policy is not applied to the nodes that edges lead to.
Joined_NoPolicy(t, e) == {r \in rows : r.id = e.dst}

\* JOIN knowledge_nodes: by id, so it is the policy that leaves other tenants out.
Joined(t, e) == {r \in rows : r.id = e.dst /\ (Rls => r.tenant = t)}

Leaving(t, i, rel) ==
  {e \in edges : e.tenant = t /\ e.src = i /\ (rel # None => e.rel = rel)}

\* The subsets of S that LIMIT leaves when S is sorted by Before.
Limited(S, limit, Before(_, _)) ==
  {T \in SUBSET S :
     /\ Cardinality(T) = IF Cardinality(S) < limit THEN Cardinality(S) ELSE limit
     /\ \A e \in T, f \in S \ T : ~Before(f, e)}

Earlier(e, f) == e.nr < f.nr
Newer(e, f)   == e.created > f.created

neighbors(t, i, rel, limit) ==
  IF Backend = "memory"
  THEN {{[target |-> e.dst, edge |-> e.nr] : e \in T} :
          T \in Limited(Leaving(t, i, rel), limit, Earlier)}
  ELSE {UNION {Joined(t, e) : e \in T} :
          T \in Limited({e \in Leaving(t, i, rel) : Joined(t, e) # {}}, limit, Newer)}

-----------------------------------------------------------------------------
(***************************************************************************)
(* query_by_kind.  In memory the nodes are sorted by (created_at, id) and  *)
(* the page begins behind the cursor, or at the front when no such node is *)
(* listed any more.  The statement filters by id and sorts newest first.   *)
(***************************************************************************)
Before(r, s) ==
  \/ IF Backend = "memory" THEN r.created < s.created ELSE r.created > s.created
  \/ (r.created = s.created /\ r.id < s.id)

\* Faulty: the cursor's own node is on the next page too; nodes of its time are not.
Behind_From(r, c)     == r = c \/ Before(c, r)
Behind_TimeOnly(r, c) == c.created < r.created

Behind(r, c) == Before(c, r)

PageFrom(S, cursor) ==
  IF Backend = "memory"
  THEN {r \in S : \A c \in S : c.id = cursor => Behind(r, c)}
  ELSE {r \in S : cursor # None => r.id > cursor}

query_by_kind(t, kind, limit, cursor) ==
  LET S == PageFrom(OfKind(rows, t, kind), cursor)
  IN  {r \in S : Cardinality({s \in S : Before(s, r)}) < limit}

LastOf(page) == CHOOSE r \in page : \A s \in page : s = r \/ Before(s, r)

\* A page after the first keeps no place in PostgreSQL, where id > cursor picks its
\* nodes and created_at their order.
Misplaced == Backend = "postgres" /\ reader.cursor # None

NoReader ==
  [state |-> "idle", tenant |-> None, kind |-> None, limit |-> 0, cursor |-> None,
   pages |-> 0, seen |-> [i \in Id |-> 0], steady |-> {}, lost |-> FALSE]

BeginListing(t, kind, limit) ==
  /\ reader.state = "idle"
  /\ reader' = [NoReader EXCEPT !.state = "reading", !.tenant = t, !.kind = kind,
                                !.limit = limit, !.steady = Ids(OfKind(rows, t, kind))]
  /\ UNCHANGED <<rows, now, edges, links>>

NextPage ==
  LET page == query_by_kind(reader.tenant, reader.kind, reader.limit, reader.cursor) IN
  /\ reader.state = "reading" /\ reader.pages < MaxPages
  /\ reader' = [reader EXCEPT
       !.pages  = @ + 1,
       !.seen   = [i \in Id |-> @[i] + IF i \in Ids(page) THEN 1 ELSE 0],
       !.cursor = IF page = {} THEN @ ELSE LastOf(page).id,
       !.lost   = @ \/ Misplaced,
       !.state  = IF Cardinality(page) < reader.limit THEN "ended" ELSE "reading"]
  /\ UNCHANGED <<rows, now, edges, links>>

-----------------------------------------------------------------------------
Init == RepoInit /\ edges = {} /\ links = 0 /\ reader = NoReader

Next ==
  \/ \E t \in Tenant :
       \/ \E i \in Id, d \in Doc : Store(t, i, d)
       \/ \E k \in Key : Delete(t, k)
       \/ \E src, dst \in Id, rel \in Rel, out \in {None, Err} : link(t, src, dst, rel, out)
       \/ \E kind \in Kind, limit \in Limit : BeginListing(t, kind, limit)
  \/ NextPage

Spec == Init /\ [][Next]_vars

-----------------------------------------------------------------------------
\* Nodes and edges have their types, and edges their numbers.
TypeOK ==
  /\ RepoTypeOK
  /\ links \in Nat
  /\ edges \subseteq Edge
  /\ \A e \in edges : e.nr \in 1 .. links
  /\ \A e, f \in edges : e.nr = f.nr => e = f

\* In PostgreSQL both nodes of an edge are stored and older than it: a node that
\* is deleted and stored again under its id has none of its former edges.
NoInheritedEdges ==
  Backend = "postgres" =>
    \A e \in edges, i \in Id :
      i \in {e.src, e.dst} => \E r \in rows : r.id = i /\ r.created <= e.created

\* Under the policies, and whomever's nodes an edge may join, neighbors answers
\* a tenant nodes of its own, each the target of one of its edges.
NeighborsAreOwn ==
  Backend = "postgres" /\ Rls =>
    \A t \in Tenant, i \in Id, rel \in Rel \cup {None}, limit \in Limit :
      \A result \in neighbors(t, i, rel, limit) : \A r \in result :
        /\ r.tenant = t
        /\ \E e \in edges : e.tenant = t /\ e.src = i /\ e.dst = r.id

\* A listing visits each node that was of its kind from its begin to its end, and
\* visits it once, whatever is stored and deleted meanwhile, unless it lost its place:
\* in memory, when the node it stood on was deleted (even if it is stored again, since
\* it then is at the end of the list); in PostgreSQL, when one page was not enough.
ListingComplete ==
  reader.state = "ended" /\ ~reader.lost => \A i \in reader.steady : reader.seen[i] = 1
=============================================================================
