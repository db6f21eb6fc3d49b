-------------------------- MODULE CapsuleServiceProofs --------------------------
(***************************************************************************)
(* Theorems about every behaviour of CapsuleService: any number of         *)
(* handlers, tenants, keys and hashes, any requests, both backends,        *)
(* crashes and disconnects included unless a theorem says otherwise.       *)
(***************************************************************************)
EXTENDS CapsuleService, NodeRepositoryProofs, SequenceTheorems

LEMMA ResolvesToTenant ==
  ASSUME NEW hint
  PROVE  resolve_tenant(hint) \in Tenant
  BY TenantAssumption DEF resolve_tenant

LEMMA DocFields ==
  ASSUME NEW d \in Doc
  PROVE  /\ d.key \in Key /\ d.hash \in Hash /\ d.policy \in Slug
         /\ KeyOf(d) = d.key /\ stable_id(d) \in Id
  BY CapsuleAssumption, StableIdAssumption DEF stable_id

\* A read by key returns a stored row, None or an error.
LEMMA ReadReturns ==
  ASSUME NEW t, NEW k, NEW found \in get_by_key(t, k)
  PROVE  found \in rows \cup {None, Err}
  BY DEF get_by_key, Newest, Matching, Fault

LEMMA EventTypes ==
  ASSUME NEW d \in Doc
  PROVE  /\ UpsertNode(d) \in Events /\ UpsertNode(d) # NoEvent
         /\ RevokeCapsule(d) \in Events /\ RevokeCapsule(d) # NoEvent
         /\ \A x \in Hash : SupersededBy(d, x) \in Events /\ SupersededBy(d, x) # NoEvent
  BY DocFields DEF UpsertNode, RevokeCapsule, SupersededBy, NoEvent, GraphEvent, Events

LEMMA StoreEventType ==
  ASSUME NEW d \in Doc, NEW x \in Hash \cup {None}, NEW out
  PROVE  store_event(d, x, out) \in Events /\ store_event(d, x, out) # NoEvent
  BY EventTypes DEF store_event

HandlerOK == HandlerTypeOK /\ \A h \in Handler : PhaseOK(h)

LEMMA NoRequestType == NoRequest \in Request /\ NoEvent \in Events
  BY DEF NoRequest, Request, NoEvent, GraphEvent, Events

\* A handler that ends is idle, with nothing left of its request.
LEMMA FinishOK ==
  ASSUME HandlerOK, NEW h \in Handler, NEW status \in Statuses, Finish(h, status)
  PROVE  HandlerOK'
<1>1. HandlerTypeOK'
  BY NoRequestType DEF HandlerOK, HandlerTypeOK, Finish
<1>2. ASSUME NEW g \in Handler
      PROVE  PhaseOK(g)'
  BY <1>2 DEF HandlerOK, HandlerTypeOK, PhaseOK, Finish
<1> QED
  BY <1>1, <1>2 DEF HandlerOK

\* A handler that announces an event is about to publish it.
LEMMA AnnounceOK ==
  ASSUME HandlerOK, NEW h \in Handler, NEW e \in Events, e # NoEvent,
         pc[h] \in {"upsert", "purge"}, Announce(h, e), todo' \in [Handler -> Seq(Key)]
  PROVE  HandlerOK'
<1>1. HandlerTypeOK'
  BY DEF HandlerOK, HandlerTypeOK, Announce
<1>2. ASSUME NEW g \in Handler
      PROVE  PhaseOK(g)'
  BY <1>2 DEF HandlerOK, HandlerTypeOK, PhaseOK, Announce
<1> QED
  BY <1>1, <1>2 DEF HandlerOK

-----------------------------------------------------------------------------
(***************************************************************************)
(* Types: one lemma per action.                                            *)
(***************************************************************************)
Inv == RepoInv /\ TypeOK

LEMMA InvParts == Inv => RepoInv /\ HandlerOK /\ WorldTypeOK /\ BoundTypeOK
  BY DEF Inv, TypeOK, HandlerOK, RepoInv

LEMMA InvNext ==
  ASSUME RepoInv', HandlerOK', WorldTypeOK', BoundTypeOK'
  PROVE  Inv'
  BY DEF Inv, TypeOK, HandlerOK, RepoInv

\* The step leaves the repository alone.
LEMMA RepoStays ==
  ASSUME RepoInv, UNCHANGED repoVars
  PROVE  RepoInv'
  BY DEF repoVars, RepoInv, RepoTypeOK, PrimaryKey, TimesOrdered

LEMMA WorldStays ==
  ASSUME WorldTypeOK, UNCHANGED worldVars
  PROVE  WorldTypeOK'
  BY DEF worldVars, WorldTypeOK

LEMMA BoundsStay ==
  ASSUME BoundTypeOK, UNCHANGED boundVars
  PROVE  BoundTypeOK'
  BY DEF boundVars, BoundTypeOK

LEMMA AcceptBounds ==
  ASSUME BoundTypeOK, NEW h, Accept(h)
  PROVE  BoundTypeOK'
  BY BoundAssumption DEF BoundTypeOK, Accept

LEMMA StoreTypes ==
  ASSUME Inv, NEW h \in Handler, NEW hint \in Hint, NEW c \in Capsule,
         api_capsule_store(h, hint, c)
  PROVE  Inv'
<1>1. RepoInv' /\ WorldTypeOK' /\ BoundTypeOK'
  BY InvParts, RepoStays, WorldStays, AcceptBounds DEF api_capsule_store
<1>2. HandlerOK
  BY InvParts
<1>3. ASSUME NEW status \in Statuses, Finish(h, status)
      PROVE  HandlerOK'
  BY <1>2, <1>3, FinishOK
<1>4. ASSUME NEW found \in get_by_key(resolve_tenant(hint), c.key), found # Err,
             c.policy # Empty, c.hash # Empty, StoreBegins(h, hint, c, found)
      PROVE  HandlerOK'
  <2>1. c \in Doc
    BY <1>4, CapsuleAssumption
  <2>2. found # None => found.doc.hash \in Hash
    <3>1. found # None => found.doc \in Doc
      BY <1>4, ReadReturns, InvParts DEF RepoInv, RepoTypeOK, Row
    <3> QED
      BY <3>1, DocFields
  <2>3. HandlerTypeOK'
    BY <1>2, <1>4, <2>1, <2>2
       DEF StoreBegins, HandlerOK, HandlerTypeOK, Request, Statuses
  <2>4. ASSUME NEW g \in Handler
        PROVE  PhaseOK(g)'
    <3>1. pc[h] = "idle"
      BY DEF api_capsule_store, Accept
    <3> QED
      BY <1>2, <1>4, <2>1, <2>4, <3>1
         DEF StoreBegins, HandlerOK, HandlerTypeOK, PhaseOK
  <2> QED
    BY <2>3, <2>4 DEF HandlerOK
<1>5. HandlerOK'
  BY <1>3, <1>4 DEF api_capsule_store, Statuses
<1> QED
  BY <1>1, <1>5, InvNext

LEMMA UpsertTypes ==
  ASSUME Inv, NEW h \in Handler, store_upsert(h)
  PROVE  Inv'
<1> DEFINE c == req[h].capsule
<1>1. HandlerOK /\ c \in Doc /\ old[h] \in Hash \cup {None}
  BY InvParts DEF HandlerOK, HandlerTypeOK, PhaseOK, store_upsert
<1>2. PICK out \in {Created, Updated, Err} :
        /\ upsert(resolve_tenant(req[h].hint), stable_id(c), c, out)
        /\ \/ out = Err /\ Finish(h, "error")
           \/ out # Err /\ ~BusEnabled /\ Finish(h, "ok")
           \/ /\ out # Err /\ BusEnabled
              /\ Announce(h, store_event(c, old[h], out))
              /\ todo' = todo
  BY DEF store_upsert
<1>3. RepoInv'
  <2>1. RepoInv /\ stable_id(c) \in Id
    BY <1>1, DocFields, InvParts
  <2> QED
    BY <1>1, <1>2, <2>1, ResolvesToTenant, UpsertPreserves
<1>4. WorldTypeOK' /\ BoundTypeOK'
  BY InvParts, WorldStays, BoundsStay DEF store_upsert
<1>5. HandlerOK'
  <2>1. CASE Finish(h, "error") \/ Finish(h, "ok")
    BY <1>1, <2>1, FinishOK DEF Statuses
  <2>2. CASE Announce(h, store_event(c, old[h], out)) /\ todo' = todo
    <3>1. todo' \in [Handler -> Seq(Key)] /\ pc[h] = "upsert"
      BY <1>1, <2>2 DEF HandlerOK, HandlerTypeOK, store_upsert
    <3>2. store_event(c, old[h], out) \in Events /\ store_event(c, old[h], out) # NoEvent
      BY <1>1, StoreEventType
    <3> QED
      BY <1>1, <2>2, <3>1, <3>2, AnnounceOK
  <2> QED
    BY <1>2, <2>1, <2>2
<1> QED
  BY <1>3, <1>4, <1>5, InvNext

LEMMA PurgeTypes ==
  ASSUME Inv, NEW h \in Handler, NEW hint \in Hint, NEW keys \in KeyList,
         api_capsule_purge(h, hint, keys)
  PROVE  Inv'
<1>1. RepoInv' /\ WorldTypeOK' /\ BoundTypeOK'
  BY InvParts, RepoStays, WorldStays, AcceptBounds DEF api_capsule_purge
<1>2. HandlerOK /\ keys \in Seq(Key) /\ pc[h] = "idle"
  BY InvParts, ListAssumption DEF api_capsule_purge, Accept
<1>3. HandlerTypeOK'
  BY <1>2 DEF api_capsule_purge, HandlerOK, HandlerTypeOK, Request, Statuses
<1>4. ASSUME NEW g \in Handler
      PROVE  PhaseOK(g)'
  BY <1>2, <1>4 DEF api_capsule_purge, HandlerOK, HandlerTypeOK, PhaseOK
<1> QED
  BY <1>1, <1>3, <1>4, InvNext DEF HandlerOK

LEMMA TailKeys ==
  ASSUME NEW keys \in Seq(Key), keys # <<>>
  PROVE  Tail(keys) \in Seq(Key) /\ Head(keys) \in Key
  OBVIOUS

LEMMA NextKeyType ==
  ASSUME HandlerOK, NEW h \in Handler, todo[h] # <<>>, next_key(h)
  PROVE  todo' \in [Handler -> Seq(Key)]
<1>1. todo \in [Handler -> Seq(Key)] /\ Tail(todo[h]) \in Seq(Key)
  BY TailKeys DEF HandlerOK, HandlerTypeOK
<1> QED
  BY <1>1 DEF next_key

LEMMA PurgeEndsTypes ==
  ASSUME Inv, NEW h \in Handler, purge_ends(h)
  PROVE  Inv'
<1>1. RepoInv' /\ WorldTypeOK' /\ BoundTypeOK'
  BY InvParts, RepoStays, WorldStays, BoundsStay DEF purge_ends
<1>2. HandlerOK'
  BY InvParts, FinishOK DEF purge_ends, Statuses
<1> QED
  BY <1>1, <1>2, InvNext

LEMMA PurgeKeyTypes ==
  ASSUME Inv, NEW h \in Handler, purge_key(h)
  PROVE  Inv'
<1> DEFINE t == resolve_tenant(req[h].hint)
           k == Head(todo[h])
<1>1. PICK out \in rows \cup {None, Err} :
        /\ delete_by_key(t, k, out)
        /\ \/ out = Err /\ Finish(h, "error")
           \/ /\ out # Err /\ ~revokes(out)
              /\ next_key(h)
              /\ UNCHANGED <<pc, req, old, event, answer>>
           \/ revokes(out) /\ from_node_panics(out) /\ Finish(h, "lost")
           \/ /\ revokes(out) /\ ~from_node_panics(out)
              /\ Announce(h, RevokeCapsule(out.doc))
              /\ next_key(h)
  BY DEF purge_key
<1>2. RepoInv' /\ rows' \subseteq rows
  BY <1>1, InvParts, DeletePreserves
<1>3. HandlerOK /\ pc[h] = "purge" /\ todo[h] # <<>>
  BY InvParts DEF purge_key
<1>4. ASSUME NEW r \in rows
      PROVE  RevokeCapsule(r.doc) \in Events /\ RevokeCapsule(r.doc) # NoEvent
  <2>1. r.doc \in Doc
    BY <1>4, InvParts DEF RepoInv, RepoTypeOK, Row
  <2> QED
    BY <2>1, EventTypes
<1>5. WorldTypeOK'
  <2>1. WorldTypeOK /\ cached' = cached /\ filling' = filling
        /\ unannounced' = unannounced \cup {RevokeCapsule(r.doc) : r \in rows \ rows'}
    BY InvParts DEF purge_key
  <2> QED
    BY <2>1, <1>4 DEF WorldTypeOK
<1>6. BoundTypeOK'
  BY InvParts, BoundsStay DEF purge_key
<1>7. HandlerOK'
  <2>1. CASE Finish(h, "error") \/ Finish(h, "lost")
    BY <1>3, <2>1, FinishOK DEF Statuses
  <2>2. CASE next_key(h) /\ UNCHANGED <<pc, req, old, event, answer>>
    <3>1. todo' \in [Handler -> Seq(Key)]
      BY <1>3, <2>2, NextKeyType
    <3> QED
      BY <1>3, <2>2, <3>1 DEF HandlerOK, HandlerTypeOK, PhaseOK
  <2>3. CASE revokes(out) /\ Announce(h, RevokeCapsule(out.doc)) /\ next_key(h)
    <3>1. todo' \in [Handler -> Seq(Key)]
      BY <1>3, <2>3, NextKeyType
    <3>2. out \in rows
      BY <2>3 DEF revokes
    <3> QED
      BY <1>3, <1>4, <2>3, <3>1, <3>2, AnnounceOK
  <2> QED
    BY <1>1, <2>1, <2>2, <2>3
<1> QED
  BY <1>2, <1>5, <1>6, <1>7, InvNext

LEMMA PublishTypes ==
  ASSUME Inv, NEW h \in Handler, publish_graph_event(h)
  PROVE  Inv'
<1>1. RepoInv' /\ BoundTypeOK'
  BY InvParts, RepoStays, BoundsStay DEF publish_graph_event
<1>2. WorldTypeOK'
  BY InvParts DEF publish_graph_event, WorldTypeOK
<1>3. HandlerOK'
  <2>1. HandlerOK /\ pc[h] = "publish"
    BY InvParts DEF publish_graph_event
  <2>2. CASE Finish(h, "ok")
    BY <2>1, <2>2, FinishOK DEF Statuses
  <2>3. CASE /\ req[h].op = "purge"
             /\ pc' = [pc EXCEPT ![h] = "purge"]
             /\ event' = [event EXCEPT ![h] = NoEvent]
             /\ UNCHANGED <<req, old, todo, answer>>
    <3>1. HandlerTypeOK'
      BY <2>1, <2>3, NoRequestType DEF HandlerOK, HandlerTypeOK
    <3>2. ASSUME NEW g \in Handler
          PROVE  PhaseOK(g)'
      BY <2>1, <2>3, <3>2 DEF HandlerOK, HandlerTypeOK, PhaseOK
    <3> QED
      BY <3>1, <3>2 DEF HandlerOK
  <2> QED
    BY <2>2, <2>3 DEF publish_graph_event
<1> QED
  BY <1>1, <1>2, <1>3, InvNext

LEMMA ScedgeTypes ==
  ASSUME Inv, NEW s \in Slug, NEW k \in Key, ScedgeMiss(s, k)
  PROVE  Inv'
<1>1. RepoInv' /\ BoundTypeOK'
  BY InvParts, RepoStays, BoundsStay DEF ScedgeMiss
<1>2. HandlerOK'
  BY InvParts DEF ScedgeMiss, handlerVars, HandlerOK, HandlerTypeOK, PhaseOK
<1>3. WorldTypeOK'
  <2>1. PICK reply \in api_capsule_lookup(s, k) :
          reply.status = "ok" /\ filling' = filling \cup {Entry(s, k, reply.doc.hash)}
    BY DEF ScedgeMiss
  <2>2. PICK found \in get_by_key(resolve_tenant(s), k) : reply = lookup_reply(s, found)
    BY <2>1 DEF api_capsule_lookup
  <2>3. found \in rows /\ reply = Reply("ok", found.doc)
    BY <2>1, <2>2, ReadReturns DEF lookup_reply, Reply
  <2>4. reply.doc \in Doc
    BY <2>3, InvParts DEF Reply, RepoInv, RepoTypeOK, Row
  <2> QED
    BY <2>1, <2>4, DocFields, InvParts DEF ScedgeMiss, WorldTypeOK, Entry, Entries
<1> QED
  BY <1>1, <1>2, <1>3, InvNext

LEMMA FillTypes ==
  ASSUME Inv, NEW e \in filling, ScedgeFill(e)
  PROVE  Inv'
<1>1. RepoInv' /\ BoundTypeOK'
  BY InvParts, RepoStays, BoundsStay DEF ScedgeFill
<1>2. HandlerOK'
  BY InvParts DEF ScedgeFill, handlerVars, HandlerOK, HandlerTypeOK, PhaseOK
<1>3. WorldTypeOK'
  BY InvParts DEF ScedgeFill, WorldTypeOK
<1> QED
  BY <1>1, <1>2, <1>3, InvNext

LEMMA CrashTypes ==
  ASSUME Inv, Crash
  PROVE  Inv'
<1>1. RepoInv'
  BY InvParts DEF Crash, RepoInv, RepoTypeOK, PrimaryKey, TimesOrdered
<1>2. WorldTypeOK'
  BY InvParts, WorldStays DEF Crash
<1>3. BoundTypeOK'
  BY InvParts, BoundAssumption DEF Crash, BoundTypeOK
<1>4. HandlerOK'
  BY InvParts, NoRequestType
     DEF Crash, HandlerOK, HandlerTypeOK, PhaseOK, Statuses
<1> QED
  BY <1>1, <1>2, <1>3, <1>4, InvNext

\* A handler that is dropped ends like any other.
LEMMA DisconnectTypes ==
  ASSUME Inv, NEW h \in Handler, Disconnect(h)
  PROVE  Inv'
<1>1. RepoInv' /\ WorldTypeOK'
  BY InvParts, RepoStays, WorldStays DEF Disconnect
<1>2. BoundTypeOK'
  BY InvParts, BoundAssumption DEF Disconnect, BoundTypeOK
<1>3. HandlerOK'
  BY InvParts, FinishOK DEF Disconnect, Statuses
<1> QED
  BY <1>1, <1>2, <1>3, InvNext

LEMMA InitInv == Init => Inv
<1> SUFFICES ASSUME Init PROVE Inv
  OBVIOUS
<1>1. RepoInv
  BY DEF Init, RepoInit, RepoInv, RepoTypeOK, PrimaryKey, TimesOrdered
<1>2. HandlerOK
  BY NoRequestType DEF Init, HandlerOK, HandlerTypeOK, PhaseOK, Statuses
<1>3. WorldTypeOK /\ BoundTypeOK
  BY BoundAssumption DEF Init, WorldTypeOK, BoundTypeOK
<1> QED
  BY <1>1, <1>2, <1>3 DEF Inv, TypeOK, HandlerOK, RepoInv

LEMMA NextInv ==
  ASSUME Inv, [Next]_vars
  PROVE  Inv'
<1>1. ASSUME UNCHANGED vars
      PROVE  Inv'
  <2>1. RepoInv' /\ WorldTypeOK' /\ BoundTypeOK'
    BY <1>1, InvParts, RepoStays, WorldStays, BoundsStay DEF vars
  <2>2. HandlerOK'
    BY <1>1, InvParts DEF vars, handlerVars, HandlerOK, HandlerTypeOK, PhaseOK
  <2> QED
    BY <2>1, <2>2, InvNext
<1>2. ASSUME NEW h \in Handler, Step(h)
      PROVE  Inv'
  BY <1>2, UpsertTypes, PurgeKeyTypes, PurgeEndsTypes, PublishTypes DEF Step
<1> QED
  BY <1>1, <1>2, StoreTypes, PurgeTypes, ScedgeTypes, FillTypes, CrashTypes, DisconnectTypes
     DEF Next

\* Types and phases hold with any number of requests in flight: an event is
\* pending exactly while its handler is between its write and its publication.
THEOREM ServiceTypes == Spec => []TypeOK
<1>1. Inv /\ [Next]_vars => Inv'
  BY NextInv
<1>2. Inv => TypeOK
  BY DEF Inv
<1> QED
  BY InitInv, <1>1, <1>2, PTL DEF Spec

-----------------------------------------------------------------------------
(***************************************************************************)
(* Where the rows of the next state come from, for every step.             *)
(***************************************************************************)
Scoped == Backend = "memory" \/ Rls

\* A row that is new was written by a handler's upsert, for the tenant its hint
\* resolves to and under the id of its capsule.
LEMMA NewRow ==
  ASSUME Inv, Next, NEW r \in rows', r \notin rows
  PROVE  \E h \in Handler :
           /\ pc[h] = "upsert" /\ req[h].op = "store" /\ req[h].capsule \in Doc
           /\ r.doc = req[h].capsule /\ r.id = stable_id(r.doc)
           /\ Scoped => r.tenant = resolve_tenant(req[h].hint)
<1>1. ASSUME NEW h \in Handler, purge_key(h) PROVE FALSE
  BY <1>1, InvParts, DeletePreserves DEF purge_key
<1>2. PICK h \in Handler : store_upsert(h)
  BY <1>1 DEF Next, Step, api_capsule_store, api_capsule_purge, purge_ends,
              publish_graph_event, ScedgeMiss, ScedgeFill, Crash, Disconnect, repoVars
<1> DEFINE c == req[h].capsule
           t == resolve_tenant(req[h].hint)
<1>3. pc[h] = "upsert" /\ req[h].op = "store" /\ c \in Doc
  BY <1>2, InvParts DEF store_upsert, HandlerOK, PhaseOK
<1>4. PICK out : upsert(t, stable_id(c), c, out)
  BY <1>2 DEF store_upsert
<1>5. r \in Overwritten(t, stable_id(c), c, now') /\ ~Refused(t, stable_id(c))
  BY <1>4 DEF upsert, Written
<1>6. now' \in Nat /\ now <= now'
  BY <1>4, InvParts, TickAdvances DEF upsert, RepoInv, RepoTypeOK
<1>7. t \in Tenant /\ stable_id(c) \in Id
  BY <1>3, ResolvesToTenant, DocFields
<1>8. r.doc = c /\ r.id = stable_id(c)
  BY <1>3, <1>5, <1>6, <1>7, InvParts, OverwrittenRow
<1>9. Scoped => r.tenant = t
  BY <1>5, <1>7, InvParts, OverwrittenTenant DEF Scoped
<1> QED
  BY <1>3, <1>8, <1>9

-----------------------------------------------------------------------------
(***************************************************************************)
(* Tenants and policies.                                                   *)
(***************************************************************************)
\* A store under way carries the policy tenant its hint names, if it has one.
HintHolds(h) ==
  req[h].op = "store" /\ req[h].hint # None => req[h].capsule.policy = req[h].hint

PolicyInv == TenantHoldsItsPolicy /\ \A h \in Handler : HintHolds(h)

LEMMA HintStep ==
  ASSUME Inv, \A h \in Handler : HintHolds(h), [Next]_vars, NEW g \in Handler
  PROVE  HintHolds(g)'
<1>1. ASSUME NEW h \in Handler, NEW status, Finish(h, status)
      PROVE  HintHolds(g)'
  BY <1>1, InvParts DEF Finish, NoRequest, HintHolds, HandlerOK, HandlerTypeOK
<1>2. CASE req' = req
  BY <1>2 DEF HintHolds
<1>3. ASSUME NEW h \in Handler, NEW hint \in Hint, NEW c \in Capsule, NEW found,
             StoreBegins(h, hint, c, found), ~policy_mismatch(hint, c)
      PROVE  HintHolds(g)'
  BY <1>3, InvParts DEF StoreBegins, policy_mismatch, HintHolds, HandlerOK, HandlerTypeOK
<1>4. ASSUME NEW h \in Handler, NEW hint \in Hint, NEW c \in Capsule,
             api_capsule_store(h, hint, c)
      PROVE  HintHolds(g)'
  BY <1>1, <1>3, <1>4 DEF api_capsule_store
<1>5. ASSUME NEW h \in Handler, NEW hint \in Hint, NEW keys,
             api_capsule_purge(h, hint, keys)
      PROVE  HintHolds(g)'
  BY <1>5, InvParts DEF api_capsule_purge, HintHolds, HandlerOK, HandlerTypeOK
<1>6. ASSUME NEW h \in Handler, Step(h)
      PROVE  HintHolds(g)'
  <2>1. CASE store_upsert(h)
    BY <1>1, <1>2, <2>1 DEF store_upsert, Announce
  <2>2. CASE purge_key(h)
    BY <1>1, <1>2, <2>2 DEF purge_key, Announce
  <2>3. CASE purge_ends(h)
    BY <1>1, <2>3 DEF purge_ends
  <2>4. CASE publish_graph_event(h)
    BY <1>1, <1>2, <2>4 DEF publish_graph_event
  <2> QED
    BY <1>6, <2>1, <2>2, <2>3, <2>4 DEF Step
<1>7. ASSUME Crash
      PROVE  HintHolds(g)'
  BY <1>7 DEF Crash, NoRequest, HintHolds
<1>8. ASSUME (\E s, k : ScedgeMiss(s, k)) \/ (\E e : ScedgeFill(e))
      PROVE  HintHolds(g)'
  BY <1>2, <1>8 DEF ScedgeMiss, ScedgeFill, handlerVars
<1>9. ASSUME NEW h \in Handler, Disconnect(h)
      PROVE  HintHolds(g)'
  BY <1>1, <1>9 DEF Disconnect
<1>10. CASE UNCHANGED vars
  BY <1>2, <1>10 DEF vars, handlerVars
<1> QED
  BY <1>4, <1>5, <1>6, <1>7, <1>8, <1>9, <1>10 DEF Next

LEMMA PolicyStep ==
  ASSUME Scoped, Inv, PolicyInv, [Next]_vars
  PROVE  PolicyInv'
<1>1. ASSUME NEW r \in rows', r.tenant # DefaultTenant
      PROVE  r.doc.policy \in DOMAIN TenantSlugs /\ TenantSlugs[r.doc.policy] = r.tenant
  <2>1. CASE r \in rows
    BY <1>1, <2>1 DEF PolicyInv, TenantHoldsItsPolicy
  <2>2. CASE r \notin rows
    <3>1. Next
      BY <1>1, <2>2 DEF vars, repoVars
    <3>2. PICK h \in Handler :
            /\ req[h].op = "store" /\ r.doc = req[h].capsule
            /\ r.tenant = resolve_tenant(req[h].hint)
      BY <1>1, <2>2, <3>1, NewRow
    <3>3. req[h].hint \in DOMAIN TenantSlugs /\ r.tenant = TenantSlugs[req[h].hint]
      BY <1>1, <3>2 DEF resolve_tenant
    <3>4. req[h].hint # None
      BY <3>3, TenantAssumption
    <3> QED
      BY <3>2, <3>3, <3>4 DEF PolicyInv, HintHolds
  <2> QED
    BY <2>1, <2>2
<1>2. \A g \in Handler : HintHolds(g)'
  BY HintStep DEF PolicyInv
<1> QED
  BY <1>1, <1>2 DEF PolicyInv, TenantHoldsItsPolicy

LEMMA InitPolicy == Init => PolicyInv
  BY DEF Init, RepoInit, NoRequest, PolicyInv, TenantHoldsItsPolicy, HintHolds

\* However requests interleave, crash or are dropped, a mapped tenant only ever holds
\* capsules whose policy names it, provided the backend keeps tenants apart.
THEOREM TenantsHoldTheirPolicy ==
  ASSUME Scoped
  PROVE  Spec => []TenantHoldsItsPolicy
<1>1. Inv /\ PolicyInv /\ [Next]_vars => Inv' /\ PolicyInv'
  BY NextInv, PolicyStep
<1>2. PolicyInv => TenantHoldsItsPolicy
  BY DEF PolicyInv
<1> QED
  BY InitInv, InitPolicy, <1>1, <1>2, PTL DEF Spec

LEMMA PolicyFindsCapsule ==
  ASSUME Inv, TenantHoldsItsPolicy
  PROVE  NoFalseMiss
<1> SUFFICES ASSUME NEW r \in rows, HasOwnTenant(r.doc.policy),
                    resolve_tenant(r.doc.policy) = r.tenant,
                    NEW found \in get_by_key(r.tenant, r.doc.key),
                    lookup_reply(r.doc.policy, found) = Reply("miss", None)
             PROVE  FALSE
  BY DEF NoFalseMiss, api_capsule_lookup
<1>1. ASSUME NEW q \in rows
      PROVE  q.doc \in Doc /\ q.doc.policy \in Slug /\ KeyOf(q.doc) = q.doc.key
  <2>1. q.doc \in Doc
    BY <1>1, InvParts DEF RepoInv, RepoTypeOK, Row
  <2> QED
    BY <2>1, DocFields
<1>2. r.tenant = TenantSlugs[r.doc.policy] /\ r.tenant # DefaultTenant
  BY DEF HasOwnTenant, resolve_tenant
<1>3. r \in Matching(r.tenant, r.doc.key)
  BY <1>1 DEF Matching
<1>4. found = Err \/ (found \in rows /\ found.tenant = r.tenant)
  BY <1>3 DEF get_by_key, Newest, Matching, Fault
<1>5. CASE found = Err
  BY <1>5 DEF lookup_reply, Reply
<1>6. CASE found \in rows /\ found.tenant = r.tenant
  <2>1. /\ found.doc.policy \in DOMAIN TenantSlugs
        /\ TenantSlugs[found.doc.policy] = TenantSlugs[r.doc.policy]
    BY <1>2, <1>6 DEF TenantHoldsItsPolicy
  <2>2. found.doc.policy = r.doc.policy
    BY <2>1 DEF HasOwnTenant
  <2>3. found # None /\ found # Err
    BY <1>6, SentinelAssumption, InvParts DEF RepoInv, RepoTypeOK
  <2> QED
    BY <2>2, <2>3 DEF lookup_reply, Reply
<1> QED
  BY <1>4, <1>5, <1>6

\* However requests interleave, crash or are dropped, a lookup by policy tenant and
\* key never misses a capsule of a slug whose tenant is its own, stored in it.
THEOREM NoCapsuleIsMissed ==
  ASSUME Scoped
  PROVE  Spec => []NoFalseMiss
<1>1. Inv /\ PolicyInv /\ [Next]_vars => Inv' /\ PolicyInv'
  BY NextInv, PolicyStep
<1>2. Inv /\ PolicyInv => NoFalseMiss
  BY PolicyFindsCapsule DEF PolicyInv
<1> QED
  BY InitInv, InitPolicy, <1>1, <1>2, PTL DEF Spec

-----------------------------------------------------------------------------
(***************************************************************************)
(* Purges and events.                                                      *)
(***************************************************************************)
\* Only a publication takes an event from its handler, in a step that cuts no
\* request short.
LEMMA EventStays ==
  ASSUME Inv, Next, crashes' = crashes, NEW h \in Handler, event[h] # NoEvent,
         ~publish_graph_event(h)
  PROVE  event'[h] = event[h]
<1>1. pc[h] = "publish" /\ HandlerTypeOK
  BY InvParts DEF HandlerOK, PhaseOK
<1>2. ASSUME NEW g \in Handler, g # h,
             \/ \E e : event' = [event EXCEPT ![g] = e]
             \/ \E status : Finish(g, status)
      PROVE  event'[h] = event[h]
  BY <1>1, <1>2 DEF Finish, HandlerTypeOK
<1>3. CASE event' = event
  BY <1>3
<1>4. ASSUME NEW g \in Handler, NEW hint \in Hint, NEW c \in Capsule,
             api_capsule_store(g, hint, c)
      PROVE  event'[h] = event[h]
  <2>1. g # h
    BY <1>1, <1>4 DEF api_capsule_store, Accept
  <2> QED
    BY <1>2, <1>3, <1>4, <2>1 DEF api_capsule_store, StoreBegins
<1>5. ASSUME NEW g \in Handler, Step(g)
      PROVE  event'[h] = event[h]
  <2>1. CASE store_upsert(g)
    BY <1>1, <1>2, <2>1 DEF store_upsert, Announce
  <2>2. CASE purge_key(g)
    BY <1>1, <1>2, <1>3, <2>2 DEF purge_key, Announce
  <2>3. CASE purge_ends(g)
    BY <1>1, <1>2, <2>3 DEF purge_ends
  <2>4. CASE publish_graph_event(g)
    BY <1>2, <2>4 DEF publish_graph_event
  <2> QED
    BY <1>5, <2>1, <2>2, <2>3, <2>4 DEF Step
<1>6. ~Crash /\ \A g \in Handler : ~Disconnect(g)
  BY InvParts DEF Crash, Disconnect, BoundTypeOK
<1> QED
  BY <1>3, <1>4, <1>5, <1>6
     DEF Next, api_capsule_purge, ScedgeMiss, ScedgeFill, handlerVars

\* In memory a delete removes the one node it returns, and never fails.
LEMMA MemoryDelete ==
  ASSUME Inv, Backend = "memory", NEW t, NEW k, NEW out \in rows \cup {None, Err},
         delete_by_key(t, k, out)
  PROVE  \/ out \notin rows /\ out # Err /\ rows' = rows
         \/ out \in rows /\ rows \ rows' = {out}
<1>1. None \notin rows /\ Err \notin rows /\ None # Err
  BY SentinelAssumption, InvParts DEF RepoInv, RepoTypeOK
<1>2. ~Faults
  BY MemoryAssumption
<1> QED
  BY <1>1, <1>2 DEF delete_by_key, Deleted, Matching

\* The delete of a key either removes nothing and announces nothing, or removes
\* what it returned and has its revocation to publish.
LEMMA PurgeAnnounces ==
  ASSUME Inv, BusEnabled, ~CutShort, NEW h \in Handler, purge_key(h)
  PROVE  \E out \in rows \cup {None} :
           /\ delete_by_key(resolve_tenant(req[h].hint), Head(todo[h]), out)
           /\ event[h] = NoEvent
           /\ IF out \in rows
              THEN event' = [event EXCEPT ![h] = RevokeCapsule(out.doc)]
              ELSE event' = event
<1>1. PICK out \in rows \cup {None, Err} :
        /\ delete_by_key(resolve_tenant(req[h].hint), Head(todo[h]), out)
        /\ \/ out = Err /\ Finish(h, "error")
           \/ /\ out # Err /\ ~revokes(out)
              /\ next_key(h)
              /\ UNCHANGED <<pc, req, old, event, answer>>
           \/ revokes(out) /\ from_node_panics(out) /\ Finish(h, "lost")
           \/ /\ revokes(out) /\ ~from_node_panics(out)
              /\ Announce(h, RevokeCapsule(out.doc))
              /\ next_key(h)
  BY DEF purge_key
<1>2. pc[h] = "purge" /\ event[h] = NoEvent /\ answer \in [Handler -> Statuses]
  BY InvParts DEF purge_key, HandlerOK, HandlerTypeOK, PhaseOK
<1>3. ~Finish(h, "error") /\ ~Finish(h, "lost")
  BY <1>2 DEF Finish, CutShort
<1>4. Err \notin rows
  BY InvParts, SentinelAssumption DEF RepoInv, RepoTypeOK
<1> QED
  BY <1>1, <1>2, <1>3, <1>4 DEF revokes, Announce

\* What is to be announced is a revocation.
NamesCapsules == NoEvent \notin unannounced

LEMMA NamesStep ==
  ASSUME Inv, NamesCapsules, [Next]_vars
  PROVE  NamesCapsules'
<1>1. CASE unannounced' \subseteq unannounced
  BY <1>1 DEF NamesCapsules, NoEvent
<1>2. ASSUME NEW h \in Handler, purge_key(h)
      PROVE  NamesCapsules'
  <2>1. unannounced' = unannounced \cup {RevokeCapsule(r.doc) : r \in rows \ rows'}
    BY <1>2 DEF purge_key
  <2>2. \A r \in rows : RevokeCapsule(r.doc) # NoEvent
    BY EventTypes, InvParts DEF RepoInv, RepoTypeOK, Row
  <2> QED
    BY <2>1, <2>2 DEF NamesCapsules, NoEvent
<1> QED
  BY <1>1, <1>2
     DEF Next, Step, api_capsule_store, api_capsule_purge, store_upsert, purge_ends,
         publish_graph_event, ScedgeMiss, ScedgeFill, Crash, Disconnect, vars, worldVars

LEMMA DeletionStep ==
  ASSUME Backend = "memory", Inv, NamesCapsules, Next, BusEnabled, ~CutShort,
         NEW e \in unannounced'
  PROVE  \/ Pending(e)'
         \/ e \in unannounced /\ ~Pending(e)
         \/ BusFails /\ \E h \in Handler : Published(h) /\ event[h] = e
<1>1. crashes' = crashes /\ event \in [Handler -> Events]
  BY InvParts DEF CutShort, HandlerOK, HandlerTypeOK
<1>2. CASE e \in unannounced
  <2> SUFFICES ASSUME NEW h \in Handler, event[h] = e, ~Pending(e)'
               PROVE  BusFails /\ Published(h)
    BY <1>2 DEF Pending
  <2>1. e # NoEvent /\ event'[h] # event[h]
    BY <1>2 DEF NamesCapsules, Pending
  <2>2. publish_graph_event(h)
    BY <1>1, <2>1, EventStays
  <2>3. BusFails
    BY <2>2 DEF publish_graph_event
  <2>4. pc[h] = "publish" /\ pc'[h] # "publish"
    BY <2>2, InvParts DEF publish_graph_event, Finish, HandlerOK, HandlerTypeOK
  <2> QED
    BY <2>3, <2>4 DEF Published
<1>3. CASE e \notin unannounced
  <2>1. PICK h \in Handler : purge_key(h)
    BY <1>3 DEF Next, Step, api_capsule_store, api_capsule_purge, store_upsert,
                purge_ends, publish_graph_event, ScedgeMiss, ScedgeFill, Crash,
                Disconnect, worldVars
  <2>2. PICK out \in rows \cup {None} :
          /\ delete_by_key(resolve_tenant(req[h].hint), Head(todo[h]), out)
          /\ IF out \in rows
             THEN event' = [event EXCEPT ![h] = RevokeCapsule(out.doc)]
             ELSE event' = event
    BY <2>1, PurgeAnnounces
  <2>3. e \in {RevokeCapsule(r.doc) : r \in rows \ rows'}
    BY <1>3, <2>1 DEF purge_key
  <2>4. out \in rows /\ rows \ rows' = {out}
    BY <2>2, <2>3, MemoryDelete
  <2>5. event'[h] = e
    BY <1>1, <2>2, <2>3, <2>4
  <2> QED
    BY <2>5 DEF Pending
<1> QED
  BY <1>2, <1>3

\* In memory no interleaving of requests loses a revocation: it is pending from the
\* deletion on, until it is published, the bus refuses it or its handler is cut short.
THEOREM DeletionsAreAnnounced ==
  ASSUME Backend = "memory"
  PROVE  Spec => DeletionsAnnounced
<1>1. Init => NamesCapsules
  BY DEF Init, NamesCapsules
<1>2. Inv /\ NamesCapsules /\ [Next]_vars => Inv' /\ NamesCapsules'
  BY NextInv, NamesStep
<1>3. Inv /\ NamesCapsules /\ [Next]_vars =>
        [BusEnabled /\ ~CutShort =>
           \A e \in unannounced' :
             \/ Pending(e)'
             \/ e \in unannounced /\ ~Pending(e)
             \/ BusFails /\ \E h \in Handler : Published(h) /\ event[h] = e]_vars
  BY DeletionStep
<1> QED
  BY InitInv, <1>1, <1>2, <1>3, PTL DEF Spec, DeletionsAnnounced

-----------------------------------------------------------------------------
(***************************************************************************)
(* Which steps empty a key.                                                *)
(***************************************************************************)
\* UUIDv5 of "key:hash" tells keys apart.
IdNamesKey ==
  \A c, d \in Doc : stable_id(c) = stable_id(d) => c.key = d.key

\* A stored node's id is the one its key and hash give.
IdsStable == \A r \in rows : r.id = stable_id(r.doc)

LEMMA IdsStep ==
  ASSUME Inv, IdsStable, [Next]_vars
  PROVE  IdsStable'
<1> SUFFICES ASSUME NEW r \in rows' PROVE r.id = stable_id(r.doc)
  BY DEF IdsStable, stable_id
<1>1. CASE r \in rows
  BY <1>1 DEF IdsStable
<1>2. CASE r \notin rows
  BY <1>2, NewRow DEF vars, repoVars
<1> QED
  BY <1>1, <1>2

Purging(h, t, k) ==
  /\ pc[h] = "purge" /\ todo[h] # <<>> /\ Head(todo[h]) = k
  /\ resolve_tenant(req[h].hint) = t

LEMMA EmptiedStep ==
  ASSUME IdNamesKey, Inv, IdsStable, Next, ~Crash,
         NEW t \in Tenant, NEW k \in Key,
         Matching(t, k) # {}, Matching(t, k)' = {}
  PROVE  \E h \in Handler : Purging(h, t, k)
<1>1. PICK r \in rows : r.tenant = t /\ KeyOf(r.doc) = k
  BY DEF Matching
<1>2. r \notin rows' /\ r.doc \in Doc /\ r.id = stable_id(r.doc)
  BY <1>1, InvParts DEF Matching, IdsStable, RepoInv, RepoTypeOK, Row
<1>3. CASE \E h \in Handler : purge_key(h)
  <2>1. PICK h \in Handler : purge_key(h)
    BY <1>3
  <2>2. PICK out : delete_by_key(resolve_tenant(req[h].hint), Head(todo[h]), out)
    BY <2>1 DEF purge_key
  <2>3. r \in Matching(resolve_tenant(req[h].hint), Head(todo[h]))
    BY <1>2, <2>2 DEF delete_by_key, Deleted
  <2> QED
    BY <1>1, <2>1, <2>3 DEF Matching, Purging, purge_key
<1>4. CASE \E h \in Handler : store_upsert(h)
  <2>1. PICK h \in Handler : store_upsert(h)
    BY <1>4
  <2> DEFINE c == req[h].capsule
             i == stable_id(c)
             u == resolve_tenant(req[h].hint)
  <2>2. c \in Doc
    BY <2>1, InvParts DEF store_upsert, HandlerOK, PhaseOK
  <2>3. PICK out : upsert(u, i, c, out)
    BY <2>1 DEF store_upsert
  <2>4. r \in Conflicting(u, i) /\ rows' = Written(u, i, c, now')
    BY <1>2, <2>3 DEF upsert, Written
  <2>5. Rewritten(r, c, now') \in rows'
    BY <2>4 DEF Written, Overwritten
  <2>6. c.key = k
    <3>1. stable_id(r.doc) = stable_id(c)
      BY <1>2, <2>4 DEF Conflicting
    <3>2. r.doc.key = c.key
      BY <1>2, <2>2, <3>1 DEF IdNamesKey
    <3>3. KeyOf(r.doc) = r.doc.key
      BY <1>2, DocFields
    <3> QED
      BY <1>1, <3>2, <3>3
  <2>7. Rewritten(r, c, now') \in Matching(t, k)'
    <3>1. KeyOf(c) = k
      BY <2>2, <2>6, DocFields
    <3> QED
      BY <1>1, <2>5, <3>1 DEF Matching, Rewritten, Version
  <2> QED
    BY <2>7
<1>5. CASE rows' = rows
  BY <1>2, <1>5
<1> QED
  BY <1>3, <1>4, <1>5 DEF Next, Step, api_capsule_store, api_capsule_purge,
     purge_ends, publish_graph_event, ScedgeMiss, ScedgeFill, Disconnect, repoVars

\* When ids tell keys apart, a key loses its last capsule only to a purge of that
\* key for that tenant, or to a crash.
THEOREM OnlyPurgesEmpty ==
  ASSUME IdNamesKey
  PROVE  Spec => OnlyPurgesEmptyKeys
<1>1. Init => IdsStable
  BY DEF Init, RepoInit, IdsStable
<1>2. Inv /\ IdsStable /\ [Next]_vars => Inv' /\ IdsStable'
  BY NextInv, IdsStep
<1>3. Inv /\ IdsStable /\ [Next]_vars =>
        [\A t \in Tenant, k \in Key :
           Matching(t, k) # {} /\ Matching(t, k)' = {} =>
             \/ crashes' # crashes
             \/ \E h \in Handler :
                  /\ pc[h] = "purge" /\ todo[h] # <<>> /\ Head(todo[h]) = k
                  /\ resolve_tenant(req[h].hint) = t]_vars
  <2> SUFFICES ASSUME Inv, IdsStable, Next, crashes' = crashes,
                      NEW t \in Tenant, NEW k \in Key,
                      Matching(t, k) # {}, Matching(t, k)' = {}
               PROVE  \E h \in Handler : Purging(h, t, k)
    BY DEF Purging
  <2>1. ~Crash
    BY InvParts DEF Crash, BoundTypeOK
  <2> QED
    BY <2>1, EmptiedStep
<1> QED
  BY InitInv, <1>1, <1>2, <1>3, PTL DEF Spec, OnlyPurgesEmptyKeys

LEMMA TailDiffers ==
  ASSUME NEW keys \in Seq(Key), keys # <<>>
  PROVE  Tail(keys) # keys
<1> SUFFICES ASSUME Tail(keys) = keys PROVE FALSE
  OBVIOUS
<1>1. Len(keys) \in Nat
  OBVIOUS
<1>2. Len(Tail(keys)) = Len(keys) - 1
  BY HeadTailProperties
<1> QED
  BY <1>1, <1>2

LEMMA PurgeEmptiesStep ==
  ASSUME Backend = "postgres", Inv, Next, NEW h \in Handler,
         pc[h] = "purge", todo[h] # <<>>,
         todo'[h] = Tail(todo[h]), pc'[h] \in {"purge", "publish"}
  PROVE  Matching(resolve_tenant(req[h].hint), Head(todo[h])) \cap rows' = {}
         /\ rows' \subseteq rows
<1>1. todo'[h] # todo[h] /\ HandlerTypeOK
  BY InvParts, TailDiffers DEF HandlerOK, HandlerTypeOK
<1>2. ASSUME NEW g \in Handler, NEW status, Finish(g, status)
      PROVE  FALSE
  BY <1>1, <1>2 DEF Finish, HandlerTypeOK
<1>3. purge_key(h)
  <2>1. \A g \in Handler : ~purge_ends(g)
    BY <1>2 DEF purge_ends
  <2>2. \A g \in Handler : ~publish_graph_event(g)
    BY <1>1, <1>2 DEF publish_graph_event
  <2>3. \A g \in Handler : ~store_upsert(g)
    BY <1>1, <1>2 DEF store_upsert
  <2>4. \A g \in Handler, hint \in Hint, c \in Capsule : ~api_capsule_store(g, hint, c)
    BY <1>1, <1>2 DEF api_capsule_store, StoreBegins
  <2>5. \A g \in Handler, hint \in Hint, keys \in KeyList :
          ~api_capsule_purge(g, hint, keys)
    BY <1>1 DEF api_capsule_purge, Accept, HandlerTypeOK
  <2>6. ~Crash
    BY DEF Crash
  <2>7. /\ \A s \in Slug, k \in Key : ~ScedgeMiss(s, k)
        /\ \A e \in filling : ~ScedgeFill(e)
        /\ \A g \in Handler : ~Disconnect(g)
    BY <1>1, <1>2 DEF ScedgeMiss, ScedgeFill, Disconnect, handlerVars
  <2>8. PICK g \in Handler : purge_key(g)
    BY <2>1, <2>2, <2>3, <2>4, <2>5, <2>6, <2>7 DEF Next, Step
  <2>9. g = h
    BY <1>1, <1>2, <2>8 DEF purge_key, next_key, HandlerTypeOK
  <2> QED
    BY <2>8, <2>9
<1>4. Err \notin rows
  BY InvParts, SentinelAssumption DEF RepoInv, RepoTypeOK
<1>5. \A status : ~Finish(h, status)
  BY <1>2
<1>6. PICK out \in rows \cup {None, Err} :
        /\ delete_by_key(resolve_tenant(req[h].hint), Head(todo[h]), out)
        /\ out # Err
  BY <1>3, <1>4, <1>5 DEF purge_key, revokes
<1> QED
  BY <1>6 DEF delete_by_key, Deleted, Matching

\* In PostgreSQL a purge step that goes on to the next key has left no capsule of
\* the key it deleted, whatever other requests do.
THEOREM PurgesEmptyTheirKey ==
  ASSUME Backend = "postgres"
  PROVE  Spec => PurgeEmptiesKey
<1>1. Inv /\ [Next]_vars =>
        [\A h \in Handler, t \in Tenant, k \in Key :
           /\ pc[h] = "purge" /\ todo[h] # <<>> /\ Head(todo[h]) = k
           /\ resolve_tenant(req[h].hint) = t
           /\ todo'[h] = Tail(todo[h]) /\ pc'[h] \in {"purge", "publish"}
           => Matching(t, k)' = {}]_vars
  <2> SUFFICES ASSUME Inv, Next, NEW h \in Handler, NEW t \in Tenant, NEW k \in Key,
                      pc[h] = "purge", todo[h] # <<>>, Head(todo[h]) = k,
                      resolve_tenant(req[h].hint) = t,
                      todo'[h] = Tail(todo[h]), pc'[h] \in {"purge", "publish"}
               PROVE  Matching(t, k)' = {}
    OBVIOUS
  <2>1. Matching(t, k) \cap rows' = {} /\ rows' \subseteq rows
    BY PurgeEmptiesStep
  <2> QED
    BY <2>1 DEF Matching
<1> QED
  BY InitInv, NextInv, <1>1, PTL DEF Spec, PurgeEmptiesKey

-----------------------------------------------------------------------------
(***************************************************************************)
(* What makes an entry of the edge cache stale.                            *)
(***************************************************************************)
Known == Inv /\ PolicyInv /\ IdsStable

LEMMA RowFields ==
  ASSUME Inv, NEW r \in rows
  PROVE  /\ r.doc \in Doc /\ r.doc.key \in Key /\ r.doc.policy \in Slug
         /\ r.doc.hash \in Hash /\ KeyOf(r.doc) = r.doc.key
         /\ r.tenant \in Tenant /\ r.updated \in Nat /\ r # None /\ r # Err
<1>1. r \in Row /\ r.doc \in Doc
  BY InvParts DEF RepoInv, RepoTypeOK, Row
<1> QED
  BY <1>1, DocFields, SentinelAssumption DEF Row

\* The tenant of a slug that has its own holds capsules of that policy alone.
LEMMA EntryPolicy ==
  ASSUME Known, NEW e \in Entries, HasOwnTenant(e.tenant), NEW r \in rows,
         r.tenant = resolve_tenant(e.tenant)
  PROVE  r.doc.policy = e.tenant
  BY DEF Known, PolicyInv, TenantHoldsItsPolicy, HasOwnTenant, resolve_tenant

\* Likewise a store under way for that tenant.
LEMMA EntryHint ==
  ASSUME Known, NEW e \in Entries, HasOwnTenant(e.tenant),
         NEW h \in Handler, req[h].op = "store",
         resolve_tenant(req[h].hint) = resolve_tenant(e.tenant)
  PROVE  req[h].capsule.policy = e.tenant
<1>1. req[h].hint = e.tenant
  BY DEF HasOwnTenant, resolve_tenant
<1>2. req[h].hint # None
  BY <1>1, TenantAssumption DEF Entries
<1> QED
  BY <1>1, <1>2 DEF Known, PolicyInv, HintHolds

\* The empty event invalidates nothing.
LEMMA NoEventInvalidates ==
  ASSUME NEW e \in Entries
  PROVE  ~Invalidates(NoEvent, e)
  BY TenantAssumption DEF Entries, Invalidates, NoEvent, GraphEvent

\* What a lookup of the entry answers depends on the rows of its tenant and key.
LEMMA CurrentFrom ==
  ASSUME NEW e \in Entries,
         Newest(resolve_tenant(e.tenant), e.key)' = Newest(resolve_tenant(e.tenant), e.key)
  PROVE  Current(e)' <=> Current(e)
<1>1. Newest(resolve_tenant(e.tenant), e.key)' \subseteq
        Newest(resolve_tenant(e.tenant), e.key)
  OBVIOUS
<1> QED
  BY <1>1 DEF Current, resolve_tenant

\* A write leaves the rows of other tenants and keys alone.
LEMMA WriteIsLocal ==
  ASSUME Scoped, IdNamesKey, Known, NEW t \in Tenant, NEW c \in Doc,
         NEW out, out # Err, upsert(t, stable_id(c), c, out),
         NEW u, NEW j, u # t \/ j # c.key
  PROVE  Newest(u, j)' = Newest(u, j)
<1> DEFINE i == stable_id(c)
           k == c.key
<1>1. Inv /\ RepoInv /\ i \in Id /\ KeyOf(c) = k
  BY InvParts, DocFields DEF Known
<1>2. ~Refused(t, i) /\ rows' = Written(t, i, c, now')
  BY DEF upsert
<1>3. now \in Nat /\ now' \in Nat /\ now <= now'
  BY <1>1, TickAdvances DEF upsert, RepoInv, RepoTypeOK
<1>4. ASSUME NEW r \in Overwritten(t, i, c, now')
      PROVE  r.tenant = t /\ r.doc = c
  BY <1>1, <1>2, <1>3, <1>4, OverwrittenRow, OverwrittenTenant DEF Scoped
<1>5. ASSUME NEW r \in Conflicting(t, i)
      PROVE  r \in rows /\ r.tenant = t /\ KeyOf(r.doc) = k
  <2>1. r \in rows /\ r.id = i
    BY <1>5 DEF Conflicting
  <2>2. r.tenant = t
    BY <1>2, <1>5, BackendAssumption DEF Scoped, Refused, Hidden, Conflicting
  <2>3. r.doc \in Doc /\ KeyOf(r.doc) = r.doc.key /\ stable_id(r.doc) = i
    BY <1>1, <2>1, RowFields DEF Known, IdsStable
  <2> QED
    BY <2>1, <2>2, <2>3 DEF IdNamesKey
<1>6. Matching(u, j)' = Matching(u, j)
  BY <1>1, <1>2, <1>4, <1>5 DEF Written, Matching
<1> QED
  BY <1>6 DEF Newest

\* Unless the store read before another write of the key, its event names what its
\* write makes stale.
LEMMA UpsertNames ==
  ASSUME Scoped, IdNamesKey, Known, BusEnabled, ~CutShort,
         NEW e \in Entries, HasOwnTenant(e.tenant), Current(e), ~Current(e)',
         NEW h \in Handler, store_upsert(h), ~ReadOvertaken(h)
  PROVE  Invalidates(event'[h], e)
<1> DEFINE c == req[h].capsule
           t == resolve_tenant(req[h].hint)
<1>1. /\ HandlerOK /\ pc[h] = "upsert" /\ req[h].op = "store" /\ c \in Doc
      /\ t \in Tenant
  BY InvParts, ResolvesToTenant DEF Known, HandlerOK, PhaseOK, store_upsert
<1>2. ~Finish(h, "error")
  BY <1>1 DEF HandlerOK, HandlerTypeOK, Finish, CutShort
<1>3. PICK out \in {Created, Updated, Err} :
        /\ upsert(t, stable_id(c), c, out)
        /\ out # Err /\ Announce(h, store_event(c, old[h], out))
  BY <1>2 DEF store_upsert
<1>4. resolve_tenant(e.tenant) = t /\ e.key = c.key
  BY <1>1, <1>3, WriteIsLocal, CurrentFrom
<1>5. c.policy = e.tenant
  BY <1>1, <1>4, EntryHint
<1>6. old[h] = e.hash
  BY <1>1, <1>4 DEF ReadOvertaken, Current
<1>7. event'[h] = store_event(c, old[h], out)
  BY <1>1, <1>3 DEF Announce, HandlerOK, HandlerTypeOK
<1> QED
  BY <1>4, <1>5, <1>6, <1>7
     DEF store_event, SupersededBy, UpsertNode, GraphEvent, Invalidates

\* The event of a purge names what its deletion makes stale.
LEMMA PurgeNames ==
  ASSUME Known, BusEnabled, ~CutShort,
         NEW e \in Entries, HasOwnTenant(e.tenant), Current(e), ~Current(e)',
         NEW h \in Handler, purge_key(h)
  PROVE  Invalidates(event'[h], e)
<1> DEFINE t == resolve_tenant(req[h].hint)
           k == Head(todo[h])
<1>1. Inv /\ event \in [Handler -> Events] /\ None \notin rows
  BY InvParts, RowFields DEF Known, HandlerOK, HandlerTypeOK
<1>2. PICK out \in rows \cup {None} :
        /\ delete_by_key(t, k, out)
        /\ IF out \in rows
           THEN event' = [event EXCEPT ![h] = RevokeCapsule(out.doc)]
           ELSE event' = event
  BY <1>1, PurgeAnnounces
<1>3. out \in Matching(t, k) /\ rows' = rows \ Deleted(t, k, out)
  <2>1. out # Err
    BY <1>1, SentinelAssumption, RowFields
  <2>2. rows' # rows
    BY CurrentFrom DEF Newest, Matching
  <2> QED
    BY <1>2, <2>1, <2>2 DEF delete_by_key
<1>4. ASSUME NEW u, NEW j, u # t \/ j # k
      PROVE  Newest(u, j)' = Newest(u, j)
  BY <1>3, <1>4 DEF Newest, Matching, Deleted
<1>5. resolve_tenant(e.tenant) = t /\ e.key = k
  BY <1>4, CurrentFrom
<1>6. out \in rows /\ out.tenant = t /\ out.doc.key = k
  <2>1. out \in rows /\ out.tenant = t /\ KeyOf(out.doc) = k
    BY <1>3 DEF Matching
  <2> QED
    BY <1>1, <2>1, RowFields
<1>7. out.doc.policy = e.tenant
  BY <1>5, <1>6, EntryPolicy
<1>8. event'[h] = RevokeCapsule(out.doc)
  BY <1>1, <1>2, <1>6
<1> QED
  BY <1>5, <1>6, <1>7, <1>8 DEF RevokeCapsule, GraphEvent, Invalidates

\* What a lookup is answered is current then.
LEMMA MissIsCurrent ==
  ASSUME Inv, NEW s \in Slug, NEW k \in Key, ScedgeMiss(s, k),
         NEW e \in filling', e \notin filling
  PROVE  Current(e)
<1>1. PICK found \in get_by_key(resolve_tenant(s), k) :
        /\ lookup_reply(s, found).status = "ok"
        /\ e = Entry(s, k, lookup_reply(s, found).doc.hash)
  BY DEF ScedgeMiss, api_capsule_lookup
<1>2. s # None
  BY TenantAssumption
<1>3. /\ found # None /\ found # Err /\ found.doc.policy = s
      /\ lookup_reply(s, found) = Reply("ok", found.doc)
  BY <1>1, <1>2 DEF lookup_reply, Reply
<1>4. found \in Newest(resolve_tenant(s), k)
  BY <1>1, <1>3 DEF get_by_key, Fault
<1> QED
  BY <1>1, <1>3, <1>4 DEF Current, Entry, Reply

LEMMA StaleStep ==
  ASSUME Scoped, IdNamesKey, Known, Next, BusEnabled, ~CutShort,
         NEW e \in Entries, HasOwnTenant(e.tenant), Covered(e), ~Covered(e)'
  PROVE  \E h \in Handler :
           \/ ReadOvertaken(h) /\ pc'[h] = "publish"
           \/ /\ Published(h) /\ Invalidates(event[h], e)
              /\ BusFails \/ e \in filling
<1>1. /\ Inv /\ HandlerOK /\ crashes' = crashes
      /\ event \in [Handler -> Events]
      /\ pc \in [Handler -> {"idle", "upsert", "purge", "publish"}]
  BY InvParts DEF Known, CutShort, HandlerOK, HandlerTypeOK
<1>2. /\ e \in cached' \cup filling' /\ ~Current(e)'
      /\ \A h \in Handler : ~Invalidates(event'[h], e)
  BY DEF Covered, Invalidates
<1>3. ASSUME NEW h \in Handler, Invalidates(event[h], e)
      PROVE  Published(h) /\ (BusFails \/ e \in filling)
  <2>1. event[h] # NoEvent /\ event'[h] # event[h]
    BY <1>2, <1>3, NoEventInvalidates
  <2>2. publish_graph_event(h)
    BY <1>1, <2>1, EventStays
  <2>3. pc[h] = "publish" /\ pc'[h] # "publish"
    BY <1>1, <2>2 DEF publish_graph_event, Finish
  <2>4. BusFails \/ e \in filling
    BY <1>2, <1>3, <2>2 DEF publish_graph_event
  <2> QED
    BY <2>3, <2>4 DEF Published
<1>4. ASSUME Current(e)
      PROVE  \E h \in Handler : ReadOvertaken(h) /\ pc'[h] = "publish"
  <2>1. rows' # rows
    BY <1>2, <1>4, CurrentFrom DEF Newest, Matching
  <2>2. \A h \in Handler : ~purge_key(h)
    BY <1>2, <1>4, PurgeNames
  <2>3. PICK h \in Handler : store_upsert(h)
    BY <1>1, <2>1, <2>2, InvParts
       DEF Next, Step, api_capsule_store, api_capsule_purge, purge_ends,
           publish_graph_event, ScedgeMiss, ScedgeFill, Crash, Disconnect, repoVars,
           BoundTypeOK
  <2>4. ReadOvertaken(h)
    BY <1>2, <1>4, <2>3, UpsertNames
  <2>5. pc'[h] = "publish"
    <3>1. ~Finish(h, "error")
      BY <1>1, <2>3 DEF store_upsert, HandlerOK, HandlerTypeOK, Finish, CutShort
    <3> QED
      BY <1>1, <2>3, <3>1 DEF store_upsert, Announce
  <2> QED
    BY <2>3, <2>4, <2>5
<1>5. CASE e \in cached \cup filling
  BY <1>3, <1>4, <1>5 DEF Covered
<1>6. CASE e \notin cached \cup filling
  <2>1. PICK s \in Slug, k \in Key : ScedgeMiss(s, k)
    BY <1>1, <1>2, <1>6
       DEF Next, Step, api_capsule_store, api_capsule_purge, store_upsert, purge_key,
           purge_ends, publish_graph_event, ScedgeFill, Crash, Disconnect, worldVars
  <2>2. Current(e)
    BY <1>1, <1>2, <1>6, <2>1, MissIsCurrent DEF ScedgeMiss
  <2> QED
    BY <1>4, <2>2
<1> QED
  BY <1>5, <1>6

LEMMA InitKnown == Init => Known
  BY InitInv, InitPolicy DEF Known, Init, RepoInit, IdsStable

\* For every number of requests in flight, with statements that fail, crashes, lost
\* replies and equal clock readings: what Scedge holds or is about to hold of a slug
\* with a tenant of its own goes stale in the named ways only.
THEOREM EntriesGoStaleForAReason ==
  ASSUME Scoped, IdNamesKey
  PROVE  Spec => StaleForAReason
<1>1. Known /\ [Next]_vars => Known'
  BY NextInv, PolicyStep, IdsStep DEF Known
<1>2. Known /\ [Next]_vars =>
        [BusEnabled /\ ~CutShort =>
           \A e \in Entries :
             HasOwnTenant(e.tenant) /\ Covered(e) /\ ~Covered(e)' =>
               \E h \in Handler :
                 \/ ReadOvertaken(h) /\ pc'[h] = "publish"
                 \/ /\ Published(h) /\ Invalidates(event[h], e)
                    /\ BusFails \/ e \in filling]_vars
  BY StaleStep
<1> QED
  BY InitKnown, <1>1, <1>2, PTL DEF Spec, StaleForAReason
=============================================================================
