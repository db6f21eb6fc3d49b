----------------------------- MODULE CapsuleService -----------------------------
(***************************************************************************)
(* The capsule API of server/http.rs over a NodeRepository: requests in    *)
(* flight at the same time, each a sequence of awaited repository and bus  *)
(* calls, and Scedge, the edge cache that looks capsules up on a miss and  *)
(* drops entries when a GraphEvent says so.                                *)
(*                                                                         *)
(* A handler yields only at an await, so a step runs from one repository   *)
(* or bus call to the next.  GET /lookup awaits once: it is one step, and  *)
(* its reply reaches Scedge in a later one.                                *)
(***************************************************************************)
EXTENDS NodeRepository, Sequences

CONSTANTS
  Handler,        \* requests served at the same time
  Slug,           \* tenant names in requests and in policies
  Hash,           \* artifact hashes
  Empty,          \* the empty string, as a hash or as a policy's tenant
  Capsule,        \* request bodies: key, hash, policy and ttl
  Hint,           \* what requests put in their optional tenant field
  KeyList,        \* what purge requests ask for, keys and key joined
  TenantSlugs,    \* TENANT_SLUGS: from some slugs to tenants
  DefaultTenant,  \* DEFAULT_TENANT_ID
  StableId,       \* UUIDv5 of "key:hash"
  BusEnabled,     \* SCEDGE_EVENT_BUS_ENABLED
  BusFails,       \* a publish may return an error
  MaxRequests,    \* bound on requests, for model checking
  MaxCrashes      \* bound on crashes and disconnects, for model checking

ASSUME CapsuleAssumption ==
  /\ Capsule \subseteq [key: Key, hash: Hash \cup {Empty},
                        policy: Slug \cup {Empty}, ttl: {"fits", "overflows"}]
  /\ Doc = {c \in Capsule : c.hash # Empty /\ c.policy # Empty}
  /\ \A d \in Doc : KeyOf(d) = d.key
ASSUME TenantAssumption ==
  /\ Hint \subseteq Slug \cup {None} /\ None \notin Slug /\ Empty \notin Slug
  /\ DOMAIN TenantSlugs \subseteq Slug
  /\ \A s \in DOMAIN TenantSlugs : TenantSlugs[s] \in Tenant
  /\ DefaultTenant \in Tenant
ASSUME StableIdAssumption == \A k \in Key, x \in Hash : StableId[k, x] \in Id
ASSUME ListAssumption == KeyList \subseteq Seq(Key)
ASSUME BusAssumption == BusEnabled \in BOOLEAN /\ BusFails \in BOOLEAN
ASSUME BoundAssumption == MaxRequests \in Nat /\ MaxCrashes \in Nat
ASSUME HashAssumption == None \notin Hash /\ Empty \notin Hash

VARIABLES
  pc,           \* where each handler is: idle, upsert, purge or publish
  req,          \* its request
  old,          \* hash of the capsule a store read before its write
  todo,         \* keys a purge has still to delete
  event,        \* the GraphEvent it is about to publish
  answer,       \* how its last request ended
  cached,       \* what Scedge holds
  filling,      \* replies to its lookups that are on their way
  unannounced,  \* history: removed capsules whose REVOKE_CAPSULE has not been published
  requests,     \* requests accepted so far
  crashes       \* crashes and disconnects so far

handlerVars == <<pc, req, old, todo, event, answer>>
worldVars   == <<cached, filling, unannounced>>
boundVars   == <<requests, crashes>>
vars        == <<repoVars, handlerVars, worldVars, boundVars>>

NoRequest == [op |-> "none", hint |-> None, capsule |-> None]

-----------------------------------------------------------------------------
(***************************************************************************)
(* Helpers of the handlers.                                                *)
(***************************************************************************)
resolve_tenant(hint) ==
  IF hint \in DOMAIN TenantSlugs THEN TenantSlugs[hint] ELSE DefaultTenant

\* Faulty: the id leaves the key out.
stable_id_HashOnly(c) == StableId[CHOOSE k \in Key : TRUE, c.hash]

stable_id(c) == StableId[c.key, c.hash]

\* Computing expires_at from an out-of-range ttl_seconds panics.
from_node_panics(row) == row.doc.ttl = "overflows"

GraphEvent(type, slug, key, oldHash, hash) ==
  [type |-> type, tenant |-> slug, key |-> key, old_hash |-> oldHash, hash |-> hash]

NoEvent == GraphEvent("none", None, None, None, None)

UpsertNode(c)         == GraphEvent("UPSERT_NODE", c.policy, c.key, None, c.hash)
SupersededBy(c, hash) == GraphEvent("SUPERSEDED_BY", c.policy, None, hash, c.hash)
RevokeCapsule(d)      == GraphEvent("REVOKE_CAPSULE", d.policy, d.key, None, d.hash)

\* Faulty: the hash just written is reported as the one superseded.
store_event_NewHash(c, hash, out) ==
  IF out = Updated /\ hash # None THEN SupersededBy(c, c.hash) ELSE UpsertNode(c)

store_event(c, hash, out) ==
  IF out = Updated /\ hash # None THEN SupersededBy(c, hash) ELSE UpsertNode(c)

\* Faulty: the event outlives the handler.
Finish_KeepsEvent(h, status) ==
  /\ pc'     = [pc EXCEPT ![h] = "idle"]
  /\ req'    = [req EXCEPT ![h] = NoRequest]
  /\ old'    = [old EXCEPT ![h] = None]
  /\ todo'   = [todo EXCEPT ![h] = <<>>]
  /\ answer' = [answer EXCEPT ![h] = status]
  /\ event'  = event

\* The handler ends and its memory is gone; only the answer remains.
Finish(h, status) ==
  /\ pc'     = [pc EXCEPT ![h] = "idle"]
  /\ req'    = [req EXCEPT ![h] = NoRequest]
  /\ old'    = [old EXCEPT ![h] = None]
  /\ todo'   = [todo EXCEPT ![h] = <<>>]
  /\ event'  = [event EXCEPT ![h] = NoEvent]
  /\ answer' = [answer EXCEPT ![h] = status]

Accept(h) ==
  /\ pc[h] = "idle"
  /\ requests < MaxRequests
  /\ requests' = requests + 1
  /\ crashes' = crashes

-----------------------------------------------------------------------------
(***************************************************************************)
(* POST /ingest/capsule: the checks and the read of the existing capsule,  *)
(* then the write, then the event.                                         *)
(***************************************************************************)
\* Faulty: the hint and the policy may differ.
policy_mismatch_Ignored(hint, c) == FALSE

policy_mismatch(hint, c) == hint # None /\ c.policy # hint

StoreBegins(h, hint, c, found) ==
  /\ pc'     = [pc EXCEPT ![h] = "upsert"]
  /\ req'    = [req EXCEPT ![h] = [op |-> "store", hint |-> hint, capsule |-> c]]
  /\ old'    = [old EXCEPT ![h] = IF found = None THEN None ELSE found.doc.hash]
  /\ answer' = [answer EXCEPT ![h] = "pending"]
  /\ UNCHANGED <<todo, event>>

api_capsule_store(h, hint, c) ==
  /\ Accept(h)
  /\ UNCHANGED <<repoVars, worldVars>>
  /\ \/ /\ policy_mismatch(hint, c) \/ c.policy = Empty
        /\ Finish(h, "bad_request")
     \/ /\ ~policy_mismatch(hint, c) /\ c.policy # Empty
        /\ \E found \in get_by_key(resolve_tenant(hint), c.key) :
             \/ /\ found = Err \/ c.hash = Empty
                /\ Finish(h, "error")
             \/ /\ found \in rows /\ c.hash # Empty
                /\ from_node_panics(found)
                /\ Finish(h, "lost")
             \/ /\ found # Err /\ c.hash # Empty
                /\ found \in rows => ~from_node_panics(found)
                /\ StoreBegins(h, hint, c, found)

\* The handler has an event to publish before it goes on.
Announce(h, e) ==
  /\ pc'    = [pc EXCEPT ![h] = "publish"]
  /\ event' = [event EXCEPT ![h] = e]
  /\ UNCHANGED <<req, old, answer>>

store_upsert(h) ==
  LET c == req[h].capsule
  IN  /\ pc[h] = "upsert"
      /\ \E out \in {Created, Updated, Err} :
           /\ upsert(resolve_tenant(req[h].hint), stable_id(c), c, out)
           /\ \/ out = Err /\ Finish(h, "error")
              \/ out # Err /\ ~BusEnabled /\ Finish(h, "ok")
              \/ /\ out # Err /\ BusEnabled
                 /\ Announce(h, store_event(c, old[h], out))
                 /\ todo' = todo
      /\ UNCHANGED <<worldVars, boundVars>>

-----------------------------------------------------------------------------
(***************************************************************************)
(* POST /capsules/purge: for each key a delete, then its event.            *)
(***************************************************************************)
api_capsule_purge(h, hint, keys) ==
  /\ Accept(h)
  /\ pc'     = [pc EXCEPT ![h] = "purge"]
  /\ req'    = [req EXCEPT ![h] = [op |-> "purge", hint |-> hint, capsule |-> None]]
  /\ todo'   = [todo EXCEPT ![h] = keys]
  /\ answer' = [answer EXCEPT ![h] = "pending"]
  /\ UNCHANGED <<repoVars, worldVars, old, event>>

purge_ends(h) ==
  /\ pc[h] = "purge" /\ todo[h] = <<>>
  /\ Finish(h, "ok")
  /\ UNCHANGED <<repoVars, worldVars, boundVars>>

\* Faulty: revokes only the version lookups were answering.
revokes_Newest(out) ==
  BusEnabled /\ out \in rows /\ out \in Newest(out.tenant, out.doc.key)

\* A purged node is announced if it is a capsule and the bus is on.
revokes(out) == BusEnabled /\ out \in rows

\* Faulty: the key is put back at the end.
next_key_Requeued(h) == todo' = [todo EXCEPT ![h] = Append(Tail(@), Head(@))]

next_key(h) == todo' = [todo EXCEPT ![h] = Tail(@)]

purge_key(h) ==
  /\ pc[h] = "purge" /\ todo[h] # <<>>
  /\ \E out \in rows \cup {None, Err} :
       /\ delete_by_key(resolve_tenant(req[h].hint), Head(todo[h]), out)
       /\ \/ out = Err /\ Finish(h, "error")
          \/ /\ out # Err /\ ~revokes(out)
             /\ next_key(h)
             /\ UNCHANGED <<pc, req, old, event, answer>>
          \/ revokes(out) /\ from_node_panics(out) /\ Finish(h, "lost")
          \/ /\ revokes(out) /\ ~from_node_panics(out)
             /\ Announce(h, RevokeCapsule(out.doc))
             /\ next_key(h)
  /\ unannounced' = unannounced \cup {RevokeCapsule(r.doc) : r \in rows \ rows'}
  /\ UNCHANGED <<cached, filling, boundVars>>

-----------------------------------------------------------------------------
(***************************************************************************)
(* publish_graph_event, and what Scedge does with an event.  An error of   *)
(* the bus is logged, and the handler goes on as if there was none.        *)
(***************************************************************************)
Invalidates(ev, entry) ==
  /\ ev.tenant = entry.tenant
  /\ ev.key = entry.key \/ entry.hash \in {ev.old_hash, ev.hash}

publish_graph_event(h) ==
  /\ pc[h] = "publish"
  /\ \/ /\ unannounced' = unannounced \ {event[h]}
        /\ cached' = {e \in cached : ~Invalidates(event[h], e)}
     \/ BusFails /\ UNCHANGED <<cached, unannounced>>
  /\ filling' = filling
  /\ \/ req[h].op = "store" /\ Finish(h, "ok")
     \/ /\ req[h].op = "purge"
        /\ pc' = [pc EXCEPT ![h] = "purge"]
        /\ event' = [event EXCEPT ![h] = NoEvent]
        /\ UNCHANGED <<req, old, todo, answer>>
  /\ UNCHANGED <<repoVars, boundVars>>

-----------------------------------------------------------------------------
(***************************************************************************)
(* GET /lookup, as the set of answers it may give, and the cache that      *)
(* calls it on a miss.                                                     *)
(***************************************************************************)
Reply(status, doc) == [status |-> status, doc |-> doc]

lookup_reply(hint, found) ==
  IF found = Err THEN Reply("error", None)
  ELSE IF found = None THEN Reply("miss", None)
  ELSE IF from_node_panics(found) THEN Reply("lost", None)
  ELSE IF hint # None /\ found.doc.policy # hint THEN Reply("miss", None)
  ELSE Reply("ok", found.doc)

api_capsule_lookup(hint, key) ==
  {lookup_reply(hint, found) : found \in get_by_key(resolve_tenant(hint), key)}

Entry(s, k, x) == [tenant |-> s, key |-> k, hash |-> x]

\* Scedge looks up what it does not hold, and is answered.
ScedgeMiss(s, k) ==
  /\ \A e \in cached : ~(e.tenant = s /\ e.key = k)
  /\ \E reply \in api_capsule_lookup(s, k) :
       /\ reply.status = "ok"
       /\ filling' = filling \cup {Entry(s, k, reply.doc.hash)}
  /\ UNCHANGED <<repoVars, handlerVars, cached, unannounced, boundVars>>

\* A reply arrives and is cached in the place of what Scedge held of the key.  The
\* same reply may be on its way more than once, or never arrive.
ScedgeFill(e) ==
  /\ e \in filling
  /\ filling' \in {filling, filling \ {e}}
  /\ cached' = {f \in cached : f.tenant # e.tenant \/ f.key # e.key} \cup {e}
  /\ UNCHANGED <<repoVars, handlerVars, unannounced, boundVars>>

-----------------------------------------------------------------------------
\* The process dies and is started again.  The in-memory map dies with it;
\* Scedge is another process and keeps its entries.
Crash ==
  /\ crashes < MaxCrashes
  /\ crashes' = crashes + 1
  /\ rows'    = IF Backend = "memory" THEN {} ELSE rows
  /\ now'     = now
  /\ pc'      = [h \in Handler |-> "idle"]
  /\ req'     = [h \in Handler |-> NoRequest]
  /\ old'     = [h \in Handler |-> None]
  /\ todo'    = [h \in Handler |-> <<>>]
  /\ event'   = [h \in Handler |-> NoEvent]
  /\ answer'  = [h \in Handler |-> IF pc[h] = "idle" THEN answer[h] ELSE "lost"]
  /\ UNCHANGED <<worldVars, requests>>

\* The client is gone and the server drops the handler's future at its await: what
\* was done stays done, and nothing else of the request is.  A statement it waited
\* for may have taken effect: the step before this one is then the statement's.
Disconnect(h) ==
  /\ pc[h] # "idle"
  /\ crashes < MaxCrashes
  /\ crashes' = crashes + 1
  /\ Finish(h, "lost")
  /\ UNCHANGED <<repoVars, worldVars, requests>>

Init ==
  /\ RepoInit
  /\ pc          = [h \in Handler |-> "idle"]
  /\ req         = [h \in Handler |-> NoRequest]
  /\ old         = [h \in Handler |-> None]
  /\ todo        = [h \in Handler |-> <<>>]
  /\ event       = [h \in Handler |-> NoEvent]
  /\ answer      = [h \in Handler |-> "none"]
  /\ cached      = {}
  /\ filling     = {}
  /\ unannounced = {}
  /\ requests    = 0
  /\ crashes     = 0

\* What a handler does between two awaits, once its request was accepted.
Step(h) ==
  store_upsert(h) \/ purge_key(h) \/ purge_ends(h) \/ publish_graph_event(h)

Next ==
  \/ \E h \in Handler :
       \/ \E hint \in Hint, c \in Capsule : api_capsule_store(h, hint, c)
       \/ \E hint \in Hint, keys \in KeyList : api_capsule_purge(h, hint, keys)
       \/ Step(h) \/ Disconnect(h)
  \/ \E s \in Slug, k \in Key : ScedgeMiss(s, k)
  \/ \E e \in filling : ScedgeFill(e)
  \/ Crash

Spec == Init /\ [][Next]_vars

\* Tokio polls every woken task, a repository call returns and so does the bus.
FairSpec == Spec /\ \A h \in Handler : WF_vars(Step(h))

-----------------------------------------------------------------------------
Request == [op: {"none", "store", "purge"}, hint: Hint \cup {None},
            capsule: Doc \cup {None}]

Events == [type: {"none", "UPSERT_NODE", "SUPERSEDED_BY", "REVOKE_CAPSULE"},
           tenant: Slug \cup {None}, key: Key \cup {None},
           old_hash: Hash \cup {None}, hash: Hash \cup {None}]

Entries == [tenant: Slug, key: Key, hash: Hash]

Statuses == {"none", "pending", "ok", "bad_request", "error", "lost"}

HandlerTypeOK ==
  /\ pc \in [Handler -> {"idle", "upsert", "purge", "publish"}]
  /\ req \in [Handler -> Request]
  /\ old \in [Handler -> Hash \cup {None}]
  /\ todo \in [Handler -> Seq(Key)]
  /\ event \in [Handler -> Events]
  /\ answer \in [Handler -> Statuses]

WorldTypeOK ==
  cached \subseteq Entries /\ filling \subseteq Entries /\ unannounced \subseteq Events

BoundTypeOK == requests \in 0 .. MaxRequests /\ crashes \in 0 .. MaxCrashes

\* A handler that is about to write has a valid capsule, and it holds an event
\* exactly while it is about to publish it.
PhaseOK(h) ==
  /\ pc[h] = "upsert" => req[h].op = "store" /\ req[h].capsule \in Doc
  /\ pc[h] = "purge" => req[h].op = "purge"
  /\ pc[h] = "publish" => req[h].op \in {"store", "purge"}
  /\ pc[h] = "publish" <=> event[h] # NoEvent

\* The variables have their types, and each handler its phase.
TypeOK ==
  /\ RepoTypeOK /\ HandlerTypeOK /\ WorldTypeOK /\ BoundTypeOK
  /\ \A h \in Handler : PhaseOK(h)

\* Apart from the default tenant, a tenant holds only capsules of the policy
\* tenant that TENANT_SLUGS maps to it: the hint must equal the policy, and
\* without a hint the write goes to the default tenant.
TenantHoldsItsPolicy ==
  \A r \in rows :
    r.tenant # DefaultTenant =>
      r.doc.policy \in DOMAIN TenantSlugs /\ TenantSlugs[r.doc.policy] = r.tenant

\* TENANT_SLUGS gives the slug a tenant that no other slug resolves to, as the
\* unmapped slugs do to the default one.
HasOwnTenant(s) ==
  /\ s \in DOMAIN TenantSlugs /\ TenantSlugs[s] # DefaultTenant
  /\ \A u \in DOMAIN TenantSlugs : TenantSlugs[u] = TenantSlugs[s] => u = s

\* A lookup that names the policy tenant of a capsule, and resolves to a tenant of
\* its own that stores it, does not answer "cache miss".
NoFalseMiss ==
  \A r \in rows :
    HasOwnTenant(r.doc.policy) /\ resolve_tenant(r.doc.policy) = r.tenant =>
      Reply("miss", None) \notin api_capsule_lookup(r.doc.policy, r.doc.key)

\* A key of a tenant that has a capsule keeps one, until a purge of that key for
\* that tenant or, in memory, a crash.
OnlyPurgesEmptyKeys ==
  [][\A t \in Tenant, k \in Key :
       Matching(t, k) # {} /\ Matching(t, k)' = {} =>
         \/ crashes' # crashes
         \/ \E h \in Handler :
              /\ pc[h] = "purge" /\ todo[h] # <<>> /\ Head(todo[h]) = k
              /\ resolve_tenant(req[h].hint) = t]_vars

\* A purge that deletes a key, without an error or a panic, leaves no capsule of
\* that key in the tenant.
PurgeEmptiesKey ==
  [][\A h \in Handler, t \in Tenant, k \in Key :
       /\ pc[h] = "purge" /\ todo[h] # <<>> /\ Head(todo[h]) = k
       /\ resolve_tenant(req[h].hint) = t
       /\ todo'[h] = Tail(todo[h]) /\ pc'[h] \in {"purge", "publish"}
       => Matching(t, k)' = {}]_vars

\* A request was cut short: by a crash, a client that is gone, a panic, or a
\* statement that failed and may have taken effect.
CutShort ==
  \/ crashes' # crashes
  \/ \E h \in Handler : pc[h] # "idle" /\ answer'[h] \in {"lost", "error"}

\* A handler has published, with an error or without.
Published(h) == pc[h] = "publish" /\ pc'[h] # "publish"

Pending(e) == \E h \in Handler : event[h] = e

\* Every capsule a purge removes has its REVOKE_CAPSULE published: it is pending
\* from the deletion on, and stays so until it is published or its handler is cut
\* short, or the bus refuses it.
DeletionsAnnounced ==
  [][BusEnabled /\ ~CutShort =>
       \A e \in unannounced' :
         \/ Pending(e)'
         \/ e \in unannounced /\ ~Pending(e)
         \/ BusFails /\ \E h \in Handler : Published(h) /\ event[h] = e]_vars

\* A lookup would answer what the entry holds.
Current(e) ==
  \E r \in Newest(resolve_tenant(e.tenant), e.key) :
    r.doc.policy = e.tenant /\ r.doc.hash = e.hash

\* Scedge neither holds the entry nor is about to, or it is current, or the event
\* that drops it is about to be published.
Covered(e) ==
  e \in cached \cup filling =>
    Current(e) \/ \E h \in Handler : Invalidates(event[h], e)

\* The capsule that the store read is not the one its write replaces any more, or
\* is one of several that were written at the same time.
ReadOvertaken(h) ==
  pc[h] = "upsert" /\
    \E r \in Newest(resolve_tenant(req[h].hint), req[h].capsule.key) : r.doc.hash # old[h]

\* Of a slug with a tenant of its own, what Scedge holds or is about to goes stale in
\* these ways only: a request is cut short between its write and its event; the bus
\* refuses the event, or its reply is on its way when it passes; a store read the
\* capsule before another write of the key.  In any other step the write's event
\* names the entry, however requests, lookups and events interleave.
StaleForAReason ==
  [][BusEnabled /\ ~CutShort =>
       \A e \in Entries :
         HasOwnTenant(e.tenant) /\ Covered(e) /\ ~Covered(e)' =>
           \E h \in Handler :
             \/ ReadOvertaken(h) /\ pc'[h] = "publish"
             \/ /\ Published(h) /\ Invalidates(event[h], e)
                /\ BusFails \/ e \in filling]_vars

\* The event of a store names what it made stale in Scedge.
SupersededIsNamed ==
  [][\A h \in Handler, e \in cached :
       pc[h] = "upsert" /\ pc'[h] = "publish" /\ Current(e) /\ ~Current(e)' =>
         Invalidates(event'[h], e)]_vars

\* Every accepted request ends, with an answer or with a lost connection.
RequestsEnd == \A h \in Handler : pc[h] # "idle" ~> pc[h] = "idle"

\* A store of a valid capsule is not answered with an internal error.
NoInternalErrors == \A h \in Handler : answer[h] # "error"
=============================================================================
