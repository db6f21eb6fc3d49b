# A TLA+ model of SynaGraph

SynaGraph is a Rust service that stores *knowledge nodes* per tenant, serves
some of them as *capsules* to the edge cache Scedge, and tells Scedge when a
capsule changed. This directory holds TLA+ modules for the parts where order,
failures and tenants interact, TLC configurations that check them on small
instances, and TLAPS proofs of what holds for every instance. Paths below are
relative to the repository (the directory `src/` here).

## The system

| Part | State | Operations | Talks to |
|---|---|---|---|
| Node repository, in memory (`src/repository/in_memory.rs:19`) | a map tenant → id → node behind one `RwLock` | `upsert`, `get`, `get_by_key`, `delete_by_key`, `query_by_kind`, `search_similar` | called by every handler |
| Node repository, PostgreSQL (`src/repository/postgres.rs:67`, `migrations/`) | table `knowledge_nodes`, row-level security per tenant, a pool of 5 connections | the same; each call takes a connection, sets its tenant, runs one statement | the database |
| Capsule API (`src/server/http.rs:280`, `src/domain/capsule.rs`) | local variables of the requests in flight | `GET /api/lookup`, `POST /api/ingest/capsule`, `POST /api/capsules/purge` | node repository, event bus |
| Graph events (`src/server/http.rs:519`) | none: published by the handler that wrote | `UPSERT_NODE`, `SUPERSEDED_BY`, `REVOKE_CAPSULE` | Scedge, through the `EventBus` |
| Generic node API (`src/server/http.rs:200`, `src/server/grpc.rs:66`) | none | store, lookup, "purge", gRPC `upsert_node` | node repository, dashboard |
| Dashboard state (`src/state.rs`) | counters and a history of at most 200 entries behind a lock | record, overview, history, clear | the generic node API |
| Outbox (`in_memory.rs:277`, `postgres.rs:371`) | a queue, or table `outbox_events` | `enqueue`, `claim_batch`, `mark_published` | nothing calls it yet |
| Edges (`in_memory.rs:185`, `postgres.rs:260`) | a list per tenant, or table `knowledge_edges` | `link`, `neighbors` | nothing calls it yet |
| Embeddings, artifact cache, event bus (`in_memory.rs:244-353`) | none: stubs | | |
| Scedge bridge (`src/scedge.rs`) | none: an HTTP proxy, without a timeout | status, lookup, store, purge | Scedge |
| Servers, configuration (`src/main.rs`, `src/server/mod.rs`, `src/config.rs`) | configuration read once | start both servers; the first error ends both | |
| Dashboard UI (`dashboard/src`) | a React page | refresh, store, clear | HTTP API |

What is hard in it:

* Handlers are futures. Between two awaits nothing else of the handler runs, but
  other handlers do: a store reads the existing capsule, then writes, then
  publishes (`http.rs:328`, `348`, `375`), a purge deletes and publishes key by
  key (`http.rs:407-430`).
* A key can have several nodes. A node's id is a UUIDv5 of `key:hash`
  (`capsule.rs:162`), so a new hash is a new node under the same key; lookups
  answer the newest, an in-memory purge removes one, a PostgreSQL purge all.
* The two backends differ in their primary key. In memory it is the pair
  (tenant, id); in PostgreSQL it is the id, and only the policies keep an upsert
  from meeting another tenant's row.
* Tenants are named three times: by the request's optional `tenant`, by
  `artifact.policy.tenant`, and by the UUID to which `TENANT_SLUGS` or the
  default resolve them.
* Write and event are two steps; a panic, a crash, a client that disconnects or a
  failed publish in between leaves Scedge with what was removed. A lookup's reply may
  be on its way while a write and its event pass it.
* The tenant that row-level security compares with is a setting of the session
  (`postgres.rs:241`) and outlives the call that made it. Connections are shared;
  two calls of the outbox, `claim_batch` and `mark_published`, set none.
* Statements overlap: `now()` is when a statement started, a `DELETE` removes what it
  saw then, and `SKIP LOCKED` keeps two claims apart.
* `claim_batch` settles an event before it was published (`postgres.rs:401`).

`PROJECT.json` lists each such hazard at its line with the properties that would
catch it going wrong.

What makes each part correct: the repository shows a write to its tenant and to no
other, keeps `created_at`, orders `updated_at` and forgets what it deleted; the
capsule API never answers a capsule of another policy, never answers a miss for
what is stored, loses no key that was not purged, and announces each change; the
cache goes stale in known ways only; the dashboard counts what happened and
keeps at most 200 entries; the outbox hands out each event, none twice, and loses none
but by a crash or a claim that ends in an error; edges end with their nodes and neighbors are the tenant's own; a
listing visits each node once; an answered lifetime ends with its date; the bridge
says of Scedge what was so and does nothing twice.

## Modules

| Module | Models | Extends |
|---|---|---|
| `NodeRepository` | rows, the clock, one operator per repository call, both backends | |
| `NodeStore` | clients that make any call in any order, and see results; the mapping to `NodeContract` | `NodeRepository` |
| `NodeContract` | what a caller may rely on: a set of nodes and the order in which they were last written | |
| `PostgresPool` | a PostgreSQL call in its steps: acquire, tenant, statement, commit | `NodeRepository` |
| `Graph` | edges, neighbors, and listings page by page, over the nodes | `NodeRepository` |
| `Outbox` | both outboxes and their workers | |
| `CapsuleService` | concurrent capsule requests, events, Scedge's cache, crashes | `NodeRepository` |
| `CapsuleTtl` | the lifetime a stored capsule is answered with | `NodeRepository` |
| `Dashboard` | the counters and the bounded history, one operator per operation | |
| `NodeApi` | concurrent node requests of the HTTP and the gRPC server, and their records | `NodeRepository`, `Dashboard` |
| `ScedgeBridge` | the dashboard's proxy, and a Scedge that fails and recovers | |
| `MCNodeStore`, `MCCapsuleService`, `MCOutbox` | instances for TLC | the module |
| `MCNodeApi` | the nodes and the bridge, the two sides of the dashboard's API, one per behaviour | `NodeApi`, `ScedgeBridge` |
| `MCGraph` | links, or listings over either backend, one per behaviour | `Graph` |
| `MCPool` | calls over a pool, and the lifetimes of the rows they store | `PostgresPool`, `CapsuleTtl` |
| `NodeRepositoryProofs` | lemmas about `upsert` and `delete_by_key` | `NodeRepository` |
| `NodeStoreProofs`, `CapsuleServiceProofs`, `NodeApiProofs`, `OutboxProofs`, `GraphProofs`, `PostgresPoolProofs`, `ScedgeBridgeProofs` | the theorems (those of `CapsuleTtl` are in `PostgresPoolProofs`) | the module, the lemmas |

### NodeRepository and NodeStore

`rows` is the set of stored nodes: tenant, id, document (kind, payload, policy and
provenance as one value, of which `KeyOf` reads `payload_json.key`), creation and
update time. `now` is the clock that `Utc::now()` and `now()` read; a write moves
it by some step of `ClockSteps`, 0 among them when two writes may read the same
time.

A call is one step. In memory it holds the lock from its first to its last line;
in PostgreSQL it is one statement, taken at its commit. `upsert` finds the rows in
conflict (`Conflicting`: same tenant and id in memory, same id in PostgreSQL), is
rejected by the row policy (`Hidden`) or the foreign key to `tenants`
(`Unregistered`), or writes: a new row, or the row in conflict with a new document
and update time, its tenant and creation time kept. `get_by_key` returns any of
the rows with the greatest update time. `delete_by_key` removes one match in
memory and all of them in PostgreSQL, and returns one. With `Faults` a PostgreSQL
call may return an error, before or after the statement took effect.

`NodeStore` adds `call`, the last call with its result, so that properties can
relate a result to what is stored. `NodeContract` says the same without clocks, locks
and rows: `nodes`, and `newer`, the pairs of nodes of which the first was written
after the second. A lookup by key returns the latest of the nodes with the key.
`NodeStore` maps a row to the node it is without its times, and two rows to a pair of
`newer` when their `updated` says so.

### CapsuleService

Each handler has a place `pc`: it is idle, about to `upsert`, in the loop of a
`purge`, or about to `publish` an event. The state of a place is what the Rust
future keeps over that await: the request, the hash of the capsule read before
the write (`old`), the keys still to purge (`todo`), the event. One step runs from
one repository or bus call to the next:

| Action | Code |
|---|---|
| `api_capsule_store` | checks, `get_by_key`, `into_node`, `from_node` of the existing capsule (`http.rs:305-346`) |
| `store_upsert` | `upsert`, choice of the event, or the answer (`348-389`) |
| `api_capsule_purge`, `purge_key`, `purge_ends` | the loop over the keys (`391-439`) |
| `publish_graph_event` | the publish, its effect on Scedge or (`BusFails`) the error that is only logged, and what the handler does next (`519-523`, `375`, `423`) |
| `ScedgeMiss` | a lookup by Scedge (`280-303`), one step since it awaits once; its reply is then on its way (`filling`) |
| `ScedgeFill` | a reply arrives and is cached; it may be overtaken by any other step, or never arrive |
| `Crash` | the process ends and starts again; the in-memory map is empty then |
| `Disconnect` | the client is gone and axum drops the handler's future at its await |

`from_node` panics when `ttl_seconds` does not fit a date (`capsule.rs:125`); the
request then ends without an answer ("lost"). Of the lifetime of a capsule only
this is modelled here; the rest is `CapsuleTtl`. `unannounced` is a history variable: the `REVOKE_CAPSULE` of
each capsule a purge removed, until it is published.

Scedge is not part of the repository and is modelled from how the code and
`README.md:215-271` use it: it asks on a miss, keeps the answer under the slug and
key, and drops what an event names by key (`key`, `capsule_id`) or hash
(`hash`, `new_hash`, `old_hash`). It keeps entries for ever otherwise, and takes an
event the moment it is published: the bus adds no delay of its own. The
bus is what the `EventBus` trait is for. The one `main.rs` wires today is a stub
that answers `Ok` and sends nothing (`in_memory.rs:340-353`, called a placeholder in
`docs/storage_plan.md:66`): with it each change leaves Scedge stale.

### Dashboard and NodeApi

`metrics` and `history` are the two fields of `DashboardData`; each method of
`DashboardHandle` holds the one lock throughout and is one operator. A store or a
lookup of the node API is two steps, because the repository call is awaited and
the dashboard has a lock of its own:

| Action | Code |
|---|---|
| `api_store`, `upsert_node` | tenant and id of the node, the `upsert` (`http.rs:200-216`, `grpc.rs:66-93`); an error ends the request, by a panic or a status |
| `api_lookup` | the `get` (`http.rs:231-237`); an error counts as a miss |
| `Record` | `record_store` or `record_lookup`, and the answer (`http.rs:218-228`, `238-260`, `grpc.rs:95-107`) |
| `api_purge` | only `record_purge`: this purge removes no node (`http.rs:263-278`) |
| `api_history_clear` | the history is emptied, the counters stay (`http.rs:193-198`) |
| `Restart` | dashboard, requests in flight and the in-memory map are gone |

`pending` holds what a handler has still to record. `log` and `cleared` are history
variables: all that was recorded since the start, and how much of it when the
history was last cleared. With `Faults` an upsert may take effect and still be
answered as an error; it is then not counted, and the next store of the node is an
update. A client that disconnects before the record has the same effect. Other
components that remove nodes (the capsule purge) are not in this module, so a node
is created once.

### PostgresPool

`NodeRepository` lets a call take effect at once. `PostgresPool` takes the call apart
and keeps its statements, its policies and its `Written`:

| Action | Code |
|---|---|
| `Begin`, `acquire` | a call, and `pool.acquire()` (`postgres.rs:71`) of one of the connections (`48-49`) |
| `set_tenant_on_conn` | `set_config(..., false)` (`237-247`): the setting stays on the connection |
| `statement` | the statement starts: its `now()`, and what a `DELETE` sees (`77`, `162`) |
| `commit` | its effect under the tenant that is *set*, and the connection goes back |
| `Drop`, `Break`, `TimeOut` | a dropped future, a connection that breaks, the acquire timeout (sqlx, Tokio) |

A call is dropped before its statement, when the connection may have been told the
tenant or not; a statement that runs ends whether or not anybody waits for it. `since`
is a history variable: the stores that committed while a statement ran. Only
`upsert`, `delete_by_key` and a read are requests: the other calls are reads or, with
edges and events, inserts.

### Graph

`edges` is the list or the table, numbered in the order of insertion. `link` checks
nothing in memory; in PostgreSQL the foreign keys ask for the nodes, of any tenant,
since they are checked past the policies, and deleting a node deletes its edges.
`neighbors` answers the set of results the call may return: in memory a placeholder
for each of the first edges (`in_memory.rs:227-240`), in PostgreSQL the nodes that
the newest edges lead to. `query_by_kind` has the two page rules as they are: in
memory behind the cursor in the order of `created_at`, in PostgreSQL by
`id > cursor` although the order is `created_at DESC`. `reader` is a caller that asks
page after page; `steady` are the nodes of the kind that stayed since it began, and
`lost` says that it lost its place: the node it stood on was deleted, or
(`Misplaced`) it asked PostgreSQL for a page after the first.

### Outbox

Events are numbered in the order of `enqueue`; `id` is what the code calls them:
in memory the length of the queue plus one, which comes again. `claim_batch` pops
in memory (`pop_batch`). In PostgreSQL it is two steps, rows selected and locked, then
the commit that marks them, or the error the call ends in. The statement commits by
itself, so `claim_fails` may find the rows waiting as before or marked: its reply was
lost, or a row of it was not understood (`postgres.rs:413-433`). It runs under the tenant that the
connection has (`session`), which `OtherCall` stands for the other repositories to
leave there. An enqueue may fail too, with its tenant left on the connection
(`enqueue_fails`); ids that a failed insert skips are left out. The program starts no worker yet; the one modelled is that of
`docs/storage_plan.md`: claim a batch, publish each event, mark the batch.

### CapsuleTtl and ScedgeBridge

`CapsuleTtl` is the arithmetic of `from_node` (`capsule.rs:113-139`): times in ticks, a
lifetime in seconds of several ticks, so that dates end within a second.
`num_seconds` is chrono's, toward zero. `LifetimesExact` looks every stored row up, now
and with every lifetime; the rows and the clock are those of the repository, which the
module extends.

`ScedgeBridge` follows `status` through its two probes (`scedge.rs:38`, `48`) and a
proxied lookup, store or purge through the request, Scedge's doing and the answer.
`scedge` changes between any two steps; `was` is a history variable with the states it
was in while a status ran, `done` counts what it did of one request. `base_url` says
whether the bridge was configured; it is chosen at the start and stays.

## Checks

Passing runs:

| Run | Shows |
|---|---|
| `store_memory` | Two tenants with two ids, three documents over two keys and four writes: the primary key, isolation of tenants, the order of times, versions that only age, and the implementation of `NodeContract`. |
| `store_postgres` | Row-level security and statements that fail before or after they took effect: read-your-write, deletions, isolation and `NodeContract` again. Two tenants meet on one id here, where the row policy is what separates them. |
| `capsule_memory` | Two handlers, two slugs of which one has no tenant, two keys and hashes, valid and refused bodies, lifetimes that panic, three requests, a bus that may refuse events, one crash or disconnect, clock readings that may be equal. Only the default tenant mixes policies, no capsule of a slug with its own tenant is a miss for it, a deletion's event is lost in the named ways only. |
| `capsule_postgres` | Two handlers, three requests, faults, one crash or client that disconnects, a default tenant that is not in `tenants`, event bus off. Only a purge empties a key, and it does. |
| `cache_postgres` | Two handlers, three requests, lookups whose replies are overtaken, equal clock readings, failing statements, lifetimes that panic, a bus that may refuse events, one crash or disconnect, under fairness. What Scedge holds goes stale in the named ways only; requests end. |
| `node_api` | Nodes: two handlers, tenants and ids over PostgreSQL with faults and restarts, three requests and a history of two: the history is the latest records since it was cleared, every record is counted once, each lookup as a hit or a miss, and one of several stores of a node is told that it created it. Bridge, with and without a URL: two handlers, four requests: a status says of Scedge what was so while it ran, a proxied call is done as answered, and never twice. |
| `outbox` | Both backends, with and without policies: two workers, two connections, two tenants, three events, batches of one or two, one claim or enqueue that fails and one crash. No event is in two hands or comes again, it is lost by a crash or with a claim that failed only, batches are of one tenant; each event is claimed in the end. |
| `graph` | Links over PostgreSQL: two tenants, two ids, two keys, one edge stored and deleted with its nodes. Listings over either backend: three ids, two kinds, pages of one and two, stores and deletes between pages. |
| `pool` | Three tasks, two connections, two tenants on one id each or the same, three calls, two faults. Lifetimes: every row is looked up at every time with each of 50 lifetimes, negative ones among them, three ticks in a second. |

What the less obvious properties say:

* `StaleForAReason` is about each entry of a slug with a tenant of its own (`HasOwnTenant`)
  that Scedge holds or is about to: it is current, or the event that drops it is pending
  (`Covered`), and a step that ends this is one of four. The request is cut short
  (`CutShort`: crash, disconnect, panic, a statement that failed); the bus refuses the
  event; the reply was on its way when the event passed; or the store had read before
  another write of the key (`ReadOvertaken`). Without any one of the exceptions TLC
  finds the entry that the code leaves behind. What the property excludes is an event
  that does not name what its own write made stale.
* `DeletionsAnnounced` excepts requests that are cut short and refused events likewise; the
  overlap of two purges, or of a purge and a store, is no exception.
* `LostOnlyByCrashOrFailedClaim` is an action property over both backends: what leaves
  the queue and all hands has reached the bus, unless this very step is the crash or
  the end, in an error, of the claim that had locked it. It is what an id given twice
  would break if `mark_published` used it.
* `EventsLeave` needs, under the policies, that the event's tenant stays the one of
  every connection: the workers have no way to ask for a tenant.
* `ListingComplete` excepts listings that lost their place, by the two ways `lost`
  names. Without them TLC finds a listing that skips a node, in both backends.
* `WritesInOrder` excepts a store that another overtook; without the exception TLC
  finds the key whose last write is not its newest row.
* `PurgeSparesOnlyNew` excepts stores that committed while the `DELETE` ran.

Runs whose property fails, each against a statement of the repository's documents
(`PROJECT.json` quotes it):

| Run | What happens |
|---|---|
| `cache_concurrent` | Stores of hashes 1 and 2 of a key overlap. Both read the capsule before either write; the event of the second names what it read, and does not name what it replaced: Scedge keeps a capsule that lookups no longer answer. |
| `revoke_one_of_many` | In PostgreSQL the purge of a key with two hashes removes both and announces one. |
| `same_capsule_two_tenants` | The id leaves the tenant out: the same key and hash of a second tenant ends in a 500. |

The bounds. Two tenants, keys, hashes and ids are the least for which isolation,
several versions of a key and one id under two tenants occur; the code compares
them for equality only. Four writes allow two versions of a key, a rewrite of one
and a write of another tenant. Two handlers give each race between a read, a
write, a delete and a publish; three requests let both be in flight after one that set
the stage. `MaxTime` bounds the clock and is no less than the number
of writes in the `CapsuleService` runs, so the clock never keeps a write from
happening. In `node_api` one request more
than the history holds makes it drop one, and two stores of a node and a third
request show each order of writes and records; four requests of the bridge put a call
and a status in flight twice. In `outbox` three events leave one behind a batch of
two. In `pool` three tasks over two connections make one wait, with a call each: a
store and a purge that overlap, and a third that finds their connection or their
effect; one document is enough, since a purge goes by key and a store by id. In
`graph` three ids make a listing of three pages, and one edge is enough, because the
foreign keys treat each edge alone. Handlers are interchangeable (and ids in
`node_api`), and tenants and ids are in the `NodeStore` runs: the symmetry is taken
only where no liveness is checked. Deadlock is not checked for `CapsuleService`,
`Graph` and `PostgresPool`: the calls are bounded and the model stops when they are
done. `NodeApi` can always clear the history or restart, Scedge can always change, and
the outbox's connections are always used by someone.

Fairness. Every `FairSpec` is weak fairness of what was begun, and of nothing that
arrives. `CapsuleService`: the steps of a handler whose request was accepted. Tokio
polls a task that was woken, the lock is fair, a database call returns an answer
or an error, and so does the bus. `PostgresPool`: the steps of a call. Acquiring is
among them, and weak fairness is enough although other calls may take the
connection, because the model's calls are bounded; sqlx queues those who wait, so
the program needs no such bound. `Outbox`: a worker claims again and again and goes
on with what it claimed; the two are fair apart, so that it comes to the
end of each batch and claims again. Nothing is assumed of requests, enqueues, Scedge, failures or crashes.

## Proofs

All theorems hold for any sets of tenants, ids, keys, hashes, documents and
handlers, any clock that does not go back, and any number of steps; they rest on
the named `ASSUME`s of the modules. Equal clock readings are covered, except in
`RefinesContract`, which says so.

`NodeStore` (inductive invariant `RepoInv` with `TypeOK`): types, primary key and
`created_at <= updated_at <= now` together. The last is what makes a
write the newest of its key, and is itself inductive only with the types.
`OneConflict` follows from the primary key: at most one row is in conflict, so a
rewrite cannot duplicate an id.

* `TypeCorrect`, `PrimaryKeyHolds`, `TimesStayOrdered`, `VersionsOnlyAge`,
  `PurgesRemove`: for both backends, without further assumptions.
* `WritesAreRead`, `TenantsAreIsolated`: under `Scoped`, that is in memory, or in
  PostgreSQL when row-level security binds the role. It does not bind a
  superuser, and `docker-compose.synagraph.yml:11` makes the role one; `FORCE`
  (`migrations/002_force_rls.sql`) binds the owner of the tables only. Without the
  assumption an upsert of an id another tenant has rewrites that tenant's node.
* `RefinesContract`: `NodeStore` implements `NodeContract`, under `Scoped` and when
  every write moves the clock. The initial state maps to the initial state, and each
  call to the contract's call of that name, or to its `Fail`. The mapping needs that no
  two rows are the same node without their times, which the primary key says, and no two
  were written at the same time (`StrictTimes`, inductive with `RepoInv`). With equal
  readings a lookup may answer the one of two rows that was written first, which the
  contract forbids: the hypothesis is necessary. `Removing` and `Adding` are
  the lemmas: what taking rows away and writing a latest one do to nodes and order.

`CapsuleService` (inductive invariant `Inv`: the repository invariant, the types,
and the phase of each handler: what it is about to write is a valid capsule, and
it holds an event exactly while it publishes):

* `ServiceTypes`: for every constant. Crashes, clients that disconnect, failing statements
  and refused events are steps of each theorem of this module.
* `TenantsHoldTheirPolicy` (under `Scoped`): a pending store whose tenant is not the
  default named its policy in the hint, and so does each stored capsule.
* `NoCapsuleIsMissed` (under `Scoped`), for the slugs that `HasOwnTenant` names. Of two
  slugs that share a tenant, as the unmapped ones share the default one, the newer
  capsule of one hides the other's.
* `DeletionsAreAnnounced`: in memory; `revoke_one_of_many` shows why. Only a publication
  takes an event from its handler (`EventStays`), and a purge that is not cut short has
  the event of what it removed (`PurgeAnnounces`).
* `OnlyPurgesEmpty`: when ids tell keys apart (`IdNamesKey`). The id hashes
  `key:hash` as one string, so a colon at the start of a hash or the end of a key
  can make two pairs meet; the assumption says they do not.
* `PurgesEmptyTheirKey`: in PostgreSQL.
* `EntriesGoStaleForAReason`: under `Scoped` and `IdNamesKey`, for any number of handlers. A
  step that takes an entry's cover either takes the event, and is its publication
  (`EventStays`), or changes the rows of the entry's tenant and key. Then it is a purge,
  whose event names the key and, since the tenant holds one policy, the slug (`PurgeNames`);
  or a store, which read the newest hash unless it was overtaken, and reports that
  hash, or its key when nothing was replaced (`UpsertNames`). A write leaves other keys alone
  (`WriteIsLocal`), for which the id must name the key.

`NodeApi` (inductive invariant `Inv`: `TypeOK`, the repository invariant,
`HistoryIsRecent` and `CreatedOnce`; the last two are inductive with the types):

* `ApiTypes`, `HistoryStaysRecent`: for every bound of the history, number of
  handlers and order of records, clearings and restarts.
* `OneCreation`: for both backends, whether or not row-level security binds the
  role. An upsert answers `Created` only when it conflicts with no row, a node that
  a store created stays stored, and so no later upsert of it is a creation.
* `CountersAreExact`: a counter is the cardinality of the positions of `log` that hold a
  record of its kind. A record adds one position to those of its kind, and to no others
  (`PositionsGrow`, `RecordCounts`), which is the whole induction.

`Outbox` (inductive invariant: `TypeOK` with `HandedOutOnce`, `BatchOfOneTenant`, and
what ties them to the connections: two claims hold different connections and lock
different rows, an id in PostgreSQL is the event's number, and the rows a claim has
locked are of the tenant its connection has, which nobody changes meanwhile):

* `TypeCorrect`, `EventsHandedOutOnce`, `NothingElseLosesEvents`, `BatchesOfOneTenant`:
  for any workers, connections, tenants and batch sizes, both backends.

`Graph`, for any number of edges, nodes, tenants and page sizes:

* `GraphTypes`; `EdgesAreNotInherited`: the invariant says both ends of an edge are stored
  *and older than the edge*; the second half makes it more than the foreign key, and rests
  on the clock.
* `NeighborsBelong`: from the types and the policies alone, since an edge may join
  the nodes of any tenant.
* `ListingsAreComplete` (inductive invariant `LInv`): a listing in memory that kept its
  place has its cursor's node stored (`PlaceHeld`), has seen once each steady node up to
  it in the order of (`created_at`, `id`), and none behind it. A page is the front of what
  is behind the cursor (`PageFromFront`); it holds a last node, since it is finite
  and the order total on it (`LastExists`), and a page that is not full took all there
  was (`LastPageTakesAll`). Writes in between add nodes behind the cursor or nowhere that
  matters, since a rewrite keeps `created_at`. Ids are numbers here, as UUIDs are.

`PostgresPool` (inductive invariant `PoolInv`: `TypeOK` with `StatementTenant`;
`PurgesSeeAll`: what matches a running purge was seen by it or stored since;
`StartsInOrder`: a statement that starts later has no earlier time; `NewerOvertook`: a row newer than a
running store was written by a statement that overtook it):

* `PoolTypes`, `StatementsRunUnderTheirTenant`: for any pool and any tasks. They need no
  policy: they hold because each call sets its tenant before its statement.
* `StoresInOrder`, `PurgesAreComplete`: the exceptions they name are the only ones.

`CapsuleTtl`: `TtlAndDate`, `RemainingFits` and `WholeLifetimeAtFirst` are the parts of
`LifetimesExact` for all integers, by the arithmetic of division; `LifetimesAreExact` joins
them for the rows of any pool.

`ScedgeBridge` (inductive invariant `BridgeInv`: the types; `StatusSoFar`, what a status
has filled in between its probes is in `was`, and the probes still to come are unset;
`CallSoFar`, what was done of a proxied call at each point of its way):

* `StatusIsHonest`, `OnceCarriedOut`: for any number of requests and any changes of Scedge.

Model-checked only: the liveness properties `RequestsEnd`, `EventsLeave` and
`CallsEnd`, since liveness under fairness is beyond the provers; every
other property of a passing run is a theorem, whose hypotheses the run meets. The graph
run does not link in memory, where only the types are at stake: `GraphTypes` covers
both backends.

## Not modelled

* The embedding repository, the artifact cache and the event bus the program wires:
  stubs that keep no state. `search_similar`: empty in PostgreSQL, a sort of scores in
  memory. Nothing calls them.
* Parsing of the configuration: its results are constants. Telemetry and generated
  code: no state. `/health`, `/ready`, `ping`, overview and history: they only read.
* Start-up: the first server that fails ends both, which is the models' crash.
* The dashboard UI (`dashboard/src`): it runs in a browser and keeps nothing. Two of its
  hazards are listed: refreshes that overtake each other, and the status it loads
  again at once whenever loading failed.
* What the clock does when it is set back: `ClockSteps` holds natural numbers, and the
  theorems on times say so.
* Bodies of Scedge's answers and the parsed metrics: the dashboard shows them only.
* Transactions of more than one statement: the code has none.

Left to do: a composition of the capsule and the node API over one repository, where
nodes that are not capsules answer a capsule lookup with an error (`http.rs:290`).

## Observed

Without a run of their own:

* A crash, or a client that disconnects, between the write and the publish
  (`http.rs:348`, `375`) loses the event: it never was in the outbox, though
  `docs/storage_plan.md:67` says "Invalidations flow through the outbox table." A retry
  of the same store does not heal the cache: it finds its own capsule stored, and the
  `SUPERSEDED_BY` it sends names that hash as the old one.
* A reply to a lookup that is on its way while the key is written and the event published
  is cached after the event, and stays: nothing in the reply or in the events orders
  them. An error of the bus is logged and the event is not sent again (`http.rs:520`).
* In memory a purge removes one version of a key (`in_memory.rs:88`) and the next lookup
  answers another; PostgreSQL removes all of them.
* A capsule whose `ttl_seconds` is out of range is deleted by a purge, and the handler
  panics before it announces that (`capsule.rs:125`).
* In memory a listing whose cursor was deleted begins again; if that node is stored again
  it is at the end of the list, and the nodes in between are skipped. In PostgreSQL a
  listing of several pages skips and repeats nodes (`postgres.rs:198-199`).
* In PostgreSQL a tenant may link the nodes of another, and its edge goes when
  the other deletes its node. In memory edges outlive their nodes and are those of
  whichever node gets the id next.
* `claim_batch` commits before its rows are read: a reply that is lost, or one row that
  cannot be read (`postgres.rs:419-428`), leaves all events of the batch marked as
  published and in nobody's hands.
* `claim_batch` and `mark_published` see the events of the tenant that last used the
  connection (`postgres.rs:396`, `438`), and none on a fresh one.
* Of two stores that overlap, the one that commits last may have the older `updated_at`,
  which lookups order by (`postgres.rs:86`).
* The client of the bridge has no timeout (`scedge.rs:90`).
* `README.md:225` gives the capsule lookup as `/lookup`; the router nests it under `/api`
  (`http.rs:77`). `README.md:269` says that ingestion derives a hash; `into_node`
  requires one (`capsule.rs:157`). `docker-compose.synagraph.yml:37` sets
  `SYNAGRAPH_DB_URL`; the program reads `DATABASE_URL` (`config.rs:40`) and so runs in
  memory there.
* A capsule without a hint is stored for the default tenant whatever its policy says
  (`http.rs:327`), and a lookup by its policy's slug then misses it. No code fills
  the table `tenants`, without which PostgreSQL refuses every node.

## Running

    tlc -workers 2 -config capsule_memory.cfg MCCapsuleService
    tlapm CapsuleServiceProofs.tla    (and the other *Proofs modules)

The operators named `X_Something` and introduced as faulty are variants of `X` with
a plausible mistake; `PROJECT.json` pairs each with a property that finds it.
