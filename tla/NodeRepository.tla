---------------------------- MODULE NodeRepository ----------------------------
(***************************************************************************)
(* The NodeRepository trait and its two implementations: the in-memory     *)
(* map behind one RwLock, and the PostgreSQL table knowledge_nodes.        *)
(*                                                                         *)
(* A call is atomic here: the in-memory repository holds its lock for the  *)
(* whole call, the PostgreSQL one runs one statement.  This module has the *)
(* state and one operator per repository call; NodeStore makes a client of *)
(* it, and CapsuleService the HTTP handlers.                               *)
(***************************************************************************)
EXTENDS Integers, FiniteSets

CONSTANTS
  Tenant,      \* tenant UUIDs
  Id,          \* node UUIDs
  Key,         \* values of payload_json.key
  Doc,         \* what a node carries apart from its identity and times
  KeyOf(_),    \* the key of a document's payload
  None,        \* Rust's Option::None
  Err,         \* Rust's Result::Err
  Created,     \* UpsertOutcome::Created
  Updated,     \* UpsertOutcome::Updated
  Backend,     \* "memory" or "postgres"
  Rls,         \* row-level security binds the database role
  Registered,  \* the rows of table tenants
  Faults,      \* a statement may fail, before or after it took effect
  ClockSteps,  \* how far the wall clock moves between two writes
  MaxTime      \* bound on the clock, for model checking

ASSUME BackendAssumption == Backend \in {"memory", "postgres"}
ASSUME FlagAssumption    == Rls \in BOOLEAN /\ Faults \in BOOLEAN
ASSUME KeyAssumption     == \A d \in Doc : KeyOf(d) \in Key
ASSUME ClockAssumption   == ClockSteps \subseteq Nat /\ MaxTime \in Nat
ASSUME MemoryAssumption  == Backend = "memory" => ~Faults

VARIABLES
  rows,  \* the stored nodes
  now    \* the clock read by Utc::now() and by now()

repoVars == <<rows, now>>

Row == [tenant: Tenant, id: Id, doc: Doc, created: Nat, updated: Nat]

ASSUME SentinelAssumption ==
  /\ {None, Err, Created, Updated} \cap Row = {}
  /\ None # Err /\ Err \notin {Created, Updated} /\ Created # Updated

RepoInit == rows = {} /\ now = 0

RepoTypeOK == rows \subseteq Row /\ now \in Nat

-----------------------------------------------------------------------------
\* Faulty: conflicts with the id of any tenant, as one flat map would.
Conflicting_AnyTenant(t, i) == {r \in rows : r.id = i}

(***************************************************************************)
(* upsert.  A HashMap per tenant makes (tenant, id) the primary key in     *)
(* memory.  In PostgreSQL it is id alone: the statement conflicts with the *)
(* row of any tenant, and leaves its tenant_id and created_at as they are. *)
(***************************************************************************)
Conflicting(t, i) ==
  {r \in rows : r.id = i /\ (Backend = "memory" => r.tenant = t)}

\* Faulty: the policy is not applied to the row an upsert conflicts with.
Hidden_NoPolicy(t, i) == FALSE

\* The row-level policy hides the row the statement would update.
Hidden(t, i) == Rls /\ \E r \in Conflicting(t, i) : r.tenant # t

\* The row to insert has a tenant_id that table tenants does not have.
Unregistered(t, i) == Conflicting(t, i) = {} /\ t \notin Registered

\* PostgreSQL rejects the statement.
Refused(t, i) == Backend = "postgres" /\ (Unregistered(t, i) \/ Hidden(t, i))

Version(t, i, d, born, time) ==
  [tenant |-> t, id |-> i, doc |-> d, created |-> born, updated |-> time]

\* Faulty rewrites: updated_at stays; created_at starts anew; they are swapped.
Rewritten_OldTime(r, d, time) == Version(r.tenant, r.id, d, r.created, r.updated)
Rewritten_Reborn(r, d, time)  == Version(r.tenant, r.id, d, time, time)
Rewritten_Swapped(r, d, time) == Version(r.tenant, r.id, d, time, r.created)

Rewritten(r, d, time) == Version(r.tenant, r.id, d, r.created, time)

Overwritten(t, i, d, time) ==
  IF Conflicting(t, i) = {}
  THEN {Version(t, i, d, time, time)}
  ELSE {Rewritten(r, d, time) : r \in Conflicting(t, i)}

\* Faulty: a plain insert, the row in conflict is not replaced.
Written_Appended(t, i, d, time) == rows \cup Overwritten(t, i, d, time)

Written(t, i, d, time) ==
  (rows \ Conflicting(t, i)) \cup Overwritten(t, i, d, time)

\* Faulty: the clock steps back between two writes.
Tick_Back == now' \in {now - s : s \in ClockSteps}

Tick ==
  /\ now' \in {now + s : s \in ClockSteps}
  /\ now' <= MaxTime

upsert(t, i, d, out) ==
  /\ Tick
  /\ \/ /\ ~Refused(t, i)
        /\ rows' = Written(t, i, d, now')
        /\ \/ out = IF Conflicting(t, i) = {} THEN Created ELSE Updated
           \/ Faults /\ out = Err
     \/ /\ Refused(t, i) \/ Faults
        /\ rows' = rows
        /\ out = Err

-----------------------------------------------------------------------------
(***************************************************************************)
(* Reads.  Each is the set of results the call may return.                 *)
(***************************************************************************)
Fault == IF Faults THEN {Err} ELSE {}

get(t, i) ==
  LET found == {r \in rows : r.tenant = t /\ r.id = i}
  IN  Fault \cup IF found = {} THEN {None} ELSE found

Matching(t, k) == {r \in rows : r.tenant = t /\ KeyOf(r.doc) = k}

\* Faulty: sorted oldest first.
Newest_Oldest(t, k) ==
  {r \in Matching(t, k) : \A s \in Matching(t, k) : r.updated <= s.updated}

\* The rows no other row of the same tenant and key is newer than.  Neither
\* the stable sort of a HashMap's values nor ORDER BY decides between ties.
Newest(t, k) ==
  {r \in Matching(t, k) : \A s \in Matching(t, k) : s.updated <= r.updated}

get_by_key(t, k) ==
  Fault \cup IF Matching(t, k) = {} THEN {None} ELSE Newest(t, k)

\* Faulty: removes the other matches and keeps the one returned; removes one only.
Deleted_Others(t, k, out) == Matching(t, k) \ {out}

Deleted_One(t, k, out) == {out}

(***************************************************************************)
(* delete_by_key.  The map's iterator yields some match, and that one is   *)
(* removed.  DELETE removes every match and fetch_optional returns one.    *)
(***************************************************************************)
Deleted(t, k, out) == IF Backend = "memory" THEN {out} ELSE Matching(t, k)

delete_by_key(t, k, out) ==
  /\ now' = now
  /\ \/ /\ Matching(t, k) = {}
        /\ out = None
        /\ rows' = rows
     \/ /\ out \in Matching(t, k)
        /\ rows' = rows \ Deleted(t, k, out)
     \/ /\ Faults
        /\ out = Err
        /\ rows' \in {rows, rows \ Matching(t, k)}
-----------------------------------------------------------------------------
\* No two stored nodes share their key: the pair (tenant, id) in memory, the
\* id alone in PostgreSQL (inner map of in_memory.rs, PRIMARY KEY of the table).
PrimaryKey ==
  \A r, s \in rows :
    r.id = s.id /\ (Backend = "memory" => r.tenant = s.tenant) => r = s

\* created_at <= updated_at <= the clock, for a clock that never goes back:
\* the order get_by_key sorts by is the order of the writes.
TimesOrdered == \A r \in rows : r.created <= r.updated /\ r.updated <= now
=============================================================================
