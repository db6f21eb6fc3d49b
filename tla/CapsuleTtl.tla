------------------------------- MODULE CapsuleTtl -------------------------------
(***************************************************************************)
(* The lifetime of a capsule, as CapsuleLookupResponse::from_node answers  *)
(* it.  Times are ticks, and Second ticks are a second: expires_at and     *)
(* updated_at are finer than the seconds of ttl_seconds and of the answer. *)
(* A ttl_seconds whose date cannot be represented is CapsuleService's.     *)
(***************************************************************************)
EXTENDS NodeRepository

CONSTANTS
  Second,  \* ticks in a second
  Ttls,    \* what clients give for ttl_seconds
  Dates    \* what they give for expires_at

ASSUME TtlAssumption ==
  /\ Second \in Nat \ {0}
  /\ Ttls \subseteq Int /\ Dates \subseteq Int /\ None \notin Int

\* What a capsule was stored with; a client may give either, both or neither.
Lifetime == [ttl_seconds : Ttls \cup {None}, expires_at : Dates \cup {None}]

\* Faulty: the remaining time of an expired capsule is answered as it is.
AtLeastZero_Dropped(n) == n

AtLeastZero(n) == IF n < 0 THEN 0 ELSE n

\* chrono's Duration::num_seconds: toward zero.
num_seconds(d) == IF d >= 0 THEN d \div Second ELSE -((-d) \div Second)

ttl_seconds(c, updated) ==
  IF c.ttl_seconds # None THEN c.ttl_seconds
  ELSE IF c.expires_at # None THEN AtLeastZero(num_seconds(c.expires_at - updated))
  ELSE None

expires_at(c, updated) ==
  IF c.expires_at # None THEN c.expires_at
  ELSE IF c.ttl_seconds # None THEN updated + c.ttl_seconds * Second
  ELSE None

ttl_remaining_seconds(c, updated, time) ==
  IF expires_at(c, updated) = None THEN None
  ELSE AtLeastZero(num_seconds(expires_at(c, updated) - time))

-----------------------------------------------------------------------------
(***************************************************************************)
(* What an edge cache needs of the answer.                                 *)
(***************************************************************************)
\* An answer has both a lifetime and a date, or neither.
PopulatedTogether(c, updated) ==
  ttl_seconds(c, updated) = None <=> expires_at(c, updated) = None

\* The remaining seconds never reach past the date, and one more would: an entry kept
\* that long is dropped in its last second, and one of an expired capsule at once.
RemainingExact(c, updated, time) ==
  LET date == expires_at(c, updated)
      left == ttl_remaining_seconds(c, updated, time)
  IN  date # None =>
        /\ left \in Nat
        /\ time > date => left = 0
        /\ time <= date => time + left * Second <= date /\ date < time + (left + 1) * Second

\* A capsule just written is answered the whole lifetime it was given, unless it came
\* with a date: the date decides then, and ttl_seconds is answered as it came.
FullWhenWritten(c, updated) ==
  c.ttl_seconds # None /\ c.expires_at = None =>
    ttl_remaining_seconds(c, updated, updated) = AtLeastZero(ttl_seconds(c, updated))

\* However the stored capsules were given their lifetimes, a lookup that runs now
\* answers lifetime and date together, remaining seconds that end with the date, and
\* the whole lifetime for one that was just written.
LifetimesExact ==
  \A r \in rows, c \in Lifetime :
    /\ PopulatedTogether(c, r.updated)
    /\ FullWhenWritten(c, r.updated)
    /\ RemainingExact(c, r.updated, now)
=============================================================================
