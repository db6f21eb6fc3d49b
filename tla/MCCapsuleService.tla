---------------------------- MODULE MCCapsuleService ----------------------------
(***************************************************************************)
(* CapsuleService with a few slugs, keys and hashes.                       *)
(***************************************************************************)
EXTENDS CapsuleService, TLC

CONSTANTS a, b, k1, k2, x1, x2, ta, tb, td, h1, h2

MCKeyOf(d) == d.key

Body(key, hash, policy, ttl) ==
  [key |-> key, hash |-> hash, policy |-> policy, ttl |-> ttl]

\* Valid bodies, of one or two slugs and keys, some with a ttl_seconds out of
\* range, and the bodies that are refused.
OneKey   == {Body(k1, x, a, "fits") : x \in {x1, x2}}
TwoSlugs == OneKey \cup {Body(k1, x1, b, "fits")}
TwoKeys  == OneKey \cup {Body(k2, x1, a, "fits")}
TooLong  == OneKey \cup {Body(k1, x2, a, "overflows")}
Mixed    == TwoKeys \cup TooLong
Plain    == Mixed \cup TwoSlugs
Invalid  == {Body(k1, Empty, a, "fits"), Body(k1, x1, Empty, "fits")}
AnyBody  == Plain \cup Invalid

\* A UUIDv5 per pair of key and hash.
Injective == [k \in Key, x \in Hash |-> <<k, x>>]
AllIds    == Key \X Hash

BothMapped == a :> ta @@ b :> tb
OnlyA      == a :> ta
NoneMapped == <<>>

PurgeOne  == {<<k1>>}
PurgeSome == {<<k1>>, <<k1, k2>>}

HandlersAlike == Permutations(Handler)
=============================================================================
