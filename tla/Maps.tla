-------------------------------- MODULE Maps --------------------------------
(***************************************************************************)
(* The JavaScript Map as a TLA+ function whose domain is the set of keys   *)
(* present: set, delete, and the type of such maps.                        *)
(***************************************************************************)

\* m maps a subset of K to values in V.
IsMap(m, K, V) == DOMAIN m \subseteq K /\ m \in [DOMAIN m -> V]

\* The map with no entry.
EmptyMap == [x \in {} |-> {}]

\* map.set(k, v)
Put(m, k, v) == [x \in (DOMAIN m) \cup {k} |-> IF x = k THEN v ELSE m[x]]

\* map.delete(k)
Del(m, k) == [x \in (DOMAIN m) \ {k} |-> m[x]]
=============================================================================
