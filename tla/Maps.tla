-------------------------------- MODULE Maps --------------------------------
(***************************************************************************)
(* Finite maps as functions: what `HashMap::insert` and `HashMap::remove`  *)
(* do to one, and the set of all maps between two sets.                    *)
(***************************************************************************)
EXTENDS Integers, FiniteSets

\* Every map whose keys are among K and whose values are among V.
MapsOf(K, V) == UNION {[S -> V] : S \in SUBSET K}

\* The type of such a map, in a form that enumerates nothing.
IsMap(m, K, V) == DOMAIN m \subseteq K /\ m \in [DOMAIN m -> V]

EmptyMap == [x \in {} |-> x]

MapInsert(m, k, v) == [x \in DOMAIN m \cup {k} |-> IF x = k THEN v ELSE m[x]]

MapRemove(m, k) == [x \in DOMAIN m \ {k} |-> m[x]]

=============================================================================
