-------------------------------- MODULE Maps --------------------------------
(***************************************************************************)
(* Finite maps, as the code keeps them in HashMap and BTreeMap.            *)
(***************************************************************************)
EXTENDS Functions

EmptyMap == [k \in {} |-> k]

\* map.insert(k, v)
Put(f, k, v) == [x \in DOMAIN f \cup {k} |-> IF x = k THEN v ELSE f[x]]

\* map.extend(g)
PutAll(f, g) == [x \in DOMAIN f \cup DOMAIN g |-> IF x \in DOMAIN g THEN g[x] ELSE f[x]]

\* map.remove(k)
Without(f, k) == Restrict(f, DOMAIN f \ {k})
=============================================================================
