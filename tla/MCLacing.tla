------------------------------ MODULE MCLacing ------------------------------
(* Hierarchies for TLC: every order on up to N categories, the categories'    *)
(* archetypes at any addresses, and node types that no archetype has.         *)
EXTENDS Lacing

CONSTANT N  \* number of categories at most

\* Partial orders on 1..n, every one up to renaming: what has more above it has
\* the greater number.
Orders(n) ==
  {up \in [1..n -> SUBSET (1..n)] :
     \A x \in 1..n : /\ x \in up[x]
                     /\ \A y \in up[x] : y <= x /\ up[y] \subseteq up[x]
                     /\ \A y \in 1..x : Cardinality(up[y]) <= Cardinality(up[x])}

\* A type is known by the categories it is under. A type under two categories
\* is under all that are above either.
Hierarchy(up) ==
  LET types == {T \in SUBSET DOMAIN up : \A x \in T : up[x] \subseteq T} IN
  [x \in types |-> {up[c] : c \in x} \cup {x}]

\* The archetypes in the order of their addresses.
Archetypes(up) == {[k \in 1..Len(p) |-> up[p[k]]] : p \in SetToSeqs(DOMAIN up)}

\* Two archetypes of one type: they are not equal, their categories are.
Doubled(raw) == Append(raw, raw[1])

Lacings ==
  UNION {UNION {{[isA |-> Hierarchy(up), raw |-> r] : r \in Archetypes(up)} : up \in Orders(n)} : n \in 0..N}
    \cup UNION {{[isA |-> Hierarchy(up), raw |-> Doubled(r)] : r \in Archetypes(up)} : up \in Orders(2)}
=============================================================================
