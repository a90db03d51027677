---------------------------- MODULE Lacing_proofs ----------------------------
(******************************************************************************)
(* Proofs, for any hierarchy of types and any number of categories whatever   *)
(* order they are in, that a swap of Sort() gains what its formula says, that *)
(* the decision tree can be built, so that no ASSERT of Build() fails, that   *)
(* comparing two nodes agrees with their ordinals, and that the ranges of a   *)
(* category select what they should.                                          *)
(******************************************************************************)
EXTENDS Lacing, FiniteSetTheorems, SequenceTheorems, WellFoundedInduction, TLAPS

-----------------------------------------------------------------------------
(* Induction and recursion, with sets and functions in place of operators.    *)

LEMMA Least ==
  ASSUME NEW T, T \subseteq Nat, T # {}
  PROVE  \E m \in T : \A k \in T : m <= k
  <1>1. PICK x \in T : \A y \in T : ~ (<<y, x>> \in OpToRel(<, Nat))
    BY WFMin, NatLessThanWellFounded
  <1>2. \A y \in T : ~ (y < x)
    BY <1>1 DEF OpToRel
  <1>3. QED
    BY <1>2

LEMMA UpTo ==
  ASSUME NEW n \in Nat, NEW T, 0 \in T, \A k \in 1..n : k - 1 \in T => k \in T
  PROVE  \A k \in 0..n : k \in T
  <1> DEFINE U == {k \in 0..n : k \notin T}
  <1>1. SUFFICES ASSUME U # {}
                 PROVE  FALSE
    OBVIOUS
  <1>2. U \subseteq Nat
    OBVIOUS
  <1>3. PICK m \in U : \A k \in U : m <= k
    BY <1>1, <1>2, Least
  <1>4. m \in 0..n /\ m \notin T /\ m # 0
    BY <1>3
  <1>5. m \in 1..n /\ m - 1 \in 0..n /\ ~ (m <= m - 1)
    BY <1>4
  <1>6. m - 1 \in T
    BY <1>3, <1>5
  <1>7. QED
    BY <1>4, <1>5, <1>6

LEMMA ByCardinality ==
  ASSUME NEW D, IsFiniteSet(D), NEW T,
         \A S \in SUBSET D : (\A R \in SUBSET D : Cardinality(R) < Cardinality(S) => R \in T) => S \in T
  PROVE  \A S \in SUBSET D : S \in T
  <1> DEFINE B == {S \in SUBSET D : S \notin T}
             U == {Cardinality(S) : S \in B}
  <1>1. SUFFICES ASSUME B # {}
                 PROVE  FALSE
    OBVIOUS
  <1>2. \A S \in SUBSET D : Cardinality(S) \in Nat
    BY FS_Subset, FS_CardinalityType
  <1>3. U \subseteq Nat /\ U # {}
    BY <1>1, <1>2
  <1>4. PICK m \in U : \A k \in U : m <= k
    BY <1>3, Least
  <1>5. PICK S \in B : m = Cardinality(S)
    BY <1>4
  <1>6. \A R \in SUBSET D : Cardinality(R) < Cardinality(S) => R \in T
    <2>1. SUFFICES ASSUME NEW R \in SUBSET D, Cardinality(R) < Cardinality(S), R \notin T
                   PROVE  FALSE
      OBVIOUS
    <2>2. Cardinality(R) \in U
      BY <2>1
    <2>3. m <= Cardinality(R)
      BY <1>4, <2>2
    <2>4. Cardinality(R) \in Nat /\ Cardinality(S) \in Nat
      BY <1>2
    <2>5. QED
      BY <1>5, <2>1, <2>3, <2>4
  <1>7. QED
    BY <1>6

\* A function on 0..last by its first value and the next from each.
Turns(last, V) == [(1..last) \X V -> V]

Runs(last, V, start, turns) ==
  {rec \in [0..last -> V] : rec[0] = start /\ \A k \in 1..last : rec[k] = turns[<<k, rec[k - 1]>>]}

LEMMA Recursion ==
  ASSUME NEW last \in Nat, NEW V, NEW start \in V, NEW turns \in Turns(last, V)
  PROVE  Runs(last, V, start, turns) # {}
  <1> DEFINE Good(m, rec) == rec[0] = start /\ \A k \in 1..m : rec[k] = turns[<<k, rec[k - 1]>>]
             T == {m \in 0..last : \E rec \in [0..m -> V] : Good(m, rec)}
  <1>0. turns \in [(1..last) \X V -> V]
    BY DEF Turns
  <1>1. 0 \in T
    <2> DEFINE g == [k \in 0..0 |-> start]
    <2>1. g \in [0..0 -> V] /\ g[0] = start
      OBVIOUS
    <2>2. Good(0, g)
      BY <2>1
    <2> HIDE DEF g, Good
    <2>3. 0 \in 0..last
      OBVIOUS
    <2>4. QED
      BY <2>1, <2>2, <2>3
  <1>2. ASSUME NEW m \in 1..last, m - 1 \in T
        PROVE  m \in T
    <2>1. PICK rec \in [0..(m - 1) -> V] : Good(m - 1, rec)
      BY <1>2
    <2> DEFINE g == [k \in 0..m |-> IF k = m THEN turns[<<m, rec[m - 1]>>] ELSE rec[k]]
    <2>2. m - 1 \in 0..(m - 1) /\ m \in 0..m /\ m \in 0..last /\ 0 \in 0..m /\ 0 # m /\ 0 \in 0..(m - 1)
      OBVIOUS
    <2>3. \A k \in 0..m : k # m => k \in 0..(m - 1)
      OBVIOUS
    <2>4. turns[<<m, rec[m - 1]>>] \in V
      BY <1>0, <2>1, <2>2
    <2>5. g \in [0..m -> V]
      BY <2>3, <2>4
    <2>6. g[0] = start
      BY <2>1, <2>2
    <2>7. ASSUME NEW k \in 1..m
          PROVE  g[k] = turns[<<k, g[k - 1]>>]
      <3>1. k \in 0..m /\ k - 1 \in 0..m /\ k - 1 # m
        OBVIOUS
      <3>2. g[k - 1] = rec[k - 1]
        BY <3>1
      <3>3. CASE k = m
        BY <3>1, <3>2, <3>3
      <3>4. CASE k # m
        <4>1. k \in 1..(m - 1)
          BY <3>4
        <4>2. rec[k] = turns[<<k, rec[k - 1]>>]
          BY <2>1, <4>1
        <4>3. QED
          BY <3>1, <3>2, <3>4, <4>2
      <3>5. QED
        BY <3>3, <3>4
    <2>8. Good(m, g)
      BY <2>6, <2>7
    <2> HIDE DEF g, Good
    <2>9. QED
      BY <2>2, <2>5, <2>8
  <1> HIDE DEF Good
  <1>3. last \in T
    <2>1. \A k \in 0..last : k \in T
      BY <1>1, <1>2, UpTo
    <2>2. QED
      BY <2>1
  <1>4. QED
    BY <1>3 DEF Good, Runs

\* A set of ordinals has a least and a greatest one.
LEMMA Bounds ==
  ASSUME NEW n \in Nat, NEW S \in SUBSET (0..n), S # {}
  PROVE  /\ Min(S) \in S /\ \A k \in S : Min(S) <= k
         /\ Max(S) \in S /\ \A k \in S : k <= Max(S)
  <1>1. S \subseteq Nat
    OBVIOUS
  <1>2. \E m \in S : \A k \in S : m <= k
    BY <1>1, Least
  <1>3. Min(S) \in S /\ \A k \in S : Min(S) <= k
    BY <1>2 DEF Min
  <1> DEFINE U == {n - k : k \in S}
  <1>4. U \subseteq Nat /\ U # {}
    <2>1. \A k \in S : n - k \in Nat
      OBVIOUS
    <2>2. PICK k \in S : TRUE
      OBVIOUS
    <2>3. n - k \in U
      BY <2>2
    <2>4. QED
      BY <2>1, <2>3
  <1>5. PICK m \in U : \A k \in U : m <= k
    BY <1>4, Least
  <1>6. PICK g \in S : m = n - g
    BY <1>5
  <1>7. \A k \in S : n - k \in U
    OBVIOUS
  <1>8. \A k \in S : n - g <= n - k
    BY <1>5, <1>6, <1>7
  <1>9. \A k \in S : g >= k
    BY <1>1, <1>8
  <1>10. Max(S) \in S /\ \A k \in S : Max(S) >= k
    BY <1>9 DEF Max
  <1>11. \A k \in S : k <= Max(S)
    BY <1>1, <1>10
  <1>12. QED
    BY <1>3, <1>10, <1>11

LEMMA Parts ==
  ASSUME NEW D, IsFiniteSet(D), NEW S \in SUBSET D, NEW R, R \subseteq S, R # S
  PROVE  R \in SUBSET D /\ Cardinality(R) < Cardinality(S) /\ Cardinality(S) \in Nat
  <1>1. IsFiniteSet(S)
    BY FS_Subset
  <1>2. QED
    BY <1>1, FS_Subset, FS_CardinalityType


-----------------------------------------------------------------------------
(* What can be reached from a set by steps to other sets: the least set that  *)
(* is closed under them. It gives recursive definitions their solutions.      *)

Closed(kids, C) == \A R \in C : kids[R] \subseteq C

Reach(D, kids, S) == {T \in SUBSET D : \A C \in SUBSET SUBSET D : S \in C /\ Closed(kids, C) => T \in C}

LEMMA ReachStep ==
  ASSUME NEW D, NEW kids \in [SUBSET D -> SUBSET SUBSET D], NEW S \in SUBSET D
  PROVE  Reach(D, kids, S) = {S} \cup UNION {Reach(D, kids, R) : R \in kids[S]}
  <1> DEFINE U == {S} \cup UNION {Reach(D, kids, R) : R \in kids[S]}
  <1>0. \A R \in SUBSET D : Reach(D, kids, R) \in SUBSET SUBSET D
    BY DEF Reach
  <1>1. \A R \in SUBSET D : R \in Reach(D, kids, R)
    BY DEF Reach
  <1>2. ASSUME NEW R \in SUBSET D
        PROVE  Closed(kids, Reach(D, kids, R))
    <2>1. SUFFICES ASSUME NEW Q \in Reach(D, kids, R), NEW P \in kids[Q]
                   PROVE  P \in Reach(D, kids, R)
      BY DEF Closed
    <2>2. Q \in SUBSET D /\ P \in SUBSET D
      BY <1>0
    <2>3. ASSUME NEW C \in SUBSET SUBSET D, R \in C, Closed(kids, C)
          PROVE  P \in C
      <3>1. Q \in C
        BY <2>3 DEF Reach
      <3>2. QED
        BY <2>3, <3>1 DEF Closed
    <2>4. QED
      BY <2>2, <2>3 DEF Reach
  <1>3. ASSUME NEW R \in kids[S]
        PROVE  Reach(D, kids, R) \subseteq Reach(D, kids, S)
    <2>1. R \in SUBSET D
      OBVIOUS
    <2>2. R \in Reach(D, kids, S)
      BY <1>1, <1>2 DEF Closed
    <2>3. Reach(D, kids, S) \in SUBSET SUBSET D /\ Closed(kids, Reach(D, kids, S))
      BY <1>0, <1>2
    <2>4. SUFFICES ASSUME NEW T \in Reach(D, kids, R)
                   PROVE  T \in Reach(D, kids, S)
      OBVIOUS
    <2> DEFINE C == Reach(D, kids, S)
    <2> HIDE DEF C
    <2>5. C \in SUBSET SUBSET D /\ R \in C /\ Closed(kids, C)
      BY <2>2, <2>3 DEF C
    <2>6. T \in C
      BY <2>5 DEF Reach
    <2>7. QED
      BY <2>6 DEF C
  <1>4. U \subseteq Reach(D, kids, S)
    BY <1>1, <1>3
  <1>5. U \in SUBSET SUBSET D
    BY <1>0
  <1>6. Closed(kids, U)
    <2>1. SUFFICES ASSUME NEW Q \in U, NEW P \in kids[Q]
                   PROVE  P \in U
      BY DEF Closed
    <2>2. CASE Q = S
      BY <1>1, <2>2
    <2>3. CASE Q # S
      <3>1. PICK R \in kids[S] : Q \in Reach(D, kids, R)
        BY <2>3
      <3>2. P \in Reach(D, kids, R)
        BY <1>2, <3>1 DEF Closed
      <3>3. QED
        BY <3>2
    <2>4. QED
      BY <2>2, <2>3
  <1>7. Reach(D, kids, S) \subseteq U
    <2>1. S \in U
      OBVIOUS
    <2> HIDE DEF U
    <2>2. QED
      BY <1>5, <1>6, <2>1 DEF Reach
  <1>8. QED
    BY <1>4, <1>7

-----------------------------------------------------------------------------
(* The decision tree and the walk down it, apart from the state.              *)

Matches(isA, c, x) == c # Null /\ x # Null /\ c \in isA[x]

NextPlace(isA, dec, ls, S, x) ==
  IF Matches(isA, dec[S], x) THEN S \cap ls[dec[S]] ELSE S \ ls[dec[S]]

Walk(D, isA, dec, ls, x) ==
  LET walk[S \in SUBSET D] ==
        IF Cardinality(S) = 1 THEN Min(S) ELSE walk[NextPlace(isA, dec, ls, S, x)]
  IN walk

Place(D, dec, S) == S \in DOMAIN dec \/ \E i \in D : S = {i}

Tree(D, dec, ls) ==
  /\ Place(D, dec, D)
  /\ \A S \in DOMAIN dec :
       /\ S \subseteq D /\ Cardinality(S) # 1
       /\ S \cap ls[dec[S]] \notin {{}, S}
       /\ Place(D, dec, S \cap ls[dec[S]]) /\ Place(D, dec, S \ ls[dec[S]])

LEMMA MinOfOne ==
  ASSUME NEW i \in Nat
  PROVE  Min({i}) = i
  BY DEF Min

LEMMA OneElement ==
  ASSUME NEW D, IsFiniteSet(D), NEW S \in SUBSET D
  PROVE  Cardinality(S) = 1 <=> \E i \in D : S = {i}
  <1>1. IsFiniteSet(S)
    BY FS_Subset
  <1>2. Cardinality(S) = 1 <=> \E i : S = {i}
    BY <1>1, FS_Singleton
  <1>3. QED
    BY <1>2

\* The walk is what its definition says.
LEMMA WalkStep ==
  ASSUME NEW D \in SUBSET Nat, IsFiniteSet(D), NEW isA, NEW dec, NEW ls, NEW x, NEW S \in SUBSET D
  PROVE  Walk(D, isA, dec, ls, x)[S] =
           IF Cardinality(S) = 1 THEN Min(S)
           ELSE Walk(D, isA, dec, ls, x)[NextPlace(isA, dec, ls, S, x)]
  <1> DEFINE P(f) == f = [R \in SUBSET D |-> IF Cardinality(R) = 1 THEN Min(R)
                                             ELSE f[NextPlace(isA, dec, ls, R, x)]]
             kids == [R \in SUBSET D |-> IF Cardinality(R) = 1 THEN {} ELSE {NextPlace(isA, dec, ls, R, x)}]
             Ends(R) == {i \in D : {i} \in Reach(D, kids, R)}
             End(R) == CHOOSE i : i \in Ends(R)
             g == [R \in SUBSET D |-> End(R)]
  <1>1. \A R \in SUBSET D : NextPlace(isA, dec, ls, R, x) \in SUBSET D
    BY DEF NextPlace
  <1>2. kids \in [SUBSET D -> SUBSET SUBSET D]
    BY <1>1
  <1>3. ASSUME NEW R \in SUBSET D, Cardinality(R) = 1
        PROVE  g[R] = Min(R)
    <2>1. PICK i \in D : R = {i}
      BY <1>3, OneElement
    <2>2. kids[R] = {}
      BY <1>3
    <2> HIDE DEF kids
    <2>3. Reach(D, kids, R) = {R}
      BY <1>2, <2>2, ReachStep
    <2>4. Ends(R) = {i}
      BY <2>1, <2>3
    <2>5. g[R] = i
      BY <2>4
    <2>6. i \in Nat
      OBVIOUS
    <2>7. QED
      BY <2>1, <2>5, <2>6, MinOfOne
  <1>4. ASSUME NEW R \in SUBSET D, Cardinality(R) # 1
        PROVE  g[R] = g[NextPlace(isA, dec, ls, R, x)]
    <2> DEFINE Q == NextPlace(isA, dec, ls, R, x)
    <2>1. kids[R] = {Q} /\ Q \in SUBSET D
      BY <1>1, <1>4
    <2> HIDE DEF kids, Q
    <2>2. Reach(D, kids, R) = {R} \cup Reach(D, kids, Q)
      BY <1>2, <2>1, ReachStep
    <2>3. \A i \in D : {i} # R
      BY <1>4, FS_Singleton
    <2>4. Ends(R) = Ends(Q)
      BY <2>2, <2>3
    <2>5. g[R] = CHOOSE i : i \in Ends(R)
      OBVIOUS
    <2>6. g[Q] = CHOOSE i : i \in Ends(Q)
      BY <2>1
    <2> HIDE DEF Ends, g
    <2>7. g[R] = g[Q]
      BY <2>4, <2>5, <2>6
    <2>8. QED
      BY <2>7 DEF Q
  <1>5. P(g)
    <2> DEFINE h == [R \in SUBSET D |-> IF Cardinality(R) = 1 THEN Min(R)
                                        ELSE g[NextPlace(isA, dec, ls, R, x)]]
    <2> HIDE DEF End
    <2>1. g = [R \in SUBSET D |-> g[R]]
      OBVIOUS
    <2> HIDE DEF g
    <2>2. \A R \in SUBSET D : g[R] = h[R]
      BY <1>3, <1>4
    <2>3. g = h
      BY <2>1, <2>2
    <2>4. QED
      BY <2>3
  <1> HIDE DEF g
  <1>6. Walk(D, isA, dec, ls, x) = CHOOSE f : P(f)
    BY Zenon DEF Walk
  <1>7. P(CHOOSE f : P(f))
    BY <1>5, Zenon
  <1>8. P(Walk(D, isA, dec, ls, x))
    BY <1>6, <1>7, Zenon
  <1> DEFINE w == Walk(D, isA, dec, ls, x)
  <1> HIDE DEF w
  <1>9. w = [R \in SUBSET D |-> IF Cardinality(R) = 1 THEN Min(R)
                                ELSE w[NextPlace(isA, dec, ls, R, x)]]
    BY <1>8, Zenon DEF w
  <1>10. w[S] = IF Cardinality(S) = 1 THEN Min(S) ELSE w[NextPlace(isA, dec, ls, S, x)]
    BY <1>9
  <1>11. QED
    BY <1>10 DEF w

\* A place is a leaf, or the walk goes on from it to a smaller one.
LEMMA PlaceStep ==
  ASSUME NEW D \in SUBSET Nat, IsFiniteSet(D), NEW isA, NEW dec, NEW ls, NEW x, Tree(D, dec, ls),
         NEW S \in SUBSET D, Place(D, dec, S)
  PROVE  \/ \E i \in D : S = {i} /\ Walk(D, isA, dec, ls, x)[S] = i
         \/ /\ S \in DOMAIN dec
            /\ NextPlace(isA, dec, ls, S, x) \in SUBSET D
            /\ Cardinality(NextPlace(isA, dec, ls, S, x)) < Cardinality(S)
            /\ NextPlace(isA, dec, ls, S, x) \subseteq S
            /\ Place(D, dec, NextPlace(isA, dec, ls, S, x))
            /\ Walk(D, isA, dec, ls, x)[S] = Walk(D, isA, dec, ls, x)[NextPlace(isA, dec, ls, S, x)]
  <1>1. CASE S \in DOMAIN dec
    <2> DEFINE Q == NextPlace(isA, dec, ls, S, x)
    <2>1. /\ Cardinality(S) # 1
          /\ S \cap ls[dec[S]] \notin {{}, S}
          /\ Place(D, dec, S \cap ls[dec[S]]) /\ Place(D, dec, S \ ls[dec[S]])
      BY <1>1 DEF Tree
    <2>2. Q \subseteq S /\ Q # S /\ Place(D, dec, Q)
      BY <2>1 DEF NextPlace
    <2>3. Walk(D, isA, dec, ls, x)[S] = Walk(D, isA, dec, ls, x)[Q]
      BY <2>1, WalkStep
    <2> HIDE DEF Q
    <2>4. Q \in SUBSET D /\ Cardinality(Q) < Cardinality(S)
      BY <2>2, Parts
    <2>5. QED
      BY <1>1, <2>2, <2>3, <2>4 DEF Q
  <1>2. CASE \E i \in D : S = {i}
    <2>1. PICK i \in D : S = {i}
      BY <1>2
    <2>2. Cardinality(S) = 1
      BY <1>2, OneElement
    <2>3. Walk(D, isA, dec, ls, x)[S] = Min(S)
      BY <2>2, WalkStep
    <2>4. Min(S) = i
      BY <2>1, MinOfOne
    <2>5. QED
      BY <2>1, <2>3, <2>4
  <1>3. QED
    BY <1>1, <1>2 DEF Place

\* The walk from a place ends at one of the ordinals possible there.
LEMMA WalkIn ==
  ASSUME NEW D \in SUBSET Nat, IsFiniteSet(D), NEW isA, NEW dec, NEW ls, NEW x, Tree(D, dec, ls)
  PROVE  \A S \in SUBSET D : Place(D, dec, S) => Walk(D, isA, dec, ls, x)[S] \in S
  <1> DEFINE w == Walk(D, isA, dec, ls, x)
             T == {S \in SUBSET D : Place(D, dec, S) => w[S] \in S}
  <1>1. ASSUME NEW S \in SUBSET D,
               \A R \in SUBSET D : Cardinality(R) < Cardinality(S) => R \in T
        PROVE  S \in T
    <2>1. SUFFICES ASSUME Place(D, dec, S)
                   PROVE  w[S] \in S
      OBVIOUS
    <2> DEFINE Q == NextPlace(isA, dec, ls, S, x)
    <2>2. \/ \E i \in D : S = {i} /\ w[S] = i
          \/ /\ Q \in SUBSET D /\ Cardinality(Q) < Cardinality(S) /\ Q \subseteq S
             /\ Place(D, dec, Q) /\ w[S] = w[Q]
      BY <2>1, PlaceStep
    <2> HIDE DEF Q, w
    <2>3. QED
      BY <1>1, <2>2
  <1> HIDE DEF T
  <1>2. \A S \in SUBSET D : S \in T
    BY <1>1, ByCardinality
  <1>3. QED
    BY <1>2 DEF T

\* Two nodes that every question of the tree is answered alike for come to the
\* same ordinal.
LEMMA WalkSame ==
  ASSUME NEW D \in SUBSET Nat, IsFiniteSet(D), NEW isA, NEW dec, NEW ls, NEW x, NEW y, Tree(D, dec, ls),
         \A S \in DOMAIN dec : Matches(isA, dec[S], x) <=> Matches(isA, dec[S], y)
  PROVE  \A S \in SUBSET D : Place(D, dec, S) =>
           Walk(D, isA, dec, ls, x)[S] = Walk(D, isA, dec, ls, y)[S]
  <1> DEFINE w == Walk(D, isA, dec, ls, x)
             v == Walk(D, isA, dec, ls, y)
             T == {S \in SUBSET D : Place(D, dec, S) => w[S] = v[S]}
  <1>1. ASSUME NEW S \in SUBSET D,
               \A R \in SUBSET D : Cardinality(R) < Cardinality(S) => R \in T
        PROVE  S \in T
    <2>1. SUFFICES ASSUME Place(D, dec, S)
                   PROVE  w[S] = v[S]
      OBVIOUS
    <2> DEFINE Q == NextPlace(isA, dec, ls, S, x)
               P == NextPlace(isA, dec, ls, S, y)
    <2>2. \/ \E i \in D : S = {i} /\ w[S] = i
          \/ /\ S \in DOMAIN dec /\ Q \in SUBSET D /\ Cardinality(Q) < Cardinality(S)
             /\ Place(D, dec, Q) /\ w[S] = w[Q]
      BY <2>1, PlaceStep
    <2>3. \/ \E i \in D : S = {i} /\ v[S] = i
          \/ S \in DOMAIN dec /\ v[S] = v[P]
      BY <2>1, PlaceStep
    <2>4. S \in DOMAIN dec => P = Q
      BY DEF NextPlace
    <2>5. S \in DOMAIN dec => ~ \E i \in D : S = {i}
      BY OneElement DEF Tree
    <2> HIDE DEF P, Q, w, v
    <2>6. QED
      BY <1>1, <2>2, <2>3, <2>4, <2>5
  <1> HIDE DEF T
  <1>2. \A S \in SUBSET D : S \in T
    BY <1>1, ByCardinality
  <1>3. QED
    BY <1>2 DEF T

\* A node for which the tree's questions are answered as for ordinal i comes
\* to i.
LEMMA WalkHome ==
  ASSUME NEW D \in SUBSET Nat, IsFiniteSet(D), NEW isA, NEW dec, NEW ls, NEW x, Tree(D, dec, ls),
         NEW i \in D, \A S \in DOMAIN dec : Matches(isA, dec[S], x) <=> i \in ls[dec[S]]
  PROVE  Walk(D, isA, dec, ls, x)[D] = i
  <1> DEFINE w == Walk(D, isA, dec, ls, x)
             T == {S \in SUBSET D : Place(D, dec, S) /\ i \in S => w[S] = i}
  <1>1. ASSUME NEW S \in SUBSET D,
               \A R \in SUBSET D : Cardinality(R) < Cardinality(S) => R \in T
        PROVE  S \in T
    <2>1. SUFFICES ASSUME Place(D, dec, S), i \in S
                   PROVE  w[S] = i
      OBVIOUS
    <2> DEFINE Q == NextPlace(isA, dec, ls, S, x)
    <2>2. \/ \E j \in D : S = {j} /\ w[S] = j
          \/ /\ S \in DOMAIN dec /\ Q \in SUBSET D /\ Cardinality(Q) < Cardinality(S)
             /\ Place(D, dec, Q) /\ w[S] = w[Q]
      BY <2>1, PlaceStep
    <2>3. S \in DOMAIN dec => i \in Q
      BY <2>1 DEF NextPlace
    <2> HIDE DEF Q, w
    <2>4. QED
      BY <1>1, <2>1, <2>2, <2>3
  <1> HIDE DEF T
  <1>2. \A S \in SUBSET D : S \in T
    BY <1>1, ByCardinality
  <1>3. Place(D, dec, D)
    BY DEF Tree
  <1>4. QED
    BY <1>2, <1>3 DEF T

-----------------------------------------------------------------------------
(* Building the decision tree.                                                *)

\* The nodes of the tree are what the definition says.
LEMMA NodesStep ==
  ASSUME DOMAIN order \in SUBSET Nat, IsFiniteSet(DOMAIN order), NEW ls, NEW S \in SUBSET DOMAIN order
  PROVE  NodesBelow(ls)[S] =
           IF Cardinality(S) = 1 THEN {}
           ELSE {S} \cup IF Splits(S, ls) = {} THEN {}
                         ELSE NodesBelow(ls)[S \cap ls[BestCat(S, ls)]] \cup
                              NodesBelow(ls)[S \ ls[BestCat(S, ls)]]
  <1> DEFINE D == DOMAIN order
             In(R) == R \cap ls[BestCat(R, ls)]
             Out(R) == R \ ls[BestCat(R, ls)]
             P(f) == f = [R \in SUBSET D |->
                            IF Cardinality(R) = 1 THEN {}
                            ELSE {R} \cup IF Splits(R, ls) = {} THEN {} ELSE f[In(R)] \cup f[Out(R)]]
             kids == [R \in SUBSET D |-> IF Cardinality(R) = 1 \/ Splits(R, ls) = {} THEN {}
                                         ELSE {In(R), Out(R)}]
             g == [R \in SUBSET D |-> {Q \in Reach(D, kids, R) : Cardinality(Q) # 1}]
  <1>1. \A R \in SUBSET D : In(R) \in SUBSET D /\ Out(R) \in SUBSET D
    OBVIOUS
  <1>2. kids \in [SUBSET D -> SUBSET SUBSET D]
    <2> HIDE DEF In, Out, D
    <2>1. QED
      BY <1>1
  <1>3. ASSUME NEW R \in SUBSET D
        PROVE  g[R] = IF Cardinality(R) = 1 THEN {}
                      ELSE {R} \cup IF Splits(R, ls) = {} THEN {} ELSE g[In(R)] \cup g[Out(R)]
    <2>1. /\ Cardinality(R) = 1 \/ Splits(R, ls) = {} => kids[R] = {}
          /\ ~ (Cardinality(R) = 1 \/ Splits(R, ls) = {}) => kids[R] = {In(R), Out(R)}
      OBVIOUS
    <2>2. In(R) \in SUBSET D /\ Out(R) \in SUBSET D
      BY <1>1
    <2> HIDE DEF kids, In, Out, D
    <2>3. Reach(D, kids, R) = {R} \cup UNION {Reach(D, kids, Q) : Q \in kids[R]}
      BY <1>2, ReachStep
    <2>4. /\ g[R] = {Q \in Reach(D, kids, R) : Cardinality(Q) # 1}
          /\ g[In(R)] = {Q \in Reach(D, kids, In(R)) : Cardinality(Q) # 1}
          /\ g[Out(R)] = {Q \in Reach(D, kids, Out(R)) : Cardinality(Q) # 1}
      BY <2>2
    <2> HIDE DEF g
    <2>5. CASE Cardinality(R) = 1 \/ Splits(R, ls) = {}
      <3>1. Reach(D, kids, R) = {R}
        BY <2>1, <2>3, <2>5
      <3>2. QED
        BY <2>4, <2>5, <3>1
    <2>6. CASE ~ (Cardinality(R) = 1 \/ Splits(R, ls) = {})
      <3>1. Reach(D, kids, R) = {R} \cup Reach(D, kids, In(R)) \cup Reach(D, kids, Out(R))
        BY <2>1, <2>3, <2>6
      <3>2. QED
        BY <2>4, <2>6, <3>1
    <2>7. QED
      BY <2>5, <2>6
  <1>4. P(g)
    <2> DEFINE h == [R \in SUBSET D |->
                       IF Cardinality(R) = 1 THEN {}
                       ELSE {R} \cup IF Splits(R, ls) = {} THEN {} ELSE g[In(R)] \cup g[Out(R)]]
    <2> HIDE DEF kids, In, Out, D
    <2>1. g = [R \in SUBSET D |-> g[R]]
      OBVIOUS
    <2> HIDE DEF g
    <2>2. \A R \in SUBSET D : g[R] = h[R]
      BY <1>3
    <2>3. g = h
      BY <2>1, <2>2
    <2>4. QED
      BY <2>3
  <1> HIDE DEF g
  <1>5. NodesBelow(ls) = CHOOSE f : P(f)
    BY Zenon DEF NodesBelow
  <1>6. P(CHOOSE f : P(f))
    BY <1>4, Zenon
  <1>7. P(NodesBelow(ls))
    BY <1>5, <1>6, Zenon
  <1> DEFINE w == NodesBelow(ls)
  <1> HIDE DEF w
  <1>8. P(w)
    BY <1>7 DEF w
  <1>9. w[S] = IF Cardinality(S) = 1 THEN {}
               ELSE {S} \cup IF Splits(S, ls) = {} THEN {} ELSE w[In(S)] \cup w[Out(S)]
    <2> HIDE DEF In, Out
    <2>1. QED
      BY <1>8
  <1>10. QED
    BY <1>9 DEF w

\* Where some category splits, the one chosen does.
LEMMA BestSplits ==
  ASSUME NEW ls, NEW S, IsFiniteSet(S), DOMAIN categories = 1..ncats, ncats \in Nat,
         Splits(S, ls) # {}
  PROVE  \E k \in Splits(S, ls) : BestCat(S, ls) = categories[k]
  <1> DEFINE K == Splits(S, ls)
             d(k) == 2 * Cardinality(S \cap ls[categories[k]]) - Cardinality(S)
             off == [k \in K |-> IF d(k) < 0 THEN -d(k) ELSE d(k)]
             L == {k \in K : \A h \in K : off[k] <= off[h]}
  <1>1. \A k \in K : off[k] \in Nat
    <2>1. SUFFICES ASSUME NEW k \in K
                   PROVE  off[k] \in Nat
      OBVIOUS
    <2> DEFINE R == S \cap ls[categories[k]]
    <2>2. R \subseteq S
      OBVIOUS
    <2> HIDE DEF R
    <2>3. Cardinality(S) \in Nat /\ Cardinality(R) \in Nat
      BY <2>2, FS_Subset, FS_CardinalityType
    <2>4. d(k) \in Int
      BY <2>3 DEF R
    <2> HIDE DEF d, K
    <2>5. off[k] = IF d(k) < 0 THEN -d(k) ELSE d(k)
      OBVIOUS
    <2> HIDE DEF off
    <2>6. QED
      BY <2>4, <2>5
  <1> DEFINE U == {off[k] : k \in K}
  <1>2. U \subseteq Nat /\ U # {}
    <2> HIDE DEF off
    <2>1. QED
      BY <1>1
  <1>3. PICK m \in U : \A u \in U : m <= u
    BY <1>2, Least
  <1>4. PICK k \in K : m = off[k]
    BY <1>3
  <1>5. k \in L
    <2> HIDE DEF off, K
    <2>1. QED
      BY <1>3, <1>4
  <1>6. L \in SUBSET (0..ncats) /\ L # {}
    <2>1. K \subseteq 1..ncats
      BY DEF Splits
    <2> HIDE DEF off, K
    <2>2. L \subseteq K
      OBVIOUS
    <2> HIDE DEF L
    <2>3. QED
      BY <1>5, <2>1, <2>2
  <1>7. BestCat(S, ls) = categories[Min(L)]
    <2>1. DOMAIN off = K
      OBVIOUS
    <2>2. BestCat(S, ls) = categories[Min({h \in DOMAIN off : \A j \in DOMAIN off : off[h] <= off[j]})]
      BY Zenon DEF BestCat
    <2>3. QED
      BY <2>1, <2>2, Zenon
  <1> HIDE DEF L
  <1>8. Min(L) \in L
    BY <1>6, Bounds
  <1>9. QED
    BY <1>7, <1>8 DEF L

\* If any two ordinals are told apart by a category, all decision nodes split,
\* and they make up a tree.
LEMMA TreeBuilt ==
  ASSUME NEW n \in Nat, DOMAIN order = 0..n, NEW ls, DOMAIN categories = 1..ncats, ncats \in Nat,
         \A i, j \in DOMAIN order : i # j =>
           \E k \in DOMAIN categories :
             categories[k] # Null /\ (i \in ls[categories[k]] <=> j \notin ls[categories[k]])
  PROVE  /\ \A S \in DecisionNodes(ls) : S \in SUBSET DOMAIN order /\ Splits(S, ls) # {}
         /\ Tree(DOMAIN order, [S \in DecisionNodes(ls) |-> BestCat(S, ls)], ls)
  <1> DEFINE D == DOMAIN order
             N == NodesBelow(ls)
             In(R) == R \cap ls[BestCat(R, ls)]
             Out(R) == R \ ls[BestCat(R, ls)]
             Fine(R, C) == /\ R \in SUBSET D /\ Cardinality(R) # 1 /\ Splits(R, ls) # {}
                           /\ In(R) \notin {{}, R}
                           /\ In(R) \in C \/ \E i \in D : In(R) = {i}
                           /\ Out(R) \in C \/ \E i \in D : Out(R) = {i}
             T == {S \in SUBSET D : S # {} =>
                     /\ S \in N[S] \/ \E i \in D : S = {i}
                     /\ \A R \in N[S] : Fine(R, N[S])}
  <1>1. D \in SUBSET Nat /\ IsFiniteSet(D)
    BY FS_Interval
  <1>2. ASSUME NEW S \in SUBSET D, S # {}, Cardinality(S) # 1
        PROVE  Splits(S, ls) # {} /\ In(S) \notin {{}, S} /\ In(S) \subseteq S /\ Out(S) \subseteq S
    <2>1. PICK i \in S : TRUE
      BY <1>2
    <2>2. S # {i}
      BY <1>1, <1>2, OneElement
    <2>3. PICK j \in S : i # j
      BY <2>2
    <2>4. PICK k \in DOMAIN categories :
            categories[k] # Null /\ (i \in ls[categories[k]] <=> j \notin ls[categories[k]])
      BY <2>3
    <2>5. k \in Splits(S, ls)
      BY <2>3, <2>4 DEF Splits
    <2>6. IsFiniteSet(S)
      BY <1>1, FS_Subset
    <2>7. PICK h \in Splits(S, ls) : BestCat(S, ls) = categories[h]
      BY <2>5, <2>6, BestSplits
    <2>8. S \cap ls[categories[h]] \notin {{}, S}
      BY DEF Splits
    <2>9. QED
      BY <2>5, <2>7, <2>8
  <1>3. ASSUME NEW S \in SUBSET D,
               \A R \in SUBSET D : Cardinality(R) < Cardinality(S) => R \in T
        PROVE  S \in T
    <2>1. SUFFICES ASSUME S # {}
                   PROVE  /\ S \in N[S] \/ \E i \in D : S = {i}
                          /\ \A R \in N[S] : Fine(R, N[S])
      OBVIOUS
    <2>2. CASE Cardinality(S) = 1
      <3>1. N[S] = {}
        BY <1>1, <2>2, NodesStep
      <3>2. \E i \in D : S = {i}
        BY <1>1, <2>2, OneElement
      <3> HIDE DEF Fine, D, N
      <3>3. QED
        BY <3>1, <3>2
    <2>3. CASE Cardinality(S) # 1
      <3>1. Splits(S, ls) # {} /\ In(S) \notin {{}, S} /\ In(S) \subseteq S /\ Out(S) \subseteq S
        BY <1>2, <2>1, <2>3
      <3>2. Out(S) \notin {{}, S}
        BY <3>1
      <3>3. N[S] = {S} \cup N[In(S)] \cup N[Out(S)]
        <4>1. N[S] = IF Cardinality(S) = 1 THEN {}
                     ELSE {S} \cup IF Splits(S, ls) = {} THEN {} ELSE N[In(S)] \cup N[Out(S)]
          BY <1>1, NodesStep
        <4> HIDE DEF In, Out, N, D
        <4>2. QED
          BY <2>3, <3>1, <4>1
      <3> HIDE DEF In, Out, D, N, T, Fine
      <3>4. /\ In(S) \in SUBSET D /\ Cardinality(In(S)) < Cardinality(S)
            /\ Out(S) \in SUBSET D /\ Cardinality(Out(S)) < Cardinality(S)
        BY <1>1, <3>1, <3>2, Parts
      <3>5. In(S) \in T /\ Out(S) \in T
        BY <1>3, <3>4
      <3>6. /\ In(S) \in N[In(S)] \/ \E i \in D : In(S) = {i}
            /\ \A R \in N[In(S)] : Fine(R, N[In(S)])
        BY <3>1, <3>5 DEF T
      <3>7. /\ Out(S) \in N[Out(S)] \/ \E i \in D : Out(S) = {i}
            /\ \A R \in N[Out(S)] : Fine(R, N[Out(S)])
        BY <3>2, <3>5 DEF T
      <3>8. \A R, A, B : Fine(R, A) /\ A \subseteq B => Fine(R, B)
        BY DEF Fine
      <3>9. \A R \in N[In(S)] \cup N[Out(S)] : Fine(R, N[S])
        BY <3>3, <3>6, <3>7, <3>8
      <3>10. Fine(S, N[S])
        BY <2>3, <3>1, <3>3, <3>6, <3>7 DEF Fine
      <3>11. QED
        BY <3>3, <3>9, <3>10
    <2>4. QED
      BY <2>2, <2>3
  <1>4. D \in T
    <2> HIDE DEF T, D
    <2>1. QED
      BY <1>1, <1>3, ByCardinality
  <1>5. D # {}
    OBVIOUS
  <1>6. /\ D \in N[D] \/ \E i \in D : D = {i}
        /\ \A R \in N[D] : Fine(R, N[D])
    BY <1>4, <1>5
  <1>7. N[D] = DecisionNodes(ls)
    BY DEF DecisionNodes
  <1> DEFINE dec == [S \in DecisionNodes(ls) |-> BestCat(S, ls)]
  <1> HIDE DEF D, N, In, Out
  <1>8. /\ DOMAIN dec = N[D]
        /\ \A R \in N[D] : R \cap ls[dec[R]] = In(R) /\ R \ ls[dec[R]] = Out(R)
    BY <1>7 DEF In, Out
  <1> HIDE DEF dec
  <1>9. Tree(D, dec, ls)
    <2>1. Place(D, dec, D)
      BY <1>6, <1>8 DEF Place
    <2>2. ASSUME NEW S \in DOMAIN dec
          PROVE  /\ S \subseteq D /\ Cardinality(S) # 1
                 /\ S \cap ls[dec[S]] \notin {{}, S}
                 /\ Place(D, dec, S \cap ls[dec[S]]) /\ Place(D, dec, S \ ls[dec[S]])
      <3>1. Fine(S, N[D]) /\ S \cap ls[dec[S]] = In(S) /\ S \ ls[dec[S]] = Out(S)
        BY <1>6, <1>8
      <3>2. Place(D, dec, In(S)) /\ Place(D, dec, Out(S))
        BY <1>8, <3>1 DEF Place
      <3>3. S \cap ls[dec[S]] \notin {{}, S}
        BY <3>1
      <3>4. Place(D, dec, S \cap ls[dec[S]]) /\ Place(D, dec, S \ ls[dec[S]])
        BY <3>1, <3>2
      <3>5. QED
        BY <3>1, <3>3, <3>4
    <2>3. QED
      BY <2>1, <2>2 DEF Tree
  <1>10. QED
    BY <1>6, <1>7, <1>9 DEF D, dec

-----------------------------------------------------------------------------
(* The archetypes that are kept.                                              *)

LEMMA EquivalentSelf ==
  ASSUME problem \in Problems, NEW x \in Type
  PROVE  x # Null /\ IsEquivalentCategory(x, x)
  BY ProblemsAssumption DEF Type, IsEquivalentCategory, LocalMatchWithNULL

\* Of equivalent archetypes one is kept, after the null category.
LEMMA KeptOnce ==
  ASSUME problem \in Problems
  PROVE  LET u == Uniquified(problem.raw)
         IN /\ u \in Seq(Type \cup {Null}) /\ Len(u) \in 1..IntMax /\ u[1] = Null
            /\ \A a, b \in 1..Len(u) : a # b => u[a] # u[b] /\ ~IsEquivalentCategory(u[a], u[b])
  <1> DEFINE X == Type \cup {Null}
             raw == problem.raw
             n == Len(raw)
             Kin(k, s) == \E y \in ToSet(s) : IsEquivalentCategory(raw[k], y)
             Turn(k, s) == IF Kin(k, s) THEN s ELSE Append(s, raw[k])
             P(f) == f = [k \in 0..n |-> IF k = 0 THEN <<Null>> ELSE Turn(k, f[k - 1])]
             f == CHOOSE g : P(g)
  <1>1. raw \in Seq(Type) /\ n \in Nat /\ n < IntMax /\ \A k \in 1..n : raw[k] \in Type
    BY ProblemsAssumption DEF Type
  <1>2. ASSUME NEW k \in 1..n, NEW s \in Seq(X)
        PROVE  Turn(k, s) \in Seq(X)
    <2>1. raw[k] \in X
      BY <1>1
    <2> HIDE DEF X, Kin
    <2>2. QED
      BY <2>1
  <1>3. \E g : P(g)
    <2> DEFINE F == [p \in (1..n) \X Seq(X) |-> Turn(p[1], p[2])]
    <2>1. \A k \in 1..n, s \in Seq(X) : F[<<k, s>>] = Turn(k, s)
      <3> HIDE DEF Turn, n, X
      <3>1. QED
        OBVIOUS
    <2> HIDE DEF F, Turn
    <2>2. F \in [(1..n) \X Seq(X) -> Seq(X)]
      <3> HIDE DEF n, X
      <3>1. \A p \in (1..n) \X Seq(X) : Turn(p[1], p[2]) \in Seq(X)
        BY <1>2
      <3>2. QED
        BY <3>1 DEF F
    <2>3. <<Null>> \in Seq(X)
      OBVIOUS
    <2> HIDE DEF X, n
    <2>4. n \in Nat
      BY <1>1 DEF n
    <2> DEFINE Y == Seq(X)
               first == <<Null>>
    <2>11. first \in Y /\ F \in Turns(n, Y)
      BY <2>2, <2>3 DEF Turns
    <2> HIDE DEF Y, first
    <2>12. Runs(n, Y, first, F) # {}
      BY <2>11, <2>4, Recursion
    <2>5. PICK g \in [0..n -> Seq(X)] :
            g[0] = <<Null>> /\ \A k \in 1..n : g[k] = F[<<k, g[k - 1]>>]
      BY <2>12 DEF Y, first, Runs
    <2>6. \A k \in 1..n : g[k - 1] \in Seq(X)
      BY <2>4, <2>5
    <2>7. \A k \in 1..n : g[k] = Turn(k, g[k - 1])
      BY <2>1, <2>5, <2>6
    <2>8. \A k \in 0..n : g[k] = IF k = 0 THEN <<Null>> ELSE Turn(k, g[k - 1])
      <3>1. \A k \in 0..n : k = 0 \/ k \in 1..n
        BY <2>4
      <3>2. \A k \in 1..n : k # 0
        OBVIOUS
      <3>3. g[0] = <<Null>>
        BY <2>5
      <3> HIDE DEF Turn
      <3>4. QED
        BY <2>7, <3>1, <3>2, <3>3
    <2>9. g = [k \in 0..n |-> IF k = 0 THEN <<Null>> ELSE Turn(k, g[k - 1])]
      BY <2>5, <2>8
    <2>10. QED
      BY <2>9
  <1>4. P(f)
    BY <1>3, Zenon
  <1>5. Uniquified(raw) = f[n]
    BY Zenon DEF Uniquified
  <1> HIDE DEF f
  <1>6. f[0] = <<Null>> /\ \A k \in 1..n : f[k] = Turn(k, f[k - 1])
    <2> HIDE DEF Turn, n
    <2>1. n \in Nat
      BY <1>1 DEF n
    <2>2. QED
      BY <1>4, <2>1
  <1> DEFINE Good(k, s) ==
               /\ s \in Seq(X) /\ Len(s) \in 1..(k + 1) /\ s[1] = Null
               /\ \A a, b \in 1..Len(s) : a # b => s[a] # s[b] /\ ~IsEquivalentCategory(s[a], s[b])
             T == {k \in 0..n : Good(k, f[k])}
  <1>7. 0 \in T
    <2>1. Good(0, <<Null>>)
      OBVIOUS
    <2> HIDE DEF Good
    <2>2. QED
      BY <1>1, <1>6, <2>1
  <1>8. ASSUME NEW k \in 1..n, k - 1 \in T
        PROVE  k \in T
    <2> DEFINE s == f[k - 1]
               t == f[k]
    <2>1. Good(k - 1, s) /\ t = Turn(k, s)
      BY <1>6, <1>8
    <2>2. k \in 0..n /\ k \in Int
      BY <1>1
    <2> HIDE DEF s, t
    <2>3. CASE Kin(k, s)
      <3>1. t = s
        BY <2>1, <2>3
      <3>2. Good(k, t)
        BY <2>1, <2>2, <3>1
      <3>3. QED
        BY <2>2, <3>2 DEF t
    <2>4. CASE ~Kin(k, s)
      <3>1. t = Append(s, raw[k])
        BY <2>1, <2>4
      <3>2. raw[k] \in Type /\ raw[k] \in X
        BY <1>1
      <3>3. \A a \in 1..Len(s) : s[a] \in ToSet(s)
        BY <2>1 DEF ToSet
      <3>4. \A a \in 1..Len(s) : ~IsEquivalentCategory(raw[k], s[a]) /\ ~IsEquivalentCategory(s[a], raw[k])
        BY <2>4, <3>3 DEF IsEquivalentCategory
      <3>5. \A a \in 1..Len(s) : s[a] # raw[k]
        BY <3>2, <3>4, EquivalentSelf
      <3> HIDE DEF X, n, Kin
      <3>6. s \in Seq(X) /\ Len(s) \in 1..k /\ s[1] = Null
        BY <2>1, <2>2
      <3>7. /\ t \in Seq(X) /\ Len(t) = Len(s) + 1 /\ t[Len(t)] = raw[k]
            /\ \A a \in 1..Len(s) : t[a] = s[a]
        BY <3>1, <3>2, <3>6
      <3>8. Len(t) \in 1..(k + 1) /\ t[1] = Null
        BY <2>2, <3>6, <3>7
      <3>9. \A a \in 1..Len(t) : a \in 1..Len(s) \/ a = Len(t)
        BY <3>6, <3>7
      <3>10. ASSUME NEW a \in 1..Len(t), NEW b \in 1..Len(t), a # b
             PROVE  t[a] # t[b] /\ ~IsEquivalentCategory(t[a], t[b])
        <4>1. CASE a \in 1..Len(s) /\ b \in 1..Len(s)
          BY <2>1, <3>7, <3>10, <4>1
        <4>2. CASE a \in 1..Len(s) /\ b = Len(t)
          BY <3>4, <3>5, <3>7, <4>2
        <4>3. CASE a = Len(t) /\ b \in 1..Len(s)
          BY <3>4, <3>5, <3>7, <4>3
        <4>4. QED
          BY <3>9, <3>10, <4>1, <4>2, <4>3
      <3>11. Good(k, t)
        BY <3>7, <3>8, <3>10
      <3>12. QED
        BY <2>2, <3>11 DEF t
    <2>5. QED
      BY <2>3, <2>4
  <1>9. n \in T
    <2> HIDE DEF T, n
    <2>1. n \in Nat
      BY <1>1 DEF n
    <2>2. \A k \in 0..n : k \in T
      BY <1>7, <1>8, <2>1, UpTo
    <2>3. QED
      BY <2>1, <2>2
  <1>10. Good(n, f[n])
    BY <1>9
  <1> DEFINE u == f[n]
  <1> HIDE DEF u, n, X
  <1>11. Good(n, u)
    BY <1>10 DEF u
  <1>12. Len(u) \in 1..IntMax
    <2>1. IntMax \in Int
      BY DEF IntMax
    <2>2. QED
      BY <1>1, <1>11, <2>1 DEF n
  <1>13. QED
    BY <1>5, <1>11, <1>12 DEF u, X

-----------------------------------------------------------------------------
(* The ranges of a category.                                                  *)

\* What a range list selects, of the ordinals below i; a range that is not yet
\* closed goes on.
In(r, j, i) == r[1] <= j /\ j < (IF r[2] = -1 THEN i ELSE r[2])

\* The list after the turns for the ordinals below i, if M are those of the
\* category.
RangesRight(l, M, i) ==
  /\ l \in Seq(Int \X Int)
  /\ \A k \in 1..Len(l) : 0 <= l[k][1] /\ l[k][1] < i
                          /\ (l[k][2] = -1 \/ (l[k][1] < l[k][2] /\ l[k][2] < i))
  /\ \A k \in 1..(Len(l) - 1) : l[k][2] # -1 /\ l[k][2] < l[k + 1][1]
  /\ i - 1 \in M <=> Len(l) > 0 /\ l[Len(l)][2] = -1
  /\ \A j \in 0..(i - 1) : j \in M <=> \E k \in 1..Len(l) : In(l[k], j, i)

\* One turn: for ordinal i, where a is whether the category is above it and b
\* whether it is above the one before.
TurnTo(l, a, b, i) ==
  IF a /\ ~b THEN Append(l, <<i, -1>>)
  ELSE IF b /\ ~a THEN [l EXCEPT ![Len(l)] = <<@[1], i>>]
  ELSE l

LEMMA TurnInSeq ==
  ASSUME NEW l \in Seq(Int \X Int), NEW a \in BOOLEAN, NEW b \in BOOLEAN, NEW i \in Nat
  PROVE  TurnTo(l, a, b, i) \in Seq(Int \X Int)
  <1>1. CASE a /\ ~b
    <2>1. <<i, -1>> \in Int \X Int
      OBVIOUS
    <2>2. QED
      BY <1>1, <2>1 DEF TurnTo
  <1>2. CASE b /\ ~a
    <2> DEFINE e == <<l[Len(l)][1], i>>
    <2>1. TurnTo(l, a, b, i) = [l EXCEPT ![Len(l)] = e]
      BY <1>2 DEF TurnTo
    <2>2. CASE Len(l) = 0
      <3>1. l = <<>>
        BY <2>2
      <3>2. [l EXCEPT ![Len(l)] = e] = l
        BY <2>2, <3>1
      <3>3. QED
        BY <2>1, <3>2
    <2>3. CASE Len(l) # 0
      <3>1. Len(l) \in 1..Len(l)
        BY <2>3
      <3>2. l[Len(l)] \in Int \X Int
        BY <3>1, ElementOfSeq
      <3>3. e \in Int \X Int
        BY <3>2
      <3> HIDE DEF e
      <3>4. QED
        BY <2>1, <3>1, <3>3, ExceptSeq
    <2>4. QED
      BY <2>2, <2>3
  <1>3. QED
    BY <1>1, <1>2 DEF TurnTo

\* A turn keeps the list right.
LEMMA TurnRight ==
  ASSUME NEW M \in SUBSET Nat, NEW i \in Nat, NEW l, RangesRight(l, M, i)
  PROVE  RangesRight(TurnTo(l, i \in M, i - 1 \in M, i), M, i + 1)
  <1> DEFINE t == TurnTo(l, i \in M, i - 1 \in M, i)
             L == Len(l)
  <1>1. /\ l \in Seq(Int \X Int) /\ L \in Nat
        /\ \A k \in 1..L : l[k] \in Int \X Int
    BY ElementOfSeq DEF RangesRight
  <1>2. \A k \in 1..L : l[k] = <<l[k][1], l[k][2]>> /\ l[k][1] \in Int /\ l[k][2] \in Int
    BY <1>1
  <1>3. t \in Seq(Int \X Int)
    <2>1. (i \in M) \in BOOLEAN /\ (i - 1 \in M) \in BOOLEAN
      OBVIOUS
    <2>2. QED
      BY <1>1, <2>1, TurnInSeq, Zenon
  <1>4. /\ \A k \in 1..L : 0 <= l[k][1] /\ l[k][1] < i
                           /\ (l[k][2] = -1 \/ (l[k][1] < l[k][2] /\ l[k][2] < i))
        /\ \A k \in 1..(L - 1) : l[k][2] # -1 /\ l[k][2] < l[k + 1][1]
        /\ i - 1 \in M <=> L > 0 /\ l[L][2] = -1
        /\ \A j \in 0..(i - 1) : j \in M <=> \E k \in 1..L : In(l[k], j, i)
    BY DEF RangesRight
  <1>5. \A k \in 1..L : k = L \/ k \in 1..(L - 1)
    BY <1>1
  <1>6. \A k \in 1..L : l[k][2] = -1 <=> k = L /\ i - 1 \in M
    BY <1>4, <1>5
  <1>7. \A j \in 0..i : j = i \/ j \in 0..(i - 1)
    OBVIOUS
  <1>8. \A k \in 1..L, j \in 0..(i - 1) : In(l[k], j, i) <=> In(l[k], j, i + 1)
    BY <1>2 DEF In
  <1>9. CASE i \in M /\ i - 1 \notin M
    <2>1. t = Append(l, <<i, -1>>) /\ <<i, -1>> \in Int \X Int
      BY <1>9 DEF TurnTo
    <2> HIDE DEF t
    <2>2. /\ Len(t) = L + 1 /\ t[L + 1] = <<i, -1>>
          /\ \A k \in 1..L : t[k] = l[k]
      BY <1>1, <2>1, AppendProperties
    <2>3. /\ L + 1 \in 1..Len(t) /\ \A k \in 1..Len(t) : k = L + 1 \/ k \in 1..L
          /\ \A k \in 1..L : k \in 1..Len(t)
      BY <1>1, <2>2
    <2>4. \A k \in 1..Len(t) : 0 <= t[k][1] /\ t[k][1] < i + 1
                               /\ (t[k][2] = -1 \/ (t[k][1] < t[k][2] /\ t[k][2] < i + 1))
      BY <1>2, <1>4, <2>2, <2>3
    <2>5. \A k \in 1..(Len(t) - 1) : t[k][2] # -1 /\ t[k][2] < t[k + 1][1]
      <3>1. SUFFICES ASSUME NEW k \in 1..L
                     PROVE  t[k][2] # -1 /\ t[k][2] < t[k + 1][1]
        BY <1>1, <2>2
      <3>2. t[k] = l[k] /\ l[k][2] # -1 /\ l[k][2] < i
        BY <1>4, <1>6, <1>9, <2>2
      <3>3. CASE k = L
        BY <2>2, <3>2, <3>3
      <3>4. CASE k # L
        <4>1. k \in 1..(L - 1) /\ k + 1 \in 1..L
          BY <1>1, <3>4
        <4>2. QED
          BY <1>4, <2>2, <3>2, <4>1
      <3>5. QED
        BY <3>3, <3>4
    <2>6. \A j \in 0..i : j \in M <=> \E k \in 1..Len(t) : In(t[k], j, i + 1)
      <3>1. ASSUME NEW j \in 0..(i - 1)
            PROVE  j \in M <=> \E k \in 1..Len(t) : In(t[k], j, i + 1)
        <4>1. ~ In(t[L + 1], j, i + 1)
          BY <2>2 DEF In
        <4>2. (\E k \in 1..Len(t) : In(t[k], j, i + 1)) <=> \E k \in 1..L : In(l[k], j, i + 1)
          BY <2>2, <2>3, <4>1
        <4>3. (\E k \in 1..L : In(l[k], j, i + 1)) <=> \E k \in 1..L : In(l[k], j, i)
          BY <1>8
        <4>4. QED
          BY <1>4, <4>2, <4>3
      <3>2. In(t[L + 1], i, i + 1)
        BY <2>2 DEF In
      <3>3. QED
        BY <1>7, <1>9, <2>3, <3>1, <3>2
    <2>7. i \in M <=> Len(t) > 0 /\ t[Len(t)][2] = -1
      BY <1>1, <1>9, <2>2
    <2>8. (i + 1) - 1 = i
      OBVIOUS
    <2>9. QED
      BY <1>3, <2>4, <2>5, <2>6, <2>7, <2>8 DEF RangesRight, t
  <1>10. CASE i \notin M /\ i - 1 \in M
    <2>1. L > 0 /\ l[L][2] = -1 /\ L \in 1..L
      BY <1>1, <1>4, <1>10
    <2> DEFINE e == <<l[L][1], i>>
    <2>2. t = [l EXCEPT ![L] = e] /\ e \in Int \X Int /\ e[1] = l[L][1] /\ e[2] = i
      BY <1>2, <1>10, <2>1 DEF TurnTo
    <2> HIDE DEF t, e
    <2>3. /\ Len(t) = L
          /\ \A k \in 1..L : t[k] = IF k = L THEN e ELSE l[k]
      BY <1>1, <2>1, <2>2, ExceptSeq
    <2>4. \A k \in 1..L : k # L => l[k][2] # -1
      BY <1>6
    <2>5. \A k \in 1..Len(t) : 0 <= t[k][1] /\ t[k][1] < i + 1
                               /\ (t[k][2] = -1 \/ (t[k][1] < t[k][2] /\ t[k][2] < i + 1))
      <3>1. ASSUME NEW k \in 1..L, k # L
            PROVE  0 <= t[k][1] /\ t[k][1] < i + 1 /\ t[k][1] < t[k][2] /\ t[k][2] < i + 1
        BY <1>2, <1>4, <2>3, <2>4, <3>1
      <3>2. 0 <= e[1] /\ e[1] < i + 1 /\ e[1] < e[2] /\ e[2] < i + 1
        BY <1>4, <2>1, <2>2
      <3>3. t[L] = e
        BY <2>1, <2>3
      <3>4. QED
        BY <2>3, <3>1, <3>2, <3>3
    <2>6. \A k \in 1..(Len(t) - 1) : t[k][2] # -1 /\ t[k][2] < t[k + 1][1]
      <3>1. SUFFICES ASSUME NEW k \in 1..(L - 1)
                     PROVE  t[k][2] # -1 /\ t[k][2] < t[k + 1][1]
        BY <2>3
      <3>2. k \in 1..L /\ k # L /\ k + 1 \in 1..L
        BY <1>1
      <3>3. t[k] = l[k] /\ t[k + 1][1] = l[k + 1][1]
        BY <2>2, <2>3, <3>2
      <3>4. QED
        BY <1>4, <3>3
    <2>7. \A j \in 0..i : j \in M <=> \E k \in 1..Len(t) : In(t[k], j, i + 1)
      <3>1. ASSUME NEW j \in 0..(i - 1)
            PROVE  j \in M <=> \E k \in 1..Len(t) : In(t[k], j, i + 1)
        <4>1. In(e, j, i + 1) <=> In(l[L], j, i)
          BY <1>2, <2>1, <2>2 DEF In
        <4>2. \A k \in 1..L : In(t[k], j, i + 1) <=> In(l[k], j, i)
          BY <1>8, <2>3, <4>1
        <4>3. QED
          BY <1>4, <2>3, <4>2
      <3>2. ASSUME NEW k \in 1..L
            PROVE  ~ In(t[k], i, i + 1)
        <4>1. CASE k = L
          <5>1. t[k] = e /\ ~ In(e, i, i + 1)
            BY <2>2, <2>3, <4>1 DEF In
          <5>2. QED
            BY <5>1
        <4>2. CASE k # L
          <5>1. t[k] = l[k] /\ l[k][2] # -1 /\ l[k][2] < i /\ l[k][2] \in Int
            BY <1>2, <1>4, <2>3, <2>4, <4>2
          <5>2. QED
            BY <5>1 DEF In
        <4>3. QED
          BY <4>1, <4>2
      <3>3. QED
        BY <1>7, <1>10, <2>3, <3>1, <3>2
    <2>8. i \in M <=> Len(t) > 0 /\ t[Len(t)][2] = -1
      BY <1>1, <1>10, <2>1, <2>2, <2>3
    <2>9. (i + 1) - 1 = i
      OBVIOUS
    <2>10. QED
      BY <1>3, <2>5, <2>6, <2>7, <2>8, <2>9 DEF RangesRight, t
  <1>11. CASE i \in M <=> i - 1 \in M
    <2>1. t = l
      BY <1>11 DEF TurnTo
    <2> HIDE DEF t
    <2>2. \A k \in 1..L : 0 <= l[k][1] /\ l[k][1] < i + 1
                          /\ (l[k][2] = -1 \/ (l[k][1] < l[k][2] /\ l[k][2] < i + 1))
      BY <1>2, <1>4
    <2>3. \A j \in 0..(i - 1) : j \in M <=> \E k \in 1..L : In(l[k], j, i + 1)
      BY <1>4, <1>8
    <2>4. i \in M <=> \E k \in 1..L : In(l[k], i, i + 1)
      <3>1. CASE i \in M
        <4>1. L \in 1..L /\ l[L][2] = -1
          BY <1>1, <1>4, <1>11, <3>1
        <4>2. In(l[L], i, i + 1)
          BY <1>2, <1>4, <4>1 DEF In
        <4>3. QED
          BY <3>1, <4>1, <4>2
      <3>2. CASE i \notin M
        <4>1. \A k \in 1..L : l[k][2] # -1
          BY <1>6, <1>11, <3>2
        <4>2. \A k \in 1..L : ~ In(l[k], i, i + 1)
          BY <1>2, <1>4, <4>1 DEF In
        <4>3. QED
          BY <3>2, <4>2
      <3>3. QED
        BY <3>1, <3>2
    <2>5. \A j \in 0..i : j \in M <=> \E k \in 1..L : In(l[k], j, i + 1)
      BY <1>7, <2>3, <2>4
    <2>6. i \in M <=> L > 0 /\ l[L][2] = -1
      BY <1>4, <1>11
    <2>7. (i + 1) - 1 = i
      OBVIOUS
    <2>8. QED
      BY <1>1, <1>4, <2>1, <2>2, <2>5, <2>6, <2>7 DEF RangesRight, t
  <1>12. QED
    BY <1>9, <1>10, <1>11

\* The ranges that BuildRanges() makes are those of the ordinals of c.
LEMMA RangesSelect ==
  ASSUME NEW o, NEW c, ncats \in Nat, DOMAIN o = 0..(ncats - 1)
  PROVE  RangesRight(RangesAfter(o, c)[ncats + 1], {i \in DOMAIN o : c \in supercats[o[i]]}, ncats + 1)
  <1> DEFINE n == ncats + 1
             M == {i \in DOMAIN o : c \in supercats[o[i]]}
             Lists == Seq(Int \X Int)
             P(f) == f = [k \in 0..n |-> IF k = 0 THEN <<>> ELSE RangeTurn(f[k - 1], o, c, k - 1)]
             f == CHOOSE g : P(g)
  <1>1. n \in Nat /\ M \in SUBSET Nat
    OBVIOUS
  <1>2. \A i \in Int : c \in SupersAt(o, i) <=> i \in M
    BY DEF SupersAt
  <1>3. ASSUME NEW l, NEW i \in Nat
        PROVE  RangeTurn(l, o, c, i) = TurnTo(l, i \in M, i - 1 \in M, i)
    <2>1. (c \in SupersAt(o, i) <=> i \in M) /\ (c \in SupersAt(o, i - 1) <=> i - 1 \in M)
      BY <1>2
    <2> HIDE DEF M
    <2>2. QED
      BY <2>1 DEF RangeTurn, TurnTo
  <1>4. \A k \in 1..n : k - 1 \in Nat
    OBVIOUS
  <1>5. \A k \in 1..n, l \in Lists : RangeTurn(l, o, c, k - 1) \in Lists
    <2>1. SUFFICES ASSUME NEW k \in 1..n, NEW l \in Lists
                   PROVE  RangeTurn(l, o, c, k - 1) \in Lists
      OBVIOUS
    <2> DEFINE i == k - 1
    <2>2. i \in Nat /\ (i \in M) \in BOOLEAN /\ (i - 1 \in M) \in BOOLEAN
      BY <1>4
    <2> HIDE DEF i, M
    <2>3. TurnTo(l, i \in M, i - 1 \in M, i) \in Lists
      BY <2>2, TurnInSeq, Zenon
    <2>4. QED
      BY <1>3, <2>2, <2>3 DEF i
  <1> HIDE DEF M, n
  <1>6. \E g : P(g)
    <2> DEFINE F == [p \in (1..n) \X Lists |-> RangeTurn(p[2], o, c, p[1] - 1)]
               first == <<>>
    <2>1. \A k \in 1..n, l \in Lists : F[<<k, l>>] = RangeTurn(l, o, c, k - 1)
      <3> HIDE DEF Lists
      <3>1. QED
        OBVIOUS
    <2>2. F \in [(1..n) \X Lists -> Lists]
      <3> HIDE DEF Lists
      <3>1. \A p \in (1..n) \X Lists : RangeTurn(p[2], o, c, p[1] - 1) \in Lists
        BY <1>5
      <3>2. QED
        BY <3>1 DEF F
    <2>3. first \in Lists /\ F \in Turns(n, Lists)
      BY <2>2 DEF Turns
    <2> HIDE DEF F, first, Lists
    <2>4. Runs(n, Lists, first, F) # {}
      BY <1>1, <2>3, Recursion
    <2>5. PICK g \in [0..n -> Lists] : g[0] = <<>> /\ \A k \in 1..n : g[k] = F[<<k, g[k - 1]>>]
      BY <2>4 DEF first, Runs
    <2>6. \A k \in 1..n : g[k - 1] \in Lists
      BY <1>1, <2>5
    <2>7. \A k \in 1..n : g[k] = RangeTurn(g[k - 1], o, c, k - 1)
      BY <2>1, <2>5, <2>6
    <2>8. \A k \in 0..n : k = 0 \/ k \in 1..n
      BY <1>1
    <2>9. \A k \in 1..n : k # 0
      OBVIOUS
    <2>10. \A k \in 0..n : g[k] = IF k = 0 THEN <<>> ELSE RangeTurn(g[k - 1], o, c, k - 1)
      BY <2>5, <2>7, <2>8, <2>9
    <2>11. g = [k \in 0..n |-> IF k = 0 THEN <<>> ELSE RangeTurn(g[k - 1], o, c, k - 1)]
      BY <2>5, <2>10
    <2>12. QED
      BY <2>11
  <1>7. P(f)
    BY <1>6, Zenon
  <1>8. RangesAfter(o, c) = f
    BY Zenon DEF RangesAfter, n
  <1> HIDE DEF f
  <1>9. f[0] = <<>> /\ \A k \in 1..n : f[k] = RangeTurn(f[k - 1], o, c, k - 1)
    BY <1>1, <1>7
  <1> DEFINE T == {k \in 0..n : RangesRight(f[k], M, k)}
  <1>10. 0 \in T
    <2>1. -1 \notin M
      BY DEF M
    <2>2. <<>> \in Seq(Int \X Int) /\ Len(<<>>) = 0
      OBVIOUS
    <2>3. RangesRight(<<>>, M, 0)
      BY <2>1, <2>2 DEF RangesRight
    <2>4. QED
      BY <1>1, <1>9, <2>3
  <1>11. ASSUME NEW k \in 1..n, k - 1 \in T
         PROVE  k \in T
    <2> DEFINE i == k - 1
    <2>1. i \in Nat /\ k = i + 1 /\ k \in 0..n
      BY <1>1
    <2>2. RangesRight(f[i], M, i)
      BY <1>11
    <2>3. f[k] = RangeTurn(f[i], o, c, i)
      BY <1>9
    <2> HIDE DEF i, T
    <2>4. f[k] = TurnTo(f[i], i \in M, i - 1 \in M, i)
      BY <1>3, <2>1, <2>3
    <2>5. RangesRight(f[k], M, i + 1)
      BY <1>1, <2>1, <2>2, <2>4, TurnRight
    <2>6. QED
      BY <2>1, <2>5 DEF T
  <1>12. n \in T
    <2> HIDE DEF T
    <2>1. \A k \in 0..n : k \in T
      BY <1>1, <1>10, <1>11, UpTo
    <2>2. QED
      BY <1>1, <2>1
  <1>13. QED
    BY <1>8, <1>12 DEF n, M

-----------------------------------------------------------------------------
(* The lacing and its decision tree.                                          *)

LEMMA OrderShape ==
  ASSUME Categorised, Laced, phase # "fixup"
  PROVE  /\ ncats \in Nat /\ ncats - 1 \in Nat /\ ncats <= IntMax
         /\ categories \in Seq(Type \cup {Null}) /\ DOMAIN categories = 1..ncats
         /\ DOMAIN order = 0..(ncats - 1)
         /\ DOMAIN order \in SUBSET Nat /\ IsFiniteSet(DOMAIN order)
         /\ \A i \in DOMAIN order : order[i] \in Cats
         /\ \A c \in Cats : \E i \in DOMAIN order : order[i] = c
         /\ \A i, j \in DOMAIN order : order[i] = order[j] => i = j
         /\ Cats \subseteq Type \cup {Null} /\ Null \in Cats
         /\ \A x \in Cats : supercats[x] = Supercats(x)
  <1>1. ncats \in Nat /\ ncats - 1 \in Nat /\ ncats <= IntMax
    <2>1. IntMax \in Int
      BY DEF IntMax
    <2>2. ncats \in 1..IntMax
      BY DEF Categorised
    <2>3. QED
      BY <2>1, <2>2
  <1>2. categories \in Seq(Type \cup {Null}) /\ DOMAIN categories = 1..ncats
    BY DEF Categorised, ncats
  <1>3. order \in [0..(ncats - 1) -> Cats] /\ IsInjective(order) /\ Range(order) = Cats
    BY DEF Laced
  <1>4. DOMAIN order \in SUBSET Nat /\ IsFiniteSet(DOMAIN order)
    BY <1>1, <1>3, FS_Interval
  <1>5. Cats \subseteq Type \cup {Null}
    <2>1. Len(categories) = ncats
      BY DEF ncats
    <2>2. \A i \in 1..ncats : categories[i] \in Type \cup {Null}
      BY <1>2, <2>1, ElementOfSeq
    <2>3. QED
      BY <1>2, <2>2 DEF Cats, ToSet
  <1>6. Null \in Cats /\ supercats = [x \in Cats |-> Supercats(x)]
    BY DEF Categorised
  <1>7. QED
    BY <1>1, <1>2, <1>3, <1>4, <1>5, <1>6 DEF IsInjective, Range

LEMMA WalkIs ==
  ASSUME NEW x
  PROVE  OrdinalFrom(x) = Walk(DOMAIN order, problem.isA, decision, sets, x)
  BY Zenon DEF OrdinalFrom, Walk, NextDecisionNode, NextPlace, LocalMatchWithNULL, Matches

LEMMA WalkAfter ==
  ASSUME NEW x
  PROVE  OrdinalFrom(x)' = Walk(DOMAIN order', problem'.isA, decision', sets', x)
  BY Zenon DEF OrdinalFrom, Walk, NextDecisionNode, NextPlace, LocalMatchWithNULL, Matches

LEMMA TreeOf ==
  ASSUME TreeSplits, HasTree
  PROVE  /\ Tree(DOMAIN order, decision, sets)
         /\ \A S : IsPlace(S) <=> Place(DOMAIN order, decision, S)
         /\ \A S \in DOMAIN decision : decision[S] \in Cats \ {Null}
         /\ \A c \in Cats \ {Null} : sets[c] = {i \in DOMAIN order : c \in supercats[order[i]]}
  <1>1. \A S : IsPlace(S) <=> Place(DOMAIN order, decision, S)
    BY DEF IsPlace, Place
  <1>2. QED
    BY <1>1 DEF TreeSplits, Tree

\* A node comes to some ordinal, and to i if the same categories are above it
\* and above the category there.
LEMMA Home ==
  ASSUME Categorised, Laced, TreeSplits, HasTree, NEW x
  PROVE  /\ GetOrdinalForNode(x) \in DOMAIN order
         /\ \A i \in DOMAIN order :
              (\A c \in Cats \ {Null} : LocalMatchWithNULL(c, x) <=> c \in supercats[order[i]])
              => GetOrdinalForNode(x) = i
  <1> DEFINE D == DOMAIN order
             w == Walk(D, problem.isA, decision, sets, x)
  <1>1. phase # "fixup"
    BY DEF HasTree
  <1>2. D \in SUBSET Nat /\ IsFiniteSet(D)
    BY <1>1, OrderShape
  <1>3. /\ Tree(D, decision, sets)
        /\ \A S \in DOMAIN decision : decision[S] \in Cats \ {Null}
        /\ \A c \in Cats \ {Null} : sets[c] = {i \in D : c \in supercats[order[i]]}
    BY TreeOf
  <1>4. GetOrdinalForNode(x) = w[D]
    BY WalkIs DEF GetOrdinalForNode
  <1>5. w[D] \in D
    <2>1. Place(D, decision, D)
      BY <1>3 DEF Tree
    <2> HIDE DEF D
    <2>2. QED
      BY <1>2, <1>3, <2>1, WalkIn
  <1>6. ASSUME NEW i \in D,
               \A c \in Cats \ {Null} : LocalMatchWithNULL(c, x) <=> c \in supercats[order[i]]
        PROVE  w[D] = i
    <2>1. ASSUME NEW S \in DOMAIN decision
          PROVE  Matches(problem.isA, decision[S], x) <=> i \in sets[decision[S]]
      <3>1. Matches(problem.isA, decision[S], x) <=> LocalMatchWithNULL(decision[S], x)
        BY DEF Matches, LocalMatchWithNULL
      <3>2. QED
        BY <1>3, <1>6, <3>1
    <2> HIDE DEF D
    <2>2. QED
      BY <1>2, <1>3, <2>1, WalkHome
  <1>7. QED
    BY <1>4, <1>5, <1>6

\* Every category is given back its place.
LEMMA TestPasses ==
  ASSUME problem \in Problems, Categorised, Laced, TreeSplits, HasTree, NEW i \in DOMAIN order
  PROVE  GetOrdinalForNode(order[i]) = i
  <1>1. phase # "fixup"
    BY DEF HasTree
  <1>2. order[i] \in Cats /\ supercats[order[i]] = Supercats(order[i])
    BY <1>1, OrderShape
  <1>3. \A c \in Cats \ {Null} : LocalMatchWithNULL(c, order[i]) <=> c \in supercats[order[i]]
    BY <1>2 DEF Supercats
  <1>4. QED
    BY <1>3, Home

\* Where the categories above a node have a lowest one, it gets its ordinal.
LEMMA LowestHome ==
  ASSUME problem \in Problems, Categorised, Laced, TreeSplits, HasTree, NEW x, HasLowest(x)
  PROVE  /\ GetOrdinalForNode(x) \in DOMAIN order
         /\ \A c \in Cats \ {Null} :
              LocalMatchWithNULL(c, x) <=> c \in supercats[order[GetOrdinalForNode(x)]]
  <1>1. phase # "fixup"
    BY DEF HasTree
  <1>2. PICK d \in Cats : Supercats(d) = Supercats(x)
    <2>1. CASE Supercats(x) = {}
      <3>1. Supercats(Null) = {}
        BY DEF Supercats, LocalMatchWithNULL
      <3>2. QED
        BY <1>1, <2>1, <3>1, OrderShape
    <2>2. CASE Supercats(x) # {}
      BY <2>2 DEF HasLowest, Supercats
    <2>3. QED
      BY <2>1, <2>2
  <1>3. PICK i \in DOMAIN order : order[i] = d
    BY <1>1, OrderShape
  <1>4. supercats[order[i]] = Supercats(x)
    BY <1>1, <1>2, <1>3, OrderShape
  <1>5. \A c \in Cats \ {Null} : LocalMatchWithNULL(c, x) <=> c \in supercats[order[i]]
    BY <1>4 DEF Supercats
  <1>6. GetOrdinalForNode(x) = i
    BY <1>5, Home
  <1>7. QED
    BY <1>5, <1>6

-----------------------------------------------------------------------------
(* The invariant in terms of the variables, with no other state in it: what   *)
(* leaves them unchanged keeps it.                                            *)

Listed(C, n, sup, o) ==
  [c \in C \ {Null} |->
     LET list[k \in 0..(n + 1)] ==
           IF k = 0 THEN <<>>
           ELSE CASE c \in (IF k - 1 \in DOMAIN o THEN sup[o[k - 1]] ELSE {})
                           \ (IF (k - 1) - 1 \in DOMAIN o THEN sup[o[(k - 1) - 1]] ELSE {})
                       -> Append(list[k - 1], <<k - 1, -1>>)
                  [] c \in (IF (k - 1) - 1 \in DOMAIN o THEN sup[o[(k - 1) - 1]] ELSE {})
                           \ (IF k - 1 \in DOMAIN o THEN sup[o[k - 1]] ELSE {})
                       -> [list[k - 1] EXCEPT ![Len(list[k - 1])] = <<@[1], k - 1>>]
                  [] OTHER -> list[k - 1]
     IN list[n + 1]]

LEMMA ListedIs ==
  /\ RangeLists(order) = Listed(Cats, ncats, supercats, order)
  /\ RangeLists(order)' = Listed(Cats', ncats', supercats', order')
  BY Zenon DEF RangeLists, RangesAfter, RangeTurn, SupersAt, Listed

KeptFor(C, n, cats, isA, sup) ==
  /\ cats \in Seq(DOMAIN isA \cup {Null}) /\ n \in 1..IntMax /\ Null \in C
  /\ \A x, y \in C : x = y \/ ~ (Matches(isA, x, y) /\ Matches(isA, y, x))
  /\ sup = [x \in C |-> {c \in C : Matches(isA, c, x)}]

LEMMA KeptIs ==
  /\ Categorised <=> (phase # "fixup" => KeptFor(Cats, ncats, categories, problem.isA, supercats))
  /\ Categorised' <=>
       (phase' # "fixup" => KeptFor(Cats', ncats', categories', problem'.isA, supercats'))
  BY Zenon DEF Categorised, KeptFor, IsEquivalentCategory, LocalMatchWithNULL, Matches, Supercats, Type

TreeFor(C, sup, o, ls, dec) ==
  /\ ls = [c \in C \ {Null} |-> {i \in DOMAIN o : c \in sup[o[i]]}]
  /\ \A S \in DOMAIN dec : dec[S] \in C \ {Null}
  /\ Tree(DOMAIN o, dec, ls)

LEMMA TreeIs ==
  /\ TreeSplits <=> (HasTree => TreeFor(Cats, supercats, order, sets, decision))
  /\ TreeSplits' <=> (HasTree' => TreeFor(Cats', supercats', order', sets', decision'))
  BY Zenon DEF TreeSplits, TreeFor, Tree, Place, IsPlace

Way(D, isA, dec, ls, S, range, x) ==
  LET w == Walk(D, isA, dec, ls, x)
  IN /\ x \in DOMAIN isA /\ range \in Int \X Int /\ range[1] <= w[D] /\ w[D] <= range[2]
     /\ IF S = {} THEN range = <<w[D], w[D]>> ELSE Place(D, dec, S) /\ w[S] = w[D]

Ways(D, isA, dec, ls, c) ==
  /\ DOMAIN c = DOMAIN NoCompare
  /\ Way(D, isA, dec, ls, c.lat, c.lrange, c.l)
  /\ Way(D, isA, dec, ls, c.rat, c.rrange, c.r)

LEMMA WaysAre ==
  /\ Comparing <=> (phase \in {"compare", "compared"} =>
                      Ways(DOMAIN order, problem.isA, decision, sets, cmp))
  /\ Comparing' <=> (phase' \in {"compare", "compared"} =>
                      Ways(DOMAIN order', problem'.isA, decision', sets', cmp'))
  BY Zenon DEF Comparing, OnItsWay, Ways, Way, Walk, GetOrdinalForNode, OrdinalFrom, NextDecisionNode,
               NextPlace, LocalMatchWithNULL, Matches, IsPlace, Place, NoDecision, Type

Agreeing(D, isA, dec, ls, c) ==
  LET d == Walk(D, isA, dec, ls, c.l)[D] - Walk(D, isA, dec, ls, c.r)[D]
  IN (c.diff < 0 <=> d < 0) /\ (c.diff > 0 <=> d > 0)

LEMMA AgreeingIs ==
  /\ CompareAgrees <=> (phase = "compared" =>
                          Agreeing(DOMAIN order, problem.isA, decision, sets, cmp))
  /\ CompareAgrees' <=> (phase' = "compared" =>
                          Agreeing(DOMAIN order', problem'.isA, decision', sets', cmp'))
  BY Zenon DEF CompareAgrees, Agreeing, Walk, GetOrdinalForNode, OrdinalFrom, NextDecisionNode,
               NextPlace, LocalMatchWithNULL, Matches

-----------------------------------------------------------------------------
(* What the steps leave as it was.                                            *)

LEMMA SameCats ==
  ASSUME UNCHANGED categories
  PROVE  Cats' = Cats /\ ncats' = ncats
  BY DEF Cats, ncats

LEMMA KeepCategorised ==
  ASSUME Categorised, phase # "fixup", UNCHANGED <<problem, categories, supercats>>
  PROVE  Categorised'
  <1>1. KeptFor(Cats, ncats, categories, problem.isA, supercats)
    BY KeptIs
  <1>2. KeptFor(Cats', ncats', categories', problem'.isA, supercats')
    BY <1>1, SameCats
  <1>3. QED
    BY <1>2, KeptIs

LEMMA KeepLaced ==
  ASSUME Laced, phase # "fixup", UNCHANGED <<categories, order>>
  PROVE  Laced'
  BY SameCats DEF Laced, IsInjective, Range

LEMMA KeepBlocks ==
  ASSUME BlocksInside, UNCHANGED <<categories, at>>
  PROVE  BlocksInside'
  BY SameCats DEF BlocksInside

LEMMA KeepRanged ==
  ASSUME Ranged, HasRanges, UNCHANGED <<categories, supercats, order, ranges>>
  PROVE  Ranged'
  <1>1. ranges = Listed(Cats, ncats, supercats, order)
    BY ListedIs DEF Ranged
  <1>2. ranges' = Listed(Cats', ncats', supercats', order')
    BY <1>1, SameCats
  <1>3. ranges' = RangeLists(order)'
    BY <1>2, ListedIs
  <1>4. QED
    BY <1>3 DEF Ranged

LEMMA KeepTree ==
  ASSUME TreeSplits, HasTree, UNCHANGED <<categories, supercats, order, sets, decision>>
  PROVE  TreeSplits'
  <1>1. TreeFor(Cats, supercats, order, sets, decision)
    BY TreeIs
  <1>2. TreeFor(Cats', supercats', order', sets', decision')
    BY <1>1, SameCats
  <1>3. QED
    BY <1>2, TreeIs

\* Before there is a tree nothing is compared.
Unbuilt == phase \in {"fixup", "sort", "decide", "aborted"}

LEMMA UnbuiltHolds ==
  ASSUME Unbuilt'
  PROVE  TreeSplits' /\ Comparing' /\ CompareAgrees' /\ (phase' # "decide" => Ranged')
  BY DEF Unbuilt, TreeSplits, HasTree, Comparing, CompareAgrees, Ranged, HasRanges

-----------------------------------------------------------------------------
(* Sorting.                                                                   *)

Inside(t, n) ==
  t = NoTurn \/ /\ t \in [bs : Nat, i : Nat, j : Nat]
                /\ t.bs > 0 /\ t.j + t.bs <= t.i /\ t.i + t.bs <= n

LEMMA FirstInside ==
  ASSUME NEW n \in Nat, NEW bs \in Nat, 2 * bs <= n
  PROVE  Inside(FirstTurn(bs), n)
  BY DEF Inside, FirstTurn, NoTurn

LEMMA NextInside ==
  ASSUME NEW t, ncats \in Nat, Inside(t, ncats), t # NoTurn
  PROVE  Inside(NextTurn(t), ncats)
  <1>1. /\ t \in [bs : Nat, i : Nat, j : Nat]
        /\ t.bs > 0 /\ t.j + t.bs <= t.i /\ t.i + t.bs <= ncats
    BY DEF Inside
  <1>2. t.bs \in Nat /\ t.i \in Nat /\ t.j \in Nat
    BY <1>1
  <1>3. CASE t.j + 1 + t.bs <= t.i
    <2>1. NextTurn(t) = [t EXCEPT !.j = @ + 1]
      BY <1>3 DEF NextTurn
    <2> DEFINE u == [t EXCEPT !.j = @ + 1]
    <2>2. u \in [bs : Nat, i : Nat, j : Nat] /\ u.bs = t.bs /\ u.i = t.i /\ u.j = t.j + 1
      BY <1>1, <1>2
    <2> HIDE DEF u
    <2>3. Inside(u, ncats)
      BY <1>1, <1>2, <1>3, <2>2 DEF Inside
    <2>4. QED
      BY <2>1, <2>3 DEF u
  <1>4. CASE ~ (t.j + 1 + t.bs <= t.i) /\ t.i + 1 + t.bs <= ncats
    <2>1. NextTurn(t) = [t EXCEPT !.i = @ + 1, !.j = 0]
      BY <1>4 DEF NextTurn
    <2> DEFINE u == [t EXCEPT !.i = @ + 1, !.j = 0]
    <2>2. u \in [bs : Nat, i : Nat, j : Nat] /\ u.bs = t.bs /\ u.i = t.i + 1 /\ u.j = 0
      <3>1. t.i + 1 \in Nat
        BY <1>2
      <3> DEFINE v == [t EXCEPT !.i = @ + 1]
      <3>4. v \in [bs : Nat, i : Nat, j : Nat] /\ v.bs = t.bs /\ v.i = t.i + 1
        BY <1>1, <1>2, <3>1
      <3>5. u = [v EXCEPT !.j = 0]
        BY Zenon
      <3> HIDE DEF u, v
      <3>2. u = [bs |-> t.bs, i |-> t.i + 1, j |-> 0]
        BY <3>4, <3>5
      <3>3. QED
        BY <1>2, <3>1, <3>2
    <2> HIDE DEF u
    <2>3. Inside(u, ncats)
      BY <1>1, <1>2, <1>4, <2>2 DEF Inside
    <2>4. QED
      BY <2>1, <2>3 DEF u
  <1>5. CASE ~ (t.j + 1 + t.bs <= t.i) /\ ~ (t.i + 1 + t.bs <= ncats)
    <2>1. NextTurn(t) = FirstTurn(t.bs - 1)
      BY <1>5 DEF NextTurn
    <2>2. t.bs - 1 \in Nat /\ 2 * (t.bs - 1) <= ncats
      BY <1>1, <1>2
    <2>3. QED
      BY <2>1, <2>2, FirstInside
  <1>6. QED
    BY <1>3, <1>4, <1>5

\* A swap of two blocks apart from each other loses and repeats nothing.
LEMMA SwapPermutes ==
  ASSUME NEW n \in Nat, NEW V, NEW o \in [0..(n - 1) -> V], NEW t, Inside(t, n), t # NoTurn,
         IsInjective(o)
  PROVE  /\ BlocksSwapped(o, t) \in [0..(n - 1) -> V] /\ IsInjective(BlocksSwapped(o, t))
         /\ Range(BlocksSwapped(o, t)) = Range(o)
  <1> DEFINE D == 0..(n - 1)
             p(k) == IF k \in t.i..(t.i + t.bs - 1) THEN k - t.i + t.j
                     ELSE IF k \in t.j..(t.j + t.bs - 1) THEN k - t.j + t.i ELSE k
             q == BlocksSwapped(o, t)
  <1>1. /\ t.bs \in Nat /\ t.i \in Nat /\ t.j \in Nat
        /\ t.bs > 0 /\ t.j + t.bs <= t.i /\ t.i + t.bs <= n
    BY DEF Inside
  <1>2. ASSUME NEW k \in D
        PROVE  p(k) \in D /\ p(p(k)) = k
    <2>1. k \in Int /\ 0 <= k /\ k < n
      OBVIOUS
    <2>2. CASE k \in t.i..(t.i + t.bs - 1)
      <3>1. p(k) = k - t.i + t.j
        BY <2>2
      <3>2. p(k) \in t.j..(t.j + t.bs - 1) /\ p(k) \notin t.i..(t.i + t.bs - 1) /\ p(k) \in D
        <4> DEFINE m == p(k)
        <4>1. m \in Int /\ t.j <= m /\ m <= t.j + t.bs - 1
          <5> HIDE DEF p
          <5>1. QED
            BY <1>1, <2>1, <2>2, <3>1
        <4> HIDE DEF m
        <4>2. m \in t.j..(t.j + t.bs - 1)
          BY <1>1, <4>1
        <4>3. m \notin t.i..(t.i + t.bs - 1)
          BY <1>1, <4>1
        <4>4. m \in D
          BY <1>1, <4>1
        <4>5. QED
          BY <4>2, <4>3, <4>4 DEF m
      <3>3. p(p(k)) = p(k) - t.j + t.i
        BY <3>2
      <3> HIDE DEF p
      <3>4. QED
        BY <1>1, <2>1, <3>1, <3>2, <3>3
    <2>3. CASE k \in t.j..(t.j + t.bs - 1)
      <3>1. k \notin t.i..(t.i + t.bs - 1)
        BY <1>1, <2>1, <2>3
      <3>2. p(k) = k - t.j + t.i
        BY <2>3, <3>1
      <3>3. p(k) \in t.i..(t.i + t.bs - 1) /\ p(k) \in D
        <4> HIDE DEF p
        <4>1. QED
          BY <1>1, <2>1, <2>3, <3>2
      <3>4. p(p(k)) = p(k) - t.i + t.j
        BY <3>3
      <3> HIDE DEF p
      <3>5. QED
        BY <1>1, <2>1, <3>2, <3>3, <3>4
    <2>4. CASE k \notin t.i..(t.i + t.bs - 1) /\ k \notin t.j..(t.j + t.bs - 1)
      <3>1. p(k) = k
        BY <2>4
      <3> HIDE DEF p
      <3>2. QED
        BY <3>1
    <2>5. QED
      BY <2>2, <2>3, <2>4
  <1>3. q = [k \in D |-> o[p(k)]]
    BY DEF BlocksSwapped
  <1> HIDE DEF p, q, D
  <1>4. o \in [D -> V]
    BY DEF D
  <1>5. q \in [D -> V] /\ \A k \in D : q[k] = o[p(k)]
    BY <1>2, <1>3, <1>4
  <1>6. IsInjective(q)
    <2>1. SUFFICES ASSUME NEW a \in D, NEW b \in D, q[a] = q[b]
                   PROVE  a = b
      BY <1>5 DEF IsInjective
    <2>2. o[p(a)] = o[p(b)] /\ p(a) \in D /\ p(b) \in D
      BY <1>2, <1>5, <2>1
    <2>3. p(a) = p(b)
      BY <1>4, <2>2 DEF IsInjective
    <2>4. QED
      BY <1>2, <2>3
  <1>7. Range(q) = Range(o)
    <2>1. \A k \in D : q[k] = o[p(k)] /\ p(k) \in D /\ o[k] = q[p(k)]
      BY <1>2, <1>5
    <2>2. DOMAIN q = D /\ DOMAIN o = D
      BY <1>4, <1>5
    <2>3. QED
      BY <2>1, <2>2 DEF Range
  <1>8. QED
    BY <1>5, <1>6, <1>7 DEF D, q

-----------------------------------------------------------------------------
(* What a swap of two blocks gains.                                           *)

\* P are the partial sums of g.
SumsOf(n, g, P) ==
  /\ n \in Nat /\ g \in [1..n -> Int] /\ P \in [0..n -> Int] /\ P[0] = 0
  /\ \A k \in 1..n : P[k] = P[k - 1] + g[k]

\* What g has after a, up to b, h has after c, up to d.
SameStretch(n, g, h, a, b, c, d) ==
  /\ a \in 0..n /\ b \in 0..n /\ c \in 0..n /\ d \in 0..n /\ a <= b /\ b - a = d - c
  /\ \A k \in 1..(b - a) : g[a + k] = h[c + k]

LEMMA SameSums ==
  ASSUME NEW n, NEW g, NEW h, NEW P, NEW Q, SumsOf(n, g, P), SumsOf(n, h, Q),
         NEW a, NEW b, NEW c, NEW d, SameStretch(n, g, h, a, b, c, d)
  PROVE  P[b] - P[a] = Q[d] - Q[c]
  <1> DEFINE m == b - a
             Agree(k) == P[a + k] - P[a] = Q[c + k] - Q[c]
             T == {k \in 0..m : Agree(k)}
  <1>1. /\ n \in Nat /\ a \in Nat /\ b \in Nat /\ c \in Nat /\ d \in Nat /\ m \in Nat
        /\ b <= n /\ d <= n /\ b = a + m /\ d = c + m
    BY DEF SumsOf, SameStretch
  <1>2. \A k \in 1..m : g[a + k] = h[c + k]
    BY DEF SameStretch
  <1> HIDE DEF m
  <1>3. \A k \in 0..m : P[a + k] \in Int /\ Q[c + k] \in Int
    <2>1. \A k \in 0..m : a + k \in 0..n /\ c + k \in 0..n
      BY <1>1
    <2>2. QED
      BY <2>1 DEF SumsOf
  <1>4. P[a] \in Int /\ Q[c] \in Int
    <2>1. a \in 0..n /\ c \in 0..n
      BY <1>1
    <2>2. QED
      BY <2>1 DEF SumsOf
  <1>5. 0 \in T
    <2>1. a + 0 = a /\ c + 0 = c /\ 0 \in 0..m
      BY <1>1
    <2>2. QED
      BY <1>4, <2>1
  <1>6. ASSUME NEW k \in 1..m, k - 1 \in T
        PROVE  k \in T
    <2>1. a + k \in 1..n /\ c + k \in 1..n /\ k \in 0..m /\ k - 1 \in 0..m
      BY <1>1
    <2>2. (a + k) - 1 = a + (k - 1) /\ (c + k) - 1 = c + (k - 1)
      BY <1>1
    <2>3. P[a + k] = P[a + (k - 1)] + g[a + k]
      BY <2>1, <2>2 DEF SumsOf
    <2>4. Q[c + k] = Q[c + (k - 1)] + h[c + k]
      BY <2>1, <2>2 DEF SumsOf
    <2>5. g[a + k] = h[c + k] /\ g[a + k] \in Int
      BY <1>2, <2>1 DEF SumsOf
    <2>6. P[a + (k - 1)] \in Int /\ Q[c + (k - 1)] \in Int
      BY <1>3, <2>1
    <2>7. Agree(k)
      <3> DEFINE p0 == P[a]
                 p1 == P[a + (k - 1)]
                 q0 == Q[c]
                 q1 == Q[c + (k - 1)]
                 step == g[a + k]
      <3>1. P[a + k] = p1 + step /\ Q[c + k] = q1 + step
        BY <2>3, <2>4, <2>5
      <3>2. p1 - p0 = q1 - q0
        BY <1>6
      <3>3. p0 \in Int /\ p1 \in Int /\ q0 \in Int /\ q1 \in Int /\ step \in Int
        BY <1>4, <2>5, <2>6
      <3> HIDE DEF p0, p1, q0, q1, step
      <3>4. (p1 + step) - p0 = (q1 + step) - q0
        BY <3>2, <3>3
      <3>5. P[a + k] - p0 = Q[c + k] - q0
        BY <3>1, <3>4
      <3>6. QED
        BY <3>5 DEF p0, q0
    <2> HIDE DEF Agree
    <2>8. QED
      BY <2>1, <2>7
  <1> HIDE DEF T
  <1>7. m \in T
    <2>1. \A k \in 0..m : k \in T
      BY <1>1, <1>5, <1>6, UpTo
    <2>2. QED
      BY <1>1, <2>1
  <1>8. P[a + m] - P[a] = Q[c + m] - Q[c]
    BY <1>7 DEF T
  <1>9. QED
    BY <1>1, <1>8

LEMMA MetricIsInt ==
  ASSUME Categorised, phase # "fixup", NEW o, \A k \in DOMAIN o : o[k] \in Cats,
         NEW p, NEW q
  PROVE  GetMetric(o, p, q) \in Nat /\ GetMetric(o, p, q) = GetMetric(o, q, p)
  <1>1. IsFiniteSet(Cats)
    <2>1. ncats \in Nat /\ categories \in Seq(Type \cup {Null}) /\ DOMAIN categories = 1..ncats
      <3>1. IntMax \in Int
        BY DEF IntMax
      <3>2. QED
        BY <3>1 DEF Categorised, ncats
    <2>2. Cats = {categories[k] : k \in 1..ncats}
      BY <2>1 DEF Cats, ToSet
    <2>3. IsFiniteSet(1..ncats)
      BY <2>1, FS_Interval
    <2>4. QED
      <3> DEFINE f == [k \in 1..ncats |-> categories[k]]
      <3>1. f \in Surjection(1..ncats, Cats)
        BY <2>2 DEF Surjection
      <3>2. QED
        BY <2>3, <3>1, FS_Surjection
  <1>2. CASE p \in DOMAIN o /\ q \in DOMAIN o
    <2> DEFINE diff == SymDiff(supercats[o[p]], supercats[o[q]])
               W == {w \in diff \X Cats : w[2] \in Subcats(w[1])}
    <2>1. diff \subseteq Cats
      BY <1>2 DEF SymDiff, Categorised, Supercats
    <2>2. W \subseteq Cats \X Cats
      BY <2>1
    <2>3. IsFiniteSet(W)
      BY <1>1, <2>2, FS_Product, FS_Subset
    <2>4. Cardinality(W) \in Nat
      BY <2>3, FS_CardinalityType
    <2>5. SymDiff(supercats[o[q]], supercats[o[p]]) = diff
      BY DEF SymDiff
    <2>6. GetMetric(o, p, q) = Cardinality(W)
      BY <1>2 DEF GetMetric
    <2>7. GetMetric(o, q, p) = Cardinality(W)
      BY <1>2, <2>5 DEF GetMetric
    <2>8. QED
      BY <2>4, <2>6, <2>7
  <1>3. CASE p \notin DOMAIN o \/ q \notin DOMAIN o
    BY <1>3 DEF GetMetric
  <1>4. QED
    BY <1>2, <1>3

\* The loop that adds up the metrics of all joints.
LEMMA TotalIsSum ==
  ASSUME NEW o, ncats \in Nat, \A p, q : GetMetric(o, p, q) \in Int
  PROVE  \E P : /\ SumsOf(ncats, [k \in 1..ncats |-> GetMetric(o, k - 1, k)], P)
                /\ TotalMetric(o) = P[ncats]
  <1> DEFINE n == ncats
             G(k) == GetMetric(o, k - 1, k)
             Is(f) == f = [k \in 0..n |-> IF k = 0 THEN 0 ELSE f[k - 1] + G(k)]
             f == CHOOSE g : Is(g)
  <1>1. TotalMetric(o) = f[n]
    BY Zenon DEF TotalMetric
  <1>2. \A k : G(k) \in Int
    OBVIOUS
  <1>3. \A F : Is(F) /\ F \in [0..n -> Int] => SumsOf(n, [k \in 1..n |-> G(k)], F)
    <2> HIDE DEF G
    <2>1. SUFFICES ASSUME NEW F \in [0..n -> Int], Is(F)
                   PROVE  SumsOf(n, [k \in 1..n |-> G(k)], F)
      OBVIOUS
    <2>2. F[0] = 0
      BY <2>1
    <2>3. \A k \in 1..n : k \in 0..n /\ k # 0
      OBVIOUS
    <2>4. \A k \in 1..n : F[k] = F[k - 1] + G(k)
      BY <2>1, <2>3
    <2>5. n \in Nat /\ [k \in 1..n |-> G(k)] \in [1..n -> Int]
      BY <1>2
    <2>6. \A k \in 1..n : F[k] = F[k - 1] + [m \in 1..n |-> G(m)][k]
      BY <2>4
    <2> HIDE DEF n, Is
    <2>7. QED
      BY <2>1, <2>2, <2>5, <2>6 DEF SumsOf
  <1> HIDE DEF G, n
  <1>4. n \in Nat
    BY DEF n
  <1>5. \E F \in [0..n -> Int] : Is(F)
    <2> DEFINE turns == [p \in (1..n) \X Int |-> p[2] + G(p[1])]
    <2>1. turns \in Turns(n, Int) /\ \A k \in 1..n, v \in Int : turns[<<k, v>>] = v + G(k)
      BY <1>2 DEF Turns
    <2> HIDE DEF turns
    <2>2. 0 \in Int
      OBVIOUS
    <2>3. Runs(n, Int, 0, turns) # {}
      BY <1>4, <2>1, <2>2, Recursion
    <2>4. PICK F \in [0..n -> Int] : F[0] = 0 /\ \A k \in 1..n : F[k] = turns[<<k, F[k - 1]>>]
      BY <2>3 DEF Runs
    <2>5. \A k \in 1..n : k - 1 \in 0..n
      BY <1>4
    <2>6. \A k \in 1..n : F[k] = F[k - 1] + G(k)
      BY <2>1, <2>4, <2>5
    <2>7. \A k \in 0..n : k = 0 \/ k \in 1..n
      BY <1>4
    <2>8. \A k \in 0..n : F[k] = IF k = 0 THEN 0 ELSE F[k - 1] + G(k)
      BY <2>4, <2>6, <2>7
    <2>9. F = [k \in 0..n |-> IF k = 0 THEN 0 ELSE F[k - 1] + G(k)]
      BY <2>4, <2>8
    <2>10. QED
      BY <2>9
  <1>6. Is(f)
    BY <1>5, Zenon
  <1> HIDE DEF f
  <1>7. f \in [0..n -> Int]
    \* by induction on its argument
    <2> DEFINE T == {k \in 0..n : f[k] \in Int}
    <2>1. f[0] = 0 /\ \A k \in 1..n : f[k] = f[k - 1] + G(k)
      <3>1. 0 \in 0..n /\ \A k \in 1..n : k \in 0..n /\ k # 0
        BY <1>4
      <3>2. QED
        BY <1>6, <3>1
    <2>2. 0 \in T
      BY <1>4, <2>1
    <2>3. \A k \in 1..n : k - 1 \in T => k \in T
      BY <1>2, <1>4, <2>1
    <2> HIDE DEF T
    <2>4. \A k \in 0..n : k \in T
      BY <1>4, <2>2, <2>3, UpTo
    <2>5. \A k \in 0..n : f[k] \in Int
      BY <2>4 DEF T
    <2>6. f = [k \in 0..n |-> f[k]]
      BY <1>6
    <2>7. QED
      BY <2>5, <2>6
  <1>8. SumsOf(n, [k \in 1..n |-> G(k)], f)
    BY <1>3, <1>6, <1>7
  <1>9. QED
    BY <1>1, <1>8 DEF n, G

\* Two blocks of b joints, from j and from i, change places; e and f are where
\* they end.
Swapping(n, b, i, j, e, f, g, h) ==
  /\ b \in Nat /\ i \in Nat /\ j \in Nat /\ b > 0 /\ f = j + b /\ e = i + b /\ f <= i /\ e <= n
  /\ j > 0 => SameStretch(n, g, h, 0, j - 1, 0, j - 1)
  /\ SameStretch(n, g, h, j, f - 1, i, e - 1)
  /\ f < i => SameStretch(n, g, h, f, i - 1, f, i - 1)
  /\ SameStretch(n, g, h, i, e - 1, j, f - 1)
  /\ SameStretch(n, g, h, e, n, e, n)

\* What is left of the difference of the sums is the joints at the blocks' ends.
LEMMA SwapSums ==
  ASSUME NEW n, NEW b, NEW i, NEW j, NEW e, NEW f, NEW g, NEW h, NEW P, NEW Q,
         SumsOf(n, g, P), SumsOf(n, h, Q), Swapping(n, b, i, j, e, f, g, h)
  PROVE  P[n] - Q[n] = (IF j = 0 THEN 0 ELSE g[j] - h[j]) + (g[f] - h[f])
                         + (IF f < i THEN g[i] - h[i] ELSE 0) + (g[e] - h[e])
  <1>1. /\ P \in [0..n -> Int] /\ P[0] = 0 /\ \A k \in 1..n : P[k] = P[k - 1] + g[k] /\ g[k] \in Int
        /\ Q \in [0..n -> Int] /\ Q[0] = 0 /\ \A k \in 1..n : Q[k] = Q[k - 1] + h[k] /\ h[k] \in Int
    BY DEF SumsOf
  <1>2. /\ n \in Nat /\ b \in Nat /\ i \in Nat /\ j \in Nat /\ e \in Nat /\ f \in Nat
        /\ b > 0 /\ f = j + b /\ e = i + b /\ f <= i /\ e <= n
    BY DEF Swapping, SumsOf
  <1>0. \A a, c, d, k : SameStretch(n, g, h, a, c, d, k) => P[c] - P[a] = Q[k] - Q[d]
    BY SameSums
  <1>3. j > 0 => P[j - 1] - P[0] = Q[j - 1] - Q[0]
    <2>1. j > 0 => SameStretch(n, g, h, 0, j - 1, 0, j - 1)
      BY Zenon DEF Swapping
    <2>2. QED
      BY <1>0, <2>1, Zenon
  <1>4. P[f - 1] - P[j] = Q[e - 1] - Q[i]
    <2>1. SameStretch(n, g, h, j, f - 1, i, e - 1)
      BY Zenon DEF Swapping
    <2>2. QED
      BY <1>0, <2>1
  <1>5. f < i => P[i - 1] - P[f] = Q[i - 1] - Q[f]
    <2>1. f < i => SameStretch(n, g, h, f, i - 1, f, i - 1)
      BY Zenon DEF Swapping
    <2>2. QED
      BY <1>0, <2>1, Zenon
  <1>6. P[e - 1] - P[i] = Q[f - 1] - Q[j]
    <2>1. SameStretch(n, g, h, i, e - 1, j, f - 1)
      BY Zenon DEF Swapping
    <2>2. QED
      BY <1>0, <2>1
  <1>7. P[n] - P[e] = Q[n] - Q[e]
    <2>1. SameStretch(n, g, h, e, n, e, n)
      BY Zenon DEF Swapping
    <2>2. QED
      BY <1>0, <2>1, Zenon
  <1>8. e \in 1..n /\ f \in 1..n /\ i \in 1..n /\ (j > 0 => j \in 1..n)
    BY <1>2
  <1>9. /\ P[e] = P[e - 1] + g[e] /\ Q[e] = Q[e - 1] + h[e]
        /\ P[f] = P[f - 1] + g[f] /\ Q[f] = Q[f - 1] + h[f]
        /\ P[i] = P[i - 1] + g[i] /\ Q[i] = Q[i - 1] + h[i]
        /\ j > 0 => P[j] = P[j - 1] + g[j] /\ Q[j] = Q[j - 1] + h[j]
    BY <1>1, <1>8
  <1>10. /\ g[e] \in Int /\ h[e] \in Int /\ g[f] \in Int /\ h[f] \in Int /\ g[i] \in Int /\ h[i] \in Int
         /\ j > 0 => g[j] \in Int /\ h[j] \in Int
    BY <1>1, <1>8
  <1>11. /\ j \in 0..n /\ e - 1 \in 0..n /\ f \in 0..n /\ f - 1 \in 0..n /\ i \in 0..n /\ i - 1 \in 0..n
         /\ e \in 0..n /\ n \in 0..n /\ (j > 0 => j - 1 \in 0..n)
    BY <1>2
  <1>12. /\ P[j] \in Int /\ P[e - 1] \in Int /\ P[f] \in Int /\ P[f - 1] \in Int /\ P[i] \in Int /\ P[i - 1] \in Int
         /\ Q[j] \in Int /\ Q[e - 1] \in Int /\ Q[f] \in Int /\ Q[f - 1] \in Int /\ Q[i] \in Int /\ Q[i - 1] \in Int
         /\ P[e] \in Int /\ Q[e] \in Int /\ P[n] \in Int /\ Q[n] \in Int
         /\ j > 0 => P[j - 1] \in Int /\ Q[j - 1] \in Int
    BY <1>1, <1>11
  <1>13. PICK pj \in Int, pe1 \in Int, pf \in Int, pf1 \in Int, pi \in Int, pi1 \in Int, pe \in Int, pn \in Int :
            pj = P[j] /\ pe1 = P[e - 1] /\ pf = P[f] /\ pf1 = P[f - 1] /\ pi = P[i] /\ pi1 = P[i - 1] /\ pe = P[e] /\ pn = P[n]
    BY <1>12, Zenon
  <1>14. PICK qj \in Int, qe1 \in Int, qf \in Int, qf1 \in Int, qi \in Int, qi1 \in Int, qe \in Int, qn \in Int :
            qj = Q[j] /\ qe1 = Q[e - 1] /\ qf = Q[f] /\ qf1 = Q[f - 1] /\ qi = Q[i] /\ qi1 = Q[i - 1] /\ qe = Q[e] /\ qn = Q[n]
    BY <1>12, Zenon
  <1>15. PICK ge \in Int, gf \in Int, gi \in Int, he \in Int, hf \in Int, hi \in Int :
            ge = g[e] /\ gf = g[f] /\ gi = g[i] /\ he = h[e] /\ hf = h[f] /\ hi = h[i]
    BY <1>10, Zenon
  <1>16. PICK dj \in Int : dj = (IF j = 0 THEN 0 ELSE g[j] - h[j]) /\ pj - qj = dj
    <2>1. CASE j = 0
      <3>1. pj = 0 /\ qj = 0
        BY <1>1, <1>13, <1>14, <2>1, Zenon
      <3>2. pj - qj = 0 /\ 0 \in Int
        BY <3>1
      <3>3. QED
        BY <2>1, <3>2, Zenon
    <2>2. CASE j # 0
      <3>1. j > 0
        BY <1>2, <2>2
      <3>2. PICK a \in Int, c \in Int, gj \in Int, hj \in Int :
               a = P[j - 1] /\ c = Q[j - 1] /\ gj = g[j] /\ hj = h[j]
        BY <1>10, <1>12, <3>1, Zenon
      <3>3. a - 0 = c - 0 /\ pj = a + gj /\ qj = c + hj
        BY <1>1, <1>3, <1>9, <1>13, <1>14, <3>1, <3>2, Zenon
      <3>4. pj - qj = gj - hj /\ gj - hj \in Int
        BY <3>3
      <3>5. QED
        BY <2>2, <3>2, <3>4, Zenon
    <2>3. QED
      BY <2>1, <2>2
  <1>17. /\ pn - pe = qn - qe /\ pe = pe1 + ge /\ qe = qe1 + he /\ pe1 - pi = qf1 - qj
         /\ pi = pi1 + gi /\ qi = qi1 + hi /\ pf = pf1 + gf /\ qf = qf1 + hf /\ pf1 - pj = qe1 - qi
    BY <1>4, <1>6, <1>7, <1>9, <1>13, <1>14, <1>15, Zenon
  <1>18. CASE f < i
    <2>1. pi1 - pf = qi1 - qf
      BY <1>5, <1>13, <1>14, <1>18, Zenon
    <2>2. pn - qn = dj + (gf - hf) + (gi - hi) + (ge - he)
      BY <1>16, <1>17, <2>1
    <2>3. P[n] - Q[n] = dj + (g[f] - h[f]) + (g[i] - h[i]) + (g[e] - h[e])
      BY <1>13, <1>14, <1>15, <2>2, Zenon
    <2>4. QED
      BY <1>16, <1>18, <2>3, Zenon
  <1>19. CASE ~ (f < i)
    <2>1. f = i
      BY <1>2, <1>19
    <2>2. pi = pf /\ qi = qf
      BY <1>13, <1>14, <2>1, Zenon
    <2>3. pn - qn = dj + (gf - hf) + 0 + (ge - he)
      <3>1. pj - qj = dj
        BY <1>16
      <3>2. pn - qn = (pj - qj) + (gf - hf) + 0 + (ge - he)
        BY <1>17, <2>2
      <3>3. QED
        BY <3>1, <3>2
    <2>4. P[n] - Q[n] = dj + (g[f] - h[f]) + 0 + (g[e] - h[e])
      BY <1>13, <1>14, <1>15, <2>3, Zenon
    <2>5. QED
      BY <1>16, <1>19, <2>4, Zenon
  <1>20. QED
    BY <1>18, <1>19

\* What was at r is at p now, or neither is a place.
Moved(D, o, q, p, r) == (p \in D <=> r \in D) /\ (p \in D => q[p] = o[r])

LEMMA MovedMetric ==
  ASSUME NEW D, NEW o, NEW q, DOMAIN o = D, DOMAIN q = D, NEW p1, NEW p2, NEW r1, NEW r2,
         Moved(D, o, q, p1, r1), Moved(D, o, q, p2, r2)
  PROVE  GetMetric(q, p1, p2) = GetMetric(o, r1, r2)
  <1>1. CASE p1 \in D /\ p2 \in D
    <2>1. r1 \in D /\ r2 \in D /\ q[p1] = o[r1] /\ q[p2] = o[r2]
      BY <1>1 DEF Moved
    <2>2. QED
      BY <1>1, <2>1, Zenon DEF GetMetric
  <1>2. CASE ~ (p1 \in D /\ p2 \in D)
    <2>1. ~ (r1 \in D /\ r2 \in D)
      BY <1>2 DEF Moved
    <2>2. QED
      BY <1>2, <2>1, Zenon DEF GetMetric
  <1>3. QED
    BY <1>1, <1>2

\* The two blocks lie inside 0..(n - 1), and have changed places.
Swapped(n, b, i, j, e, f, o, q) ==
  /\ n \in Nat /\ b \in Nat /\ i \in Nat /\ j \in Nat
  /\ b > 0 /\ f = j + b /\ e = i + b /\ f <= i /\ e <= n
  /\ DOMAIN o = 0..(n - 1) /\ DOMAIN q = 0..(n - 1)
  /\ \A k \in 0..(n - 1) : q[k] = IF k \in i..(e - 1) THEN o[k - i + j]
                                  ELSE IF k \in j..(f - 1) THEN o[k - j + i] ELSE o[k]

LEMMA SwapMoves ==
  ASSUME NEW n, NEW b, NEW i, NEW j, NEW e, NEW f, NEW o, NEW q, Swapped(n, b, i, j, e, f, o, q)
  PROVE  /\ \A k \in 0..(b - 1) : Moved(0..(n - 1), o, q, i + k, j + k)
                                  /\ Moved(0..(n - 1), o, q, j + k, i + k)
         /\ \A k \in (-1)..n : k < j \/ (f <= k /\ k < i) \/ e <= k => Moved(0..(n - 1), o, q, k, k)
  <1>1. /\ n \in Nat /\ b \in Nat /\ i \in Nat /\ j \in Nat /\ e \in Nat /\ f \in Nat
        /\ b > 0 /\ f = j + b /\ e = i + b /\ f <= i /\ e <= n
    BY DEF Swapped
  <1>2. ASSUME NEW k \in 0..(b - 1)
        PROVE  Moved(0..(n - 1), o, q, i + k, j + k) /\ Moved(0..(n - 1), o, q, j + k, i + k)
    <2>1. /\ i + k \in 0..(n - 1) /\ j + k \in 0..(n - 1) /\ i + k \in i..(e - 1) /\ j + k \in j..(f - 1)
          /\ j + k \notin i..(e - 1) /\ (i + k) - i + j = j + k /\ (j + k) - j + i = i + k
      BY <1>1
    <2>2. q[i + k] = o[j + k] /\ q[j + k] = o[i + k]
      BY <2>1 DEF Swapped
    <2>3. QED
      BY <2>1, <2>2 DEF Moved
  <1>3. ASSUME NEW k \in (-1)..n, k < j \/ (f <= k /\ k < i) \/ e <= k
        PROVE  Moved(0..(n - 1), o, q, k, k)
    <2>1. k \notin i..(e - 1) /\ k \notin j..(f - 1)
      BY <1>1, <1>3
    <2>2. k \in 0..(n - 1) => q[k] = o[k]
      BY <2>1 DEF Swapped
    <2>3. QED
      BY <2>2 DEF Moved
  <1>4. QED
    BY <1>2, <1>3

\* The joints within the blocks and outside them are as they were.
LEMMA SwapStretches ==
  ASSUME NEW n, NEW b, NEW i, NEW j, NEW e, NEW f, NEW o, NEW q, Swapped(n, b, i, j, e, f, o, q),
         NEW g, NEW h,
         g = [k \in 1..n |-> GetMetric(o, k - 1, k)], h = [k \in 1..n |-> GetMetric(q, k - 1, k)]
  PROVE  Swapping(n, b, i, j, e, f, g, h)
  <1> DEFINE D == 0..(n - 1)
  <1>1. /\ n \in Nat /\ b \in Nat /\ i \in Nat /\ j \in Nat /\ e \in Nat /\ f \in Nat
        /\ b > 0 /\ f = j + b /\ e = i + b /\ f <= i /\ e <= n
    BY DEF Swapped
  <1>2. DOMAIN o = D /\ DOMAIN q = D
    BY DEF Swapped
  <1>3. /\ \A k \in 0..(b - 1) : Moved(D, o, q, i + k, j + k) /\ Moved(D, o, q, j + k, i + k)
        /\ \A k \in (-1)..n : k < j \/ (f <= k /\ k < i) \/ e <= k => Moved(D, o, q, k, k)
    BY SwapMoves
  <1> HIDE DEF D
  <1>4. \A k, m : k \in 1..n /\ m \in 1..n /\ Moved(D, o, q, m - 1, k - 1) /\ Moved(D, o, q, m, k) => g[k] = h[m]
    BY <1>2, MovedMetric
  <1>5. ASSUME NEW a \in Nat, NEW d \in Nat, a <= d, d <= n,
               \A k \in a..d : Moved(D, o, q, k, k)
        PROVE  SameStretch(n, g, h, a, d, a, d)
    <2>1. ASSUME NEW k \in 1..(d - a)
          PROVE  g[a + k] = h[a + k]
      <3>1. a + k \in 1..n /\ a + k \in a..d /\ (a + k) - 1 \in a..d
        BY <1>1, <1>5
      <3>2. Moved(D, o, q, a + k, a + k) /\ Moved(D, o, q, (a + k) - 1, (a + k) - 1)
        BY <1>5, <3>1
      <3>3. QED
        BY <1>4, <3>1, <3>2
    <2>2. a \in 0..n /\ d \in 0..n /\ a <= d /\ d - a = d - a
      BY <1>1, <1>5
    <2>3. QED
      BY <2>1, <2>2 DEF SameStretch
  <1>6. ASSUME NEW a \in {i, j}, NEW c \in {i, j}, a # c
        PROVE  SameStretch(n, g, h, a, a + b - 1, c, c + b - 1)
    <2>0. a \in Nat /\ c \in Nat /\ a + b <= n /\ c + b <= n
      BY <1>1
    <2>1. ASSUME NEW k \in 1..((a + b - 1) - a)
          PROVE  g[a + k] = h[c + k]
      <3>1. a + k \in 1..n /\ c + k \in 1..n /\ k \in 0..(b - 1) /\ k - 1 \in 0..(b - 1)
        BY <1>1, <2>0
      <3>2. (a + k) - 1 = a + (k - 1) /\ (c + k) - 1 = c + (k - 1)
        BY <2>0
      <3>3. Moved(D, o, q, c + k, a + k) /\ Moved(D, o, q, c + (k - 1), a + (k - 1))
        BY <1>3, <1>6, <3>1
      <3>4. QED
        BY <1>4, <3>1, <3>2, <3>3
    <2>2. /\ a \in 0..n /\ a + b - 1 \in 0..n /\ c \in 0..n /\ c + b - 1 \in 0..n
          /\ a <= a + b - 1 /\ (a + b - 1) - a = (c + b - 1) - c
      BY <1>1, <2>0
    <2>3. QED
      BY <2>1, <2>2 DEF SameStretch
  <1>7. j > 0 => SameStretch(n, g, h, 0, j - 1, 0, j - 1)
    <2>1. SUFFICES ASSUME j > 0
                   PROVE  SameStretch(n, g, h, 0, j - 1, 0, j - 1)
      OBVIOUS
    <2>2. j - 1 \in Nat /\ 0 \in Nat /\ 0 <= j - 1 /\ j - 1 <= n
      BY <1>1, <2>1
    <2>3. \A k \in 0..(j - 1) : k \in (-1)..n /\ k < j
      BY <1>1
    <2>4. \A k \in 0..(j - 1) : Moved(D, o, q, k, k)
      BY <1>3, <2>3
    <2>5. QED
      BY <1>5, <2>2, <2>4
  <1>8. f < i => SameStretch(n, g, h, f, i - 1, f, i - 1)
    <2>1. SUFFICES ASSUME f < i
                   PROVE  SameStretch(n, g, h, f, i - 1, f, i - 1)
      OBVIOUS
    <2>2. i - 1 \in Nat /\ f \in Nat /\ f <= i - 1 /\ i - 1 <= n
      BY <1>1, <2>1
    <2>3. \A k \in f..(i - 1) : k \in (-1)..n /\ f <= k /\ k < i
      BY <1>1
    <2>4. \A k \in f..(i - 1) : Moved(D, o, q, k, k)
      BY <1>3, <2>3
    <2>5. QED
      BY <1>5, <2>2, <2>4
  <1>9. SameStretch(n, g, h, e, n, e, n)
    <2>1. \A k \in e..n : k \in (-1)..n /\ e <= k
      BY <1>1
    <2>2. \A k \in e..n : Moved(D, o, q, k, k)
      BY <1>3, <2>1
    <2>3. QED
      BY <1>1, <1>5, <2>2
  <1>10. SameStretch(n, g, h, j, f - 1, i, e - 1) /\ SameStretch(n, g, h, i, e - 1, j, f - 1)
    <2>1. i # j /\ f - 1 = j + b - 1 /\ e - 1 = i + b - 1
      BY <1>1
    <2>2. SameStretch(n, g, h, j, j + b - 1, i, i + b - 1) /\ SameStretch(n, g, h, i, i + b - 1, j, j + b - 1)
      BY <1>6, <2>1
    <2>3. QED
      BY <2>1, <2>2
  <1>11. QED
    BY <1>1, <1>7, <1>8, <1>9, <1>10, Zenon DEF Swapping

\* The joints at the ends of the blocks, before the swap and after it.
LEMMA SwapJoints ==
  ASSUME NEW n, NEW b, NEW i, NEW j, NEW e, NEW f, NEW o, NEW q, Swapped(n, b, i, j, e, f, o, q)
  PROVE  /\ GetMetric(q, e - 1, e) = GetMetric(o, f - 1, e)
         /\ GetMetric(q, j - 1, j) = GetMetric(o, j - 1, i)
         /\ f < i => /\ GetMetric(q, i - 1, i) = GetMetric(o, i - 1, j)
                     /\ GetMetric(q, f - 1, f) = GetMetric(o, e - 1, f)
         /\ f = i => GetMetric(q, f - 1, f) = GetMetric(o, e - 1, j)
  <1> DEFINE D == 0..(n - 1)
  <1>1. /\ n \in Nat /\ b \in Nat /\ i \in Nat /\ j \in Nat /\ e \in Nat /\ f \in Nat
        /\ b > 0 /\ f = j + b /\ e = i + b /\ f <= i /\ e <= n
    BY DEF Swapped
  <1>2. DOMAIN o = D /\ DOMAIN q = D
    BY DEF Swapped
  <1>3. /\ \A k \in 0..(b - 1) : Moved(D, o, q, i + k, j + k) /\ Moved(D, o, q, j + k, i + k)
        /\ \A k \in (-1)..n : k < j \/ (f <= k /\ k < i) \/ e <= k => Moved(D, o, q, k, k)
    BY SwapMoves
  <1> HIDE DEF D
  <1>4. Moved(D, o, q, i, j) /\ Moved(D, o, q, j, i)
    <2>1. 0 \in 0..(b - 1) /\ i + 0 = i /\ j + 0 = j
      BY <1>1
    <2>2. QED
      BY <1>3, <2>1
  <1>5. Moved(D, o, q, e - 1, f - 1) /\ Moved(D, o, q, f - 1, e - 1)
    <2>1. b - 1 \in 0..(b - 1) /\ i + (b - 1) = e - 1 /\ j + (b - 1) = f - 1
      BY <1>1
    <2>2. QED
      BY <1>3, <2>1
  <1>6. Moved(D, o, q, e, e) /\ Moved(D, o, q, j - 1, j - 1)
    <2>1. e \in (-1)..n /\ e <= e /\ j - 1 \in (-1)..n /\ j - 1 < j
      BY <1>1
    <2>2. QED
      BY <1>3, <2>1
  <1>7. f < i => Moved(D, o, q, f, f) /\ Moved(D, o, q, i - 1, i - 1)
    <2>1. f < i => f \in (-1)..n /\ f <= f /\ i - 1 \in (-1)..n /\ f <= i - 1 /\ i - 1 < i
      BY <1>1
    <2>2. QED
      BY <1>3, <2>1
  <1>8. \A a, c, k, m : Moved(D, o, q, a, k) /\ Moved(D, o, q, c, m) => GetMetric(q, a, c) = GetMetric(o, k, m)
    BY <1>2, MovedMetric
  <1>9. GetMetric(q, e - 1, e) = GetMetric(o, f - 1, e) /\ GetMetric(q, j - 1, j) = GetMetric(o, j - 1, i)
    BY <1>4, <1>5, <1>6, <1>8
  <1>10. f < i => /\ GetMetric(q, i - 1, i) = GetMetric(o, i - 1, j)
                  /\ GetMetric(q, f - 1, f) = GetMetric(o, e - 1, f)
    BY <1>4, <1>5, <1>7, <1>8
  <1>11. f = i => GetMetric(q, f - 1, f) = GetMetric(o, e - 1, j)
    <2>1. GetMetric(q, f - 1, i) = GetMetric(o, e - 1, j)
      BY <1>4, <1>5, <1>8
    <2>2. QED
      BY <2>1
  <1>12. QED
    BY <1>9, <1>10, <1>11

\* What a swap makes the metrics of all joints together smaller by is what its
\* formula for the joints at the ends of the blocks says.
LEMMA SwapGains ==
  ASSUME Categorised, phase # "fixup", ncats \in Nat, NEW o \in [0..(ncats - 1) -> Cats], IsInjective(o),
         NEW t, Inside(t, ncats), t # NoTurn
  PROVE  /\ TotalMetric(o) - TotalMetric(BlocksSwapped(o, t)) = CurrMetric(o, t) - MetricIfSwapped(o, t)
         /\ TotalMetric(o) \in Int /\ TotalMetric(BlocksSwapped(o, t)) \in Int
         /\ CurrMetric(o, t) \in Int /\ MetricIfSwapped(o, t) \in Int
  <1> DEFINE q == BlocksSwapped(o, t)
  <1>1. PICK n, b, i, j, e, f :
          /\ n \in Nat /\ b \in Nat /\ i \in Nat /\ j \in Nat /\ e \in Nat /\ f \in Nat
          /\ n = ncats /\ b = t.bs /\ i = t.i /\ j = t.j /\ e = t.i + t.bs /\ f = t.j + t.bs
    <2>1. t.bs \in Nat /\ t.i \in Nat /\ t.j \in Nat
      BY DEF Inside
    <2>2. t.i + t.bs \in Nat /\ t.j + t.bs \in Nat
      BY <2>1
    <2>3. QED
      BY <2>1, <2>2
  <1>2. /\ n \in Nat /\ b \in Nat /\ i \in Nat /\ j \in Nat /\ e \in Nat /\ f \in Nat
        /\ b > 0 /\ f = j + b /\ e = i + b /\ f <= i /\ e <= n
    BY <1>1 DEF Inside
  <1>3. Swapped(n, b, i, j, e, f, o, q)
    <2>1. DOMAIN o = 0..(ncats - 1) /\ DOMAIN q = 0..(ncats - 1)
      BY DEF BlocksSwapped
    <2>2. /\ t.bs \in Nat /\ t.i \in Nat /\ t.j \in Nat /\ t.bs > 0
          /\ t.j + t.bs <= t.i /\ t.i + t.bs <= ncats
      BY DEF Inside
    <2>3. t.i + t.bs - 1 = (t.i + t.bs) - 1 /\ t.j + t.bs - 1 = (t.j + t.bs) - 1
      BY <2>2
    <2>4. \A k \in DOMAIN o : q[k] = IF k \in t.i..(t.i + t.bs - 1) THEN o[k - t.i + t.j]
                                     ELSE IF k \in t.j..(t.j + t.bs - 1) THEN o[k - t.j + t.i] ELSE o[k]
      BY Zenon DEF BlocksSwapped
    <2> HIDE DEF q
    <2>5. \A k \in DOMAIN o : q[k] = IF k \in t.i..((t.i + t.bs) - 1) THEN o[k - t.i + t.j]
                                     ELSE IF k \in t.j..((t.j + t.bs) - 1) THEN o[k - t.j + t.i] ELSE o[k]
      BY <2>3, <2>4
    <2>6. Swapped(ncats, t.bs, t.i, t.j, t.i + t.bs, t.j + t.bs, o, q)
      BY <2>1, <2>2, <2>5, Zenon DEF Swapped
    <2>7. QED
      BY <1>1, <2>6
  <1>4. q \in [0..(ncats - 1) -> Cats]
    BY SwapPermutes
  <1> HIDE DEF q
  <1>5. \A k, m : /\ GetMetric(o, k, m) \in Int /\ GetMetric(o, k, m) = GetMetric(o, m, k)
                  /\ GetMetric(q, k, m) \in Int
    <2>1. (\A k \in DOMAIN o : o[k] \in Cats) /\ (\A k \in DOMAIN q : q[k] \in Cats)
      BY <1>4
    <2>2. \A k, m : GetMetric(o, k, m) \in Nat /\ GetMetric(o, k, m) = GetMetric(o, m, k)
      BY <2>1, MetricIsInt, Zenon
    <2>3. \A k, m : GetMetric(q, k, m) \in Nat
      BY <2>1, MetricIsInt, Zenon
    <2>4. QED
      BY <2>2, <2>3
  <1>6. PICK P : SumsOf(n, [k \in 1..n |-> GetMetric(o, k - 1, k)], P) /\ TotalMetric(o) = P[n]
    BY <1>1, <1>5, TotalIsSum
  <1>7. PICK Q : SumsOf(n, [k \in 1..n |-> GetMetric(q, k - 1, k)], Q) /\ TotalMetric(q) = Q[n]
    BY <1>1, <1>5, TotalIsSum
  <1>8. PICK g : g = [k \in 1..n |-> GetMetric(o, k - 1, k)]
    OBVIOUS
  <1>9. PICK h : h = [k \in 1..n |-> GetMetric(q, k - 1, k)]
    OBVIOUS
  <1>10. SumsOf(n, g, P) /\ SumsOf(n, h, Q)
    BY <1>6, <1>7, <1>8, <1>9, Zenon
  <1>11. Swapping(n, b, i, j, e, f, g, h)
    BY <1>3, <1>8, <1>9, SwapStretches
  <1>12. P[n] - Q[n] = (IF j = 0 THEN 0 ELSE g[j] - h[j]) + (g[f] - h[f])
                       + (IF f < i THEN g[i] - h[i] ELSE 0) + (g[e] - h[e])
    BY <1>10, <1>11, SwapSums
  <1>13. P[n] \in Int /\ Q[n] \in Int
    <2>1. n \in 0..n
      BY <1>1
    <2>2. QED
      BY <1>10, <2>1 DEF SumsOf
  <1>14. PICK xe \in Int, xj \in Int, xi \in Int, xf \in Int :
           /\ xe = GetMetric(o, e - 1, e) /\ xj = GetMetric(o, j - 1, j)
           /\ xi = GetMetric(o, i - 1, i) /\ xf = GetMetric(o, f - 1, f)
    BY <1>5, Zenon
  <1>15. PICK ye \in Int, yj \in Int, yi \in Int, yf \in Int, zf \in Int :
           /\ ye = GetMetric(o, f - 1, e) /\ yj = GetMetric(o, j - 1, i)
           /\ yi = GetMetric(o, i - 1, j) /\ yf = GetMetric(o, e - 1, f) /\ zf = GetMetric(o, e - 1, j)
    BY <1>5, Zenon
  <1>16. /\ g[e] = xe /\ h[e] = ye /\ g[f] = xf /\ (f < i => g[i] = xi /\ h[i] = yi /\ h[f] = yf)
         /\ (f = i => h[f] = zf) /\ (j # 0 => g[j] = xj /\ h[j] = yj)
    <2>1. e \in 1..n /\ f \in 1..n /\ i \in 1..n /\ (j # 0 => j \in 1..n)
      BY <1>2
    <2>2. \A k \in 1..n : g[k] = GetMetric(o, k - 1, k) /\ h[k] = GetMetric(q, k - 1, k)
      BY <1>8, <1>9
    <2>3. /\ GetMetric(q, e - 1, e) = GetMetric(o, f - 1, e)
          /\ GetMetric(q, j - 1, j) = GetMetric(o, j - 1, i)
          /\ f < i => /\ GetMetric(q, i - 1, i) = GetMetric(o, i - 1, j)
                      /\ GetMetric(q, f - 1, f) = GetMetric(o, e - 1, f)
          /\ f = i => GetMetric(q, f - 1, f) = GetMetric(o, e - 1, j)
      BY <1>3, SwapJoints
    <2>4. QED
      BY <1>14, <1>15, <2>1, <2>2, <2>3, Zenon
  <1>17. j = 0 => xj = 0 /\ yj = 0
    <2>1. j = 0 => j - 1 \notin 0..(n - 1)
      BY <1>1
    <2>2. DOMAIN o = 0..(n - 1)
      BY <1>1
    <2>3. QED
      BY <1>14, <1>15, <2>1, <2>2, Zenon DEF GetMetric
  <1>18. e = n => xe = 0 /\ ye = 0
    <2>1. n \notin 0..(n - 1)
      BY <1>1
    <2>2. DOMAIN o = 0..(n - 1)
      BY <1>1
    <2>3. QED
      BY <1>14, <1>15, <2>1, <2>2, Zenon DEF GetMetric
  <1>19. i - j = n - b => j = 0 /\ e = n
    BY <1>2
  <1>20. i - j = b <=> f = i
    BY <1>2
  <1>21. CurrMetric(o, t) = xe + xj + (IF f < i THEN xi + xf ELSE xf)
    <2>1. CurrMetric(o, t) = (IF i - j # n - b THEN GetMetric(o, e - 1, e) + GetMetric(o, j, j - 1) ELSE 0)
                             + (IF i - j # b THEN GetMetric(o, i, i - 1) + GetMetric(o, f - 1, f)
                                ELSE GetMetric(o, f - 1, i))
      BY <1>1, Zenon DEF CurrMetric
    <2>2. GetMetric(o, j, j - 1) = xj /\ GetMetric(o, i, i - 1) = xi
      BY <1>5, <1>14, Zenon
    <2>3. f = i => GetMetric(o, f - 1, i) = xf
      BY <1>14, Zenon
    <2>4. (IF i - j # n - b THEN xe + xj ELSE 0) = xe + xj
      BY <1>14, <1>17, <1>18, <1>19
    <2>5. CASE f = i
      <3>1. i - j = b /\ ~ (f < i)
        BY <1>1, <1>20, <2>5
      <3>2. CurrMetric(o, t) = (xe + xj) + xf
        BY <1>14, <2>1, <2>2, <2>3, <2>4, <2>5, <3>1, Zenon
      <3>3. QED
        BY <3>1, <3>2, Zenon
    <2>6. CASE f # i
      <3>1. i - j # b /\ f < i
        BY <1>1, <1>2, <1>20, <2>6
      <3>2. CurrMetric(o, t) = (xe + xj) + (xi + xf)
        BY <1>14, <2>1, <2>2, <2>4, <3>1, Zenon
      <3>3. QED
        BY <3>1, <3>2, Zenon
    <2>7. QED
      BY <2>5, <2>6
  <1>22. MetricIfSwapped(o, t) = ye + yj + (IF f < i THEN yi + yf ELSE zf)
    <2>1. MetricIfSwapped(o, t) = (IF i - j # n - b THEN GetMetric(o, i, j - 1) + GetMetric(o, f - 1, e) ELSE 0)
                                  + (IF i - j # b THEN GetMetric(o, e - 1, f) + GetMetric(o, j, i - 1)
                                     ELSE GetMetric(o, e - 1, j))
      BY <1>1, Zenon DEF MetricIfSwapped
    <2>2. GetMetric(o, i, j - 1) = yj /\ GetMetric(o, j, i - 1) = yi
      BY <1>5, <1>15, Zenon
    <2>4. (IF i - j # n - b THEN yj + ye ELSE 0) = ye + yj
      BY <1>15, <1>17, <1>18, <1>19
    <2>5. CASE f = i
      <3>1. i - j = b /\ ~ (f < i)
        BY <1>1, <1>20, <2>5
      <3>2. MetricIfSwapped(o, t) = (ye + yj) + zf
        BY <1>15, <2>1, <2>2, <2>4, <2>5, <3>1, Zenon
      <3>3. QED
        BY <3>1, <3>2, Zenon
    <2>6. CASE f # i
      <3>1. i - j # b /\ f < i
        BY <1>1, <1>2, <1>20, <2>6
      <3>2. MetricIfSwapped(o, t) = (ye + yj) + (yf + yi)
        BY <1>15, <2>1, <2>2, <2>4, <3>1, Zenon
      <3>3. yf + yi = yi + yf
        BY <1>15
      <3>4. QED
        BY <3>1, <3>2, <3>3, Zenon
    <2>7. QED
      BY <2>5, <2>6
  <1>23. PICK dj \in Int : dj = (IF j = 0 THEN 0 ELSE g[j] - h[j]) /\ dj = xj - yj
    <2>1. CASE j = 0
      <3>1. xj - yj = 0
        BY <1>17, <2>1
      <3>2. QED
        BY <2>1, <3>1
    <2>2. CASE j # 0
      <3>1. g[j] - h[j] = xj - yj
        BY <1>16, <2>2, Zenon
      <3>2. xj - yj \in Int
        BY <1>14, <1>15
      <3>3. QED
        BY <2>2, <3>1, <3>2, Zenon
    <2>3. QED
      BY <2>1, <2>2
  <1>24. CurrMetric(o, t) \in Int /\ MetricIfSwapped(o, t) \in Int
    <2>1. CASE f < i
      <3>1. (xe + xj) + (xi + xf) \in Int /\ (ye + yj) + (yi + yf) \in Int
        OBVIOUS
      <3>2. QED
        BY <1>21, <1>22, <2>1, <3>1, Zenon
    <2>2. CASE ~ (f < i)
      <3>1. (xe + xj) + xf \in Int /\ (ye + yj) + zf \in Int
        OBVIOUS
      <3>2. QED
        BY <1>21, <1>22, <2>2, <3>1, Zenon
    <2>3. QED
      BY <2>1, <2>2
  <1>25. P[n] - Q[n] = CurrMetric(o, t) - MetricIfSwapped(o, t)
    <2>1. CASE f < i
      <3>1. P[n] - Q[n] = dj + (xf - yf) + (xi - yi) + (xe - ye)
        BY <1>12, <1>16, <1>23, <2>1, Zenon
      <3>2. dj + (xf - yf) + (xi - yi) + (xe - ye) = (xe + xj + (xi + xf)) - (ye + yj + (yi + yf))
        <4>1. dj = xj - yj
          BY <1>23
        <4>2. (xj - yj) + (xf - yf) + (xi - yi) + (xe - ye) = (xe + xj + (xi + xf)) - (ye + yj + (yi + yf))
          OBVIOUS
        <4>3. QED
          BY <4>1, <4>2
      <3>3. QED
        BY <1>21, <1>22, <2>1, <3>1, <3>2, Zenon
    <2>2. CASE ~ (f < i)
      <3>1. f = i
        BY <1>1, <1>2, <2>2
      <3>2. P[n] - Q[n] = dj + (xf - zf) + 0 + (xe - ye)
        BY <1>12, <1>16, <1>23, <2>2, <3>1, Zenon
      <3>3. dj + (xf - zf) + 0 + (xe - ye) = (xe + xj + xf) - (ye + yj + zf)
        <4>1. dj = xj - yj
          BY <1>23
        <4>2. (xj - yj) + (xf - zf) + 0 + (xe - ye) = (xe + xj + xf) - (ye + yj + zf)
          OBVIOUS
        <4>3. QED
          BY <4>1, <4>2
      <3>4. QED
        BY <1>21, <1>22, <2>2, <3>2, <3>3, Zenon
    <2>3. QED
      BY <2>1, <2>2
  <1>26. QED
    BY <1>6, <1>7, <1>13, <1>24, <1>25, Zenon DEF q

-----------------------------------------------------------------------------
(* Each step keeps the invariant.                                             *)

LEMMA FixupStep ==
  ASSUME LacingInvariant, FixupCategories
  PROVE  LacingInvariant'
  <1> DEFINE u == Uniquified(problem.raw)
             n == Len(u)
  <1>1. /\ problem' = problem /\ problem \in Problems /\ phase' = "sort"
        /\ categories' = u
        /\ order' = [k \in 0..(Len(categories') - 1) |-> categories'[k + 1]]
        /\ supercats' = [x \in ToSet(categories') |->
                           {c \in ToSet(categories') : LocalMatchWithNULL(c, x)}]
        /\ at' = FirstTurn(Len(categories') \div 2)
    BY DEF FixupCategories, LacingInvariant
  <1>2. /\ u \in Seq(Type \cup {Null}) /\ n \in 1..IntMax /\ u[1] = Null
        /\ \A a, b \in 1..n : a # b => u[a] # u[b] /\ ~IsEquivalentCategory(u[a], u[b])
    BY <1>1, KeptOnce, Zenon
  <1> HIDE DEF u
  <1>3. IntMax \in Int
    BY DEF IntMax
  <1>4. n \in Nat /\ n > 0 /\ DOMAIN u = 1..n
    BY <1>2, <1>3
  <1>5. Cats' = ToSet(u) /\ ncats' = n
    BY <1>1 DEF Cats, ncats
  <1>6. \A c \in ToSet(u) : \E a \in 1..n : u[a] = c
    BY <1>4 DEF ToSet
  <1>7. \A a \in 1..n : u[a] \in ToSet(u)
    BY <1>4 DEF ToSet
  <1>8. Categorised'
    <2>1. categories' \in Seq(DOMAIN problem'.isA \cup {Null})
      BY <1>1, <1>2 DEF Type
    <2>2. Null \in Cats'
      BY <1>2, <1>4, <1>5, <1>7
    <2>3. \A x, y : Matches(problem'.isA, x, y) <=> LocalMatchWithNULL(x, y)
      BY <1>1 DEF Matches, LocalMatchWithNULL
    <2>4. \A x, y \in Cats' : x = y \/ ~ (Matches(problem'.isA, x, y) /\ Matches(problem'.isA, y, x))
      <3>1. SUFFICES ASSUME NEW x \in Cats', NEW y \in Cats', x # y
                     PROVE  ~ (LocalMatchWithNULL(x, y) /\ LocalMatchWithNULL(y, x))
        BY <2>3
      <3>2. PICK a \in 1..n : u[a] = x
        BY <1>5, <1>6
      <3>3. PICK b \in 1..n : u[b] = y
        BY <1>5, <1>6
      <3>4. ~IsEquivalentCategory(x, y)
        BY <1>2, <3>1, <3>2, <3>3
      <3>5. QED
        BY <3>4 DEF IsEquivalentCategory
    <2>5. supercats' = [x \in Cats' |-> {c \in Cats' : Matches(problem'.isA, c, x)}]
      <3>1. supercats' = [x \in Cats' |-> {c \in Cats' : LocalMatchWithNULL(c, x)}]
        BY <1>1, <1>5
      <3>2. QED
        BY <2>3, <3>1
    <2>6. KeptFor(Cats', ncats', categories', problem'.isA, supercats')
      BY <1>2, <1>5, <2>1, <2>2, <2>4, <2>5 DEF KeptFor
    <2>7. QED
      BY <2>6, KeptIs
  <1>9. Laced'
    <2>1. order' = [k \in 0..(n - 1) |-> u[k + 1]]
      BY <1>1
    <2>2. \A k \in 0..(n - 1) : k + 1 \in 1..n
      BY <1>4
    <2>3. \A a \in 1..n : a - 1 \in 0..(n - 1) /\ (a - 1) + 1 = a
      BY <1>4
    <2> HIDE DEF n
    <2>4. order' \in [0..(n - 1) -> ToSet(u)]
      BY <1>7, <2>1, <2>2
    <2>5. \A k \in 0..(n - 1) : order'[k] = u[k + 1]
      BY <2>1
    <2>6. \A a \in 1..n : order'[a - 1] = u[a]
      BY <2>3, <2>5
    <2>7. \A a, b \in 0..(n - 1) : order'[a] = order'[b] => a = b
      <3>1. SUFFICES ASSUME NEW a \in 0..(n - 1), NEW b \in 0..(n - 1), a # b
                     PROVE  order'[a] # order'[b]
        OBVIOUS
      <3>2. a + 1 # b + 1
        BY <3>1
      <3>3. u[a + 1] # u[b + 1]
        BY <1>2, <2>2, <3>2
      <3>4. QED
        BY <2>5, <3>3
    <2>8. IsInjective(order')
      BY <2>4, <2>7 DEF IsInjective
    <2>9. Range(order') = ToSet(u)
      <3>1. \A c \in ToSet(u) : \E k \in 0..(n - 1) : order'[k] = c
        BY <1>6, <2>3, <2>6
      <3>2. QED
        BY <2>4, <3>1 DEF Range
    <2>10. QED
      BY <1>5, <2>4, <2>8, <2>9 DEF Laced
  <1>10. BlocksInside'
    <2>1. n \div 2 \in Nat /\ 2 * (n \div 2) <= n
      BY <1>4
    <2>2. at' = FirstTurn(n \div 2)
      BY <1>1
    <2> HIDE DEF n
    <2>3. Inside(at', n)
      BY <1>4, <2>1, <2>2, FirstInside
    <2>4. QED
      BY <1>5, <2>3 DEF Inside, BlocksInside
  <1>11. Unbuilt' /\ phase' # "decide"
    BY <1>1 DEF Unbuilt
  <1>12. QED
    BY <1>1, <1>8, <1>9, <1>10, <1>11, UnbuiltHolds DEF LacingInvariant

LEMMA SwapStep ==
  ASSUME LacingInvariant, SwapBlocks
  PROVE  LacingInvariant'
  <1>1. /\ phase = "sort" /\ phase' \in {"sort", "aborted"} /\ at # NoTurn
        /\ order' = BlocksSwapped(order, at)
        /\ at' = at \/ at' = NextTurn(at)
        /\ UNCHANGED <<problem, categories, supercats>>
    BY DEF SwapBlocks
  <1>2. problem \in Problems /\ Categorised /\ Laced /\ BlocksInside
    BY DEF LacingInvariant
  <1>3. ncats \in Nat
    BY <1>1, <1>2, OrderShape
  <1>4. Inside(at, ncats)
    BY <1>2 DEF Inside, BlocksInside
  <1>5. Cats' = Cats /\ ncats' = ncats
    BY <1>1, SameCats
  <1>6. Laced'
    <2>1. order \in [0..(ncats - 1) -> Cats] /\ IsInjective(order) /\ Range(order) = Cats
      BY <1>1, <1>2 DEF Laced
    <2>2. /\ BlocksSwapped(order, at) \in [0..(ncats - 1) -> Cats]
          /\ IsInjective(BlocksSwapped(order, at))
          /\ Range(BlocksSwapped(order, at)) = Range(order)
      <3> DEFINE n == ncats
                 V == Cats
      <3>1. n \in Nat /\ order \in [0..(n - 1) -> V] /\ IsInjective(order) /\ Inside(at, n)
        BY <1>3, <1>4, <2>1
      <3> HIDE DEF n, V
      <3>2. BlocksSwapped(order, at) \in [0..(n - 1) -> V]
        BY <1>1, <3>1, SwapPermutes
      <3>3. IsInjective(BlocksSwapped(order, at))
        BY <1>1, <3>1, SwapPermutes
      <3>4. Range(BlocksSwapped(order, at)) = Range(order)
        BY <1>1, <3>1, SwapPermutes
      <3>5. QED
        BY <3>2, <3>3, <3>4 DEF n, V
    <2>3. QED
      BY <1>1, <1>5, <2>1, <2>2 DEF Laced
  <1>7. Inside(at', ncats)
    BY <1>1, <1>3, <1>4, NextInside
  <1>8. BlocksInside'
    BY <1>5, <1>7 DEF Inside, BlocksInside
  <1>9. Categorised'
    BY <1>1, <1>2, KeepCategorised
  <1>10. Unbuilt' /\ phase' # "decide"
    BY <1>1 DEF Unbuilt
  <1>11. QED
    BY <1>1, <1>2, <1>6, <1>8, <1>9, <1>10, UnbuiltHolds DEF LacingInvariant

LEMMA LeaveStep ==
  ASSUME LacingInvariant, LeaveBlocks
  PROVE  LacingInvariant'
  <1>1. /\ phase = "sort" /\ phase' = "sort" /\ at # NoTurn /\ at' = NextTurn(at)
        /\ UNCHANGED <<problem, categories, supercats, order>>
    BY DEF LeaveBlocks
  <1>2. problem \in Problems /\ Categorised /\ Laced /\ BlocksInside
    BY DEF LacingInvariant
  <1>3. ncats \in Nat /\ ncats' = ncats
    BY <1>1, <1>2, OrderShape, SameCats
  <1>4. Inside(at, ncats)
    BY <1>2 DEF Inside, BlocksInside
  <1>5. Inside(at', ncats)
    BY <1>1, <1>3, <1>4, NextInside
  <1>6. BlocksInside'
    BY <1>3, <1>5 DEF Inside, BlocksInside
  <1>7. Categorised' /\ Laced'
    BY <1>1, <1>2, KeepCategorised, KeepLaced
  <1>8. Unbuilt' /\ phase' # "decide"
    BY <1>1 DEF Unbuilt
  <1>9. QED
    BY <1>1, <1>2, <1>6, <1>7, <1>8, UnbuiltHolds DEF LacingInvariant

LEMMA AgainStep ==
  ASSUME LacingInvariant, SortAgain
  PROVE  LacingInvariant'
  <1>1. /\ phase = "sort" /\ phase' = "sort" /\ at' = FirstTurn(ncats \div 2)
        /\ UNCHANGED <<problem, categories, supercats, order>>
    BY DEF SortAgain
  <1>2. problem \in Problems /\ Categorised /\ Laced
    BY DEF LacingInvariant
  <1>3. ncats \in Nat /\ ncats' = ncats
    BY <1>1, <1>2, OrderShape, SameCats
  <1>4. ncats \div 2 \in Nat /\ 2 * (ncats \div 2) <= ncats
    BY <1>3
  <1>5. Inside(at', ncats)
    BY <1>1, <1>3, <1>4, FirstInside
  <1>6. BlocksInside'
    BY <1>3, <1>5 DEF Inside, BlocksInside
  <1>7. Categorised' /\ Laced'
    BY <1>1, <1>2, KeepCategorised, KeepLaced
  <1>8. Unbuilt' /\ phase' # "decide"
    BY <1>1 DEF Unbuilt
  <1>9. QED
    BY <1>1, <1>2, <1>6, <1>7, <1>8, UnbuiltHolds DEF LacingInvariant

LEMMA RangesStep ==
  ASSUME LacingInvariant, BuildRanges
  PROVE  LacingInvariant'
  <1>1. /\ phase = "sort" /\ phase' = "decide" /\ ranges' = RangeLists(order)
        /\ UNCHANGED <<problem, categories, supercats, order, at>>
    BY DEF BuildRanges
  <1>2. problem \in Problems /\ Categorised /\ Laced /\ BlocksInside
    BY DEF LacingInvariant
  <1>3. ranges' = Listed(Cats', ncats', supercats', order')
    BY <1>1, ListedIs, SameCats
  <1>4. Ranged'
    BY <1>3, ListedIs DEF Ranged
  <1>5. Categorised' /\ Laced' /\ BlocksInside'
    BY <1>1, <1>2, KeepCategorised, KeepLaced, KeepBlocks
  <1>6. Unbuilt'
    BY <1>1 DEF Unbuilt
  <1>7. QED
    BY <1>1, <1>2, <1>4, <1>5, <1>6, UnbuiltHolds DEF LacingInvariant

\* Any two categories are told apart by one of them.
LEMMA ToldApart ==
  ASSUME problem \in Problems, Categorised, Laced, phase # "fixup",
         NEW i \in DOMAIN order, NEW j \in DOMAIN order, i # j
  PROVE  \E c \in Cats \ {Null} : c \in supercats[order[i]] <=> c \notin supercats[order[j]]
  <1> DEFINE x == order[i]
             y == order[j]
  <1>1. x \in Cats /\ y \in Cats /\ x # y
    BY OrderShape
  <1>2. supercats[x] = Supercats(x) /\ supercats[y] = Supercats(y) /\ Cats \subseteq Type \cup {Null}
    BY <1>1, OrderShape
  <1>3. ~IsEquivalentCategory(x, y)
    BY <1>1 DEF Categorised
  <1>4. \A c \in Cats : c # Null => c \in Supercats(c)
    BY <1>2, EquivalentSelf DEF Supercats, IsEquivalentCategory
  <1>5. ~LocalMatchWithNULL(x, y) \/ ~LocalMatchWithNULL(y, x)
    BY <1>3 DEF IsEquivalentCategory
  <1>6. Supercats(Null) = {}
    BY DEF Supercats, LocalMatchWithNULL
  <1>7. \E c \in Cats \ {Null} : c \in Supercats(x) <=> c \notin Supercats(y)
    <2>1. CASE x = Null
      BY <1>1, <1>4, <1>6, <2>1
    <2>2. CASE y = Null
      BY <1>1, <1>4, <1>6, <2>2
    <2>3. CASE x # Null /\ y # Null
      <3>1. CASE ~LocalMatchWithNULL(x, y)
        <4>1. x \in Supercats(x) /\ x \notin Supercats(y)
          BY <1>1, <1>4, <2>3, <3>1 DEF Supercats
        <4>2. QED
          BY <1>1, <2>3, <4>1
      <3>2. CASE ~LocalMatchWithNULL(y, x)
        <4>1. y \in Supercats(y) /\ y \notin Supercats(x)
          BY <1>1, <1>4, <2>3, <3>2 DEF Supercats
        <4>2. QED
          BY <1>1, <2>3, <4>1
      <3>3. QED
        BY <1>5, <3>1, <3>2
    <2>4. QED
      BY <2>1, <2>2, <2>3
  <1>8. QED
    BY <1>2, <1>7

LEMMA DecideStep ==
  ASSUME LacingInvariant, BuildDecisionTree
  PROVE  LacingInvariant' /\ phase' # "aborted"
  <1> DEFINE ls == sets'
             D == DOMAIN order
             dec == [S \in DecisionNodes(sets') |-> BestCat(S, sets')]
  <1>1. /\ phase = "decide"
        /\ sets' = [c \in Cats \ {Null} |-> {i \in DOMAIN order : c \in supercats[order[i]]}]
        /\ UNCHANGED <<problem, categories, supercats, order, at, ranges>>
    BY DEF BuildDecisionTree
  <1>2. problem \in Problems /\ Categorised /\ Laced /\ BlocksInside /\ Ranged
    BY DEF LacingInvariant
  <1>3. phase # "fixup"
    BY <1>1
  <1>4. /\ ncats \in Nat /\ ncats - 1 \in Nat /\ DOMAIN order = 0..(ncats - 1)
        /\ D \in SUBSET Nat /\ IsFiniteSet(D)
        /\ DOMAIN categories = 1..ncats
    BY <1>2, <1>3, OrderShape
  <1>5. /\ \A c \in Cats : \E k \in DOMAIN categories : categories[k] = c
        /\ \A k \in DOMAIN categories : categories[k] \in Cats
    BY DEF Cats, ToSet
  <1>6. \A c \in Cats \ {Null}, i \in D : i \in ls[c] <=> c \in supercats[order[i]]
    BY <1>1
  <1>7. \A i, j \in D : i # j =>
          \E k \in DOMAIN categories :
            categories[k] # Null /\ (i \in ls[categories[k]] <=> j \notin ls[categories[k]])
    <2>1. SUFFICES ASSUME NEW i \in D, NEW j \in D, i # j
                   PROVE  \E k \in DOMAIN categories :
                            categories[k] # Null
                            /\ (i \in ls[categories[k]] <=> j \notin ls[categories[k]])
      OBVIOUS
    <2>2. PICK c \in Cats \ {Null} : c \in supercats[order[i]] <=> c \notin supercats[order[j]]
      BY <1>2, <1>3, <2>1, ToldApart
    <2>3. PICK k \in DOMAIN categories : categories[k] = c
      BY <1>5
    <2>4. i \in ls[c] <=> j \notin ls[c]
      BY <1>6, <2>2
    <2>5. QED
      BY <2>3, <2>4
  <1> HIDE DEF ls
  <1>8. /\ \A S \in DecisionNodes(ls) : S \in SUBSET DOMAIN order /\ Splits(S, ls) # {}
        /\ Tree(DOMAIN order, [S \in DecisionNodes(ls) |-> BestCat(S, ls)], ls)
    <2> DEFINE n == ncats - 1
    <2>1. n \in Nat /\ DOMAIN order = 0..n
      BY <1>4
    <2> HIDE DEF n
    <2>2. QED
      BY <1>4, <1>7, <2>1, TreeBuilt
  <1> USE DEF ls
  <1>9. /\ \A S \in DecisionNodes(sets') : S \in SUBSET DOMAIN order /\ Splits(S, sets') # {}
        /\ Tree(DOMAIN order, dec, sets')
    BY <1>8
  <1>10. decision' = dec /\ phase' = "test"
    <2>1. ~ \E S \in DecisionNodes(sets') : Splits(S, sets') = {}
      BY <1>9
    <2>2. QED
      BY <2>1, Zenon DEF BuildDecisionTree
  <1>11. ASSUME NEW S \in DecisionNodes(ls)
         PROVE  BestCat(S, ls) \in Cats \ {Null}
    <2>1. S \in SUBSET D /\ Splits(S, ls) # {}
      BY <1>9
    <2>2. IsFiniteSet(S)
      BY <1>4, <2>1, FS_Subset
    <2> HIDE DEF ls
    <2>3. PICK k \in Splits(S, ls) : BestCat(S, ls) = categories[k]
      BY <1>4, <2>1, <2>2, BestSplits
    <2>4. QED
      BY <1>5, <2>3 DEF Splits
  <1>12. TreeFor(Cats', supercats', order', sets', decision')
    <2>1. Cats' = Cats
      BY <1>1, SameCats
    <2>2. \A S \in DOMAIN dec : dec[S] \in Cats \ {Null}
      BY <1>11
    <2> HIDE DEF dec
    <2>3. QED
      BY <1>1, <1>9, <1>10, <2>1, <2>2 DEF TreeFor
  <1>13. TreeSplits'
    BY <1>12, TreeIs
  <1>14. HasRanges
    BY <1>1 DEF HasRanges
  <1>15. Categorised' /\ Laced' /\ BlocksInside' /\ Ranged'
    BY <1>1, <1>2, <1>3, <1>14, KeepCategorised, KeepLaced, KeepBlocks, KeepRanged
  <1>16. Comparing' /\ CompareAgrees'
    BY <1>10 DEF Comparing, CompareAgrees
  <1>17. QED
    BY <1>1, <1>2, <1>10, <1>13, <1>15, <1>16 DEF LacingInvariant

\* What a step keeps that touches only the comparison.
LEMMA BuiltStays ==
  ASSUME LacingInvariant, HasTree,
         UNCHANGED <<problem, categories, supercats, order, at, ranges, sets, decision>>
  PROVE  problem' \in Problems /\ Categorised' /\ Laced' /\ BlocksInside' /\ Ranged' /\ TreeSplits'
  <1>1. phase # "fixup" /\ HasRanges
    BY DEF HasTree, HasRanges
  <1>2. problem \in Problems /\ Categorised /\ Laced /\ BlocksInside /\ Ranged /\ TreeSplits
    BY DEF LacingInvariant
  <1>3. QED
    BY <1>1, <1>2, KeepCategorised, KeepLaced, KeepBlocks, KeepRanged, KeepTree

LEMMA TestStep ==
  ASSUME LacingInvariant, TestDecisionTree
  PROVE  LacingInvariant' /\ phase' # "aborted"
  <1>1. /\ phase = "test"
        /\ UNCHANGED <<problem, categories, supercats, order, at, ranges, sets, decision>>
    BY DEF TestDecisionTree
  <1>2. HasTree
    BY <1>1 DEF HasTree
  <1>3. \A i \in DOMAIN order : GetOrdinalForNode(order[i]) = i
    BY <1>2, TestPasses DEF LacingInvariant
  <1>4. phase' = "ready"
    BY <1>3, Zenon DEF TestDecisionTree
  <1>5. Comparing' /\ CompareAgrees'
    BY <1>4 DEF Comparing, CompareAgrees
  <1>6. QED
    BY <1>1, <1>2, <1>4, <1>5, BuiltStays DEF LacingInvariant

LEMMA ReturnStep ==
  ASSUME LacingInvariant, ReturnDiff
  PROVE  LacingInvariant'
  <1>1. /\ phase = "compared" /\ phase' = "ready"
        /\ UNCHANGED <<problem, categories, supercats, order, at, ranges, sets, decision>>
    BY DEF ReturnDiff
  <1>2. HasTree
    BY <1>1 DEF HasTree
  <1>3. Comparing' /\ CompareAgrees'
    BY <1>1 DEF Comparing, CompareAgrees
  <1>4. QED
    BY <1>1, <1>2, <1>3, BuiltStays DEF LacingInvariant

-----------------------------------------------------------------------------
(* Comparing two nodes.                                                       *)

LEMMA StartStep ==
  ASSUME LacingInvariant, StartCompare
  PROVE  LacingInvariant'
  <1> DEFINE D == DOMAIN order
             isA == problem.isA
  <1>1. PICK x \in Type, y \in Type :
          cmp' = [l |-> x, r |-> y, lat |-> D, rat |-> D, lrange |-> <<0, IntMax>>,
                  rrange |-> <<0, IntMax>>, turn |-> "left", diff |-> 0]
    BY DEF StartCompare
  <1>2. /\ phase = "ready" /\ phase' = "compare"
        /\ UNCHANGED <<problem, categories, supercats, order, at, ranges, sets, decision>>
    BY DEF StartCompare
  <1>3. HasTree /\ phase # "fixup"
    BY <1>2 DEF HasTree
  <1>4. Categorised /\ Laced /\ TreeSplits
    BY DEF LacingInvariant
  <1>5. /\ ncats \in Nat /\ ncats - 1 \in Nat /\ ncats <= IntMax /\ D = 0..(ncats - 1)
        /\ D \in SUBSET Nat /\ IsFiniteSet(D)
    BY <1>3, <1>4, OrderShape
  <1>6. Tree(D, decision, sets)
    BY <1>3, <1>4, TreeOf
  <1>7. Place(D, decision, D)
    BY <1>6 DEF Tree
  <1>8. IntMax \in Int
    BY DEF IntMax
  <1>9. ASSUME NEW z \in Type
        PROVE  Way(D, isA, decision, sets, D, <<0, IntMax>>, z)
    <2> DEFINE w == Walk(D, isA, decision, sets, z)
    <2>1. w[D] \in D
      <3> HIDE DEF D, isA
      <3>1. QED
        BY <1>5, <1>6, <1>7, WalkIn
    <2>2. w[D] \in Nat /\ w[D] <= IntMax
      <3> HIDE DEF w
      <3>1. QED
        BY <1>5, <1>8, <2>1
    <2>3. D # {} /\ z \in DOMAIN isA
      BY <2>1 DEF Type
    <2>4. <<0, IntMax>> \in Int \X Int
      BY <1>8
    <2> HIDE DEF w, D, isA
    <2>5. QED
      BY <1>7, <2>2, <2>3, <2>4 DEF Way, w
  <1>10. Ways(D, isA, decision, sets, cmp')
    BY <1>1, <1>9 DEF Ways, NoCompare
  <1>11. Comparing'
    <2>1. DOMAIN order' = D /\ problem'.isA = isA
      BY <1>2
    <2>2. QED
      BY <1>2, <1>10, <2>1, WaysAre
  <1>12. CompareAgrees'
    BY <1>2 DEF CompareAgrees
  <1>13. QED
    BY <1>2, <1>3, <1>11, <1>12, BuiltStays DEF LacingInvariant

\* A node that goes on stays on the way to its ordinal.
LEMMA WayOn ==
  ASSUME LacingInvariant, HasTree, NEW S, NEW range, NEW x,
         Way(DOMAIN order, problem.isA, decision, sets, S, range, x)
  PROVE  Way(DOMAIN order, problem.isA, decision, sets,
             Advanced(S, range, x).to, Advanced(S, range, x).range, x)
  <1> DEFINE D == DOMAIN order
             isA == problem.isA
             w == Walk(D, isA, decision, sets, x)
             a == Advanced(S, range, x)
  <1>1. Categorised /\ Laced /\ TreeSplits /\ phase # "fixup"
    BY DEF LacingInvariant, HasTree
  <1>2. /\ ncats - 1 \in Nat /\ D = 0..(ncats - 1) /\ D \in SUBSET Nat /\ IsFiniteSet(D)
    BY <1>1, OrderShape
  <1>3. Tree(D, decision, sets)
    BY <1>1, TreeOf
  <1>4. /\ x \in DOMAIN isA /\ range \in Int \X Int /\ range[1] <= w[D] /\ w[D] <= range[2]
        /\ IF S = {} THEN range = <<w[D], w[D]>> ELSE Place(D, decision, S) /\ w[S] = w[D]
    BY DEF Way
  <1>5. CASE S = {}
    <2>1. a = [to |-> S, range |-> range]
      BY <1>5 DEF Advanced, NoDecision
    <2>2. QED
      BY <2>1
  <1>6. CASE S # {}
    <2>1. Place(D, decision, S) /\ w[S] = w[D] /\ S # NoDecision
      BY <1>4, <1>6 DEF NoDecision
    <2>2. S \in SUBSET D
      BY <1>3, <2>1 DEF Place, Tree
    <2>3. w[S] \in S
      <3> HIDE DEF D, isA
      <3>1. QED
        BY <1>2, <1>3, <2>1, <2>2, WalkIn
    <2>4. w[D] \in S /\ w[D] \in Nat /\ S \subseteq Nat
      BY <1>2, <2>1, <2>2, <2>3
    <2>5. CASE Cardinality(S) = 1
      <3>1. PICK i \in D : S = {i}
        BY <1>2, <2>2, <2>5, OneElement
      <3>2. Min(S) = w[D]
        BY <2>4, <3>1, MinOfOne
      <3>3. a = [to |-> NoDecision, range |-> <<w[D], w[D]>>]
        BY <2>1, <2>5, <3>2 DEF Advanced
      <3>4. a.to = {} /\ a.range = <<w[D], w[D]>> /\ <<w[D], w[D]>> \in Int \X Int
        BY <2>4, <3>3 DEF NoDecision
      <3> HIDE DEF a, w, D, isA
      <3>5. w[D] <= w[D]
        BY <2>4
      <3>6. QED
        BY <1>4, <3>4, <3>5 DEF Way, a, w, D, isA
    <2>6. CASE Cardinality(S) # 1
      <3> DEFINE Q == NextPlace(isA, decision, sets, S, x)
      <3>1. NextDecisionNode(S, x) = Q
        BY DEF NextDecisionNode, NextPlace, LocalMatchWithNULL, Matches
      <3>2. a = [to |-> Q, range |-> <<Min(S), Max(S)>>]
        BY <2>1, <2>6, <3>1 DEF Advanced
      <3>3. /\ Q \in SUBSET D /\ Place(D, decision, Q) /\ w[S] = w[Q]
        <4>1. ~ \E i \in D : S = {i}
          BY <1>2, <2>2, <2>6, OneElement
        <4> HIDE DEF D, isA
        <4>2. QED
          BY <1>2, <1>3, <2>1, <2>2, <4>1, PlaceStep
      <3>4. w[Q] \in Q
        <4> HIDE DEF D, isA, Q
        <4>1. QED
          BY <1>2, <1>3, <3>3, WalkIn
      <3>5. /\ Min(S) \in S /\ Min(S) <= w[D]
            /\ Max(S) \in S /\ w[D] <= Max(S)
        <4>1. S \in SUBSET (0..(ncats - 1)) /\ S # {}
          BY <1>2, <1>6, <2>2
        <4> HIDE DEF w
        <4>2. QED
          BY <1>2, <2>4, <4>1, Bounds
      <3>6. <<Min(S), Max(S)>> \in Int \X Int
        <4>1. \A k \in S : k \in Int
          BY <2>4
        <4>2. Min(S) \in Int /\ Max(S) \in Int
          BY <3>5, <4>1, Zenon
        <4>3. QED
          BY <4>2
      <3>7. a.to = Q /\ a.range = <<Min(S), Max(S)>>
        BY <3>2
      <3>8. Q # {} /\ w[Q] = w[D]
        BY <2>1, <3>3, <3>4
      <3> HIDE DEF a, w, D, isA, Q
      <3>9. QED
        BY <1>4, <3>3, <3>5, <3>6, <3>7, <3>8 DEF Way, a, w, D, isA
    <2>7. QED
      BY <2>5, <2>6
  <1>7. QED
    BY <1>5, <1>6

\* What is known of two nodes from their bounds is right.
LEMMA KnownAgrees ==
  ASSUME NEW a \in Int \X Int, NEW b \in Int \X Int, NEW i \in Int, NEW j \in Int,
         a[1] <= i, i <= a[2], b[1] <= j, j <= b[2], Known(a, b)
  PROVE  (Diff(a, b) < 0 <=> i - j < 0) /\ (Diff(a, b) > 0 <=> i - j > 0)
  <1>1. a[1] \in Int /\ a[2] \in Int /\ b[1] \in Int /\ b[2] \in Int
    OBVIOUS
  <1>2. CASE a[2] < b[1]
    BY <1>1, <1>2 DEF Diff
  <1>3. CASE a[1] > b[2]
    BY <1>1, <1>3 DEF Diff
  <1>4. CASE Same(a, b) /\ ~ (a[2] < b[1]) /\ ~ (a[1] > b[2])
    BY <1>1, <1>4 DEF Diff, Same
  <1>5. QED
    BY <1>2, <1>3, <1>4 DEF Known, Apart

LEMMA OrdinalIsInt ==
  ASSUME LacingInvariant, HasTree, NEW x
  PROVE  Walk(DOMAIN order, problem.isA, decision, sets, x)[DOMAIN order] \in Int
  <1>1. Categorised /\ Laced /\ TreeSplits /\ phase # "fixup"
    BY DEF LacingInvariant, HasTree
  <1>2. GetOrdinalForNode(x) \in DOMAIN order
    BY <1>1, Home
  <1>3. DOMAIN order \in SUBSET Nat
    BY <1>1, OrderShape
  <1>4. GetOrdinalForNode(x) = Walk(DOMAIN order, problem.isA, decision, sets, x)[DOMAIN order]
    BY WalkIs DEF GetOrdinalForNode
  <1>5. QED
    BY <1>2, <1>3, <1>4

LEMMA LeftStep ==
  ASSUME LacingInvariant, AdvanceLeft
  PROVE  LacingInvariant'
  <1> DEFINE D == DOMAIN order
             isA == problem.isA
             a == Advanced(cmp.lat, cmp.lrange, cmp.l)
             known == Known(a.range, cmp.rrange)
             diff == IF known THEN Diff(a.range, cmp.rrange) ELSE 0
  <1>1. /\ phase = "compare" /\ phase' = IF known THEN "compared" ELSE phase
        /\ cmp' = [cmp EXCEPT !.lat = a.to, !.lrange = a.range, !.turn = "right", !.diff = diff]
        /\ UNCHANGED <<problem, categories, supercats, order, at, ranges, sets, decision>>
    BY DEF AdvanceLeft
  <1>2. HasTree
    BY <1>1 DEF HasTree
  <1>3. Ways(D, isA, decision, sets, cmp)
    BY <1>1, WaysAre DEF LacingInvariant
  <1>4. Way(D, isA, decision, sets, a.to, a.range, cmp.l)
    BY <1>2, <1>3, WayOn DEF Ways
  <1>5. DOMAIN cmp = DOMAIN NoCompare
    BY <1>3 DEF Ways
  <1> HIDE DEF a, diff
  <1>6. /\ DOMAIN cmp' = DOMAIN NoCompare
        /\ cmp'.lat = a.to /\ cmp'.lrange = a.range /\ cmp'.l = cmp.l /\ cmp'.diff = diff
        /\ cmp'.rat = cmp.rat /\ cmp'.rrange = cmp.rrange /\ cmp'.r = cmp.r
    BY <1>1, <1>5 DEF NoCompare
  <1>7. Ways(D, isA, decision, sets, cmp')
    BY <1>3, <1>4, <1>6 DEF Ways
  <1>8. DOMAIN order' = D /\ problem'.isA = isA
    BY <1>1
  <1>9. Comparing'
    <2> HIDE DEF D, isA
    <2>1. QED
      BY <1>1, <1>7, <1>8, WaysAre
  <1>10. known => Agreeing(D, isA, decision, sets, cmp')
    <2>1. SUFFICES ASSUME known
                   PROVE  Agreeing(D, isA, decision, sets, cmp')
      OBVIOUS
    <2> DEFINE i == Walk(D, isA, decision, sets, cmp.l)[D]
               j == Walk(D, isA, decision, sets, cmp.r)[D]
    <2>2. /\ a.range \in Int \X Int /\ a.range[1] <= i /\ i <= a.range[2]
          /\ cmp.rrange \in Int \X Int /\ cmp.rrange[1] <= j /\ j <= cmp.rrange[2]
      BY <1>3, <1>4 DEF Ways, Way
    <2>3. i \in Int /\ j \in Int
      BY <1>2, OrdinalIsInt
    <2> HIDE DEF i, j
    <2>4. (Diff(a.range, cmp.rrange) < 0 <=> i - j < 0) /\ (Diff(a.range, cmp.rrange) > 0 <=> i - j > 0)
      BY <2>1, <2>2, <2>3, KnownAgrees
    <2>5. cmp'.diff = Diff(a.range, cmp.rrange)
      BY <1>6, <2>1 DEF diff
    <2>6. QED
      BY <1>6, <2>4, <2>5 DEF Agreeing, i, j
  <1>11. CompareAgrees'
    <2>1. phase' = "compared" => known
      BY <1>1
    <2> HIDE DEF D, isA, known
    <2>2. QED
      BY <1>8, <1>1, <1>10, <2>1, AgreeingIs
  <1>12. QED
    BY <1>1, <1>2, <1>9, <1>11, BuiltStays DEF LacingInvariant

LEMMA RightStep ==
  ASSUME LacingInvariant, AdvanceRight
  PROVE  LacingInvariant'
  <1> DEFINE D == DOMAIN order
             isA == problem.isA
             a == Advanced(cmp.rat, cmp.rrange, cmp.r)
             known == Known(cmp.lrange, a.range)
             diff == IF known THEN Diff(cmp.lrange, a.range) ELSE 0
  <1>1. /\ phase = "compare" /\ phase' = IF known THEN "compared" ELSE phase
        /\ cmp' = [cmp EXCEPT !.rat = a.to, !.rrange = a.range, !.turn = "left", !.diff = diff]
        /\ UNCHANGED <<problem, categories, supercats, order, at, ranges, sets, decision>>
    BY DEF AdvanceRight
  <1>2. HasTree
    BY <1>1 DEF HasTree
  <1>3. Ways(D, isA, decision, sets, cmp)
    BY <1>1, WaysAre DEF LacingInvariant
  <1>4. Way(D, isA, decision, sets, a.to, a.range, cmp.r)
    BY <1>2, <1>3, WayOn DEF Ways
  <1>5. DOMAIN cmp = DOMAIN NoCompare
    BY <1>3 DEF Ways
  <1> HIDE DEF a, diff
  <1>6. /\ DOMAIN cmp' = DOMAIN NoCompare
        /\ cmp'.rat = a.to /\ cmp'.rrange = a.range /\ cmp'.r = cmp.r /\ cmp'.diff = diff
        /\ cmp'.lat = cmp.lat /\ cmp'.lrange = cmp.lrange /\ cmp'.l = cmp.l
    BY <1>1, <1>5 DEF NoCompare
  <1>7. Ways(D, isA, decision, sets, cmp')
    BY <1>3, <1>4, <1>6 DEF Ways
  <1>8. DOMAIN order' = D /\ problem'.isA = isA
    BY <1>1
  <1>9. Comparing'
    <2> HIDE DEF D, isA
    <2>1. QED
      BY <1>1, <1>7, <1>8, WaysAre
  <1>10. known => Agreeing(D, isA, decision, sets, cmp')
    <2>1. SUFFICES ASSUME known
                   PROVE  Agreeing(D, isA, decision, sets, cmp')
      OBVIOUS
    <2> DEFINE i == Walk(D, isA, decision, sets, cmp.l)[D]
               j == Walk(D, isA, decision, sets, cmp.r)[D]
    <2>2. /\ cmp.lrange \in Int \X Int /\ cmp.lrange[1] <= i /\ i <= cmp.lrange[2]
          /\ a.range \in Int \X Int /\ a.range[1] <= j /\ j <= a.range[2]
      BY <1>3, <1>4 DEF Ways, Way
    <2>3. i \in Int /\ j \in Int
      BY <1>2, OrdinalIsInt
    <2> HIDE DEF i, j
    <2>4. (Diff(cmp.lrange, a.range) < 0 <=> i - j < 0) /\ (Diff(cmp.lrange, a.range) > 0 <=> i - j > 0)
      BY <2>1, <2>2, <2>3, KnownAgrees
    <2>5. cmp'.diff = Diff(cmp.lrange, a.range)
      BY <1>6, <2>1 DEF diff
    <2>6. QED
      BY <1>6, <2>4, <2>5 DEF Agreeing, i, j
  <1>11. CompareAgrees'
    <2>1. phase' = "compared" => known
      BY <1>1
    <2> HIDE DEF D, isA, known
    <2>2. QED
      BY <1>8, <1>1, <1>10, <2>1, AgreeingIs
  <1>12. QED
    BY <1>1, <1>2, <1>9, <1>11, BuiltStays DEF LacingInvariant

-----------------------------------------------------------------------------
(* The theorems.                                                              *)

LEMMA StutterStep ==
  ASSUME LacingInvariant, UNCHANGED vars
  PROVE  LacingInvariant'
  <1>1. /\ UNCHANGED <<problem, categories, supercats, order, at, swapped>>
        /\ UNCHANGED <<ranges, sets, decision, cmp, phase>>
    BY DEF vars
  <1>2. problem' \in Problems /\ BlocksInside'
    BY <1>1, KeepBlocks DEF LacingInvariant
  <1>3. CASE phase = "fixup"
    BY <1>1, <1>2, <1>3 DEF LacingInvariant, Categorised, Laced, Ranged, HasRanges, TreeSplits, HasTree,
                            Comparing, CompareAgrees
  <1>4. CASE phase # "fixup"
    <2>1. Categorised' /\ Laced'
      BY <1>1, <1>4, KeepCategorised, KeepLaced DEF LacingInvariant
    <2>2. Ranged'
      <3>1. CASE HasRanges
        BY <1>1, <3>1, KeepRanged DEF LacingInvariant
      <3>2. CASE ~HasRanges
        BY <1>1, <3>2 DEF Ranged, HasRanges
      <3>3. QED
        BY <3>1, <3>2
    <2>3. TreeSplits'
      <3>1. CASE HasTree
        BY <1>1, <3>1, KeepTree DEF LacingInvariant
      <3>2. CASE ~HasTree
        BY <1>1, <3>2 DEF TreeSplits, HasTree
      <3>3. QED
        BY <3>1, <3>2
    <2>4. Comparing'
      <3>1. phase \in {"compare", "compared"} => Ways(DOMAIN order, problem.isA, decision, sets, cmp)
        BY WaysAre DEF LacingInvariant
      <3>2. QED
        BY <1>1, <3>1, WaysAre
    <2>5. CompareAgrees'
      <3>1. phase = "compared" => Agreeing(DOMAIN order, problem.isA, decision, sets, cmp)
        BY AgreeingIs DEF LacingInvariant
      <3>2. QED
        BY <1>1, <3>1, AgreeingIs
    <2>6. QED
      BY <1>2, <2>1, <2>2, <2>3, <2>4, <2>5 DEF LacingInvariant
  <1>5. QED
    BY <1>3, <1>4

LEMMA StartsWell ==
  ASSUME Init
  PROVE  LacingInvariant
  BY DEF Init, LacingInvariant, Categorised, Laced, BlocksInside, Ranged, HasRanges, TreeSplits, HasTree,
         Comparing, CompareAgrees

LEMMA EachStep ==
  ASSUME LacingInvariant, [Next]_vars
  PROVE  LacingInvariant'
  BY FixupStep, SwapStep, LeaveStep, AgainStep, RangesStep, DecideStep, TestStep,
     StartStep, LeftStep, RightStep, ReturnStep, StutterStep DEF Next, Build, Compare

\* The order is always one of all the categories, kept once each; the decision
\* tree splits the ordinals down to each one; and what a comparison knows of
\* two nodes is right, however far it has gone down on either side.
THEOREM LacingInvariantHolds == Spec => []LacingInvariant
  <1>1. Init => LacingInvariant
    BY StartsWell
  <1>2. LacingInvariant /\ [Next]_vars => LacingInvariant'
    BY EachStep
  <1>3. QED
    BY <1>1, <1>2, PTL DEF Spec

\* OrdinalCompare(), which goes down the tree only as far as it must, orders
\* nodes as their ordinals are.
THEOREM CompareIsRight == Spec => []CompareAgrees
  <1>1. LacingInvariant => CompareAgrees
    BY DEF LacingInvariant
  <1>2. QED
    BY <1>1, LacingInvariantHolds, PTL

\* MakeDecisionSubtree() never finds that no category splits the ordinals it
\* has, and TestDecisionTree() finds every category in its place.
THEOREM TreeIsAlwaysBuilt == Spec => TreeIsBuilt
  <1>1. LacingInvariant => [BuildDecisionTree \/ TestDecisionTree => phase' # "aborted"]_vars
    BY DecideStep, TestStep
  <1>2. QED
    BY <1>1, LacingInvariantHolds, PTL DEF TreeIsBuilt

\* In the lists that BuildRanges() leaves, no range is open any more.
LEMMA RangesClosed ==
  ASSUME LacingInvariant, HasRanges, NEW c \in Cats \ {Null}
  PROVE  /\ RangesRight(ranges[c], {i \in DOMAIN order : c \in supercats[order[i]]}, ncats + 1)
         /\ \A k \in 1..Len(ranges[c]) : ranges[c][k][2] # -1
  <1> DEFINE M == {i \in DOMAIN order : c \in supercats[order[i]]}
             r == RangesAfter(order, c)[ncats + 1]
             n == ncats + 1
             last == Len(r)
  <1>1. Categorised /\ Laced /\ phase # "fixup"
    BY DEF LacingInvariant, HasRanges
  <1>2. ncats \in Nat /\ DOMAIN order = 0..(ncats - 1)
    BY <1>1, OrderShape
  <1>3. ranges[c] = r
    <2>1. ranges = RangeLists(order)
      BY DEF LacingInvariant, Ranged
    <2>2. QED
      BY <2>1 DEF RangeLists
  <1>4. RangesRight(r, M, n)
    BY <1>2, RangesSelect
  <1> HIDE DEF r
  <1>5. last \in Nat
    BY <1>4 DEF RangesRight
  <1>6. n - 1 \notin M
    BY <1>2
  <1>7. ~ (last > 0 /\ r[last][2] = -1)
    BY <1>4, <1>6 DEF RangesRight
  <1>8. \A k \in 1..(last - 1) : r[k][2] # -1
    BY <1>4 DEF RangesRight
  <1> HIDE DEF last
  <1>9. \A k \in 1..last : k = last \/ k \in 1..(last - 1)
    BY <1>5
  <1>10. \A k \in 1..last : r[k][2] # -1
    BY <1>5, <1>7, <1>8, <1>9
  <1>11. QED
    BY <1>3, <1>4, <1>10 DEF last

\* The ranges of a category hold the ordinals of the categories it is above.
LEMMA RangesHold ==
  ASSUME LacingInvariant, phase = "ready", NEW c \in Cats \ {Null}
  PROVE  /\ \A j \in DOMAIN order :
              c \in supercats[order[j]] <=>
                \E k \in DOMAIN ranges[c] : ~ (j - ranges[c][k][1] < 0) /\ j - ranges[c][k][2] < 0
         /\ InOrder(ranges[c])
  <1> DEFINE M == {i \in DOMAIN order : c \in supercats[order[i]]}
             r == ranges[c]
             n == ncats + 1
  <1>1. Categorised /\ Laced /\ phase # "fixup" /\ HasRanges
    BY DEF LacingInvariant, HasRanges
  <1>2. ncats \in Nat /\ ncats - 1 \in Nat /\ DOMAIN order = 0..(ncats - 1)
    BY <1>1, OrderShape
  <1>4. RangesRight(r, M, n)
    BY <1>1, RangesClosed
  <1>8. \A k \in 1..Len(r) : r[k][2] # -1
    BY <1>1, RangesClosed
  <1> HIDE DEF r
  <1>5. /\ r \in Seq(Int \X Int) /\ Len(r) \in Nat /\ DOMAIN r = 1..Len(r)
        /\ \A k \in 1..Len(r) : r[k] \in Int \X Int
    BY <1>4, ElementOfSeq DEF RangesRight
  <1>6. \A k \in 1..Len(r) : r[k][1] \in Int /\ r[k][2] \in Int
    BY <1>5
  <1>7. n \in Nat /\ n - 1 \notin M /\ \A j \in DOMAIN order : j \in 0..(n - 1) /\ j \in Int
    BY <1>2
  <1>9. \A j \in DOMAIN order : j \in M <=> \E k \in 1..Len(r) : r[k][1] <= j /\ j < r[k][2]
    <2>1. SUFFICES ASSUME NEW j \in DOMAIN order
                   PROVE  j \in M <=> \E k \in 1..Len(r) : r[k][1] <= j /\ j < r[k][2]
      OBVIOUS
    <2>2. j \in M <=> \E k \in 1..Len(r) : In(r[k], j, n)
      BY <1>4, <1>7 DEF RangesRight
    <2>3. \A k \in 1..Len(r) : In(r[k], j, n) <=> r[k][1] <= j /\ j < r[k][2]
      BY <1>8 DEF In
    <2> HIDE DEF M
    <2>4. QED
      BY <2>2, <2>3
  <1>10. \A j \in DOMAIN order, k \in 1..Len(r) :
           r[k][1] <= j /\ j < r[k][2] <=> ~ (j - r[k][1] < 0) /\ j - r[k][2] < 0
    BY <1>6, <1>7
  <1>11. \A j \in DOMAIN order :
           j \in M <=> \E k \in DOMAIN r : ~ (j - r[k][1] < 0) /\ j - r[k][2] < 0
    <2> HIDE DEF M
    <2>1. QED
      BY <1>5, <1>9, <1>10
  <1>12. InOrder(r)
    <2>1. PICK i \in DOMAIN order : order[i] = c
      BY <1>1, OrderShape
    <2>2. c \in supercats[c]
      <3>1. c \in Type /\ supercats[c] = Supercats(c)
        BY <1>1, OrderShape
      <3>2. QED
        BY <3>1, EquivalentSelf DEF LacingInvariant, Supercats, IsEquivalentCategory
    <2>3. i \in M
      BY <2>1, <2>2
    <2>4. Len(r) > 0
      BY <1>5, <1>9, <2>3
    <2>5. \A k \in 1..Len(r) : r[k][1] < r[k][2]
      BY <1>4, <1>8 DEF RangesRight
    <2>6. \A k \in 1..(Len(r) - 1) : r[k][2] < r[k + 1][1]
      BY <1>4 DEF RangesRight
    <2>7. r # <<>>
      BY <2>4
    <2>8. QED
      BY <1>5, <2>5, <2>6, <2>7 DEF InOrder
  <1>13. QED
    BY <1>11, <1>12 DEF r

\* The ranges of a category are in increasing order, none empty and no two
\* touching, and a search by them finds, of the nodes that have a lowest
\* category above them, exactly those of the category.
THEOREM RangesAreExact == Spec => []RangesExact
  <1>1. ASSUME LacingInvariant, phase = "ready", NEW c \in Cats \ {Null}
        PROVE  /\ \A x \in Type : HasLowest(x) => (x \in Selected(c) <=> LocalMatchWithNULL(c, x))
               /\ InOrder(ranges[c])
    <2>1. SUFFICES ASSUME NEW x \in Type, HasLowest(x)
                   PROVE  x \in Selected(c) <=> LocalMatchWithNULL(c, x)
      BY <1>1, RangesHold
    <2> DEFINE i == GetOrdinalForNode(x)
    <2>2. HasTree
      BY <1>1 DEF HasTree
    <2>3. i \in DOMAIN order /\ (LocalMatchWithNULL(c, x) <=> c \in supercats[order[i]])
      BY <1>1, <2>1, <2>2, LowestHome DEF LacingInvariant
    <2> HIDE DEF i
    <2>4. c \in supercats[order[i]] <=>
            \E k \in DOMAIN ranges[c] : ~ (i - ranges[c][k][1] < 0) /\ i - ranges[c][k][2] < 0
      BY <1>1, <2>3, RangesHold
    <2>5. x \in Selected(c) <=>
            \E k \in DOMAIN ranges[c] : ~ (i - ranges[c][k][1] < 0) /\ i - ranges[c][k][2] < 0
      BY DEF Selected, LessThanMinimus, i
    <2>6. QED
      BY <2>3, <2>4, <2>5
  <1>2. LacingInvariant => RangesExact
    BY <1>1 DEF RangesExact
  <1>3. QED
    BY <1>2, LacingInvariantHolds, PTL
-----------------------------------------------------------------------------
(* No ASSERT fails.                                                           *)

\* What else is so of the variables in each phase, besides LacingInvariant.
Settled ==
  /\ phase \in {"fixup", "sort", "decide", "test", "ready", "compare", "compared"}
  /\ swapped \in BOOLEAN
  /\ phase = "fixup" => categories = <<>> /\ order = <<>> /\ at = NoTurn
  /\ ~HasRanges => ranges = <<>>
  /\ cmp.turn \in {"left", "right"}
  /\ phase \notin {"compare", "compared"} => cmp = NoCompare

\* Each swap gains what was expected of it, so that the ASSERT holds and the
\* metrics of all joints together become smaller.
LEMMA SwapHolds ==
  ASSUME LacingInvariant, SwapBlocks
  PROVE  phase' = "sort" /\ swapped' = TRUE /\ TotalMetric(order') < TotalMetric(order)
  <1>1. phase = "sort" /\ at # NoTurn /\ Profitable(order, at) /\ order' = BlocksSwapped(order, at)
    BY DEF SwapBlocks
  <1>2. Categorised /\ Laced /\ BlocksInside /\ phase # "fixup"
    BY <1>1 DEF LacingInvariant
  <1>3. ncats \in Nat
    BY <1>2, OrderShape
  <1>4. Inside(at, ncats)
    BY <1>2 DEF Inside, BlocksInside
  <1>5. order \in [0..(ncats - 1) -> Cats] /\ IsInjective(order)
    BY <1>2 DEF Laced
  <1>6. /\ TotalMetric(order) - TotalMetric(order') = CurrMetric(order, at) - MetricIfSwapped(order, at)
        /\ TotalMetric(order) \in Int /\ TotalMetric(order') \in Int
        /\ CurrMetric(order, at) \in Int /\ MetricIfSwapped(order, at) \in Int
    BY <1>1, <1>2, <1>3, <1>4, <1>5, SwapGains
  <1>7. swapped' = TRUE /\ phase' = phase
    BY <1>6, Zenon DEF SwapBlocks
  <1>8. MetricIfSwapped(order, at) < CurrMetric(order, at)
    BY <1>1 DEF Profitable
  <1>9. TotalMetric(order') < TotalMetric(order)
    BY <1>6, <1>8
  <1>10. QED
    BY <1>1, <1>7, <1>9

LEMMA SettledStep ==
  ASSUME LacingInvariant, Settled, [Next]_vars
  PROVE  Settled'
  <1> USE DEF Settled, HasRanges
  <1>1. CASE FixupCategories
    BY <1>1 DEF FixupCategories
  <1>2. CASE SwapBlocks
    <2>1. phase = "sort" /\ UNCHANGED <<ranges, cmp>>
      BY <1>2 DEF SwapBlocks
    <2>2. phase' = "sort" /\ swapped' = TRUE
      BY <1>2, SwapHolds
    <2>3. QED
      BY <2>1, <2>2
  <1>3. CASE LeaveBlocks
    BY <1>3 DEF LeaveBlocks
  <1>4. CASE SortAgain
    BY <1>4 DEF SortAgain
  <1>5. CASE BuildRanges
    BY <1>5 DEF BuildRanges
  <1>6. CASE BuildDecisionTree
    <2>1. phase = "decide" /\ UNCHANGED <<swapped, ranges, cmp>> /\ phase' \in {"test", "aborted"}
      BY <1>6 DEF BuildDecisionTree
    <2>2. phase' # "aborted"
      BY <1>6, DecideStep
    <2>3. QED
      BY <2>1, <2>2
  <1>7. CASE TestDecisionTree
    <2>1. phase = "test" /\ UNCHANGED <<swapped, ranges, cmp>> /\ phase' \in {"ready", "aborted"}
      BY <1>7 DEF TestDecisionTree
    <2>2. phase' # "aborted"
      BY <1>7, TestStep
    <2>3. QED
      BY <2>1, <2>2
  <1>8. CASE StartCompare
    <2>1. phase = "ready" /\ phase' = "compare" /\ cmp'.turn = "left" /\ UNCHANGED <<swapped, ranges>>
      BY <1>8 DEF StartCompare
    <2>2. QED
      BY <2>1
  <1>9. CASE AdvanceLeft
    <2>1. phase = "compare" /\ phase' \in {"compare", "compared"} /\ UNCHANGED <<swapped, ranges>>
      BY <1>9 DEF AdvanceLeft
    <2>2. DOMAIN cmp = DOMAIN NoCompare
      BY <2>1 DEF LacingInvariant, Comparing
    <2>3. cmp'.turn = "right"
      BY <1>9, <2>2 DEF AdvanceLeft, NoCompare
    <2>4. QED
      BY <2>1, <2>3
  <1>10. CASE AdvanceRight
    <2>1. phase = "compare" /\ phase' \in {"compare", "compared"} /\ UNCHANGED <<swapped, ranges>>
      BY <1>10 DEF AdvanceRight
    <2>2. DOMAIN cmp = DOMAIN NoCompare
      BY <2>1 DEF LacingInvariant, Comparing
    <2>3. cmp'.turn = "left"
      BY <1>10, <2>2 DEF AdvanceRight, NoCompare
    <2>4. QED
      BY <2>1, <2>3
  <1>11. CASE ReturnDiff
    BY <1>11 DEF ReturnDiff, NoCompare
  <1>12. CASE UNCHANGED vars
    BY <1>12 DEF vars
  <1>13. QED
    BY <1>1, <1>2, <1>3, <1>4, <1>5, <1>6, <1>7, <1>8, <1>9, <1>10, <1>11, <1>12 DEF Next, Build, Compare

\* The places of a comparison are sets of ordinals.
LEMMA PlacesInOrder ==
  ASSUME LacingInvariant, Settled
  PROVE  cmp.lat \cup cmp.rat \subseteq 0..(ncats - 1)
  <1>1. CASE phase \in {"compare", "compared"}
    <2>1. HasTree /\ phase # "fixup"
      BY <1>1 DEF HasTree
    <2>2. DOMAIN order = 0..(ncats - 1)
      BY <2>1, OrderShape DEF LacingInvariant
    <2>3. \A S : IsPlace(S) => S \subseteq DOMAIN order
      BY <2>1 DEF LacingInvariant, TreeSplits, IsPlace
    <2>4. /\ cmp.lat = {} \/ IsPlace(cmp.lat)
          /\ cmp.rat = {} \/ IsPlace(cmp.rat)
      BY <1>1 DEF LacingInvariant, Comparing, OnItsWay, NoDecision
    <2>5. QED
      BY <2>2, <2>3, <2>4
  <1>2. CASE phase \notin {"compare", "compared"}
    BY <1>2 DEF Settled, NoCompare, NoDecision
  <1>3. QED
    BY <1>1, <1>2

LEMMA SeqWithin ==
  ASSUME NEW V, NEW U, NEW r \in Seq(U), \A k \in 1..Len(r) : r[k] \in V
  PROVE  r \in Seq(V)
  OBVIOUS

LEMMA RangesInOrder ==
  ASSUME LacingInvariant, Settled
  PROVE  \A c \in DOMAIN ranges : ranges[c] \in Seq((0..ncats) \X (0..ncats))
  <1>1. CASE ~HasRanges
    BY <1>1 DEF Settled
  <1>2. CASE HasRanges
    <2>1. SUFFICES ASSUME NEW c \in DOMAIN ranges
                   PROVE  ranges[c] \in Seq((0..ncats) \X (0..ncats))
      OBVIOUS
    <2>2. c \in Cats \ {Null} /\ phase # "fixup"
      BY <1>2 DEF LacingInvariant, Ranged, RangeLists, HasRanges
    <2>3. ncats \in Nat
      BY <2>2, OrderShape DEF LacingInvariant
    <2> DEFINE r == ranges[c]
    <2>4. /\ RangesRight(r, {i \in DOMAIN order : c \in supercats[order[i]]}, ncats + 1)
          /\ \A k \in 1..Len(r) : r[k][2] # -1
      BY <1>2, <2>2, RangesClosed
    <2> HIDE DEF r
    <2>5. /\ r \in Seq(Int \X Int) /\ Len(r) \in Nat
          /\ \A k \in 1..Len(r) : 0 <= r[k][1] /\ r[k][1] < ncats + 1 /\ r[k][1] < r[k][2] /\ r[k][2] < ncats + 1
      BY <2>4 DEF RangesRight
    <2>6. \A k \in 1..Len(r) : r[k] \in (0..ncats) \X (0..ncats)
      <3>1. SUFFICES ASSUME NEW k \in 1..Len(r)
                     PROVE  r[k] \in (0..ncats) \X (0..ncats)
        OBVIOUS
      <3>2. r[k] \in Int \X Int
        BY <2>5, ElementOfSeq
      <3>3. PICK a \in Int, b \in Int : r[k] = <<a, b>>
        BY <3>2
      <3>4. 0 <= a /\ a < ncats + 1 /\ a < b /\ b < ncats + 1
        BY <2>5, <3>3
      <3>5. a \in 0..ncats /\ b \in 0..ncats
        BY <2>3, <3>4
      <3>6. QED
        BY <3>3, <3>5
    <2>7. r \in Seq((0..ncats) \X (0..ncats))
      BY <2>5, <2>6, SeqWithin
    <2>8. QED
      BY <2>7 DEF r
  <1>3. QED
    BY <1>1, <1>2

LEMMA Typed ==
  ASSUME LacingInvariant, Settled
  PROVE  TypeOK
  <1>1. Cats \subseteq Type \cup {Null} /\ order \in [0..(ncats - 1) -> Cats]
    <2>1. CASE phase = "fixup"
      <3>1. categories = <<>> /\ order = <<>>
        BY <2>1 DEF Settled
      <3>2. ncats = 0 /\ Cats = {}
        BY <3>1 DEF ncats, Cats, ToSet
      <3>3. 0..(ncats - 1) = {} /\ DOMAIN order = {}
        BY <3>1, <3>2
      <3>4. order = [k \in {} |-> order[k]]
        BY <3>1
      <3>5. QED
        BY <3>2, <3>3, <3>4
    <2>2. CASE phase # "fixup"
      BY <2>2, OrderShape DEF LacingInvariant, Laced
    <2>3. QED
      BY <2>1, <2>2
  <1>2. ncats \in Nat
    <2>1. CASE phase = "fixup"
      BY <2>1 DEF Settled, ncats
    <2>2. CASE phase # "fixup"
      BY <2>2, OrderShape DEF LacingInvariant
    <2>3. QED
      BY <2>1, <2>2
  <1>3. at \in [bs : 0..(ncats \div 2), i : 0..ncats, j : 0..ncats]
    <2>1. CASE at = NoTurn
      BY <1>2, <2>1 DEF NoTurn
    <2>2. CASE at # NoTurn
      <3>1. /\ at \in [bs : Nat, i : Nat, j : Nat]
            /\ at.bs > 0 /\ at.j + at.bs <= at.i /\ at.i + at.bs <= ncats
        BY <2>2 DEF LacingInvariant, BlocksInside
      <3>2. at.bs \in 0..(ncats \div 2) /\ at.i \in 0..ncats /\ at.j \in 0..ncats
        <4>1. \A bs, i, j \in Nat : j + bs <= i /\ i + bs <= ncats =>
                 bs \in 0..(ncats \div 2) /\ i \in 0..ncats /\ j \in 0..ncats
          BY <1>2
        <4>2. at.bs \in Nat /\ at.i \in Nat /\ at.j \in Nat
          BY <3>1
        <4>3. QED
          BY <3>1, <4>1, <4>2
      <3>3. QED
        BY <3>1, <3>2
    <2>3. QED
      BY <2>1, <2>2
  <1>4. QED
    BY <1>1, <1>3, PlacesInOrder, RangesInOrder DEF TypeOK, Settled

\* Build() never fails an ASSERT: not when Sort() checks what a swap gained,
\* not when MakeDecisionSubtree() looks for a category that splits, and not
\* when TestDecisionTree() looks up each category.
THEOREM BuildNeverAborts == Spec => []NeverAborts
  <1>1. Init => LacingInvariant /\ Settled
    <2>1. NoCompare.turn = "left"
      BY DEF NoCompare
    <2>2. QED
      BY <2>1, StartsWell DEF Init, Settled, HasRanges
  <1>2. LacingInvariant /\ Settled /\ [Next]_vars => (LacingInvariant /\ Settled)'
    BY EachStep, SettledStep
  <1>3. LacingInvariant /\ Settled => NeverAborts
    BY Typed DEF NeverAborts, LacingInvariant, Settled
  <1>4. QED
    BY <1>1, <1>2, <1>3, PTL DEF Spec

\* Each swap of Sort() makes the sum of the metrics of all joints smaller,
\* though it is chosen by a formula for a few of them: no order comes back.
THEOREM SwapsAlwaysGain == Spec => [][SwapBlocks => TotalMetric(order') < TotalMetric(order)]_vars
  <1>1. LacingInvariant => [SwapBlocks => TotalMetric(order') < TotalMetric(order)]_vars
    BY SwapHolds
  <1>2. QED
    BY <1>1, LacingInvariantHolds, PTL
=============================================================================
