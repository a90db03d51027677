-------------------------- MODULE TreeZones_proofs --------------------------
(****************************************************************************)
(* What the structure of the trees in TreeZones means for walks: slots are  *)
(* the vertices of a forest, the slots of the node that a slot points to    *)
(* are its children. Leaves may be shared, they have no slots.              *)
(****************************************************************************)
EXTENDS TreeZones, FiniteSetTheorems, WellFoundedInduction, TLAPS

\* kids[s] are the slots right below slot s.
IsKids(kids) == kids \in [DOMAIN kids -> SUBSET DOMAIN kids]

\* C has, with each slot, what is below it.
Closed(kids, C) == \A s \in C : kids[s] \subseteq C

\* What a walk from the slots A meets: the least closed set around them.
Reach(kids, A) ==
  {q \in DOMAIN kids : \A C \in SUBSET DOMAIN kids : A \subseteq C /\ Closed(kids, C) => q \in C}

\* What is strictly below slots of S.
Below(kids, S) == Reach(kids, UNION {kids[s] : s \in S})

Forest(kids, roots) ==
  /\ IsKids(kids) /\ roots \subseteq DOMAIN kids
  /\ \A s, t \in DOMAIN kids : kids[s] \cap kids[t] # {} => s = t
  /\ \A s \in DOMAIN kids : kids[s] \cap roots = {}
  /\ Reach(kids, roots) = DOMAIN kids

-----------------------------------------------------------------------------
(* Reach is a closure. *)

LEMMA ReachIsLeast ==
  ASSUME NEW kids, IsKids(kids), NEW A \in SUBSET DOMAIN kids
  PROVE  /\ Reach(kids, A) \subseteq DOMAIN kids
         /\ A \subseteq Reach(kids, A)
         /\ Closed(kids, Reach(kids, A))
         /\ \A C \in SUBSET DOMAIN kids : A \subseteq C /\ Closed(kids, C) => Reach(kids, A) \subseteq C
  <1>1. A \subseteq Reach(kids, A)
    BY DEF Reach
  <1>2. ASSUME NEW s \in Reach(kids, A), NEW k \in kids[s]
        PROVE  k \in Reach(kids, A)
    <2>1. k \in DOMAIN kids
      BY <1>2 DEF Reach, IsKids
    <2>2. ASSUME NEW C \in SUBSET DOMAIN kids, A \subseteq C, Closed(kids, C)
          PROVE  k \in C
      <3>1. s \in C
        BY <2>2 DEF Reach
      <3>2. QED
        BY <3>1, <2>2 DEF Closed
    <2>3. QED
      BY <2>1, <2>2 DEF Reach
  <1>3. QED
    BY <1>1, <1>2 DEF Reach, Closed

LEMMA ReachGrows ==
  ASSUME NEW kids, IsKids(kids), NEW B \in SUBSET DOMAIN kids, NEW A \in SUBSET Reach(kids, B)
  PROVE  Reach(kids, A) \subseteq Reach(kids, B)
  <1>1. Reach(kids, B) \subseteq DOMAIN kids /\ Closed(kids, Reach(kids, B))
    BY ReachIsLeast
  <1>2. QED
    BY <1>1 DEF Reach

\* What is reached is where the walk began or a child of what is reached.
LEMMA ReachedFrom ==
  ASSUME NEW kids, IsKids(kids), NEW A \in SUBSET DOMAIN kids, NEW q \in Reach(kids, A), q \notin A
  PROVE  \E p \in Reach(kids, A) : q \in kids[p]
  <1> DEFINE C == {r \in Reach(kids, A) : r \in A \/ \E p \in Reach(kids, A) : r \in kids[p]}
  <1>1. C \subseteq DOMAIN kids /\ A \subseteq C
    BY ReachIsLeast
  <1>2. Closed(kids, C)
    BY ReachIsLeast DEF Closed
  <1>3. q \in C
    BY <1>1, <1>2, ReachIsLeast
  <1>4. QED
    BY <1>3

\* A walk from the slots A is the walks from each of them.
LEMMA ReachIsUnion ==
  ASSUME NEW kids, IsKids(kids), NEW A \in SUBSET DOMAIN kids
  PROVE  Reach(kids, A) = UNION {Reach(kids, {a}) : a \in A}
  <1> DEFINE C == UNION {Reach(kids, {a}) : a \in A}
  <1>1. \A a \in A : /\ a \in Reach(kids, {a}) /\ Closed(kids, Reach(kids, {a}))
                     /\ Reach(kids, {a}) \subseteq Reach(kids, A)
    <2>1. TAKE a \in A
    <2>2. {a} \in SUBSET DOMAIN kids /\ {a} \in SUBSET Reach(kids, A)
      BY ReachIsLeast
    <2>3. QED
      BY <2>2, ReachIsLeast, ReachGrows
  <1>2. C \in SUBSET DOMAIN kids /\ A \subseteq C /\ Closed(kids, C)
    <2>1. C \in SUBSET DOMAIN kids /\ A \subseteq C
      BY <1>1 DEF Reach
    <2>2. ASSUME NEW s \in C PROVE kids[s] \subseteq C
      BY <1>1 DEF Closed
    <2>3. QED
      BY <2>1, <2>2 DEF Closed
  <1>3. \A D \in SUBSET DOMAIN kids : A \subseteq D /\ Closed(kids, D) => Reach(kids, A) \subseteq D
    BY ReachIsLeast
  <1>4. Reach(kids, A) \subseteq C
    <2> HIDE DEF C
    <2>1. QED
      BY <1>2, <1>3
  <1>5. QED
    BY <1>1, <1>4

\* A walk meets its first slot and what it meets from the children on.
LEMMA ReachStep ==
  ASSUME NEW kids, IsKids(kids), NEW s \in DOMAIN kids
  PROVE  /\ Reach(kids, {s}) = {s} \cup UNION {Reach(kids, {k}) : k \in kids[s]}
         /\ Below(kids, {s}) = UNION {Reach(kids, {k}) : k \in kids[s]}
  <1> DEFINE B == Below(kids, {s})
  <1>1. kids[s] \in SUBSET DOMAIN kids /\ {s} \in SUBSET DOMAIN kids
    BY DEF IsKids
  <1>2. UNION {kids[t] : t \in {s}} = kids[s]
    OBVIOUS
  <1>3. B = UNION {Reach(kids, {k}) : k \in kids[s]}
    BY <1>1, <1>2, ReachIsUnion DEF Below
  <1>4. Closed(kids, {s} \cup B) /\ {s} \cup B \in SUBSET DOMAIN kids
    BY <1>1, <1>2, ReachIsLeast DEF Below, Closed
  <1>5. Reach(kids, {s}) \subseteq {s} \cup B
    BY <1>1, <1>4, ReachIsLeast
  <1>6. s \in Reach(kids, {s}) /\ kids[s] \in SUBSET Reach(kids, {s})
    BY <1>1, ReachIsLeast DEF Closed
  <1>7. B \subseteq Reach(kids, {s})
    BY <1>1, <1>2, <1>6, ReachGrows DEF Below
  <1>8. QED
    BY <1>3, <1>5, <1>6, <1>7

-----------------------------------------------------------------------------
(* Forests. *)

\* No slot is below itself.
LEMMA NoCycles ==
  ASSUME NEW kids, NEW roots, Forest(kids, roots), NEW s \in DOMAIN kids
  PROVE  s \notin Below(kids, {s})
  <1> DEFINE C == {q \in DOMAIN kids : q \notin Below(kids, {q})}
  <1>1. \A q \in DOMAIN kids : /\ kids[q] \in SUBSET DOMAIN kids
                               /\ UNION {kids[t] : t \in {q}} = kids[q]
    BY DEF Forest, IsKids
  <1>2. roots \subseteq C
    <2>1. SUFFICES ASSUME NEW r \in roots, r \in Below(kids, {r}) PROVE FALSE
      BY DEF Forest
    <2>2. r \in Reach(kids, kids[r]) /\ kids[r] \in SUBSET DOMAIN kids /\ r \in DOMAIN kids
      BY <2>1, <1>1 DEF Below, Forest
    <2>3. r \notin kids[r]
      BY <2>2 DEF Forest
    <2>4. PICK p \in Reach(kids, kids[r]) : r \in kids[p]
      BY <2>2, <2>3, ReachedFrom DEF Forest
    <2>5. p \in DOMAIN kids
      BY <2>4 DEF Reach
    <2>6. QED
      BY <2>4, <2>5 DEF Forest
  <1>3. Closed(kids, C)
    <2>1. SUFFICES ASSUME NEW q \in C, NEW k \in kids[q], k \in Below(kids, {k}) PROVE FALSE
      BY <1>1 DEF Closed
    <2>2. k \in DOMAIN kids /\ q \in DOMAIN kids /\ IsKids(kids)
      BY <1>1 DEF Forest
    <2>3. k \in UNION {Reach(kids, {j}) : j \in kids[k]} /\ Reach(kids, {k}) = {k} \cup Below(kids, {k})
      BY <2>1, <2>2, ReachStep
    <2>4. PICK p \in Reach(kids, {k}) : k \in kids[p]
      <3>1. PICK j \in kids[k] : k \in Reach(kids, {j})
        BY <2>3
      <3>2. j \in DOMAIN kids
        BY <1>1, <2>2
      <3>3. CASE j = k
        <4>1. k \in Reach(kids, {k})
          BY <3>1, <3>3
        <4>2. QED
          BY <4>1, <3>1, <3>3
      <3>4. CASE j # k
        <4>1. PICK p \in Reach(kids, {j}) : k \in kids[p]
          BY <3>1, <3>2, <3>4, <2>2, ReachedFrom
        <4>2. Reach(kids, {j}) \subseteq Reach(kids, {k})
          BY <2>2, <3>1, ReachStep
        <4>3. QED
          BY <4>1, <4>2
      <3>5. QED
        BY <3>3, <3>4
    <2>5. p = q
      BY <2>4, <2>2, <2>1 DEF Reach, Forest
    <2>6. Reach(kids, {k}) \subseteq Below(kids, {q})
      BY <2>1, <2>2, ReachStep
    <2>7. QED
      BY <2>4, <2>5, <2>6, <2>1
  <1>4. C = DOMAIN kids
    <2>1. C \in SUBSET DOMAIN kids /\ IsKids(kids) /\ roots \in SUBSET DOMAIN kids
          /\ Reach(kids, roots) = DOMAIN kids
      BY DEF Forest
    <2> HIDE DEF C
    <2>2. QED
      BY <2>1, <1>2, <1>3, ReachIsLeast
  <1>5. QED
    BY <1>4

\* Trees have no slots in common.
LEMMA RootsApart ==
  ASSUME NEW kids, NEW roots, Forest(kids, roots), NEW q \in roots, NEW r \in roots, q # r
  PROVE  Reach(kids, {q}) \cap Reach(kids, {r}) = {}
  <1> DEFINE C == {s \in DOMAIN kids : ~(s \in Reach(kids, {q}) /\ s \in Reach(kids, {r}))}
  <1>1. IsKids(kids) /\ {q} \in SUBSET DOMAIN kids /\ {r} \in SUBSET DOMAIN kids
    BY DEF Forest
  <1>2. ASSUME NEW t \in roots, NEW s \in roots, s \in Reach(kids, {t})
        PROVE  s = t
    <2>1. SUFFICES ASSUME s # t PROVE FALSE
      OBVIOUS
    <2>2. PICK p \in Reach(kids, {t}) : s \in kids[p]
      BY <1>2, <2>1, ReachedFrom DEF Forest
    <2>3. QED
      BY <2>2 DEF Reach, Forest
  <1>3. roots \subseteq C
    BY <1>2 DEF Forest
  <1>4. Closed(kids, C)
    <2>1. SUFFICES ASSUME NEW s \in C, NEW k \in kids[s],
                          k \in Reach(kids, {q}), k \in Reach(kids, {r})
                   PROVE  FALSE
      BY <1>1 DEF Closed, IsKids
    <2>2. k \notin roots
      BY DEF Forest
    <2>3. PICK p \in Reach(kids, {q}) : k \in kids[p]
      BY <1>1, <2>1, <2>2, ReachedFrom
    <2>4. PICK u \in Reach(kids, {r}) : k \in kids[u]
      BY <1>1, <2>1, <2>2, ReachedFrom
    <2>5. p = s /\ u = s
      BY <2>3, <2>4 DEF Forest, Reach
    <2>6. QED
      BY <2>3, <2>4, <2>5
  <1>5. C = DOMAIN kids
    BY <1>3, <1>4, ReachIsLeast DEF Forest
  <1>6. QED
    BY <1>5 DEF Reach

\* Contents of slots change places: of the bases B among themselves and of the
\* slots T below them, none of which is below another. Whatever was reached
\* still is.
Exchange(kids, swap, B, T) ==
  /\ swap \in [DOMAIN kids -> DOMAIN kids]
  /\ \A s \in DOMAIN kids : swap[swap[s]] = s
  /\ \A s \in DOMAIN kids : s \notin B \cup T => swap[s] = s
  /\ \A s \in B : swap[s] \in B
  /\ \A s \in T : swap[s] \in T
  /\ B \cap Below(kids, B) = {} /\ T \cap Below(kids, T) = {} /\ T \subseteq Below(kids, B)

\* The slots below the slots of S, and these, as far as they are reached.
LEMMA ReachWithout ==
  ASSUME NEW kids, IsKids(kids), NEW S \in SUBSET DOMAIN kids, S \cap Below(kids, S) = {},
         NEW C \in SUBSET DOMAIN kids, NEW A \in SUBSET C, NEW E \in SUBSET Below(kids, S),
         \A s \in C \ (S \cup E) : kids[s] \subseteq C
  PROVE  S \cap Reach(kids, A) \subseteq C
  <1> DEFINE B == Below(kids, S)
             U == UNION {kids[s] : s \in S}
  <1>1. U \in SUBSET DOMAIN kids
    BY DEF IsKids
  <1>2. B \in SUBSET DOMAIN kids /\ U \subseteq B /\ Closed(kids, B)
    BY <1>1, ReachIsLeast DEF Below
  <1>3. Closed(kids, C \cup B)
    BY <1>2 DEF Closed
  <1>4. Reach(kids, A) \subseteq C \cup B
    BY <1>2, <1>3, ReachIsLeast
  <1>5. QED
    BY <1>4

LEMMA ExchangeKeepsReach ==
  ASSUME NEW kids, IsKids(kids), NEW swap, NEW B \in SUBSET DOMAIN kids, NEW T \in SUBSET DOMAIN kids,
         Exchange(kids, swap, B, T),
         NEW A \in SUBSET DOMAIN kids, B \subseteq Reach(kids, A),
         NEW after, after = [s \in DOMAIN kids |-> kids[swap[s]]]
  PROVE  IsKids(after) /\ DOMAIN after = DOMAIN kids /\ Reach(after, A) = Reach(kids, A)
  <1> DEFINE R == Reach(kids, A)
             C == Reach(after, A)
  <1>1. IsKids(after) /\ DOMAIN after = DOMAIN kids
    BY DEF IsKids, Exchange
  <1>2. /\ R \in SUBSET DOMAIN kids /\ A \subseteq R /\ Closed(kids, R)
        /\ C \in SUBSET DOMAIN kids /\ A \subseteq C /\ Closed(after, C)
    BY <1>1, ReachIsLeast
  <1>3. T \subseteq R
    <2>1. UNION {kids[s] : s \in B} \in SUBSET Reach(kids, A)
      BY <1>2 DEF Closed
    <2>2. Below(kids, B) \subseteq R
      BY <2>1, ReachGrows DEF Below
    <2>3. QED
      BY <2>2 DEF Exchange
  <1>4. Closed(after, R)
    <2>1. ASSUME NEW s \in R PROVE swap[s] \in R
      <3>1. s \in DOMAIN kids
        BY <1>2
      <3>2. s \in B \/ s \in T \/ swap[s] = s
        BY <3>1 DEF Exchange
      <3>3. QED
        BY <3>2, <1>3 DEF Exchange
    <2>2. QED
      BY <1>2, <2>1 DEF Closed
  <1>5. C \subseteq R
    BY <1>1, <1>2, <1>4, ReachIsLeast
  <1>6. \A s \in C : /\ swap[s] \in C => kids[s] \subseteq C
                     /\ s \notin B \cup T => kids[s] \subseteq C
    <2>1. TAKE s \in C
    <2>2. ASSUME swap[s] \in C PROVE kids[s] \subseteq C
      BY <1>2, <2>2 DEF Closed, Exchange
    <2>3. s \in DOMAIN kids
      BY <1>2
    <2>4. QED
      BY <2>2, <2>3 DEF Exchange
  <1>7. B \subseteq C
    <2>1. \A s \in C \ (B \cup T) : kids[s] \subseteq C
      BY <1>6
    <2>2. T \in SUBSET Below(kids, B) /\ B \cap Below(kids, B) = {} /\ A \in SUBSET C
      BY <1>2 DEF Exchange
    <2>3. C \in SUBSET DOMAIN kids
      BY <1>2
    <2> HIDE DEF C
    <2>4. B \cap Reach(kids, A) \subseteq C
      BY <2>1, <2>2, <2>3, ReachWithout
    <2>5. QED
      BY <2>4
  <1>8. \A s \in B : kids[s] \subseteq C
    BY <1>6, <1>7 DEF Exchange
  <1>9. T \subseteq C
    <2>1. \A s \in C \ (T \cup {}) : kids[s] \subseteq C
      BY <1>6, <1>8
    <2>2. {} \in SUBSET Below(kids, T) /\ T \cap Below(kids, T) = {} /\ A \in SUBSET C
      BY <1>2 DEF Exchange
    <2>3. C \in SUBSET DOMAIN kids
      BY <1>2
    <2> HIDE DEF C
    <2>4. T \cap Reach(kids, A) \subseteq C
      BY <2>1, <2>2, <2>3, ReachWithout
    <2>5. QED
      BY <2>4, <1>3
  <1>10. Closed(kids, C)
    <2>1. \A s \in T : kids[s] \subseteq C
      BY <1>6, <1>9 DEF Exchange
    <2>2. QED
      BY <1>6, <1>8, <2>1 DEF Closed
  <1>11. R \subseteq C
    BY <1>2, <1>10, ReachIsLeast
  <1>12. QED
    BY <1>1, <1>5, <1>11

\* A forest remains one.
LEMMA ExchangeKeepsForest ==
  ASSUME NEW kids, NEW roots, Forest(kids, roots), NEW swap,
         NEW B \in SUBSET DOMAIN kids, NEW T \in SUBSET DOMAIN kids, Exchange(kids, swap, B, T),
         NEW after, after = [s \in DOMAIN kids |-> kids[swap[s]]]
  PROVE  Forest(after, roots)
  <1>1. IsKids(after) /\ DOMAIN after = DOMAIN kids /\ Reach(after, roots) = DOMAIN kids
    BY ExchangeKeepsReach DEF Forest
  <1>2. ASSUME NEW s \in DOMAIN kids, NEW t \in DOMAIN kids, after[s] \cap after[t] # {}
        PROVE  s = t
    <2>1. swap[s] = swap[t]
      BY <1>2 DEF Forest, Exchange
    <2>2. QED
      BY <2>1 DEF Exchange
  <1>3. QED
    BY <1>1, <1>2 DEF Forest, Exchange

-----------------------------------------------------------------------------
(* Recursive walks, up and down. *)

LEMMA Lowest ==
  ASSUME NEW kids, NEW roots, Forest(kids, roots), IsFiniteSet(DOMAIN kids),
         NEW X \in SUBSET DOMAIN kids, X # {}
  PROVE  \E q \in X : \A k \in kids[q] : k \notin X
  <1> DEFINE size(q) == Cardinality(Reach(kids, {q}))
             N == {size(q) : q \in X}
  <1>1. \A q \in DOMAIN kids : IsFiniteSet(Reach(kids, {q})) /\ size(q) \in Nat
    <2>1. \A q \in DOMAIN kids : Reach(kids, {q}) \subseteq DOMAIN kids
      BY DEF Reach
    <2>2. QED
      BY <2>1, FS_Subset, FS_CardinalityType
  <1>2. ASSUME NEW q \in DOMAIN kids, NEW k \in kids[q]
        PROVE  size(k) < size(q)
    <2>1. k \in DOMAIN kids /\ IsKids(kids)
      BY DEF Forest, IsKids
    <2>2. /\ Reach(kids, {q}) = {q} \cup UNION {Reach(kids, {j}) : j \in kids[q]}
          /\ Below(kids, {q}) = UNION {Reach(kids, {j}) : j \in kids[q]}
      BY <2>1, ReachStep
    <2>3. q \notin Below(kids, {q})
      BY NoCycles
    <2>4. Reach(kids, {k}) \subseteq Reach(kids, {q}) /\ Reach(kids, {k}) # Reach(kids, {q})
      BY <2>2, <2>3
    <2>5. /\ Cardinality(Reach(kids, {k})) <= Cardinality(Reach(kids, {q}))
          /\ Cardinality(Reach(kids, {q})) # Cardinality(Reach(kids, {k}))
      BY <2>4, <1>1, FS_Subset
    <2>6. QED
      BY <2>1, <2>5, <1>1
  <1>3. N \subseteq Nat /\ N # {}
    BY <1>1
  <1>4. PICK n \in N : \A y \in N : ~(<<y, n>> \in OpToRel(<, Nat))
    <2> HIDE DEF N
    <2>1. QED
      BY <1>3, WFMin, NatLessThanWellFounded
  <1>5. \A y \in N : ~(y < n)
    BY <1>3, <1>4 DEF OpToRel
  <1>6. PICK q \in X : n = size(q)
    OBVIOUS
  <1>7. ASSUME NEW k \in kids[q], k \in X PROVE FALSE
    <2>1. size(k) < n /\ size(k) \in N
      BY <1>2, <1>6, <1>7
    <2>2. QED
      BY <2>1, <1>5
  <1>8. QED
    BY <1>7

\* A recursive walk down gives what is reached, and there is such a walk.
WalksDown(kids, f) == f = [q \in DOMAIN kids |-> {q} \cup UNION {f[r] : r \in kids[q]}]

LEMMA WalkExists ==
  ASSUME NEW kids, IsKids(kids)
  PROVE  WalksDown(kids, [q \in DOMAIN kids |-> Reach(kids, {q})])
  <1> DEFINE w == [q \in DOMAIN kids |-> Reach(kids, {q})]
  <1>1. ASSUME NEW q \in DOMAIN kids PROVE w[q] = {q} \cup UNION {w[r] : r \in kids[q]}
    <2>1. {w[r] : r \in kids[q]} = {Reach(kids, {r}) : r \in kids[q]}
      BY DEF IsKids
    <2>2. Reach(kids, {q}) = {q} \cup UNION {Reach(kids, {k}) : k \in kids[q]}
      BY ReachStep
    <2>3. QED
      BY <2>1, <2>2
  <1>2. QED
    BY <1>1 DEF WalksDown

LEMMA WalkIsReach ==
  ASSUME NEW kids, NEW roots, Forest(kids, roots), IsFiniteSet(DOMAIN kids), NEW f, WalksDown(kids, f)
  PROVE  \A q \in DOMAIN kids : f[q] = Reach(kids, {q})
  <1> DEFINE X == {q \in DOMAIN kids : f[q] # Reach(kids, {q})}
  <1>1. \A q \in DOMAIN kids : kids[q] \in SUBSET DOMAIN kids
    BY DEF Forest, IsKids
  <1>2. \A q \in DOMAIN kids :
          Reach(kids, {q}) = {q} \cup UNION {Reach(kids, {k}) : k \in kids[q]}
    BY ReachStep DEF Forest
  <1>3. SUFFICES ASSUME X # {} PROVE FALSE
    OBVIOUS
  <1>4. PICK q \in X : \A k \in kids[q] : k \notin X
    <2>1. X \in SUBSET DOMAIN kids
      OBVIOUS
    <2> HIDE DEF X
    <2>2. QED
      BY <2>1, <1>3, Lowest
  <1>5. {f[r] : r \in kids[q]} = {Reach(kids, {r}) : r \in kids[q]}
    BY <1>4, <1>1
  <1>6. f[q] = {q} \cup UNION {f[r] : r \in kids[q]}
    BY DEF WalksDown
  <1>7. QED
    BY <1>5, <1>6, <1>2

Extended(v, x) == IF v = <<>> THEN <<>> ELSE Append(v, x)

\* Slots with what a recursive walk up to the root gives.
Upward(kids, roots, first, pos, f) ==
  /\ \A r \in roots : f[r] = first[r]
  /\ \A s \in DOMAIN kids : \A k \in kids[s] : f[k] = Extended(f[s], pos[k])

\* The same for as many slots as lie on the way to s.
UpwardOnWay(kids, roots, first, pos, s, f) ==
  /\ s \in DOMAIN f /\ DOMAIN f \subseteq DOMAIN kids
  /\ \A r \in roots \cap DOMAIN f : f[r] = first[r]
  /\ \A p \in DOMAIN kids : \A k \in kids[p] \cap DOMAIN f :
        p \in DOMAIN f /\ f[k] = Extended(f[p], pos[k])

LEMMA UpwardUnique ==
  ASSUME NEW kids, NEW roots, Forest(kids, roots), NEW first, NEW pos
  PROVE  \A s \in DOMAIN kids : \A f, g :
            UpwardOnWay(kids, roots, first, pos, s, f) /\ UpwardOnWay(kids, roots, first, pos, s, g)
              => f[s] = g[s]
  <1> DEFINE On(s, f) == UpwardOnWay(kids, roots, first, pos, s, f)
             C == {s \in DOMAIN kids : \A f, g : On(s, f) /\ On(s, g) => f[s] = g[s]}
  <1>1. roots \subseteq C
    BY DEF Forest, UpwardOnWay
  <1>2. Closed(kids, C)
    <2>1. ASSUME NEW s \in C, NEW k \in kids[s] PROVE k \in C
      <3>1. s \in DOMAIN kids /\ k \in DOMAIN kids
        BY DEF Forest, IsKids
      <3>2. ASSUME NEW f, NEW g, On(k, f), On(k, g) PROVE f[k] = g[k]
        <4>1. /\ On(s, f) /\ f[k] = Extended(f[s], pos[k])
              /\ On(s, g) /\ g[k] = Extended(g[s], pos[k])
          BY <3>1, <3>2 DEF UpwardOnWay
        <4>2. f[s] = g[s]
          BY <4>1
        <4>3. QED
          BY <4>1, <4>2
      <3>3. QED
        BY <3>1, <3>2
    <2>2. QED
      BY <2>1 DEF Closed
  <1>3. DOMAIN kids \subseteq C
    <2>1. C \in SUBSET DOMAIN kids /\ IsKids(kids) /\ roots \in SUBSET DOMAIN kids
          /\ Reach(kids, roots) = DOMAIN kids
      BY DEF Forest
    <2> HIDE DEF C
    <2>2. QED
      BY <2>1, <1>1, <1>2, ReachIsLeast
  <1>4. QED
    BY <1>3

LEMMA UpwardExists ==
  ASSUME NEW kids, NEW roots, Forest(kids, roots), NEW first, NEW pos
  PROVE  \E f : f = [s \in DOMAIN kids |-> f[s]] /\ Upward(kids, roots, first, pos, f)
  <1> DEFINE On(s, f) == UpwardOnWay(kids, roots, first, pos, s, f)
             C == {s \in DOMAIN kids : \E f : On(s, f)}
             F == [s \in DOMAIN kids |-> (CHOOSE f : On(s, f))[s]]
  <1>1. ASSUME NEW r \in roots PROVE r \in C
    <2> DEFINE f == [x \in {r} |-> first[r]]
    <2>1. r \in DOMAIN kids
      BY DEF Forest
    <2>2. ASSUME NEW p \in DOMAIN kids, NEW k \in kids[p] \cap DOMAIN f PROVE FALSE
      BY <2>2 DEF Forest
    <2>3. On(r, f)
      BY <2>1, <2>2 DEF UpwardOnWay
    <2>4. QED
      BY <2>1, <2>3
  <1>2. Closed(kids, C)
    <2>1. SUFFICES ASSUME NEW s \in C, NEW k \in kids[s] PROVE k \in C
      BY DEF Closed
    <2>2. s \in DOMAIN kids /\ k \in DOMAIN kids /\ k \notin roots
      BY DEF Forest, IsKids
    <2>3. PICK f : On(s, f)
      OBVIOUS
    <2>4. CASE k \in DOMAIN f
      <3>1. On(k, f)
        BY <2>3, <2>4 DEF UpwardOnWay
      <3>2. QED
        BY <3>1, <2>2
    <2>5. CASE k \notin DOMAIN f
      <3> DEFINE g == [x \in DOMAIN f \cup {k} |-> IF x = k THEN Extended(f[s], pos[k]) ELSE f[x]]
      <3>1. s \in DOMAIN f /\ s # k /\ DOMAIN g \subseteq DOMAIN kids /\ k \in DOMAIN g
        BY <2>2, <2>3, <2>5 DEF UpwardOnWay
      <3>2. \A r \in roots \cap DOMAIN g : g[r] = first[r]
        BY <2>2, <2>3 DEF UpwardOnWay
      <3>3. ASSUME NEW p \in DOMAIN kids, NEW j \in kids[p] \cap DOMAIN g
            PROVE  p \in DOMAIN g /\ g[j] = Extended(g[p], pos[j])
        <4>1. CASE j = k
          <5>1. p = s
            BY <4>1, <2>2 DEF Forest
          <5>2. QED
            BY <5>1, <4>1, <3>1
        <4>2. CASE j # k
          <5>1. j \in DOMAIN f
            BY <4>2
          <5>2. p \in DOMAIN f /\ f[j] = Extended(f[p], pos[j])
            BY <5>1, <2>3 DEF UpwardOnWay
          <5>3. p # k
            BY <5>2, <2>5
          <5>4. QED
            BY <5>1, <5>2, <5>3, <4>2
        <4>3. QED
          BY <4>1, <4>2
      <3>4. On(k, g)
        BY <3>1, <3>2, <3>3 DEF UpwardOnWay
      <3>5. QED
        BY <3>4, <2>2
    <2>6. QED
      BY <2>4, <2>5
  <1>3. DOMAIN kids \subseteq C
    <2>1. C \in SUBSET DOMAIN kids /\ IsKids(kids) /\ roots \in SUBSET DOMAIN kids
          /\ Reach(kids, roots) = DOMAIN kids
      BY DEF Forest
    <2> HIDE DEF C
    <2>2. QED
      BY <2>1, <1>1, <1>2, ReachIsLeast
  <1>4. \A s \in DOMAIN kids : On(s, CHOOSE f : On(s, f))
    BY <1>3
  <1>5. \A s \in DOMAIN kids : \A f : On(s, f) => F[s] = f[s]
    <2>1. TAKE s \in DOMAIN kids
    <2>2. TAKE f
    <2>3. HAVE On(s, f)
    <2> DEFINE h == CHOOSE g : On(s, g)
    <2>4. On(s, h) /\ F[s] = h[s]
      BY <1>4
    <2> HIDE DEF h
    <2>5. h[s] = f[s]
      BY <2>3, <2>4, UpwardUnique
    <2>6. QED
      BY <2>4, <2>5
  <1>6. \A r \in roots : F[r] = first[r]
    BY <1>4, <1>5 DEF UpwardOnWay, Forest
  <1>7. ASSUME NEW s \in DOMAIN kids, NEW k \in kids[s] PROVE F[k] = Extended(F[s], pos[k])
    <2>1. k \in DOMAIN kids
      BY DEF Forest, IsKids
    <2>2. PICK f : On(k, f)
      BY <2>1, <1>4
    <2>3. On(s, f) /\ f[k] = Extended(f[s], pos[k])
      BY <2>2 DEF UpwardOnWay
    <2>4. F[k] = f[k] /\ F[s] = f[s]
      BY <2>1, <2>2, <2>3, <1>5
    <2>5. QED
      BY <2>3, <2>4
  <1>8. F = [s \in DOMAIN kids |-> F[s]]
    OBVIOUS
  <1> HIDE DEF F
  <1>9. Upward(kids, roots, first, pos, F)
    BY <1>6, <1>7 DEF Upward
  <1>10. QED
    BY <1>8, <1>9

-----------------------------------------------------------------------------
(* A memory without placeholders as a forest. *)

Slots == Nat \X Nat

SlotsBelow(m) == [s \in DOMAIN m.at |-> ToSet(m.slots[m.at[s]])]

RootSlots(m) == {s \in DOMAIN m.at : s[1] = 0}

\* The slots are those of the nodes and the roots of the trees made so far.
SlotsPlaced(m) ==
  /\ DOMAIN m = {"label", "slots", "at", "type", "freed"}
  /\ m.label \in Seq(Nat)
  /\ m.slots \in [1..Len(m.label) -> Seq(Slots)]
  /\ \A n \in 1..Len(m.label) : \A i \in DOMAIN m.slots[n] : m.slots[n][i] = <<n, i>>
  /\ DOMAIN m.at \subseteq Slots /\ IsFiniteSet(DOMAIN m.at)
  /\ \A s \in DOMAIN m.at : s[1] # 0 => s[1] \in 1..Len(m.label) /\ s[2] \in DOMAIN m.slots[s[1]]
  /\ \A n \in 1..Len(m.label) : ToSet(m.slots[n]) \subseteq DOMAIN m.at
  /\ m.at \in [DOMAIN m.at -> 1..Len(m.label)]

TreesNumbered(m) ==
  /\ \E T \in Nat : RootSlots(m) = {<<0, t>> : t \in 1..T}
  /\ \A t \in DOMAIN m.type : <<0, t>> \in DOMAIN m.at

Wooded(m) == SlotsPlaced(m) /\ TreesNumbered(m) /\ Forest(SlotsBelow(m), RootSlots(m))

\* A slot is below another when that one points to its node.
LEMMA SlotBelow ==
  ASSUME NEW m, SlotsPlaced(m)
  PROVE  /\ IsKids(SlotsBelow(m)) /\ DOMAIN SlotsBelow(m) = DOMAIN m.at
         /\ \A p, s \in DOMAIN m.at :
              s \in SlotsBelow(m)[p] <=> s[1] # 0 /\ m.at[p] = s[1]
         /\ \A s \in DOMAIN m.at : s[1] # 0 =>
              s = m.slots[s[1]][s[2]] /\ Position(s, m.slots[s[1]]) = s[2] /\ s = <<s[1], s[2]>>
  <1>1. \A p \in DOMAIN m.at : /\ m.at[p] \in 1..Len(m.label)
                               /\ SlotsBelow(m)[p] = ToSet(m.slots[m.at[p]])
                               /\ SlotsBelow(m)[p] \subseteq DOMAIN m.at
    BY DEF SlotsPlaced, SlotsBelow
  <1>2. ASSUME NEW s \in DOMAIN m.at, s[1] # 0
        PROVE  /\ s[1] \in 1..Len(m.label) /\ s[2] \in DOMAIN m.slots[s[1]] /\ s = <<s[1], s[2]>>
               /\ m.slots[s[1]][s[2]] = s
    <2>1. s[1] \in 1..Len(m.label) /\ s[2] \in DOMAIN m.slots[s[1]]
      BY <1>2 DEF SlotsPlaced
    <2>2. s \in Nat \X Nat
      BY DEF SlotsPlaced, Slots
    <2>3. s = <<s[1], s[2]>>
      BY <2>2
    <2>4. m.slots[s[1]][s[2]] = <<s[1], s[2]>>
      BY <2>1 DEF SlotsPlaced
    <2>5. QED
      BY <2>1, <2>3, <2>4
  <1>3. ASSUME NEW s \in DOMAIN m.at, s[1] # 0
        PROVE  Position(s, m.slots[s[1]]) = s[2]
    <2> DEFINE row == m.slots[s[1]]
    <2>1. \A i \in DOMAIN row : row[i] = s => i = s[2]
      <3>1. \A i \in DOMAIN row : row[i] = <<s[1], i>>
        BY <1>2, <1>3 DEF SlotsPlaced
      <3>2. TAKE i \in DOMAIN row
      <3>3. HAVE row[i] = s
      <3>4. <<s[1], i>> = <<s[1], s[2]>>
        BY <3>1, <3>3, <1>2, <1>3
      <3>5. QED
        BY <3>4
    <2>2. s[2] \in DOMAIN row /\ row[s[2]] = s
      BY <1>2, <1>3
    <2> HIDE DEF row
    <2>3. Position(s, row) = s[2]
      BY <2>1, <2>2 DEF Position
    <2>4. QED
      BY <2>3 DEF row
  <1>4. ASSUME NEW p \in DOMAIN m.at, NEW s \in SlotsBelow(m)[p]
        PROVE  s[1] # 0 /\ m.at[p] = s[1]
    <2>1. PICK i \in DOMAIN m.slots[m.at[p]] : s = m.slots[m.at[p]][i]
      BY <1>1, <1>4 DEF ToSet
    <2>2. s = <<m.at[p], i>>
      BY <2>1, <1>1 DEF SlotsPlaced
    <2>3. m.at[p] # 0
      BY <1>1
    <2>4. QED
      BY <2>2, <2>3
  <1>5. ASSUME NEW p \in DOMAIN m.at, NEW s \in DOMAIN m.at, s[1] # 0, m.at[p] = s[1]
        PROVE  s \in SlotsBelow(m)[p]
    <2>1. s[2] \in DOMAIN m.slots[m.at[p]] /\ m.slots[m.at[p]][s[2]] = s
      BY <1>2, <1>5
    <2>2. s \in ToSet(m.slots[m.at[p]])
      BY <2>1 DEF ToSet
    <2>3. QED
      BY <2>2, <1>1
  <1>6. IsKids(SlotsBelow(m)) /\ DOMAIN SlotsBelow(m) = DOMAIN m.at
    BY <1>1 DEF IsKids, SlotsBelow
  <1>7. QED
    BY <1>2, <1>3, <1>4, <1>5, <1>6

\* Every slot but a root has one slot that leads to it.
LEMMA OneWayUp ==
  ASSUME NEW m, Wooded(m), NEW s \in DOMAIN m.at, s[1] # 0
  PROVE  \E p \in DOMAIN m.at : {q \in DOMAIN m.at : m.at[q] = s[1]} = {p} /\ s \in SlotsBelow(m)[p]
  <1> DEFINE kids == SlotsBelow(m)
  <1>1. /\ IsKids(kids) /\ DOMAIN kids = DOMAIN m.at /\ s \in DOMAIN m.at
        /\ \A p \in DOMAIN m.at : s \in kids[p] <=> m.at[p] = s[1]
    BY SlotBelow DEF Wooded
  <1>2. s \notin RootSlots(m) /\ s \in Reach(kids, RootSlots(m)) /\ RootSlots(m) \in SUBSET DOMAIN kids
    BY <1>1 DEF Wooded, Forest, RootSlots
  <1> HIDE DEF kids
  <1>3. PICK p \in Reach(kids, RootSlots(m)) : s \in kids[p]
    BY <1>1, <1>2, ReachedFrom
  <1>4. p \in DOMAIN m.at
    BY <1>1, <1>3 DEF Reach
  <1>5. \A q \in DOMAIN m.at : s \in kids[q] => q = p
    BY <1>1, <1>3, <1>4 DEF Wooded, Forest, kids
  <1>6. QED
    BY <1>1, <1>3, <1>4, <1>5 DEF kids

\* Path() is a walk up to the root.
PathFirst(m) == [r \in RootSlots(m) |-> IF r[2] \in DOMAIN m.type THEN <<r[2]>> ELSE <<>>]

PathPos(m) == [s \in DOMAIN m.at |-> Position(s, m.slots[s[1]])]

LEMMA PathIsUpward ==
  ASSUME NEW m, Wooded(m)
  PROVE  Upward(SlotsBelow(m), RootSlots(m), PathFirst(m), PathPos(m), [s \in DOMAIN m.at |-> Path(m, s)])
  <1> DEFINE kids == SlotsBelow(m)
             roots == RootSlots(m)
             step(q, g) == IF q[1] = 0 THEN (IF q[2] \in DOMAIN m.type THEN <<q[2]>> ELSE <<>>)
                           ELSE LET incoming == {r \in DOMAIN m.at : m.at[r] = q[1]} IN
                                IF incoming = {} THEN <<>>
                                ELSE LET up == g[CHOOSE r \in incoming : TRUE] IN
                                     IF up = <<>> THEN <<>> ELSE Append(up, Position(q, m.slots[q[1]]))
             Is(g) == g = [q \in DOMAIN m.at |-> step(q, g)]
             path == CHOOSE g : Is(g)
  <1>1. Forest(kids, roots) /\ DOMAIN kids = DOMAIN m.at
    BY SlotBelow DEF Wooded
  <1>2. \A q \in roots : \A g : step(q, g) = PathFirst(m)[q]
    BY DEF RootSlots, PathFirst
  <1>3. ASSUME NEW q \in DOMAIN m.at, NEW k \in kids[q], NEW g
        PROVE  k \in DOMAIN m.at /\ step(k, g) = Extended(g[q], PathPos(m)[k])
    <2>1. k \in DOMAIN m.at /\ k[1] # 0 /\ m.at[q] = k[1]
      <3>1. IsKids(kids)
        BY <1>1 DEF Forest
      <3>2. k \in DOMAIN m.at
        BY <3>1, <1>1 DEF IsKids
      <3>3. QED
        BY <3>2, SlotBelow DEF Wooded
    <2>2. PICK p \in DOMAIN m.at : {r \in DOMAIN m.at : m.at[r] = k[1]} = {p}
      BY <2>1, OneWayUp
    <2>3. p = q
      BY <2>1, <2>2
    <2>4. (CHOOSE r \in {r \in DOMAIN m.at : m.at[r] = k[1]} : TRUE) = q
      BY <2>2, <2>3
    <2>5. {r \in DOMAIN m.at : m.at[r] = k[1]} # {}
      BY <2>2
    <2>6. step(k, g) = Extended(g[q], Position(k, m.slots[k[1]]))
      BY <2>1, <2>4, <2>5 DEF Extended
    <2>7. QED
      BY <2>1, <2>6 DEF PathPos
  <1>4. ASSUME NEW q \in DOMAIN m.at, q \notin roots
        PROVE  \E p \in DOMAIN m.at : q \in kids[p]
    BY <1>4, OneWayUp DEF RootSlots
  <1>5. PICK f : f = [s \in DOMAIN kids |-> f[s]] /\ Upward(kids, roots, PathFirst(m), PathPos(m), f)
    BY <1>1, UpwardExists
  <1>6. \A q \in DOMAIN m.at : f[q] = step(q, f)
    <2> HIDE DEF step, kids, roots
    <2>1. ASSUME NEW q \in roots PROVE f[q] = step(q, f)
      BY <1>5, <1>2 DEF Upward
    <2>2. ASSUME NEW p \in DOMAIN m.at, NEW q \in kids[p] PROVE f[q] = step(q, f)
      BY <1>1, <1>5, <1>3 DEF Upward
    <2>3. QED
      BY <2>1, <2>2, <1>4
  <1>7. Is(f)
    <2> HIDE DEF step, kids
    <2>1. f = [s \in DOMAIN m.at |-> f[s]]
      BY <1>1, <1>5
    <2>2. QED
      BY <2>1, <1>6
  <1>8. Is(path)
    <2> HIDE DEF Is
    <2>1. QED
      BY <1>7
  <1>9. \A s \in DOMAIN m.at : path[s] = step(s, path)
    <2> HIDE DEF step, path
    <2>1. QED
      BY <1>8
  <1>10. \A s \in DOMAIN m.at : Path(m, s) = path[s]
    BY Zenon DEF Path
  <1> HIDE DEF path, step, kids, roots
  <1>11. \A r \in roots : Path(m, r) = PathFirst(m)[r] /\ r \in DOMAIN m.at
    BY <1>2, <1>9, <1>10, <1>1 DEF Forest
  <1>12. \A s \in DOMAIN kids : \A k \in kids[s] :
           k \in DOMAIN m.at /\ s \in DOMAIN m.at /\ Path(m, k) = Extended(Path(m, s), PathPos(m)[k])
    BY <1>1, <1>3, <1>9, <1>10
  <1>13. Upward(kids, roots, PathFirst(m), PathPos(m), [s \in DOMAIN m.at |-> Path(m, s)])
    BY <1>11, <1>12 DEF Upward
  <1>14. QED
    BY <1>13 DEF kids, roots

\* A set of slots with the roots that is closed under going down has them all.
LEMMA AllSlots ==
  ASSUME NEW m, Wooded(m), NEW C \in SUBSET DOMAIN m.at, RootSlots(m) \subseteq C,
         Closed(SlotsBelow(m), C)
  PROVE  C = DOMAIN m.at
  <1>1. /\ IsKids(SlotsBelow(m)) /\ DOMAIN SlotsBelow(m) = DOMAIN m.at
        /\ RootSlots(m) \in SUBSET DOMAIN m.at /\ Reach(SlotsBelow(m), RootSlots(m)) = DOMAIN m.at
    BY SlotBelow DEF Wooded, Forest, RootSlots
  <1>2. QED
    BY <1>1, ReachIsLeast

LEMMA PathStep ==
  ASSUME NEW m, Wooded(m)
  PROVE  /\ \A r \in RootSlots(m) : Path(m, r) = PathFirst(m)[r]
         /\ \A s \in DOMAIN m.at : \A k \in SlotsBelow(m)[s] :
              k \in DOMAIN m.at /\ Path(m, k) = Extended(Path(m, s), k[2])
  <1> DEFINE path == [s \in DOMAIN m.at |-> Path(m, s)]
             kids == SlotsBelow(m)
  <1>1. DOMAIN kids = DOMAIN m.at /\ IsKids(kids) /\ SlotsPlaced(m)
    BY SlotBelow DEF Wooded
  <1>2. Upward(kids, RootSlots(m), PathFirst(m), PathPos(m), path)
    BY PathIsUpward
  <1>3. ASSUME NEW s \in DOMAIN m.at, NEW k \in kids[s]
        PROVE  k \in DOMAIN m.at /\ Path(m, k) = Extended(Path(m, s), k[2])
    <2>1. k \in DOMAIN m.at
      BY <1>1 DEF IsKids
    <2>2. PathPos(m)[k] = k[2]
      BY <1>1, <2>1, SlotBelow DEF PathPos
    <2>3. path[k] = Extended(path[s], PathPos(m)[k])
      BY <1>1, <1>2 DEF Upward
    <2>4. QED
      BY <2>1, <2>2, <2>3
  <1>4. \A r \in RootSlots(m) : Path(m, r) = PathFirst(m)[r]
    BY <1>2 DEF Upward, RootSlots
  <1>5. QED
    BY <1>3, <1>4

LEMMA PathType ==
  ASSUME NEW m, Wooded(m)
  PROVE  \A s \in DOMAIN m.at : Path(m, s) \in Seq(Nat)
  <1> DEFINE C == {s \in DOMAIN m.at : Path(m, s) \in Seq(Nat)}
  <1>1. \A s \in DOMAIN m.at : s[2] \in Nat
    BY DEF Wooded, SlotsPlaced, Slots
  <1>2. RootSlots(m) \subseteq C
    <2>1. ASSUME NEW r \in RootSlots(m) PROVE Path(m, r) \in Seq(Nat) /\ r \in DOMAIN m.at
      <3>1. r \in DOMAIN m.at /\ r[2] \in Nat
        BY <1>1 DEF RootSlots
      <3>2. Path(m, r) = <<r[2]>> \/ Path(m, r) = <<>>
        BY PathStep DEF PathFirst
      <3>3. <<>> \in Seq(Nat) /\ \A n \in Nat : <<n>> \in Seq(Nat)
        OBVIOUS
      <3>4. QED
        BY <3>1, <3>2, <3>3
    <2>2. QED
      BY <2>1
  <1>3. Closed(SlotsBelow(m), C)
    <2>1. ASSUME NEW s \in C, NEW k \in SlotsBelow(m)[s] PROVE k \in C
      <3>1. k \in DOMAIN m.at /\ Path(m, k) = Extended(Path(m, s), k[2])
        BY PathStep
      <3>2. Path(m, s) \in Seq(Nat) /\ k[2] \in Nat
        BY <3>1, <1>1
      <3>3. Extended(Path(m, s), k[2]) \in Seq(Nat)
        BY <3>2 DEF Extended
      <3>4. QED
        BY <3>1, <3>3
    <2>2. QED
      BY <2>1 DEF Closed
  <1>4. C = DOMAIN m.at
    BY <1>2, <1>3, AllSlots
  <1>5. QED
    BY <1>4

\* Paths that leave each other, the first to the left.
Apart(p, q) == \E i \in DOMAIN p \cap DOMAIN q : p[i] < q[i] /\ \A j \in 1..(i-1) : p[j] = q[j]

Leads(p, q) == Len(p) <= Len(q) /\ \A i \in 1..Len(p) : p[i] = q[i]

LEMMA ApartTransitive ==
  ASSUME NEW p \in Seq(Nat), NEW q \in Seq(Nat), NEW r \in Seq(Nat), Apart(p, q), Apart(q, r)
  PROVE  Apart(p, r)
  <1>1. PICK i \in DOMAIN p \cap DOMAIN q : p[i] < q[i] /\ \A j \in 1..(i-1) : p[j] = q[j]
    BY DEF Apart
  <1>2. PICK k \in DOMAIN q \cap DOMAIN r : q[k] < r[k] /\ \A j \in 1..(k-1) : q[j] = r[j]
    BY DEF Apart
  <1>3. PICK np \in Nat, nq \in Nat, nr \in Nat :
          DOMAIN p = 1..np /\ DOMAIN q = 1..nq /\ DOMAIN r = 1..nr
    OBVIOUS
  <1>4. p[i] \in Nat /\ q[i] \in Nat /\ q[k] \in Nat /\ r[k] \in Nat
    OBVIOUS
  <1>5. i \in 1..np /\ i \in 1..nq /\ k \in 1..nq /\ k \in 1..nr
    BY <1>3
  <1>6. CASE i <= k
    <2>1. i \in DOMAIN p \cap DOMAIN r
      BY <1>3, <1>5, <1>6
    <2>2. p[i] < r[i]
      <3>1. CASE i = k
        BY <3>1, <1>1, <1>2, <1>4
      <3>2. CASE i # k
        <4>1. i \in 1..(k-1)
          BY <3>2, <1>5, <1>6
        <4>2. q[i] = r[i]
          BY <4>1, <1>2
        <4>3. QED
          BY <4>2, <1>1
      <3>3. QED
        BY <3>1, <3>2
    <2>3. \A j \in 1..(i-1) : p[j] = r[j]
      BY <1>1, <1>2, <1>5, <1>6
    <2>4. QED
      BY <2>1, <2>2, <2>3 DEF Apart
  <1>7. CASE k < i
    <2>1. k \in DOMAIN p \cap DOMAIN r
      BY <1>3, <1>5, <1>7
    <2>2. p[k] < r[k]
      BY <1>1, <1>2, <1>5, <1>7
    <2>3. \A j \in 1..(k-1) : p[j] = r[j]
      BY <1>1, <1>2, <1>5, <1>7
    <2>4. QED
      BY <2>1, <2>2, <2>3 DEF Apart
  <1>8. QED
    BY <1>5, <1>6, <1>7

LEMMA ApartNotLeading ==
  ASSUME NEW p \in Seq(Nat), NEW q \in Seq(Nat), Apart(p, q)
  PROVE  ~Leads(p, q) /\ ~Leads(q, p)
  <1>1. PICK i \in DOMAIN p \cap DOMAIN q : p[i] < q[i]
    BY DEF Apart
  <1>2. i \in 1..Len(p) /\ i \in 1..Len(q) /\ p[i] # q[i] /\ q[i] # p[i]
    <2>1. p[i] \in Nat /\ q[i] \in Nat
      OBVIOUS
    <2>2. QED
      BY <1>1, <2>1
  <1>3. QED
    BY <1>2 DEF Leads

\* The path of a slot leads to all that is below it.
LEMMA PathLeads ==
  ASSUME NEW m, Wooded(m), NEW s \in DOMAIN m.at, NEW t \in Reach(SlotsBelow(m), {s}), HasRow(m, t)
  PROVE  Leads(Path(m, s), Path(m, t))
  <1> DEFINE kids == SlotsBelow(m)
             C == {q \in DOMAIN m.at : HasRow(m, q) => Leads(Path(m, s), Path(m, q))}
  <1>1. IsKids(kids) /\ DOMAIN kids = DOMAIN m.at
    BY SlotBelow DEF Wooded
  <1>2. s \in C
    BY PathType DEF Leads
  <1>3. Closed(kids, C)
    <2>1. ASSUME NEW q \in C, NEW k \in kids[q] PROVE k \in C
      <3>1. k \in DOMAIN m.at /\ Path(m, k) = Extended(Path(m, q), k[2])
        BY PathStep
      <3>2. SUFFICES ASSUME HasRow(m, k) PROVE Leads(Path(m, s), Path(m, k))
        BY <3>1
      <3>3. HasRow(m, q) /\ Path(m, k) = Append(Path(m, q), k[2])
        BY <3>1, <3>2 DEF HasRow, Extended
      <3>4. Leads(Path(m, s), Path(m, q))
        BY <3>3
      <3>5. Path(m, q) \in Seq(Nat) /\ Path(m, s) \in Seq(Nat) /\ k[2] \in Nat
        BY <3>1, PathType DEF Wooded, SlotsPlaced, Slots
      <3>6. QED
        BY <3>3, <3>4, <3>5 DEF Leads
    <2>2. QED
      BY <2>1 DEF Closed
  <1>4. C \in SUBSET DOMAIN kids /\ {s} \subseteq C /\ {s} \in SUBSET DOMAIN kids
    BY <1>1, <1>2
  <1> HIDE DEF C
  <1>5. Reach(kids, {s}) \subseteq C
    BY <1>1, <1>3, <1>4, ReachIsLeast
  <1>6. QED
    BY <1>5 DEF C

\* The terminii of a valid zone are different slots, none below another.
LEMMA TerminiiApart ==
  ASSUME NEW m, Wooded(m), NEW z, z.term \in Seq(DOMAIN m.at), ValidZone(m, z), ~IsEmptyZone(z)
  PROVE  \A i, j \in DOMAIN z.term : i # j => z.term[i] \notin Reach(SlotsBelow(m), {z.term[j]})
  <1> DEFINE p(i) == Path(m, z.term[i])
             n == Len(z.term)
  <1>1. \A i \in 1..n : p(i) \in Seq(Nat) /\ HasRow(m, z.term[i]) /\ z.term[i] \in DOMAIN m.at
    <2>1. TAKE i \in 1..n
    <2>2. z.term[i] \in DOMAIN m.at /\ z.term[i] \in ToSet(z.term)
      BY DEF ToSet
    <2>3. QED
      BY <2>2, PathType DEF ValidZone
  <1>2. ASSUME NEW i \in 1..(n - 1) PROVE Apart(p(i), p(i + 1))
    BY <1>2 DEF ValidZone, Before, IsAncestor, PathLess, Apart
  <1>3. ASSUME NEW i \in 1..n, NEW j \in 1..n, i < j PROVE Apart(p(i), p(j))
    <2> DEFINE Bad == {k \in (i + 1)..n : ~Apart(p(i), p(k))}
    <2>1. SUFFICES ASSUME Bad # {} PROVE FALSE
      BY <1>3
    <2>2. Bad \subseteq Nat
      OBVIOUS
    <2>3. PICK k \in Bad : \A l \in Bad : ~(<<l, k>> \in OpToRel(<, Nat))
      <3> HIDE DEF Bad
      <3>1. QED
        BY <2>1, <2>2, WFMin, NatLessThanWellFounded
    <2>4. \A l \in Bad : ~(l < k)
      BY <2>2, <2>3 DEF OpToRel
    <2>5. k # i + 1
      <3>1. i \in 1..(n - 1)
        BY <1>3
      <3>2. QED
        BY <3>1, <1>2
    <2>6. k - 1 \in (i + 1)..n /\ k - 1 < k /\ k - 1 \in 1..(n - 1) /\ (k - 1) + 1 = k
      BY <2>5
    <2>7. Apart(p(i), p(k - 1))
      BY <2>4, <2>6
    <2>8. Apart(p(k - 1), p(k))
      BY <2>6, <1>2
    <2>9. Apart(p(i), p(k))
      <3>1. i \in 1..n /\ k - 1 \in 1..n /\ k \in 1..n
        BY <2>6
      <3> HIDE DEF Bad, p
      <3>2. QED
        BY <3>1, <2>7, <2>8, <1>1, ApartTransitive
    <2>10. QED
      BY <2>9
  <1>4. SUFFICES ASSUME NEW i \in 1..n, NEW j \in 1..n, i # j,
                        z.term[i] \in Reach(SlotsBelow(m), {z.term[j]})
                 PROVE  FALSE
    <2>1. DOMAIN z.term = 1..n
      OBVIOUS
    <2>2. QED
      BY <2>1
  <1>5. Leads(p(j), p(i))
    BY <1>4, <1>1, PathLeads
  <1>6. Apart(p(i), p(j)) \/ Apart(p(j), p(i))
    BY <1>3, <1>4
  <1>7. QED
    BY <1>5, <1>6, <1>1, ApartNotLeading

-----------------------------------------------------------------------------
(* A swap of two zones. *)

\* A zone below the root of tree t, with its terminii strictly below the base.
ZoneIn(m, z, t) ==
  /\ <<0, t>> \in DOMAIN m.at
  /\ z.base \in Reach(SlotsBelow(m), {<<0, t>>}) /\ z.term \in Seq(DOMAIN m.at)
  /\ \A i \in DOMAIN z.term : z.term[i] \in Reach(SlotsBelow(m), {z.base}) \ {z.base}
  /\ \A i, j \in DOMAIN z.term : i # j => z.term[i] \notin Reach(SlotsBelow(m), {z.term[j]})

\* Two lists of n slots, all different.
Paired(D, xs, ys, n) ==
  /\ xs \in [1..n -> D] /\ ys \in [1..n -> D]
  /\ \A i, j \in 1..n : xs[i] = xs[j] => i = j
  /\ \A i, j \in 1..n : ys[i] = ys[j] => i = j
  /\ \A i, j \in 1..n : xs[i] # ys[j]

\* The slot whose content comes to slot s.
Partner(xs, ys, s) ==
  IF s \in ToSet(xs) THEN ys[Position(s, xs)]
  ELSE IF s \in ToSet(ys) THEN xs[Position(s, ys)] ELSE s

LEMMA Partners ==
  ASSUME NEW D, NEW xs, NEW ys, NEW n \in Nat, Paired(D, xs, ys, n)
  PROVE  /\ \A i \in 1..n : /\ Position(xs[i], xs) = i /\ Position(ys[i], ys) = i
                            /\ Partner(xs, ys, xs[i]) = ys[i] /\ Partner(xs, ys, ys[i]) = xs[i]
         /\ \A s : s \notin ToSet(xs) \cup ToSet(ys) => Partner(xs, ys, s) = s
         /\ \A s \in ToSet(xs) : \E i \in 1..n : s = xs[i]
         /\ \A s \in ToSet(ys) : \E i \in 1..n : s = ys[i]
  <1>1. DOMAIN xs = 1..n /\ DOMAIN ys = 1..n
    BY DEF Paired
  <1>2. /\ \A s \in ToSet(xs) : \E i \in 1..n : s = xs[i]
        /\ \A s \in ToSet(ys) : \E i \in 1..n : s = ys[i]
        /\ \A i \in 1..n : xs[i] \in ToSet(xs) /\ ys[i] \in ToSet(ys)
    BY <1>1 DEF ToSet
  <1>3. \A i \in 1..n : Position(xs[i], xs) = i /\ Position(ys[i], ys) = i
    BY <1>1 DEF Paired, Position
  <1>4. \A i \in 1..n : ys[i] \notin ToSet(xs)
    BY <1>2 DEF Paired
  <1>5. QED
    BY <1>2, <1>3, <1>4 DEF Partner

LEMMA BoundaryParts ==
  ASSUME NEW D, NEW z, z.base \in D, z.term \in Seq(D)
  PROVE  /\ Boundary(z) \in Seq(D) /\ Len(Boundary(z)) = Len(z.term) + 1
         /\ Boundary(z)[1] = z.base
         /\ \A i \in 1..Len(z.term) : Boundary(z)[i + 1] = z.term[i]
         /\ ToSet(Boundary(z)) = {z.base} \cup ToSet(z.term)
         /\ Tail(Boundary(z)) = z.term
  <1> DEFINE b == z.base
             t == z.term
  <1>1. Boundary(z) = <<b>> \o t
    BY DEF Boundary
  <1>2. b \in D /\ t \in Seq(D)
    OBVIOUS
  <1> HIDE DEF b, t
  <1>3. <<b>> \o t \in Seq(D) /\ Len(<<b>> \o t) = Len(t) + 1 /\ (<<b>> \o t)[1] = b
        /\ \A i \in 1..Len(t) : (<<b>> \o t)[i + 1] = t[i]
    BY <1>2
  <1>4. ToSet(<<b>> \o t) = {b} \cup ToSet(t)
    <2>1. \A i \in 1..(Len(t) + 1) : i = 1 \/ (i - 1 \in 1..Len(t) /\ (i - 1) + 1 = i)
      BY <1>2
    <2>2. DOMAIN t = 1..Len(t) /\ DOMAIN (<<b>> \o t) = 1..(Len(t) + 1)
      BY <1>2
    <2>3. ASSUME NEW e \in ToSet(<<b>> \o t) PROVE e \in {b} \cup ToSet(t)
      BY <2>1, <2>2, <1>2, <1>3 DEF ToSet
    <2>4. ASSUME NEW e \in ToSet(t) PROVE e \in ToSet(<<b>> \o t)
      <3>1. PICK i \in 1..Len(t) : e = t[i]
        BY <2>2 DEF ToSet
      <3>2. i + 1 \in DOMAIN (<<b>> \o t) /\ (<<b>> \o t)[i + 1] = e
        BY <3>1, <2>2, <1>2, <1>3
      <3>3. QED
        BY <3>2 DEF ToSet
    <2>5. b \in ToSet(<<b>> \o t)
      <3>1. 1 \in DOMAIN (<<b>> \o t)
        BY <2>2, <1>2
      <3>2. QED
        BY <3>1, <1>3 DEF ToSet
    <2>6. QED
      BY <2>3, <2>4, <2>5
  <1>5. Tail(<<b>> \o t) = t
    BY <1>2
  <1>6. QED
    BY <1>1, <1>3, <1>4, <1>5 DEF b, t

\* What is below several slots is what is below each of them.
LEMMA BelowIsUnion ==
  ASSUME NEW kids, IsKids(kids), NEW S \in SUBSET DOMAIN kids
  PROVE  Below(kids, S) = UNION {Below(kids, {s}) : s \in S}
  <1> DEFINE K == UNION {kids[s] : s \in S}
  <1>1. \A s \in S : Below(kids, {s}) = UNION {Reach(kids, {k}) : k \in kids[s]}
    BY ReachStep
  <1>2. K \in SUBSET DOMAIN kids
    BY DEF IsKids
  <1>3. Below(kids, S) = UNION {Reach(kids, {k}) : k \in K}
    BY <1>2, ReachIsUnion DEF Below
  <1>4. ASSUME NEW e PROVE e \in Below(kids, S) <=> \E s \in S : e \in Below(kids, {s})
    <2>1. e \in Below(kids, S) <=> \E k \in K : e \in Reach(kids, {k})
      BY <1>3
    <2>2. \A s \in S : e \in Below(kids, {s}) <=> \E k \in kids[s] : e \in Reach(kids, {k})
      <3>1. TAKE s \in S
      <3>2. Below(kids, {s}) = UNION {Reach(kids, {k}) : k \in kids[s]}
        BY <1>1
      <3>3. QED
        BY <3>2
    <2>3. QED
      BY <2>1, <2>2
  <1>5. QED
    BY <1>4

LEMMA ZoneParts ==
  ASSUME NEW m, Wooded(m), NEW z, NEW t, ZoneIn(m, z, t)
  PROVE  /\ ToSet(Boundary(z)) \subseteq Reach(SlotsBelow(m), {<<0, t>>})
         /\ z.base \in DOMAIN m.at /\ ToSet(z.term) \subseteq DOMAIN m.at /\ <<0, t>> \in RootSlots(m)
         /\ ToSet(z.term) \subseteq Below(SlotsBelow(m), {z.base})
         /\ Below(SlotsBelow(m), {z.base}) \subseteq Reach(SlotsBelow(m), {<<0, t>>})
         /\ \A i, j \in 1..Len(Boundary(z)) : Boundary(z)[i] = Boundary(z)[j] => i = j
         /\ \A a, b \in ToSet(z.term) : a \notin Below(SlotsBelow(m), {b})
         /\ \A a \in ToSet(z.term) : Below(SlotsBelow(m), {a}) \subseteq Reach(SlotsBelow(m), {<<0, t>>})
  <1> DEFINE kids == SlotsBelow(m)
             root == <<0, t>>
             D == DOMAIN m.at
             R == Reach(kids, {root})
  <1>1. IsKids(kids) /\ DOMAIN kids = D /\ root \in D /\ Forest(kids, RootSlots(m))
    BY SlotBelow DEF Wooded, ZoneIn
  <1>2. R \subseteq D /\ z.base \in R /\ z.term \in Seq(D)
    BY <1>1 DEF ZoneIn, Reach
  <1>3. root \in RootSlots(m)
    BY <1>1 DEF RootSlots
  <1>4. \A s \in R : Reach(kids, {s}) \subseteq R
    <2>1. TAKE s \in R
    <2>2. {root} \in SUBSET DOMAIN kids /\ {s} \in SUBSET R
      BY <1>1
    <2>3. QED
      BY <1>1, <2>2, ReachGrows
  <1>5. \A s \in D : Reach(kids, {s}) = {s} \cup Below(kids, {s}) /\ s \notin Below(kids, {s})
    BY <1>1, ReachStep, NoCycles
  <1>6. /\ \A a \in ToSet(z.term) : \E i \in DOMAIN z.term : a = z.term[i]
        /\ \A i \in DOMAIN z.term : z.term[i] \in D
    BY <1>2 DEF ToSet
  <1>7. \A a \in ToSet(z.term) : a \in Below(kids, {z.base}) /\ a \in R /\ a \in D /\ a # z.base
    <2>1. TAKE a \in ToSet(z.term)
    <2>2. PICK i \in DOMAIN z.term : a = z.term[i]
      BY <1>6
    <2>3. a \in Reach(kids, {z.base}) /\ a # z.base
      BY <2>2 DEF ZoneIn
    <2>4. z.base \in D
      BY <1>2
    <2>5. QED
      BY <1>2, <1>4, <1>5, <2>3, <2>4
  <1>8. ToSet(Boundary(z)) = {z.base} \cup ToSet(z.term)
    BY <1>2, BoundaryParts
  <1>9. \A i, j \in DOMAIN z.term : z.term[i] = z.term[j] => i = j
    <2>1. TAKE i, j \in DOMAIN z.term
    <2>2. z.term[j] \in Reach(kids, {z.term[j]})
      BY <1>6, <1>5
    <2>3. QED
      BY <2>2 DEF ZoneIn
  <1>10. ASSUME NEW i \in 1..Len(Boundary(z)), NEW j \in 1..Len(Boundary(z)),
                Boundary(z)[i] = Boundary(z)[j]
         PROVE  i = j
    <2> DEFINE n == Len(z.term)
               b == Boundary(z)
    <2>1. Len(b) = n + 1 /\ n \in Nat /\ b[1] = z.base /\ \A k \in 1..n : b[k + 1] = z.term[k]
      <3>1. n \in Nat /\ z.base \in D /\ z.term \in Seq(D)
        BY <1>2
      <3>2. QED
        BY <3>1, BoundaryParts
    <2>2. DOMAIN z.term = 1..n
      BY <1>2
    <2>3. \A k \in 1..n : z.term[k] \in ToSet(z.term)
      BY <2>2 DEF ToSet
    <2>4. \A k \in 1..n : b[k + 1] # b[1]
      BY <2>1, <2>3, <1>7
    <2> HIDE DEF n, b
    <2>5. \A k \in 1..(n + 1) : k = 1 \/ (k - 1 \in 1..n /\ (k - 1) + 1 = k)
      BY <2>1
    <2>6. i \in 1..(n + 1) /\ j \in 1..(n + 1) /\ b[i] = b[j]
      BY <1>10, <2>1 DEF b
    <2>7. CASE i = 1 \/ j = 1
      BY <2>4, <2>5, <2>6, <2>7
    <2>8. CASE i # 1 /\ j # 1
      <3>1. i - 1 \in 1..n /\ j - 1 \in 1..n /\ (i - 1) + 1 = i /\ (j - 1) + 1 = j
        BY <2>5, <2>6, <2>8
      <3>2. z.term[i - 1] = z.term[j - 1]
        BY <3>1, <2>1, <2>6
      <3>3. i - 1 = j - 1
        BY <3>1, <3>2, <2>2, <1>9
      <3>4. QED
        BY <3>1, <3>3
    <2>9. QED
      BY <2>7, <2>8
  <1>11. \A a, b \in ToSet(z.term) : a \notin Below(kids, {b})
    <2>1. TAKE a, b \in ToSet(z.term)
    <2>2. PICK i \in DOMAIN z.term, j \in DOMAIN z.term : a = z.term[i] /\ b = z.term[j]
      BY <1>6
    <2>3. CASE i = j
      BY <2>2, <2>3, <1>5, <1>7
    <2>4. CASE i # j
      BY <2>2, <2>4, <1>5, <1>7 DEF ZoneIn
    <2>5. QED
      BY <2>3, <2>4
  <1>12. QED
    BY <1>2, <1>3, <1>4, <1>5, <1>7, <1>8, <1>10, <1>11

\* Two zones of different trees, as SwapTreeToTree() asserts them.
Swappable(m, x, y) ==
  /\ \E t, u : t # u /\ ZoneIn(m, x, t) /\ ZoneIn(m, y, u)
  /\ Len(x.term) = Len(y.term)

LEMMA SwappablePairs ==
  ASSUME NEW m, Wooded(m), NEW x, NEW y, Swappable(m, x, y)
  PROVE  /\ Len(x.term) \in Nat
         /\ Paired(DOMAIN m.at, Boundary(x), Boundary(y), Len(x.term) + 1)
         /\ x.base \in DOMAIN m.at /\ y.base \in DOMAIN m.at
         /\ x.term \in Seq(DOMAIN m.at) /\ y.term \in Seq(DOMAIN m.at)
  <1> DEFINE D == DOMAIN m.at
             n == Len(x.term) + 1
             xs == Boundary(x)
             ys == Boundary(y)
  <1>1. PICK t, u : t # u /\ ZoneIn(m, x, t) /\ ZoneIn(m, y, u)
    BY DEF Swappable
  <1>2. /\ x.base \in D /\ y.base \in D /\ x.term \in Seq(D) /\ y.term \in Seq(D)
        /\ Len(y.term) = Len(x.term) /\ Len(x.term) \in Nat
    <2>1. x.base \in D /\ y.base \in D
      BY <1>1, ZoneParts
    <2>2. x.term \in Seq(D) /\ y.term \in Seq(D)
      BY <1>1 DEF ZoneIn
    <2>3. QED
      BY <2>1, <2>2 DEF Swappable
  <1>3. xs \in Seq(D) /\ ys \in Seq(D) /\ Len(xs) = n /\ Len(ys) = n
    BY <1>2, BoundaryParts
  <1>4. xs \in [1..n -> D] /\ ys \in [1..n -> D]
    BY <1>3
  <1>5. \A i, j \in 1..n : (xs[i] = xs[j] => i = j) /\ (ys[i] = ys[j] => i = j)
    BY <1>1, <1>3, ZoneParts
  <1>6. Reach(SlotsBelow(m), {<<0, t>>}) \cap Reach(SlotsBelow(m), {<<0, u>>}) = {}
    BY <1>1, ZoneParts, RootsApart DEF Wooded
  <1>7. ToSet(xs) \cap ToSet(ys) = {}
    BY <1>1, <1>6, ZoneParts
  <1>8. \A i, j \in 1..n : xs[i] # ys[j]
    BY <1>4, <1>7 DEF ToSet
  <1>9. QED
    BY <1>2, <1>4, <1>5, <1>8 DEF Paired

\* What Swap() does, by the slot whose content comes to each slot.
Exchanges(m, x, y, swap) ==
  /\ Exchange(SlotsBelow(m), swap, {x.base, y.base}, ToSet(x.term) \cup ToSet(y.term))
  /\ Swap(m, x, y) = [m EXCEPT !.at = [s \in DOMAIN m.at |-> m.at[swap[s]]]]
  /\ SlotsBelow(Swap(m, x, y)) = [s \in DOMAIN m.at |-> SlotsBelow(m)[swap[s]]]
  /\ \A s \in DOMAIN m.at \ (ToSet(Boundary(x)) \cup ToSet(Boundary(y))) : swap[s] = s

LEMMA SwapIsExchange ==
  ASSUME NEW m, Wooded(m), NEW x, NEW y, Swappable(m, x, y)
  PROVE  \E swap : Exchanges(m, x, y, swap)
  <1> DEFINE kids == SlotsBelow(m)
             D == DOMAIN m.at
             n == Len(x.term) + 1
             xs == Boundary(x)
             ys == Boundary(y)
             B == {x.base, y.base}
             T == ToSet(x.term) \cup ToSet(y.term)
             swap == [s \in D |-> Partner(xs, ys, s)]
  <1>1. PICK t, u : t # u /\ ZoneIn(m, x, t) /\ ZoneIn(m, y, u)
    BY DEF Swappable
  <1>2. /\ n \in Nat /\ Paired(D, xs, ys, n) /\ Len(x.term) \in Nat /\ Len(y.term) = Len(x.term)
        /\ x.base \in D /\ y.base \in D /\ x.term \in Seq(D) /\ y.term \in Seq(D)
    BY SwappablePairs DEF Swappable
  <1>3. /\ \A i \in 1..n : /\ Position(xs[i], xs) = i /\ Position(ys[i], ys) = i
                           /\ Partner(xs, ys, xs[i]) = ys[i] /\ Partner(xs, ys, ys[i]) = xs[i]
        /\ \A s : s \notin ToSet(xs) \cup ToSet(ys) => Partner(xs, ys, s) = s
        /\ \A s \in ToSet(xs) : \E i \in 1..n : s = xs[i]
        /\ \A s \in ToSet(ys) : \E i \in 1..n : s = ys[i]
    BY <1>2, Partners
  <1>4. /\ ToSet(xs) = {x.base} \cup ToSet(x.term) /\ ToSet(ys) = {y.base} \cup ToSet(y.term)
        /\ xs[1] = x.base /\ ys[1] = y.base
        /\ \A i \in 1..Len(x.term) : xs[i + 1] = x.term[i] /\ ys[i + 1] = y.term[i]
        /\ xs \in [1..n -> D] /\ ys \in [1..n -> D]
    BY <1>2, BoundaryParts DEF Paired
  <1>5. swap \in [D -> D] /\ \A s \in D : swap[swap[s]] = s
    <2>1. ASSUME NEW s \in D PROVE Partner(xs, ys, s) \in D /\ Partner(xs, ys, Partner(xs, ys, s)) = s
      <3>1. CASE s \in ToSet(xs)
        BY <3>1, <1>3, <1>4
      <3>2. CASE s \in ToSet(ys)
        BY <3>2, <1>3, <1>4
      <3>3. CASE s \notin ToSet(xs) \cup ToSet(ys)
        BY <3>3, <1>3
      <3>4. QED
        BY <3>1, <3>2, <3>3
    <2>2. QED
      BY <2>1
  <1>6. \A s \in D : s \notin B \cup T => swap[s] = s
    BY <1>3, <1>4
  <1>7. \A s \in B : swap[s] \in B
    <2>1. 1 \in 1..n /\ Partner(xs, ys, xs[1]) = ys[1] /\ Partner(xs, ys, ys[1]) = xs[1]
      BY <1>2, <1>3
    <2>2. QED
      BY <2>1, <1>2, <1>4
  <1>8. \A s \in T : swap[s] \in T
    <2>1. DOMAIN x.term = 1..Len(x.term) /\ DOMAIN y.term = 1..Len(x.term)
      BY <1>2
    <2>2. \A i \in 1..Len(x.term) :
             /\ x.term[i] \in D /\ y.term[i] \in D /\ x.term[i] \in T /\ y.term[i] \in T
             /\ Partner(xs, ys, x.term[i]) = y.term[i] /\ Partner(xs, ys, y.term[i]) = x.term[i]
      <3>1. TAKE i \in 1..Len(x.term)
      <3>2. i + 1 \in 1..n
        BY <1>2
      <3>3. x.term[i] = xs[i + 1] /\ y.term[i] = ys[i + 1]
        BY <1>4
      <3>4. x.term[i] \in T /\ y.term[i] \in T
        BY <2>1 DEF ToSet
      <3>5. QED
        BY <3>2, <3>3, <3>4, <1>3, <1>4
    <2>3. \A s \in T : \E i \in 1..Len(x.term) : s = x.term[i] \/ s = y.term[i]
      BY <2>1 DEF ToSet
    <2>4. QED
      BY <2>2, <2>3
  <1>9. /\ IsKids(kids) /\ DOMAIN kids = D /\ Forest(kids, RootSlots(m))
        /\ B \in SUBSET D /\ T \in SUBSET D
    BY <1>1, <1>2, SlotBelow, ZoneParts DEF Wooded
  <1>10. Reach(kids, {<<0, t>>}) \cap Reach(kids, {<<0, u>>}) = {}
    BY <1>1, ZoneParts, RootsApart DEF Wooded
  <1>11. B \cap Below(kids, B) = {} /\ T \subseteq Below(kids, B)
    <2>1. Below(kids, B) = Below(kids, {x.base}) \cup Below(kids, {y.base})
      <3>1. Below(kids, B) = UNION {Below(kids, {s}) : s \in B}
        BY <1>9, BelowIsUnion
      <3>2. QED
        BY <3>1
    <2>2. x.base \notin Below(kids, {x.base}) /\ y.base \notin Below(kids, {y.base})
      BY <1>9, NoCycles
    <2>3. /\ x.base \in Reach(kids, {<<0, t>>}) /\ Below(kids, {x.base}) \subseteq Reach(kids, {<<0, t>>})
          /\ y.base \in Reach(kids, {<<0, u>>}) /\ Below(kids, {y.base}) \subseteq Reach(kids, {<<0, u>>})
          /\ ToSet(x.term) \subseteq Below(kids, {x.base}) /\ ToSet(y.term) \subseteq Below(kids, {y.base})
      BY <1>1, <1>4, ZoneParts
    <2>4. QED
      BY <2>1, <2>2, <2>3, <1>10
  <1>12. T \cap Below(kids, T) = {}
    <2>1. \A e \in Below(kids, T) : \E s \in T : e \in Below(kids, {s})
      <3>1. Below(kids, T) = UNION {Below(kids, {s}) : s \in T}
        BY <1>9, BelowIsUnion
      <3> HIDE DEF T
      <3>2. QED
        BY <3>1
    <2>2. /\ \A a, b \in ToSet(x.term) : a \notin Below(kids, {b})
          /\ \A a, b \in ToSet(y.term) : a \notin Below(kids, {b})
      BY <1>1, ZoneParts
    <2>3. /\ \A a \in ToSet(x.term) : Below(kids, {a}) \subseteq Reach(kids, {<<0, t>>})
          /\ \A a \in ToSet(y.term) : Below(kids, {a}) \subseteq Reach(kids, {<<0, u>>})
          /\ ToSet(x.term) \subseteq Reach(kids, {<<0, t>>}) /\ ToSet(y.term) \subseteq Reach(kids, {<<0, u>>})
      BY <1>1, <1>4, ZoneParts
    <2>4. QED
      BY <2>1, <2>2, <2>3, <1>10
  <1> HIDE DEF swap
  <1>13. Exchange(kids, swap, B, T)
    BY <1>5, <1>6, <1>7, <1>8, <1>9, <1>11, <1>12 DEF Exchange
  <1>14. \A s \in D : swap[s] = Partner(xs, ys, s) /\ swap[s] \in D
    BY <1>5 DEF swap
  <1>15. SwapContents(m.at, x, y) = [s \in D |-> m.at[swap[s]]]
    BY <1>14 DEF SwapContents, Partner
  <1>16. Swap(m, x, y) = [m EXCEPT !.at = [s \in D |-> m.at[swap[s]]]]
    BY <1>15 DEF Swap
  <1>17. SlotsBelow(Swap(m, x, y)) = [s \in D |-> kids[swap[s]]]
    BY <1>14, <1>16 DEF SlotsBelow
  <1>18. \A s \in D \ (ToSet(xs) \cup ToSet(ys)) : swap[s] = s
    BY <1>3, <1>14
  <1>19. QED
    BY <1>13, <1>16, <1>17, <1>18 DEF Exchanges

LEMMA SwapKeepsWood ==
  ASSUME NEW m, Wooded(m), NEW x, NEW y, Swappable(m, x, y), NEW n, n = Swap(m, x, y)
  PROVE  /\ Wooded(n) /\ DOMAIN n.at = DOMAIN m.at /\ RootSlots(n) = RootSlots(m)
         /\ n.label = m.label /\ n.slots = m.slots /\ n.type = m.type
         /\ \A s \in DOMAIN m.at \ (ToSet(Boundary(x)) \cup ToSet(Boundary(y))) : n.at[s] = m.at[s]
         /\ \A A \in SUBSET DOMAIN m.at :
              {x.base, y.base} \subseteq Reach(SlotsBelow(m), A) =>
                Reach(SlotsBelow(n), A) = Reach(SlotsBelow(m), A)
  <1> DEFINE kids == SlotsBelow(m)
             D == DOMAIN m.at
             B == {x.base, y.base}
             T == ToSet(x.term) \cup ToSet(y.term)
  <1>1. PICK swap :
           /\ Exchange(kids, swap, B, T)
           /\ n = [m EXCEPT !.at = [s \in D |-> m.at[swap[s]]]]
           /\ SlotsBelow(n) = [s \in D |-> kids[swap[s]]]
           /\ \A s \in D \ (ToSet(Boundary(x)) \cup ToSet(Boundary(y))) : swap[s] = s
    <2>1. PICK swap : Exchanges(m, x, y, swap)
      BY SwapIsExchange
    <2>2. QED
      BY <2>1 DEF Exchanges
  <1>2. IsKids(kids) /\ DOMAIN kids = D /\ SlotsPlaced(m) /\ Forest(kids, RootSlots(m))
    BY SlotBelow DEF Wooded
  <1>3. /\ DOMAIN n = DOMAIN m /\ n.at = [s \in D |-> m.at[swap[s]]]
        /\ n.label = m.label /\ n.slots = m.slots /\ n.type = m.type
    BY <1>1, <1>2 DEF SlotsPlaced
  <1>4. swap \in [D -> D]
    BY <1>1, <1>2 DEF Exchange
  <1>5. B \in SUBSET D /\ T \in SUBSET D
    <2>1. B \in SUBSET D /\ x.term \in Seq(D) /\ y.term \in Seq(D)
      BY SwappablePairs
    <2>2. QED
      BY <2>1 DEF ToSet
  <1>6. SlotsPlaced(n) /\ DOMAIN n.at = D
    <2>1. DOMAIN n.at = D /\ n.at \in [D -> 1..Len(m.label)]
      BY <1>2, <1>3, <1>4 DEF SlotsPlaced
    <2>2. QED
      BY <2>1, <1>2, <1>3 DEF SlotsPlaced
  <1>7. RootSlots(n) = RootSlots(m)
    BY <1>6 DEF RootSlots
  <1>8. TreesNumbered(n)
    BY <1>3, <1>6, <1>7 DEF Wooded, TreesNumbered
  <1>9. SlotsBelow(n) = [s \in DOMAIN kids |-> kids[swap[s]]]
    BY <1>1, <1>2
  <1> HIDE DEF B, T, kids
  <1>10. Forest(SlotsBelow(n), RootSlots(n))
    BY <1>1, <1>2, <1>5, <1>7, <1>9, ExchangeKeepsForest
  <1>11. \A A \in SUBSET D : B \subseteq Reach(kids, A) => Reach(SlotsBelow(n), A) = Reach(kids, A)
    BY <1>1, <1>2, <1>5, <1>9, ExchangeKeepsReach
  <1>12. \A s \in D \ (ToSet(Boundary(x)) \cup ToSet(Boundary(y))) : n.at[s] = m.at[s]
    BY <1>1, <1>3
  <1>13. QED
    BY <1>3, <1>6, <1>7, <1>8, <1>10, <1>11, <1>12 DEF Wooded, B, kids

\* Further slots change nothing for the walks among the slots there were.
LEMMA ReachExtends ==
  ASSUME NEW kids, IsKids(kids), NEW more, IsKids(more), DOMAIN kids \subseteq DOMAIN more,
         \A s \in DOMAIN kids : more[s] = kids[s], NEW A \in SUBSET DOMAIN kids
  PROVE  Reach(more, A) = Reach(kids, A)
  <1>1. /\ Reach(kids, A) \in SUBSET DOMAIN kids /\ A \subseteq Reach(kids, A)
        /\ Closed(kids, Reach(kids, A))
    BY ReachIsLeast
  <1>2. Closed(more, Reach(kids, A)) /\ Reach(kids, A) \in SUBSET DOMAIN more
    BY <1>1 DEF Closed
  <1>3. Reach(more, A) \subseteq Reach(kids, A) /\ Closed(more, Reach(more, A)) /\ A \subseteq Reach(more, A)
    BY <1>1, <1>2, ReachIsLeast
  <1>4. Closed(kids, Reach(more, A)) /\ Reach(more, A) \in SUBSET DOMAIN kids
    BY <1>1, <1>3 DEF Closed
  <1>5. Reach(kids, A) \subseteq Reach(more, A)
    BY <1>3, <1>4, ReachIsLeast
  <1>6. QED
    BY <1>3, <1>5

\* The slots of the trees that are in the tables.
Live(m) == Reach(SlotsBelow(m), {<<0, t>> : t \in DOMAIN m.type})

LEMMA LiveParts ==
  ASSUME NEW m, Wooded(m)
  PROVE  /\ Live(m) \subseteq DOMAIN m.at
         /\ \A t \in DOMAIN m.type : /\ <<0, t>> \in DOMAIN m.at /\ t \in Nat
                                     /\ Reach(SlotsBelow(m), {<<0, t>>}) \subseteq Live(m)
  <1> DEFINE kids == SlotsBelow(m)
             A == {<<0, t>> : t \in DOMAIN m.type}
  <1>1. IsKids(kids) /\ DOMAIN kids = DOMAIN m.at
    BY SlotBelow DEF Wooded
  <1>2. \A t \in DOMAIN m.type : <<0, t>> \in DOMAIN m.at
    BY DEF Wooded, TreesNumbered
  <1>3. \A t \in DOMAIN m.type : t \in Nat
    BY <1>2 DEF Wooded, SlotsPlaced, Slots
  <1>4. A \in SUBSET DOMAIN kids /\ Live(m) = Reach(kids, A)
    BY <1>1, <1>2 DEF Live
  <1>5. \A t \in DOMAIN m.type : <<0, t>> \in A
    OBVIOUS
  <1> HIDE DEF A, kids
  <1>6. Reach(kids, A) \subseteq DOMAIN m.at
    BY <1>1 DEF Reach
  <1>7. Reach(kids, A) = UNION {Reach(kids, {a}) : a \in A}
    BY <1>1, <1>4, ReachIsUnion
  <1>8. QED
    BY <1>2, <1>3, <1>4, <1>5, <1>6, <1>7 DEF kids

-----------------------------------------------------------------------------
(* Paths, and which comes before which. *)

\* One path before another: it leads to it, or they leave each other.
LEMMA PathLessParts ==
  ASSUME NEW p \in Seq(Nat), NEW q \in Seq(Nat)
  PROVE  PathLess(p, q) <=> (Leads(p, q) /\ p # q) \/ Apart(p, q)
  <1>1. IsStrictPrefix(p, q) <=> Leads(p, q) /\ p # q
    <2>1. ASSUME Len(p) <= Len(q)
          PROVE  SubSeq(p, 1, Len(p)) = SubSeq(q, 1, Len(p)) <=> \A i \in 1..Len(p) : p[i] = q[i]
      <3>1. SubSeq(p, 1, Len(p)) = [i \in 1..Len(p) |-> p[i]] /\ SubSeq(q, 1, Len(p)) = [i \in 1..Len(p) |-> q[i]]
        BY <2>1
      <3>2. QED
        BY <3>1
    <2>2. QED
      BY <2>1 DEF IsStrictPrefix, IsPrefix, Leads
  <1>2. QED
    BY <1>1 DEF PathLess, Apart

LEMMA LeadsTransitive ==
  ASSUME NEW p \in Seq(Nat), NEW q \in Seq(Nat), NEW r \in Seq(Nat), Leads(p, q), Leads(q, r)
  PROVE  Leads(p, r)
  BY DEF Leads

\* Of two paths that lead to a third, one leads to the other.
LEMMA LeadsChain ==
  ASSUME NEW p \in Seq(Nat), NEW q \in Seq(Nat), NEW r \in Seq(Nat), Leads(p, r), Leads(q, r)
  PROVE  Leads(p, q) \/ Leads(q, p)
  BY DEF Leads

LEMMA LeadsBothWays ==
  ASSUME NEW p \in Seq(Nat), NEW q \in Seq(Nat), Leads(p, q), Leads(q, p)
  PROVE  p = q
  BY DEF Leads

LEMMA LedEntries ==
  ASSUME NEW c \in Seq(Nat), NEW p \in Seq(Nat), Leads(c, p), NEW i \in DOMAIN c
  PROVE  /\ i \in DOMAIN p /\ p[i] = c[i]
         /\ \A j \in 1..(i-1) : j \in DOMAIN c /\ j \in DOMAIN p /\ p[j] = c[j]
  <1>1. PICK a \in Nat, u \in Nat : a = Len(c) /\ u = Len(p)
    OBVIOUS
  <1>2. DOMAIN c = 1..a /\ DOMAIN p = 1..u
    BY <1>1
  <1>3. a <= u /\ \A k \in 1..a : c[k] = p[k]
    BY <1>1 DEF Leads
  <1>4. i \in 1..a
    BY <1>2
  <1>5. i \in 1..u /\ \A j \in 1..(i-1) : j \in 1..a /\ j \in 1..u
    BY <1>3, <1>4
  <1>6. QED
    BY <1>2, <1>3, <1>4, <1>5

LEMMA ApartStays ==
  ASSUME NEW c \in Seq(Nat), NEW d \in Seq(Nat), NEW p \in Seq(Nat), NEW q \in Seq(Nat),
         Apart(c, d), Leads(c, p), Leads(d, q)
  PROVE  Apart(p, q)
  <1>1. PICK i \in DOMAIN c \cap DOMAIN d : c[i] < d[i] /\ \A j \in 1..(i-1) : c[j] = d[j]
    BY DEF Apart
  <1>2. i \in DOMAIN p /\ p[i] = c[i] /\ \A j \in 1..(i-1) : p[j] = c[j]
    BY LedEntries
  <1>3. i \in DOMAIN q /\ q[i] = d[i] /\ \A j \in 1..(i-1) : q[j] = d[j]
    BY LedEntries
  <1>4. QED
    BY <1>1, <1>2, <1>3 DEF Apart

LEMMA ApartOneWay ==
  ASSUME NEW p \in Seq(Nat), NEW q \in Seq(Nat), Apart(p, q)
  PROVE  ~Apart(q, p)
  <1>1. SUFFICES ASSUME Apart(q, p) PROVE FALSE
    OBVIOUS
  <1>2. Apart(p, p)
    BY <1>1, ApartTransitive
  <1>3. \A i \in DOMAIN p : p[i] \in Nat
    OBVIOUS
  <1>4. QED
    BY <1>2, <1>3 DEF Apart

\* Paths are in a strict order, which is total.
LEMMA PathLessOneWay ==
  ASSUME NEW p \in Seq(Nat), NEW q \in Seq(Nat), PathLess(p, q)
  PROVE  p # q /\ ~PathLess(q, p)
  <1>1. (Leads(p, q) /\ p # q) \/ Apart(p, q)
    BY PathLessParts
  <1>2. CASE Leads(p, q) /\ p # q
    <2>1. ~Apart(q, p)
      BY <1>2, ApartNotLeading
    <2>2. ~Leads(q, p)
      BY <1>2, LeadsBothWays
    <2>3. QED
      BY <1>2, <2>1, <2>2, PathLessParts
  <1>3. CASE Apart(p, q)
    <2>1. ~Apart(q, p) /\ ~Leads(q, p) /\ ~Leads(p, q)
      BY <1>3, ApartOneWay, ApartNotLeading
    <2>2. Leads(p, p)
      BY DEF Leads
    <2>3. QED
      BY <2>1, <2>2, PathLessParts
  <1>4. QED
    BY <1>1, <1>2, <1>3

LEMMA PathLessTotal ==
  ASSUME NEW p \in Seq(Nat), NEW q \in Seq(Nat), p # q
  PROVE  PathLess(p, q) \/ PathLess(q, p)
  <1> DEFINE X == {i \in Nat \ {0} : i \in DOMAIN p /\ i \in DOMAIN q /\ p[i] # q[i]}
  <1>1. CASE X = {}
    <2>1. \A i \in 1..Len(p) : i \in 1..Len(q) => p[i] = q[i]
      BY <1>1
    <2>2. Leads(p, q) \/ Leads(q, p)
      BY <2>1 DEF Leads
    <2>3. QED
      BY <2>2, PathLessParts
  <1>2. CASE X # {}
    <2>1. PICK i \in X : \A j \in X : ~(<<j, i>> \in OpToRel(<, Nat))
      <3>1. X \subseteq Nat
        OBVIOUS
      <3> HIDE DEF X
      <3>2. QED
        BY <1>2, <3>1, WFMin, NatLessThanWellFounded
    <2>2. \A j \in X : ~(j < i)
      BY <2>1 DEF OpToRel
    <2>3. i \in DOMAIN p /\ i \in DOMAIN q /\ p[i] # q[i] /\ p[i] \in Nat /\ q[i] \in Nat
      OBVIOUS
    <2>4. \A j \in 1..(i-1) : p[j] = q[j]
      <3>1. TAKE j \in 1..(i-1)
      <3>2. j < i /\ j \in Nat \ {0} /\ j \in DOMAIN p /\ j \in DOMAIN q
        <4>1. PICK a \in Nat, b \in Nat : a = Len(p) /\ b = Len(q)
          OBVIOUS
        <4>2. i \in 1..a /\ i \in 1..b
          BY <2>3, <4>1
        <4>3. j < i /\ j \in Nat \ {0} /\ j \in 1..a /\ j \in 1..b
          BY <4>2
        <4>4. QED
          BY <4>1, <4>3
      <3>3. QED
        BY <2>2, <3>2
    <2>5. p[i] < q[i] \/ q[i] < p[i]
      BY <2>3
    <2>6. Apart(p, q) \/ Apart(q, p)
      <3> HIDE DEF X
      <3>1. QED
        BY <2>3, <2>4, <2>5 DEF Apart
    <2>7. QED
      BY <2>6, PathLessParts
  <1>3. QED
    BY <1>1, <1>2

LEMMA PathLessTransitive ==
  ASSUME NEW p \in Seq(Nat), NEW q \in Seq(Nat), NEW r \in Seq(Nat), PathLess(p, q), PathLess(q, r)
  PROVE  PathLess(p, r)
  <1>1. Leads(p, p) /\ Leads(q, q) /\ Leads(r, r)
    BY DEF Leads
  <1>2. (Leads(p, q) /\ p # q) \/ Apart(p, q)
    BY PathLessParts
  <1>3. (Leads(q, r) /\ q # r) \/ Apart(q, r)
    BY PathLessParts
  <1>4. CASE Apart(p, q) /\ Apart(q, r)
    BY <1>4, ApartTransitive, PathLessParts
  <1>5. CASE Apart(p, q) /\ Leads(q, r)
    BY <1>1, <1>5, ApartStays, PathLessParts
  <1>6. CASE Leads(p, q) /\ p # q /\ Leads(q, r)
    <2>1. Leads(p, r)
      BY <1>6, LeadsTransitive
    <2>2. p # r
      BY <1>6, LeadsBothWays
    <2>3. QED
      BY <2>1, <2>2, PathLessParts
  <1>7. CASE Leads(p, q) /\ p # q /\ Apart(q, r)
    <2>1. PICK i \in DOMAIN q \cap DOMAIN r : q[i] < r[i] /\ \A j \in 1..(i-1) : q[j] = r[j]
      BY <1>7 DEF Apart
    <2>2. i \in 1..Len(q) /\ i \in 1..Len(r)
      BY <2>1
    <2>3. CASE i \in 1..Len(p)
      <3>0. \A j \in 1..(i-1) : j \in 1..Len(p)
        BY <2>3
      <3>1. p[i] = q[i] /\ \A j \in 1..(i-1) : p[j] = q[j]
        BY <1>7, <2>3, <3>0 DEF Leads
      <3>2. Apart(p, r)
        BY <2>1, <2>3, <3>1 DEF Apart
      <3>3. QED
        BY <3>2, PathLessParts
    <2>4. CASE i \notin 1..Len(p)
      <3>1. Len(p) < i
        BY <2>2, <2>4
      <3>2. \A j \in 1..Len(p) : p[j] = r[j]
        BY <1>7, <2>1, <3>1 DEF Leads
      <3>3. Leads(p, r) /\ p # r
        BY <2>2, <3>1, <3>2 DEF Leads
      <3>4. QED
        BY <3>3, PathLessParts
    <2>5. QED
      BY <2>3, <2>4
  <1>8. QED
    BY <1>2, <1>3, <1>4, <1>5, <1>6, <1>7

\* What c leads to compares alike with all that c does not lead to.
LEMMA LedAlike ==
  ASSUME NEW c \in Seq(Nat), NEW p \in Seq(Nat), NEW q \in Seq(Nat), NEW r \in Seq(Nat),
         Leads(c, p), Leads(c, q), ~Leads(c, r)
  PROVE  /\ PathLess(p, r) => PathLess(q, r)
         /\ PathLess(r, p) => PathLess(r, q)
  <1>1. ASSUME Leads(r, p) PROVE Leads(r, q) /\ r # q
    <2>1. Leads(r, c)
      BY <1>1, LeadsChain
    <2>2. QED
      BY <2>1, LeadsTransitive
  <1>2. ~Leads(p, r)
    BY LeadsTransitive
  <1>3. ASSUME NEW i \in DOMAIN p \cap DOMAIN r, \A j \in 1..(i-1) : p[j] = r[j]
        PROVE  i \in DOMAIN q /\ q[i] = p[i] /\ \A j \in 1..(i-1) : q[j] = p[j]
    <2>1. i <= Len(c)
      <3>1. SUFFICES ASSUME ~(i <= Len(c)) PROVE FALSE
        OBVIOUS
      <3>2. i \in 1..Len(r) /\ Len(c) \in Nat /\ i > Len(c)
        BY <3>1
      <3>3. Leads(c, r)
        BY <3>2, <1>3 DEF Leads
      <3>4. QED
        BY <3>3
    <2>2. PICK a \in Nat, b \in Nat, k \in Nat : a = Len(p) /\ b = Len(q) /\ k = Len(c)
      OBVIOUS
    <2>3. k <= b /\ \A j \in 1..k : q[j] = p[j]
      BY <2>2 DEF Leads
    <2>4. i \in 1..a /\ i <= k
      BY <2>1, <2>2
    <2>5. i \in 1..k /\ i \in 1..b /\ \A j \in 1..(i-1) : j \in 1..k
      BY <2>3, <2>4
    <2>6. i \in DOMAIN q
      BY <2>2, <2>5
    <2>7. QED
      BY <2>3, <2>5, <2>6
  <1>4. Apart(p, r) => Apart(q, r)
    <2>1. HAVE Apart(p, r)
    <2>2. PICK i \in DOMAIN p \cap DOMAIN r : p[i] < r[i] /\ \A j \in 1..(i-1) : p[j] = r[j]
      BY <2>1 DEF Apart
    <2>3. i \in DOMAIN q /\ q[i] = p[i] /\ \A j \in 1..(i-1) : q[j] = p[j]
      BY <2>2, <1>3
    <2>4. QED
      BY <2>2, <2>3 DEF Apart
  <1>5. Apart(r, p) => Apart(r, q)
    <2>1. HAVE Apart(r, p)
    <2>2. PICK i \in DOMAIN r \cap DOMAIN p : r[i] < p[i] /\ \A j \in 1..(i-1) : r[j] = p[j]
      BY <2>1 DEF Apart
    <2>3. i \in DOMAIN q /\ q[i] = p[i] /\ \A j \in 1..(i-1) : q[j] = p[j]
      BY <2>2, <1>3
    <2>4. QED
      BY <2>2, <2>3 DEF Apart
  <1>6. QED
    BY <1>1, <1>2, <1>4, <1>5, PathLessParts

\* Path q goes on behind d as p does behind c.
Shifted(c, p, d, q) ==
  /\ Leads(c, p) /\ Leads(d, q) /\ Len(p) + Len(d) = Len(q) + Len(c)
  /\ \A i \in 1..Len(p), j \in 1..Len(q) : i > Len(c) /\ i + Len(d) = j + Len(c) => p[i] = q[j]

LEMMA ShiftedStep ==
  ASSUME NEW c \in Seq(Nat), NEW p \in Seq(Nat), NEW d \in Seq(Nat), NEW q \in Seq(Nat),
         Shifted(c, p, d, q), NEW k \in Nat
  PROVE  Shifted(c, Append(p, k), d, Append(q, k)) /\ Shifted(c, c, d, d)
  <1>1. Shifted(c, c, d, d)
    BY DEF Shifted, Leads
  <1>2. PICK a \in Nat, b \in Nat, u \in Nat, v \in Nat : a = Len(p) /\ b = Len(q) /\ u = Len(c) /\ v = Len(d)
    OBVIOUS
  <1>3. u <= a /\ v <= b /\ a + v = b + u
    BY <1>2 DEF Shifted, Leads
  <1>4. /\ Len(Append(p, k)) = a + 1 /\ Len(Append(q, k)) = b + 1
        /\ \A i \in 1..a : Append(p, k)[i] = p[i]
        /\ \A i \in 1..b : Append(q, k)[i] = q[i]
        /\ Append(p, k)[a + 1] = k /\ Append(q, k)[b + 1] = k
    BY <1>2
  <1>5. Leads(c, Append(p, k)) /\ Leads(d, Append(q, k))
    BY <1>2, <1>3, <1>4 DEF Shifted, Leads
  <1>6. ASSUME NEW i \in 1..(a + 1), NEW j \in 1..(b + 1), i > u, i + v = j + u
        PROVE  Append(p, k)[i] = Append(q, k)[j]
    <2>1. CASE i = a + 1
      <3>1. j = b + 1
        BY <1>3, <1>6, <2>1
      <3>2. QED
        BY <2>1, <3>1, <1>4
    <2>2. CASE i # a + 1
      <3>1. i \in 1..a /\ j \in 1..b
        BY <1>3, <1>6, <2>2
      <3>2. p[i] = q[j]
        BY <3>1, <1>2, <1>6 DEF Shifted
      <3>3. QED
        BY <3>1, <3>2, <1>4
    <2>3. QED
      BY <2>1, <2>2
  <1>7. (a + 1) + v = (b + 1) + u
    BY <1>3
  <1> DEFINE pk == Append(p, k)
             qk == Append(q, k)
  <1>8. Len(pk) = a + 1 /\ Len(qk) = b + 1 /\ Leads(c, pk) /\ Leads(d, qk)
    BY <1>4, <1>5
  <1>9. \A i \in 1..(a + 1), j \in 1..(b + 1) : i > u /\ i + v = j + u => pk[i] = qk[j]
    BY <1>6
  <1> HIDE DEF pk, qk
  <1>10. Shifted(c, pk, d, qk)
    BY <1>2, <1>7, <1>8, <1>9 DEF Shifted
  <1>11. QED
    BY <1>1, <1>10 DEF pk, qk

LEMMA ShiftedAlike ==
  ASSUME NEW c \in Seq(Nat), NEW d \in Seq(Nat),
         NEW p \in Seq(Nat), NEW q \in Seq(Nat), Shifted(c, p, d, q),
         NEW s \in Seq(Nat), NEW t \in Seq(Nat), Shifted(c, s, d, t)
  PROVE  /\ Apart(p, s) => Apart(q, t)
         /\ PathLess(p, s) => PathLess(q, t)
  <1>1. PICK u \in Nat, v \in Nat, a \in Nat, b \in Nat, e \in Nat, f \in Nat :
            /\ u = Len(c) /\ v = Len(d) /\ a = Len(p) /\ b = Len(q) /\ e = Len(s) /\ f = Len(t)
    OBVIOUS
  <1>2. u <= a /\ v <= b /\ a + v = b + u /\ u <= e /\ v <= f /\ e + v = f + u
    BY <1>1 DEF Shifted, Leads
  <1>3. /\ \A i \in 1..u : p[i] = c[i] /\ s[i] = c[i]
        /\ \A i \in 1..v : q[i] = d[i] /\ t[i] = d[i]
        /\ \A i \in 1..a, j \in 1..b : i > u /\ i + v = j + u => p[i] = q[j]
        /\ \A i \in 1..e, j \in 1..f : i > u /\ i + v = j + u => s[i] = t[j]
    BY <1>1 DEF Shifted, Leads
  <1>4. \A j \in 1..b : j > v => \E i \in 1..a : i > u /\ i + v = j + u
    <2>1. TAKE j \in 1..b
    <2>2. HAVE j > v
    <2>3. (j + u) - v \in 1..a /\ (j + u) - v > u /\ ((j + u) - v) + v = j + u
      BY <1>2, <2>2
    <2>4. QED
      BY <2>3
  <1>5. ASSUME Apart(p, s) PROVE Apart(q, t)
    <2>1. PICK i \in DOMAIN p \cap DOMAIN s : p[i] < s[i] /\ \A j \in 1..(i-1) : p[j] = s[j]
      BY <1>5 DEF Apart
    <2>2. i \in 1..a /\ i \in 1..e /\ p[i] \in Nat /\ s[i] \in Nat
      BY <1>1, <2>1
    <2>3. i > u
      <3>1. SUFFICES ASSUME ~(i > u) PROVE FALSE
        OBVIOUS
      <3>2. i \in 1..u
        BY <2>2, <3>1
      <3>3. p[i] = s[i]
        BY <3>2, <1>3
      <3>4. QED
        BY <3>3, <2>1, <2>2
    <2>4. PICK k \in 1..b : k > v /\ k \in 1..f /\ i + v = k + u
      <3>1. (i + v) - u \in 1..b /\ (i + v) - u > v /\ (i + v) - u \in 1..f /\ i + v = ((i + v) - u) + u
        BY <1>2, <2>2, <2>3
      <3>2. QED
        BY <3>1
    <2>5. q[k] = p[i] /\ t[k] = s[i]
      BY <1>3, <2>2, <2>3, <2>4
    <2>6. \A j \in 1..(k-1) : q[j] = t[j]
      <3>1. TAKE j \in 1..(k-1)
      <3>2. CASE j <= v
        <4>1. j \in 1..v
          BY <3>2, <2>4
        <4>2. QED
          BY <4>1, <1>3
      <3>3. CASE j > v
        <4>0. j \in 1..b
          BY <2>4
        <4>1. PICK l \in 1..a : l > u /\ l + v = j + u
          BY <4>0, <3>3, <1>4
        <4>2. l \in 1..(i-1) /\ l \in 1..e /\ j \in 1..b /\ j \in 1..f
          BY <4>1, <2>2, <2>4, <1>2
        <4>3. p[l] = q[j] /\ s[l] = t[j] /\ p[l] = s[l]
          BY <4>1, <4>2, <1>3, <2>1
        <4>4. QED
          BY <4>3
      <3>4. QED
        BY <3>2, <3>3, <2>4, <1>1
    <2>7. k \in DOMAIN q \cap DOMAIN t
      BY <2>4, <1>1
    <2>8. QED
      BY <2>1, <2>5, <2>6, <2>7 DEF Apart
  <1>6. ASSUME Leads(p, s), p # s PROVE Leads(q, t) /\ q # t
    <2>1. a <= e /\ \A i \in 1..a : p[i] = s[i]
      BY <1>6, <1>1 DEF Leads
    <2>2. a # e
      <3>1. SUFFICES ASSUME a = e PROVE FALSE
        OBVIOUS
      <3>2. Leads(s, p)
        BY <3>1, <2>1, <1>1 DEF Leads
      <3>3. QED
        BY <3>2, <1>6, LeadsBothWays
    <2>3. b <= f /\ b # f
      BY <2>1, <2>2, <1>2
    <2>4. \A j \in 1..b : q[j] = t[j]
      <3>1. TAKE j \in 1..b
      <3>2. CASE j <= v
        <4>1. j \in 1..v
          BY <3>2
        <4>2. QED
          BY <4>1, <1>3
      <3>3. CASE j > v
        <4>1. PICK i \in 1..a : i > u /\ i + v = j + u
          BY <3>3, <1>4
        <4>2. i \in 1..e /\ j \in 1..f
          BY <4>1, <2>1, <2>3
        <4>3. QED
          BY <4>1, <4>2, <1>3, <2>1
      <3>4. QED
        BY <3>2, <3>3, <1>1
    <2>5. QED
      BY <2>3, <2>4, <1>1 DEF Leads
  <1>7. QED
    BY <1>5, <1>6, PathLessParts

LEMMA Appended ==
  ASSUME NEW u \in Seq(Nat), NEW x \in Nat, NEW w, w = Append(u, x)
  PROVE  /\ w \in Seq(Nat) /\ Len(w) = Len(u) + 1 /\ w[Len(u) + 1] = x
         /\ \A i \in 1..Len(u) : w[i] = u[i]
  OBVIOUS

IsAppended(u, x, w) == w = Append(u, x)

LEMMA AppendedBy ==
  ASSUME NEW u \in Seq(Nat), NEW x \in Nat, NEW w, IsAppended(u, x, w)
  PROVE  /\ w \in Seq(Nat) /\ Len(w) = Len(u) + 1 /\ w[Len(u) + 1] = x
         /\ \A i \in 1..Len(u) : w[i] = u[i]
  BY Appended DEF IsAppended

LEMMA AppendOnce ==
  ASSUME NEW u \in Seq(Nat), NEW v \in Seq(Nat), NEW x \in Nat, NEW y \in Nat,
         NEW w, IsAppended(u, x, w), IsAppended(v, y, w)
  PROVE  u = v /\ x = y
  <1>1. Len(w) = Len(u) + 1 /\ w[Len(u) + 1] = x /\ \A i \in 1..Len(u) : w[i] = u[i]
    BY AppendedBy
  <1>2. Len(w) = Len(v) + 1 /\ w[Len(v) + 1] = y /\ \A i \in 1..Len(v) : w[i] = v[i]
    BY AppendedBy
  <1>3. PICK a \in Nat, b \in Nat : a = Len(u) /\ b = Len(v)
    OBVIOUS
  <1>4. a + 1 = b + 1
    BY <1>1, <1>2, <1>3
  <1>5. a = b
    BY <1>4
  <1>6. x = y /\ \A i \in 1..a : u[i] = v[i]
    BY <1>1, <1>2, <1>3, <1>5
  <1>7. Leads(u, v) /\ Leads(v, u)
    BY <1>3, <1>5, <1>6 DEF Leads
  <1>8. QED
    BY <1>6, <1>7, LeadsBothWays

\* How the path of a slot comes about, if it has one.
LEMMA PathMade ==
  ASSUME NEW m, Wooded(m), NEW s \in DOMAIN m.at, HasRow(m, s)
  PROVE  /\ s[1] = 0 => Path(m, s) = <<s[2]>> /\ s[2] \in DOMAIN m.type /\ s = <<0, s[2]>>
         /\ s[1] # 0 => \E p \in DOMAIN m.at : /\ s \in SlotsBelow(m)[p] /\ HasRow(m, p)
                                               /\ Path(m, s) = Append(Path(m, p), s[2])
  <1>1. CASE s[1] = 0
    <2>1. s \in RootSlots(m)
      BY <1>1 DEF RootSlots
    <2>2. Path(m, s) = IF s[2] \in DOMAIN m.type THEN <<s[2]>> ELSE <<>>
      BY <2>1, PathStep DEF PathFirst
    <2>3. s \in Nat \X Nat
      BY DEF Wooded, SlotsPlaced, Slots
    <2>4. s = <<s[1], s[2]>>
      BY <2>3
    <2>5. QED
      BY <1>1, <2>2, <2>4 DEF HasRow
  <1>2. CASE s[1] # 0
    <2>1. PICK p \in DOMAIN m.at : s \in SlotsBelow(m)[p]
      BY <1>2, OneWayUp
    <2>2. Path(m, s) = Extended(Path(m, p), s[2])
      BY <2>1, PathStep
    <2>3. QED
      BY <1>2, <2>1, <2>2 DEF HasRow, Extended
  <1>3. QED
    BY <1>1, <1>2

\* No two slots have one path.
LEMMA PathInjective ==
  ASSUME NEW m, Wooded(m)
  PROVE  \A a, b \in DOMAIN m.at : HasRow(m, a) /\ Path(m, a) = Path(m, b) => a = b
  <1> DEFINE C == {a \in DOMAIN m.at : HasRow(m, a) => \A b \in DOMAIN m.at : Path(m, a) = Path(m, b) => a = b}
  <1>1. \A s \in DOMAIN m.at : Path(m, s) \in Seq(Nat) /\ s[2] \in Nat
    BY PathType DEF Wooded, SlotsPlaced, Slots
  <1>2. ASSUME NEW p \in Seq(Nat), NEW k \in Nat, NEW l, p # <<>> PROVE Append(p, k) # <<l>>
    <2>1. Len(Append(p, k)) = Len(p) + 1 /\ Len(p) # 0 /\ Len(<<l>>) = 1
      BY <1>2
    <2>2. QED
      BY <2>1
  <1>3. RootSlots(m) \subseteq C
    <2>1. ASSUME NEW a \in RootSlots(m), HasRow(m, a), NEW b \in DOMAIN m.at, Path(m, a) = Path(m, b)
          PROVE  a = b
      <3>1. a \in DOMAIN m.at /\ a[1] = 0
        BY DEF RootSlots
      <3>2. Path(m, a) = <<a[2]>> /\ a = <<0, a[2]>>
        BY <2>1, <3>1, PathMade
      <3>3. HasRow(m, b)
        BY <2>1 DEF HasRow
      <3>4. CASE b[1] = 0
        <4>1. Path(m, b) = <<b[2]>> /\ b = <<0, b[2]>>
          BY <3>3, <3>4, PathMade
        <4>2. a[2] = b[2]
          <5>1. \A k, l : <<k>> = <<l>> => k = l
            OBVIOUS
          <5>2. <<a[2]>> = <<b[2]>>
            BY <2>1, <3>2, <4>1
          <5>3. QED
            BY <5>1, <5>2
        <4>3. QED
          BY <3>2, <4>1, <4>2
      <3>5. CASE b[1] # 0
        <4>1. PICK p \in DOMAIN m.at : HasRow(m, p) /\ Path(m, b) = Append(Path(m, p), b[2])
          BY <3>3, <3>5, PathMade
        <4>2. QED
          BY <1>1, <1>2, <2>1, <3>2, <4>1 DEF HasRow
      <3>6. QED
        BY <3>4, <3>5
    <2>2. QED
      BY <2>1 DEF RootSlots
  <1>4. Closed(SlotsBelow(m), C)
    <2>1. ASSUME NEW s \in C, NEW a \in SlotsBelow(m)[s], HasRow(m, a),
                 NEW b \in DOMAIN m.at, Path(m, a) = Path(m, b)
          PROVE  a = b
      <3>1. a \in DOMAIN m.at /\ s \in DOMAIN m.at /\ Path(m, a) = Extended(Path(m, s), a[2])
        BY PathStep
      <3>2. HasRow(m, s) /\ Path(m, a) = Append(Path(m, s), a[2]) /\ HasRow(m, b)
        BY <2>1, <3>1 DEF HasRow, Extended
      <3>3. b[1] # 0
        <4>1. SUFFICES ASSUME b[1] = 0 PROVE FALSE
          OBVIOUS
        <4>2. Path(m, b) = <<b[2]>>
          BY <3>2, <4>1, PathMade
        <4>3. QED
          BY <1>1, <1>2, <2>1, <3>1, <3>2, <4>2 DEF HasRow
      <3>4. PICK p \in DOMAIN m.at : b \in SlotsBelow(m)[p] /\ Path(m, b) = Append(Path(m, p), b[2])
        BY <3>2, <3>3, PathMade
      <3>5. Path(m, s) = Path(m, p) /\ a[2] = b[2]
        <4>1. /\ Path(m, s) \in Seq(Nat) /\ Path(m, p) \in Seq(Nat) /\ a[2] \in Nat /\ b[2] \in Nat
              /\ Append(Path(m, s), a[2]) = Append(Path(m, p), b[2])
          BY <1>1, <2>1, <3>1, <3>2, <3>4
        <4>2. IsAppended(Path(m, s), a[2], Path(m, a)) /\ IsAppended(Path(m, p), b[2], Path(m, a))
          BY <3>2, <4>1 DEF IsAppended
        <4>3. QED
          BY <4>1, <4>2, AppendOnce
      <3>6. s = p
        BY <3>2, <3>5
      <3>7. a[1] # 0 /\ a[1] = m.at[s] /\ b[1] = m.at[s]
        BY <3>1, <3>4, <3>6, SlotBelow DEF Wooded
      <3>8. a = <<a[1], a[2]>> /\ b = <<b[1], b[2]>>
        BY <3>1, <3>3, <3>7, SlotBelow DEF Wooded
      <3>9. QED
        BY <3>5, <3>7, <3>8
    <2>2. \A s \in C : \A a \in SlotsBelow(m)[s] : a \in DOMAIN m.at
      BY PathStep
    <2>3. QED
      BY <2>1, <2>2 DEF Closed
  <1>5. C = DOMAIN m.at
    BY <1>3, <1>4, AllSlots
  <1>6. QED
    BY <1>5

\* A path leads to another only from above.
LEMMA LedFromAbove ==
  ASSUME NEW m, Wooded(m), NEW b \in DOMAIN m.at, HasRow(m, b)
  PROVE  \A a \in DOMAIN m.at : HasRow(m, a) /\ Leads(Path(m, b), Path(m, a)) => a \in Reach(SlotsBelow(m), {b})
  <1> DEFINE kids == SlotsBelow(m)
             C == {a \in DOMAIN m.at : HasRow(m, a) /\ Leads(Path(m, b), Path(m, a)) => a \in Reach(kids, {b})}
  <1>1. \A s \in DOMAIN m.at : Path(m, s) \in Seq(Nat) /\ s[2] \in Nat
    BY PathType DEF Wooded, SlotsPlaced, Slots
  <1>2. IsKids(kids) /\ DOMAIN kids = DOMAIN m.at
    BY SlotBelow DEF Wooded
  <1>3. b \in Reach(kids, {b}) /\ Closed(kids, Reach(kids, {b}))
    BY <1>2, ReachIsLeast
  <1>4. ASSUME NEW p \in Seq(Nat), NEW q \in Seq(Nat), Leads(p, q), Len(p) = Len(q) PROVE p = q
    <2>1. Leads(q, p)
      BY <1>4 DEF Leads
    <2>2. QED
      BY <1>4, <2>1, LeadsBothWays
  <1>5. RootSlots(m) \subseteq C
    <2>1. ASSUME NEW a \in RootSlots(m), HasRow(m, a), Leads(Path(m, b), Path(m, a)) PROVE a \in Reach(kids, {b})
      <3>1. a \in DOMAIN m.at /\ a[1] = 0
        BY DEF RootSlots
      <3>2. Len(Path(m, a)) = 1
        BY <2>1, <3>1, PathMade
      <3>3. Len(Path(m, b)) = 1
        <4>1. Len(Path(m, b)) <= 1 /\ Path(m, b) # <<>> /\ Path(m, b) \in Seq(Nat)
          BY <1>1, <2>1, <3>2 DEF Leads, HasRow
        <4>2. PICK p \in Seq(Nat), k \in Nat : p = Path(m, b) /\ k = Len(p) /\ p # <<>>
          BY <4>1
        <4>3. k # 0
          BY <4>2
        <4>4. QED
          BY <4>1, <4>2, <4>3
      <3>4. Path(m, b) = Path(m, a)
        BY <1>1, <1>4, <2>1, <3>1, <3>2, <3>3
      <3>5. a = b
        BY <2>1, <3>1, <3>4, PathInjective
      <3>6. QED
        BY <1>3, <3>5
    <2>2. QED
      BY <2>1 DEF RootSlots
  <1>6. Closed(kids, C)
    <2>1. ASSUME NEW s \in C, NEW a \in kids[s], HasRow(m, a), Leads(Path(m, b), Path(m, a))
          PROVE  a \in Reach(kids, {b})
      <3>1. a \in DOMAIN m.at /\ s \in DOMAIN m.at /\ Path(m, a) = Extended(Path(m, s), a[2])
        BY PathStep
      <3>2. HasRow(m, s) /\ Path(m, a) = Append(Path(m, s), a[2])
        BY <2>1, <3>1 DEF HasRow, Extended
      <3>3. PICK p \in Seq(Nat), q \in Seq(Nat), k \in Nat : p = Path(m, b) /\ q = Path(m, s) /\ k = a[2]
        BY <1>1, <3>1
      <3>4. Leads(p, Append(q, k))
        BY <2>1, <3>2, <3>3
      <3>5. CASE Len(p) = Len(Append(q, k))
        <4>1. p = Append(q, k)
          <5>1. Append(q, k) \in Seq(Nat)
            BY Appended
          <5>2. QED
            BY <1>4, <3>4, <3>5, <5>1
        <4>2. a = b
          BY <4>1, <2>1, <3>1, <3>2, <3>3, PathInjective
        <4>3. QED
          BY <1>3, <4>2
      <3>6. CASE Len(p) # Len(Append(q, k))
        <4>1. Len(p) <= Len(q)
          BY <3>4, <3>6 DEF Leads
        <4>2. \A i \in 1..Len(q) : Append(q, k)[i] = q[i]
          OBVIOUS
        <4>3. Leads(p, q)
          BY <3>4, <4>1, <4>2 DEF Leads
        <4>4. s \in Reach(kids, {b})
          BY <3>2, <3>3, <4>3
        <4>5. QED
          BY <1>3, <4>4 DEF Closed
      <3>7. QED
        BY <3>5, <3>6
    <2>2. \A s \in C : \A a \in kids[s] : a \in DOMAIN m.at
      BY PathStep
    <2>3. QED
      BY <2>1, <2>2 DEF Closed
  <1>7. C = DOMAIN m.at
    BY <1>5, <1>6, AllSlots
  <1>8. QED
    BY <1>7

\* What is reached from the root of a tree has a path that begins with the tree.
LEMMA PathInTree ==
  ASSUME NEW m, Wooded(m), NEW t \in DOMAIN m.type
  PROVE  \A s \in Reach(SlotsBelow(m), {<<0, t>>}) : HasRow(m, s) /\ Path(m, s)[1] = t /\ s \in DOMAIN m.at
  <1> DEFINE kids == SlotsBelow(m)
             root == <<0, t>>
             C == {s \in DOMAIN m.at : HasRow(m, s) /\ Path(m, s)[1] = t}
  <1>1. IsKids(kids) /\ DOMAIN kids = DOMAIN m.at /\ root \in DOMAIN m.at
    BY SlotBelow DEF Wooded, TreesNumbered
  <1>2. root \in C
    <2>1. root \in RootSlots(m) /\ root[2] = t
      BY <1>1 DEF RootSlots
    <2>2. Path(m, root) = <<t>>
      BY <2>1, PathStep DEF PathFirst
    <2>3. QED
      BY <1>1, <2>2 DEF HasRow
  <1>3. Closed(kids, C)
    <2>1. ASSUME NEW s \in C, NEW a \in kids[s] PROVE a \in C
      <3>1. a \in DOMAIN m.at /\ s \in DOMAIN m.at /\ Path(m, a) = Extended(Path(m, s), a[2])
        BY PathStep
      <3>2. Path(m, s) \in Seq(Nat) /\ Path(m, s) # <<>> /\ Path(m, s)[1] = t /\ a[2] \in Nat
        BY <3>1, PathType DEF HasRow, Wooded, SlotsPlaced, Slots
      <3>3. Path(m, a) = Append(Path(m, s), a[2])
        BY <3>1, <3>2 DEF Extended
      <3>4. Append(Path(m, s), a[2]) # <<>> /\ Append(Path(m, s), a[2])[1] = t
        BY <3>2
      <3>5. QED
        BY <3>1, <3>3, <3>4 DEF HasRow
    <2>2. QED
      BY <2>1 DEF Closed
  <1>4. {root} \in SUBSET DOMAIN kids /\ C \in SUBSET DOMAIN kids /\ {root} \subseteq C
    BY <1>1, <1>2
  <1> HIDE DEF C, root
  <1>5. Reach(kids, {root}) \subseteq C
    BY <1>1, <1>3, <1>4, ReachIsLeast
  <1>6. QED
    BY <1>5 DEF C, root

LEMMA ShiftedStart ==
  ASSUME NEW c \in Seq(Nat), NEW d \in Seq(Nat)
  PROVE  Shifted(c, c, d, d)
  BY DEF Shifted, Leads

\* Slots that have one way up in two memories have one path.
LEMMA PathsAgree ==
  ASSUME NEW m, Wooded(m), NEW n, Wooded(n), NEW U \in SUBSET DOMAIN m.at,
         \A r \in RootSlots(m) : r \in U =>
            r \in DOMAIN n.at /\ (r[2] \in DOMAIN m.type <=> r[2] \in DOMAIN n.type),
         \A p \in DOMAIN m.at : \A k \in SlotsBelow(m)[p] :
            k \in U => p \in U /\ p \in DOMAIN n.at /\ k \in SlotsBelow(n)[p]
  PROVE  \A s \in U : Path(n, s) = Path(m, s)
  <1> DEFINE C == {s \in DOMAIN m.at : s \in U => Path(n, s) = Path(m, s)}
  <1>1. RootSlots(m) \subseteq C
    <2>1. ASSUME NEW r \in RootSlots(m), r \in U PROVE Path(n, r) = Path(m, r)
      <3>1. r \in DOMAIN n.at /\ (r[2] \in DOMAIN m.type <=> r[2] \in DOMAIN n.type)
        BY <2>1
      <3>2. r \in RootSlots(m) /\ r \in RootSlots(n)
        BY <3>1 DEF RootSlots
      <3>3. Path(m, r) = PathFirst(m)[r] /\ Path(n, r) = PathFirst(n)[r]
        BY <3>2, PathStep
      <3>4. QED
        BY <3>1, <3>2, <3>3 DEF PathFirst
    <2>2. QED
      BY <2>1 DEF RootSlots
  <1>2. Closed(SlotsBelow(m), C)
    <2>1. ASSUME NEW p \in C, NEW k \in SlotsBelow(m)[p], k \in U PROVE Path(n, k) = Path(m, k)
      <3>1. p \in DOMAIN m.at /\ p \in U /\ p \in DOMAIN n.at /\ k \in SlotsBelow(n)[p]
        BY <2>1
      <3>2. Path(m, k) = Extended(Path(m, p), k[2]) /\ Path(n, k) = Extended(Path(n, p), k[2])
        BY <3>1, PathStep
      <3>3. QED
        BY <3>1, <3>2
    <2>2. \A p \in C : \A k \in SlotsBelow(m)[p] : k \in DOMAIN m.at
      BY PathStep
    <2>3. QED
      BY <2>1, <2>2 DEF Closed
  <1>3. C = DOMAIN m.at
    BY <1>1, <1>2, AllSlots
  <1>4. QED
    BY <1>3

\* Slots U below slot b in one memory, and below slot e in the other.
LEMMA ShiftedRegion ==
  ASSUME NEW m, Wooded(m), NEW n, Wooded(n), NEW b \in DOMAIN m.at, NEW e \in DOMAIN n.at,
         HasRow(m, b), HasRow(n, e), NEW U \in SUBSET DOMAIN m.at, U \cap RootSlots(m) = {},
         \A k \in SlotsBelow(m)[b] : k \in SlotsBelow(n)[e],
         \A p \in DOMAIN m.at : \A k \in SlotsBelow(m)[p] :
            k \in U => p = b \/ (p \in U /\ p \in DOMAIN n.at /\ k \in SlotsBelow(n)[p])
  PROVE  \A s \in U : Path(n, s) \in Seq(Nat) /\ Shifted(Path(m, b), Path(m, s), Path(n, e), Path(n, s))
  <1> DEFINE Sh(s) == /\ Path(m, s) \in Seq(Nat) /\ Path(n, s) \in Seq(Nat)
                      /\ Shifted(Path(m, b), Path(m, s), Path(n, e), Path(n, s))
             C == {s \in DOMAIN m.at : s \in U => Sh(s)}
  <1>1. Path(m, b) \in Seq(Nat) /\ Path(m, b) # <<>> /\ Path(n, e) \in Seq(Nat) /\ Path(n, e) # <<>>
    BY PathType DEF HasRow
  <1>2. \A c, p \in Seq(Nat) : c # <<>> /\ Leads(c, p) => p # <<>>
    <2>1. TAKE c, p \in Seq(Nat)
    <2>2. HAVE c # <<>> /\ Leads(c, p)
    <2>3. Len(c) # 0 /\ Len(c) \in Nat /\ Len(p) \in Nat /\ Len(c) <= Len(p)
      BY <2>2 DEF Leads
    <2>4. QED
      BY <2>3
  <1>3. ASSUME NEW p \in Seq(Nat), NEW q \in Seq(Nat), NEW k \in DOMAIN m.at, p # <<>>, q # <<>>,
               Shifted(Path(m, b), p, Path(n, e), q),
               Path(m, k) = Extended(p, k[2]), Path(n, k) = Extended(q, k[2])
        PROVE  Sh(k)
    <2>1. k[2] \in Nat
      BY DEF Wooded, SlotsPlaced, Slots
    <2>2. Path(m, k) = Append(p, k[2]) /\ Path(n, k) = Append(q, k[2])
      BY <1>3 DEF Extended
    <2>3. Append(p, k[2]) \in Seq(Nat) /\ Append(q, k[2]) \in Seq(Nat)
      BY <2>1
    <2>4. Shifted(Path(m, b), Append(p, k[2]), Path(n, e), Append(q, k[2]))
      BY <1>1, <1>3, <2>1, ShiftedStep
    <2>5. QED
      BY <2>2, <2>3, <2>4
  <1>4. RootSlots(m) \subseteq C
    BY DEF RootSlots
  <1>5. Closed(SlotsBelow(m), C)
    <2>1. ASSUME NEW p \in C, NEW k \in SlotsBelow(m)[p], k \in U PROVE Sh(k)
      <3>1. p \in DOMAIN m.at /\ k \in DOMAIN m.at /\ Path(m, k) = Extended(Path(m, p), k[2])
        BY PathStep
      <3>2. CASE p = b
        <4>1. Path(n, k) = Extended(Path(n, e), k[2])
          BY <2>1, <3>2, PathStep
        <4>2. Shifted(Path(m, b), Path(m, b), Path(n, e), Path(n, e))
          BY <1>1, ShiftedStart
        <4>3. QED
          <5> HIDE DEF Sh
          <5>1. QED
            BY <1>1, <1>3, <3>1, <3>2, <4>1, <4>2
      <3>3. CASE p # b
        <4>1. p \in U /\ Path(n, k) = Extended(Path(n, p), k[2])
          BY <2>1, <3>1, <3>3, PathStep
        <4>2. Sh(p)
          BY <4>1
        <4>3. Path(m, p) # <<>> /\ Path(n, p) # <<>>
          BY <1>1, <1>2, <4>2 DEF Shifted
        <4>4. Path(m, p) \in Seq(Nat) /\ Path(n, p) \in Seq(Nat) /\ Shifted(Path(m, b), Path(m, p), Path(n, e), Path(n, p))
          BY <4>2
        <4>5. QED
          <5> HIDE DEF Sh
          <5>1. QED
            BY <1>3, <3>1, <4>1, <4>3, <4>4
      <3>4. QED
        BY <3>2, <3>3
    <2>2. \A p \in C : \A k \in SlotsBelow(m)[p] : k \in DOMAIN m.at
      BY PathStep
    <2> HIDE DEF Sh
    <2>3. QED
      BY <2>1, <2>2 DEF Closed
  <1>6. C = DOMAIN m.at
    <2> HIDE DEF Sh
    <2>1. QED
      BY <1>4, <1>5, AllSlots
  <1>7. QED
    BY <1>6

-----------------------------------------------------------------------------
(* Zones that change places. *)

\* What is right above a slot that is below b is b or below it too.
LEMMA BelowFrom ==
  ASSUME NEW kids, NEW roots, Forest(kids, roots), NEW b \in DOMAIN kids
  PROVE  /\ kids[b] \subseteq Below(kids, {b}) /\ Below(kids, {b}) \subseteq DOMAIN kids
         /\ Closed(kids, Below(kids, {b})) /\ b \notin Below(kids, {b}) /\ Below(kids, {b}) \cap roots = {}
         /\ Reach(kids, {b}) = {b} \cup Below(kids, {b})
         /\ \A p \in DOMAIN kids : \A k \in kids[p] :
               k \in Below(kids, {b}) => p = b \/ p \in Below(kids, {b})
  <1>1. IsKids(kids) /\ kids[b] \in SUBSET DOMAIN kids /\ UNION {kids[s] : s \in {b}} = kids[b]
    BY DEF Forest, IsKids
  <1>2. Below(kids, {b}) = Reach(kids, kids[b])
    BY <1>1 DEF Below
  <1>3. /\ kids[b] \subseteq Reach(kids, kids[b]) /\ Reach(kids, kids[b]) \subseteq DOMAIN kids
        /\ Closed(kids, Reach(kids, kids[b]))
    BY <1>1, ReachIsLeast
  <1>4. ASSUME NEW p \in DOMAIN kids, NEW k \in kids[p], k \in Reach(kids, kids[b]), p # b
        PROVE  p \in Reach(kids, kids[b])
    <2>1. k \notin kids[b]
      BY <1>4 DEF Forest
    <2>2. PICK q \in Reach(kids, kids[b]) : k \in kids[q]
      BY <1>1, <1>4, <2>1, ReachedFrom
    <2>3. q = p
      BY <1>3, <1>4, <2>2 DEF Forest
    <2>4. QED
      BY <2>2, <2>3
  <1>5. b \notin Below(kids, {b})
    BY NoCycles
  <1>6. ASSUME NEW r \in roots, r \in Reach(kids, kids[b]) PROVE FALSE
    <2>1. r \notin kids[b]
      BY DEF Forest
    <2>2. PICK q \in Reach(kids, kids[b]) : r \in kids[q]
      BY <1>1, <1>6, <2>1, ReachedFrom
    <2>3. QED
      BY <1>3, <2>2 DEF Forest
  <1>7. Reach(kids, {b}) = {b} \cup Below(kids, {b})
    BY <1>1, ReachStep
  <1>8. QED
    BY <1>2, <1>3, <1>4, <1>5, <1>6, <1>7

LEMMA BelowBelow ==
  ASSUME NEW kids, IsKids(kids), NEW a \in DOMAIN kids, NEW b \in Below(kids, {a})
  PROVE  b \in DOMAIN kids /\ Below(kids, {b}) \subseteq Below(kids, {a})
  <1>1. UNION {kids[s] : s \in {a}} = kids[a] /\ UNION {kids[s] : s \in {b}} = kids[b]
    OBVIOUS
  <1>2. Below(kids, {a}) = Reach(kids, kids[a]) /\ Below(kids, {b}) = Reach(kids, kids[b])
    BY <1>1 DEF Below
  <1>3. kids[a] \in SUBSET DOMAIN kids
    BY DEF IsKids
  <1>4. /\ Reach(kids, kids[a]) \subseteq DOMAIN kids /\ Closed(kids, Reach(kids, kids[a]))
    BY <1>3, ReachIsLeast
  <1>5. kids[b] \in SUBSET Reach(kids, kids[a])
    BY <1>2, <1>4 DEF Closed
  <1>6. Reach(kids, kids[b]) \subseteq Reach(kids, kids[a])
    BY <1>3, <1>5, ReachGrows
  <1>7. QED
    BY <1>2, <1>4, <1>6

\* The terminii of a zone follow each other, none leads to the next.
InOrder(m, z) == \A i, j \in DOMAIN z.term : i < j => Apart(Path(m, z.term[i]), Path(m, z.term[j]))

\* Memory n is m after the contents of the bases, and of the terminii one by
\* one, have changed places.
Crossing(m, n, x, y) ==
  /\ SlotsBelow(n)[x.base] = SlotsBelow(m)[y.base]
  /\ \A i \in DOMAIN x.term : SlotsBelow(n)[x.term[i]] = SlotsBelow(m)[y.term[i]]

Crossed(m, n, x, y) ==
  /\ Wooded(m) /\ Wooded(n) /\ DOMAIN n.at = DOMAIN m.at /\ n.type = m.type
  /\ \E t, u \in DOMAIN m.type : t # u /\ ZoneIn(m, x, t) /\ ZoneIn(m, y, u)
  /\ DOMAIN x.term = DOMAIN y.term
  /\ InOrder(m, x) /\ InOrder(m, y) /\ Crossing(m, n, x, y) /\ Crossing(m, n, y, x)
  /\ \A s \in DOMAIN m.at : s \notin ToSet(Boundary(x)) \cup ToSet(Boundary(y)) =>
        SlotsBelow(n)[s] = SlotsBelow(m)[s]

LEMMA CrossedOtherWay ==
  ASSUME NEW m, NEW n, NEW x, NEW y, Crossed(m, n, x, y)
  PROVE  Crossed(m, n, y, x)
  BY DEF Crossed

\* One of two zones, and that it has nothing in common with the other's tree.
ZoneApart(m, x, y) ==
  LET kids == SlotsBelow(m) IN
  /\ IsKids(kids) /\ DOMAIN kids = DOMAIN m.at /\ Forest(kids, RootSlots(m))
  /\ x.base \in DOMAIN m.at /\ x.base \in Live(m) /\ Below(kids, {x.base}) \subseteq Live(m)
  /\ ToSet(Boundary(x)) = {x.base} \cup ToSet(x.term)
  /\ \A i \in DOMAIN x.term : /\ x.term[i] \in DOMAIN m.at /\ x.term[i] \in ToSet(x.term)
                              /\ x.term[i] \in Below(kids, {x.base})
                              /\ Below(kids, {x.term[i]}) \subseteq Below(kids, {x.base})
                              /\ \A j \in DOMAIN x.term : x.term[j] \notin Below(kids, {x.term[i]})
  /\ \A s \in ToSet(x.term) : \E i \in DOMAIN x.term : s = x.term[i]
  /\ Reach(kids, {x.base}) = {x.base} \cup Below(kids, {x.base})
  /\ Reach(kids, {x.base}) \cap Reach(kids, {y.base}) = {}

LEMMA CrossedZones ==
  ASSUME NEW m, NEW n, NEW x, NEW y, Crossed(m, n, x, y)
  PROVE  ZoneApart(m, x, y) /\ ZoneApart(m, y, x)
  <1> DEFINE kids == SlotsBelow(m)
  <1>1. PICK t \in DOMAIN m.type, u \in DOMAIN m.type : t # u /\ ZoneIn(m, x, t) /\ ZoneIn(m, y, u)
    BY DEF Crossed
  <1>2. Wooded(m)
    BY DEF Crossed
  <1>3. IsKids(kids) /\ DOMAIN kids = DOMAIN m.at /\ Forest(kids, RootSlots(m))
    BY <1>2, SlotBelow DEF Wooded
  <1>4. ASSUME NEW z, NEW v \in DOMAIN m.type, ZoneIn(m, z, v)
        PROVE  /\ z.base \in DOMAIN m.at /\ z.base \in Live(m) /\ Below(kids, {z.base}) \subseteq Live(m)
               /\ ToSet(Boundary(z)) = {z.base} \cup ToSet(z.term)
               /\ \A i \in DOMAIN z.term : /\ z.term[i] \in DOMAIN m.at /\ z.term[i] \in ToSet(z.term)
                                           /\ z.term[i] \in Below(kids, {z.base})
                                           /\ Below(kids, {z.term[i]}) \subseteq Below(kids, {z.base})
                                           /\ \A j \in DOMAIN z.term : z.term[j] \notin Below(kids, {z.term[i]})
               /\ \A s \in ToSet(z.term) : \E i \in DOMAIN z.term : s = z.term[i]
               /\ Reach(kids, {z.base}) = {z.base} \cup Below(kids, {z.base})
               /\ Reach(kids, {z.base}) \subseteq Reach(kids, {<<0, v>>})
               /\ <<0, v>> \in RootSlots(m)
    <2>1. /\ ToSet(Boundary(z)) \subseteq Reach(kids, {<<0, v>>})
          /\ z.base \in DOMAIN m.at /\ ToSet(z.term) \subseteq DOMAIN m.at /\ <<0, v>> \in RootSlots(m)
          /\ ToSet(z.term) \subseteq Below(kids, {z.base})
          /\ Below(kids, {z.base}) \subseteq Reach(kids, {<<0, v>>})
          /\ \A a, b \in ToSet(z.term) : a \notin Below(kids, {b})
      BY <1>2, <1>4, ZoneParts
    <2>2. z.term \in Seq(DOMAIN m.at)
      BY <1>4 DEF ZoneIn
    <2>3. ToSet(Boundary(z)) = {z.base} \cup ToSet(z.term)
      BY <2>1, <2>2, BoundaryParts
    <2>4. Reach(kids, {<<0, v>>}) \subseteq Live(m)
      BY <1>2, LiveParts
    <2>5. /\ \A i \in DOMAIN z.term : z.term[i] \in ToSet(z.term)
          /\ \A s \in ToSet(z.term) : \E i \in DOMAIN z.term : s = z.term[i]
      BY DEF ToSet
    <2>6. /\ Reach(kids, {z.base}) = {z.base} \cup Below(kids, {z.base})
          /\ Closed(kids, Below(kids, {z.base})) /\ Below(kids, {z.base}) \in SUBSET DOMAIN kids
      BY <1>3, <2>1, BelowFrom
    <2>7. \A b \in ToSet(z.term) : Below(kids, {b}) \subseteq Below(kids, {z.base})
      <3>1. TAKE b \in ToSet(z.term)
      <3>2. b \in Below(kids, {z.base}) /\ b \in DOMAIN kids
        BY <1>3, <2>1
      <3>3. QED
        BY <1>3, <2>1, <3>2, BelowBelow
    <2>8. /\ \A i \in DOMAIN z.term : z.term[i] \in DOMAIN m.at /\ z.term[i] \in Below(kids, {z.base})
          /\ \A i \in DOMAIN z.term : Below(kids, {z.term[i]}) \subseteq Below(kids, {z.base})
          /\ \A i, j \in DOMAIN z.term : z.term[j] \notin Below(kids, {z.term[i]})
      BY <2>1, <2>5, <2>7
    <2>9. z.base \in Reach(kids, {<<0, v>>})
      BY <1>4 DEF ZoneIn
    <2> HIDE DEF kids
    <2>10. QED
      BY <2>1, <2>3, <2>4, <2>5, <2>6, <2>8, <2>9
  <1>5. <<0, t>> # <<0, u>>
    BY <1>1
  <1>6. Reach(kids, {<<0, t>>}) \cap Reach(kids, {<<0, u>>}) = {}
    BY <1>1, <1>3, <1>4, <1>5, RootsApart
  <1> HIDE DEF kids
  <1>7. Reach(kids, {x.base}) \cap Reach(kids, {y.base}) = {}
    BY <1>1, <1>4, <1>6
  <1>8. ASSUME NEW z, NEW w, NEW v \in DOMAIN m.type, ZoneIn(m, z, v), Reach(kids, {z.base}) \cap Reach(kids, {w.base}) = {}
        PROVE  ZoneApart(m, z, w)
    BY <1>3, <1>4, <1>8 DEF ZoneApart, kids
  <1>9. QED
    BY <1>1, <1>7, <1>8

-----------------------------------------------------------------------------
(* Where the slots go when two zones change places. *)

\* A slot has a path when a tree in the tables has the slot.
LEMMA RowOfLive ==
  ASSUME NEW m, Wooded(m)
  PROVE  \A s \in DOMAIN m.at : HasRow(m, s) <=> s \in Live(m)
  <1> DEFINE kids == SlotsBelow(m)
             A == {<<0, t>> : t \in DOMAIN m.type}
             C == {s \in DOMAIN m.at : s \in Live(m) \/ Path(m, s) = <<>>}
  <1>1. IsKids(kids) /\ DOMAIN kids = DOMAIN m.at
    BY SlotBelow DEF Wooded
  <1>2. A \in SUBSET DOMAIN kids /\ Live(m) = Reach(kids, A)
    <2>1. \A t \in DOMAIN m.type : <<0, t>> \in DOMAIN m.at
      BY LiveParts
    <2>2. QED
      BY <1>1, <2>1 DEF Live
  <1>3. Reach(kids, A) = UNION {Reach(kids, {a}) : a \in A}
    <2>1. IsKids(kids) /\ A \in SUBSET DOMAIN kids
      BY <1>1, <1>2
    <2> HIDE DEF A, kids
    <2>2. QED
      BY <2>1, ReachIsUnion
  <1>4. \A s \in Live(m) : HasRow(m, s)
    <2>1. TAKE s \in Live(m)
    <2>2. PICK t \in DOMAIN m.type : s \in Reach(kids, {<<0, t>>})
      <3>1. PICK a \in A : s \in Reach(kids, {a})
        BY <1>2, <1>3
      <3>2. QED
        BY <3>1
    <2>3. QED
      BY <2>2, PathInTree
  <1>5. A \subseteq Live(m) /\ Closed(kids, Live(m))
    <2> HIDE DEF A, kids
    <2>1. QED
      BY <1>1, <1>2, ReachIsLeast
  <1>6. RootSlots(m) \subseteq C
    <2>1. ASSUME NEW r \in RootSlots(m), r \notin Live(m) PROVE Path(m, r) = <<>>
      <3>1. r = <<0, r[2]>>
        <4>1. r \in Nat \X Nat /\ r[1] = 0
          BY DEF RootSlots, Wooded, SlotsPlaced, Slots
        <4>2. QED
          BY <4>1
      <3>2. r[2] \notin DOMAIN m.type
        <4>1. SUFFICES ASSUME r[2] \in DOMAIN m.type PROVE FALSE
          OBVIOUS
        <4>2. <<0, r[2]>> \in A
          BY <4>1
        <4>3. QED
          BY <4>2, <3>1, <1>5, <2>1
      <3>3. Path(m, r) = PathFirst(m)[r]
        BY PathStep
      <3>4. QED
        BY <3>2, <3>3 DEF PathFirst
    <2>2. QED
      BY <2>1 DEF RootSlots
  <1>7. Closed(kids, C)
    <2>1. ASSUME NEW s \in C, NEW k \in kids[s] PROVE k \in C
      <3>1. k \in DOMAIN m.at /\ Path(m, k) = Extended(Path(m, s), k[2])
        BY PathStep
      <3>2. QED
        BY <3>1, <1>5 DEF Closed, Extended
    <2>2. QED
      BY <2>1 DEF Closed
  <1>8. C = DOMAIN m.at
    BY <1>6, <1>7, AllSlots
  <1>9. QED
    BY <1>4, <1>8 DEF HasRow

LEMMA BoundaryApart ==
  ASSUME NEW m, NEW x, NEW y, ZoneApart(m, x, y), ZoneApart(m, y, x)
  PROVE  /\ ToSet(Boundary(x)) \subseteq {x.base} \cup Below(SlotsBelow(m), {x.base})
         /\ \A s \in ToSet(Boundary(x)) : s = x.base \/ \E i \in DOMAIN x.term : s = x.term[i]
         /\ ToSet(Boundary(x)) \cap Below(SlotsBelow(m), {y.base}) = {}
         /\ x.base \notin Below(SlotsBelow(m), {x.base})
         /\ \A i \in DOMAIN x.term : Below(SlotsBelow(m), {x.term[i]}) \cap ToSet(Boundary(x)) = {}
         /\ \A i \in DOMAIN x.term : Below(SlotsBelow(m), {x.term[i]}) \cap ToSet(Boundary(y)) = {}
  <1> DEFINE kids == SlotsBelow(m)
             X == Below(kids, {x.base})
             Y == Below(kids, {y.base})
  <1>1. /\ x.base \in DOMAIN kids /\ Forest(kids, RootSlots(m)) /\ y.base \in DOMAIN kids
        /\ ToSet(Boundary(x)) = {x.base} \cup ToSet(x.term)
        /\ \A i \in DOMAIN x.term : /\ x.term[i] \in X
                                    /\ Below(kids, {x.term[i]}) \subseteq X
                                    /\ \A j \in DOMAIN x.term : x.term[j] \notin Below(kids, {x.term[i]})
        /\ \A s \in ToSet(x.term) : \E i \in DOMAIN x.term : s = x.term[i]
        /\ ({x.base} \cup X) \cap ({y.base} \cup Y) = {}
    BY DEF ZoneApart
  <1>2. ToSet(Boundary(y)) \subseteq {y.base} \cup Y
    <2>1. /\ ToSet(Boundary(y)) = {y.base} \cup ToSet(y.term)
          /\ \A i \in DOMAIN y.term : y.term[i] \in Y
          /\ \A s \in ToSet(y.term) : \E i \in DOMAIN y.term : s = y.term[i]
      BY DEF ZoneApart
    <2> HIDE DEF Y
    <2>2. QED
      BY <2>1
  <1>3. x.base \notin X
    BY <1>1, NoCycles
  <1>4. \A s \in ToSet(Boundary(x)) : s = x.base \/ \E i \in DOMAIN x.term : s = x.term[i]
    <2> HIDE DEF X, Y, kids
    <2>1. QED
      BY <1>1
  <1>5. ToSet(Boundary(x)) \subseteq {x.base} \cup X
    <2> HIDE DEF X, Y, kids
    <2>1. \A i \in DOMAIN x.term : x.term[i] \in X
      BY <1>1
    <2>2. QED
      BY <2>1, <1>4
  <1>6. ToSet(Boundary(x)) \cap Y = {}
    <2> HIDE DEF X, Y, kids
    <2>1. ({x.base} \cup X) \cap ({y.base} \cup Y) = {}
      BY <1>1
    <2>2. QED
      BY <2>1, <1>5
  <1>7. ASSUME NEW i \in DOMAIN x.term, NEW s \in Below(kids, {x.term[i]})
        PROVE  s \notin ToSet(Boundary(x)) /\ s \notin ToSet(Boundary(y))
    <2> DEFINE B == Below(kids, {x.term[i]})
    <2>0. B \subseteq X /\ \A j \in DOMAIN x.term : x.term[j] \notin B
      <3> HIDE DEF X, Y, kids
      <3>1. QED
        BY <1>1
    <2>1. s \in X /\ \A j \in DOMAIN x.term : x.term[j] # s
      <3> HIDE DEF B, X, Y
      <3>1. s \in B
        BY <1>7 DEF B
      <3>2. QED
        BY <2>0, <3>1
    <2>2. ({x.base} \cup X) \cap ({y.base} \cup Y) = {}
      BY <1>1
    <2> HIDE DEF X, Y, kids
    <2>3. QED
      BY <2>1, <2>2, <1>2, <1>3, <1>4
  <1>8. QED
    BY <1>3, <1>4, <1>5, <1>6, <1>7

LEMMA OutsideStays ==
  ASSUME NEW m, NEW n, NEW x, NEW y, Crossed(m, n, x, y)
  PROVE  \A s \in DOMAIN m.at : s \notin Below(SlotsBelow(m), {x.base}) \cup Below(SlotsBelow(m), {y.base})
                                  => Path(n, s) = Path(m, s)
  <1> DEFINE kids == SlotsBelow(m)
             X == Below(kids, {x.base})
             Y == Below(kids, {y.base})
             U == {s \in DOMAIN m.at : s \notin X \cup Y}
  <1>1. ZoneApart(m, x, y) /\ ZoneApart(m, y, x)
    BY CrossedZones
  <1>2. /\ x.base \in DOMAIN kids /\ y.base \in DOMAIN kids /\ DOMAIN kids = DOMAIN m.at
        /\ Forest(kids, RootSlots(m)) /\ IsKids(kids)
    BY <1>1 DEF ZoneApart
  <1>3. kids[x.base] \subseteq X /\ Closed(kids, X) /\ kids[y.base] \subseteq Y /\ Closed(kids, Y)
    BY <1>2, BelowFrom
  <1>4. Wooded(m) /\ Wooded(n) /\ DOMAIN n.at = DOMAIN m.at /\ n.type = m.type
    BY DEF Crossed
  <1>9. ToSet(Boundary(x)) \subseteq {x.base} \cup X /\ ToSet(Boundary(y)) \subseteq {y.base} \cup Y
    BY <1>1, BoundaryApart
  <1>5. \A p \in DOMAIN m.at : \A k \in kids[p] : k \in U => p \in U /\ p \in DOMAIN n.at /\ k \in SlotsBelow(n)[p]
    <2>1. TAKE p \in DOMAIN m.at
    <2>2. TAKE k \in kids[p]
    <2>3. HAVE k \in U
    <2>4. p \in U /\ p # x.base /\ p # y.base
      BY <2>3, <1>3 DEF Closed
    <2>6. p \notin ToSet(Boundary(x)) \cup ToSet(Boundary(y))
      BY <2>4, <1>9
    <2>7. SlotsBelow(n)[p] = kids[p]
      BY <2>6 DEF Crossed
    <2>8. QED
      BY <2>4, <2>7, <1>4
  <1>6. \A r \in RootSlots(m) : r \in U => r \in DOMAIN n.at /\ (r[2] \in DOMAIN m.type <=> r[2] \in DOMAIN n.type)
    BY <1>4 DEF RootSlots
  <1>7. U \in SUBSET DOMAIN m.at
    OBVIOUS
  <1> HIDE DEF U
  <1>8. \A s \in U : Path(n, s) = Path(m, s)
    <2> HIDE DEF X, Y
    <2>1. QED
      BY <1>4, <1>5, <1>6, <1>7, PathsAgree DEF kids
  <1>10. QED
    BY <1>8 DEF U

\* The bases stay where they are.
LEMMA BasesStay ==
  ASSUME NEW m, NEW n, NEW x, NEW y, Crossed(m, n, x, y)
  PROVE  /\ x.base \in DOMAIN m.at /\ HasRow(m, x.base)
         /\ x.base \in DOMAIN n.at /\ HasRow(n, x.base) /\ Path(n, x.base) = Path(m, x.base)
  <1>1. ZoneApart(m, x, y) /\ ZoneApart(m, y, x) /\ Wooded(m) /\ DOMAIN n.at = DOMAIN m.at
    BY CrossedZones DEF Crossed
  <1>2. x.base \in DOMAIN m.at /\ x.base \in Live(m) /\ x.base \notin Below(SlotsBelow(m), {x.base})
    BY <1>1, BelowFrom DEF ZoneApart
  <1>3. x.base \notin Below(SlotsBelow(m), {y.base})
    BY <1>1 DEF ZoneApart
  <1>4. Path(n, x.base) = Path(m, x.base)
    BY <1>2, <1>3, OutsideStays
  <1>5. QED
    BY <1>1, <1>2, <1>4, RowOfLive DEF HasRow

\* What zone y has inside, and its terminii, move behind the base of x.
LEMMA InsideMoves ==
  ASSUME NEW m, NEW n, NEW x, NEW y, Crossed(m, n, x, y)
  PROVE  \A s \in Below(SlotsBelow(m), {y.base}) :
            (\A i \in DOMAIN y.term : s \notin Below(SlotsBelow(m), {y.term[i]})) =>
               /\ Path(n, s) \in Seq(Nat)
               /\ Shifted(Path(m, y.base), Path(m, s), Path(m, x.base), Path(n, s))
  <1> DEFINE kids == SlotsBelow(m)
             Y == Below(kids, {y.base})
             U == {s \in Y : \A i \in DOMAIN y.term : s \notin Below(kids, {y.term[i]})}
  <1>1. ZoneApart(m, x, y) /\ ZoneApart(m, y, x)
    BY CrossedZones
  <1>2. /\ y.base \in DOMAIN kids /\ DOMAIN kids = DOMAIN m.at
        /\ Forest(kids, RootSlots(m)) /\ IsKids(kids)
        /\ \A i \in DOMAIN y.term : y.term[i] \in DOMAIN kids
    BY <1>1 DEF ZoneApart
  <1>3. /\ Y \subseteq DOMAIN kids /\ Y \cap RootSlots(m) = {} /\ y.base \notin Y
        /\ \A p \in DOMAIN kids : \A k \in kids[p] : k \in Y => p = y.base \/ p \in Y
    BY <1>2, BelowFrom
  <1>4. Wooded(m) /\ Wooded(n) /\ DOMAIN n.at = DOMAIN m.at
    BY DEF Crossed
  <1>5. \A i \in DOMAIN y.term : /\ Closed(kids, Below(kids, {y.term[i]}))
                                 /\ kids[y.term[i]] \subseteq Below(kids, {y.term[i]})
    <2>1. TAKE i \in DOMAIN y.term
    <2>2. y.term[i] \in DOMAIN kids /\ Forest(kids, RootSlots(m))
      BY <1>2
    <2> HIDE DEF kids
    <2>3. QED
      BY <2>2, BelowFrom
  <1>6. \A p \in DOMAIN m.at : \A k \in kids[p] :
           k \in U => p = y.base \/ (p \in U /\ p \in DOMAIN n.at /\ k \in SlotsBelow(n)[p])
    <2>1. TAKE p \in DOMAIN m.at
    <2>2. TAKE k \in kids[p]
    <2>3. HAVE k \in U
    <2>4. SUFFICES ASSUME p # y.base PROVE p \in U /\ p \in DOMAIN n.at /\ k \in SlotsBelow(n)[p]
      OBVIOUS
    <2>5. p \in Y
      BY <2>3, <2>4, <1>2, <1>3
    <2>6. p \in U
      BY <2>3, <2>5, <1>5 DEF Closed
    <2>7. \A i \in DOMAIN y.term : p # y.term[i]
      BY <2>3, <1>5
    <2>8. p \notin ToSet(Boundary(y))
      <3>1. \A r \in ToSet(Boundary(y)) : r = y.base \/ \E i \in DOMAIN y.term : r = y.term[i]
        BY <1>1, BoundaryApart
      <3> HIDE DEF U, Y, kids
      <3>2. QED
        BY <3>1, <2>4, <2>7
    <2>9. p \notin ToSet(Boundary(x))
      BY <2>5, <1>1, BoundaryApart
    <2>10. SlotsBelow(n)[p] = kids[p]
      BY <2>8, <2>9 DEF Crossed
    <2>11. QED
      BY <2>6, <2>10, <1>4
  <1>7. U \in SUBSET DOMAIN m.at /\ U \cap RootSlots(m) = {}
    BY <1>2, <1>3
  <1>8. /\ x.base \in DOMAIN n.at /\ HasRow(n, x.base) /\ Path(n, x.base) = Path(m, x.base)
        /\ y.base \in DOMAIN m.at /\ HasRow(m, y.base)
    BY CrossedOtherWay, BasesStay
  <1>9. \A k \in kids[y.base] : k \in SlotsBelow(n)[x.base]
    BY DEF Crossed, Crossing
  <1> HIDE DEF U
  <1>10. \A s \in U : Path(n, s) \in Seq(Nat) /\ Shifted(Path(m, y.base), Path(m, s), Path(n, x.base), Path(n, s))
    <2> HIDE DEF Y
    <2>1. QED
      BY <1>4, <1>6, <1>7, <1>8, <1>9, ShiftedRegion DEF kids
  <1>11. QED
    BY <1>8, <1>10 DEF U

\* What is below the i-th terminus of x is, after the swap, below the i-th
\* terminus of y, as it was below that of x.
LEMMA BehindMoves ==
  ASSUME NEW m, NEW n, NEW x, NEW y, Crossed(m, n, x, y), NEW i \in DOMAIN x.term
  PROVE  \A s \in Below(SlotsBelow(m), {x.term[i]}) :
            /\ Path(n, s) \in Seq(Nat)
            /\ Shifted(Path(m, x.term[i]), Path(m, s), Path(n, y.term[i]), Path(n, s))
  <1> DEFINE kids == SlotsBelow(m)
             b == x.term[i]
             e == y.term[i]
             U == Below(kids, {b})
  <1>1. ZoneApart(m, x, y) /\ ZoneApart(m, y, x) /\ DOMAIN x.term = DOMAIN y.term
    BY CrossedZones DEF Crossed
  <1>2. /\ b \in DOMAIN kids /\ DOMAIN kids = DOMAIN m.at /\ e \in DOMAIN m.at
        /\ Forest(kids, RootSlots(m)) /\ IsKids(kids)
        /\ b \in Below(kids, {x.base}) /\ U \subseteq Below(kids, {x.base}) /\ e \in Below(kids, {y.base})
        /\ \A j \in DOMAIN x.term : x.term[j] \notin U
        /\ \A j \in DOMAIN y.term : e \notin Below(kids, {y.term[j]})
    BY <1>1 DEF ZoneApart
  <1>3. /\ U \subseteq DOMAIN kids /\ U \cap RootSlots(m) = {} /\ b \notin U
        /\ \A p \in DOMAIN kids : \A k \in kids[p] : k \in U => p = b \/ p \in U
    <2>1. b \in DOMAIN kids /\ Forest(kids, RootSlots(m))
      BY <1>2
    <2> HIDE DEF b, kids
    <2>2. QED
      BY <2>1, BelowFrom
  <1>4. Wooded(m) /\ Wooded(n) /\ DOMAIN n.at = DOMAIN m.at
    BY DEF Crossed
  <1>5. \A p \in DOMAIN m.at : \A k \in kids[p] :
           k \in U => p = b \/ (p \in U /\ p \in DOMAIN n.at /\ k \in SlotsBelow(n)[p])
    <2>1. TAKE p \in DOMAIN m.at
    <2>2. TAKE k \in kids[p]
    <2>3. HAVE k \in U
    <2>4. SUFFICES ASSUME p # b PROVE p \in U /\ p \in DOMAIN n.at /\ k \in SlotsBelow(n)[p]
      OBVIOUS
    <2>5. p \in U
      BY <2>3, <2>4, <1>2, <1>3
    <2>7. p \notin ToSet(Boundary(x)) /\ p \notin ToSet(Boundary(y))
      <3>1. U \cap ToSet(Boundary(x)) = {} /\ U \cap ToSet(Boundary(y)) = {}
        BY <1>1, BoundaryApart
      <3>2. QED
        BY <3>1, <2>5
    <2>9. SlotsBelow(n)[p] = kids[p]
      BY <2>7 DEF Crossed
    <2>10. QED
      BY <2>5, <2>9, <1>4
  <1>6. HasRow(m, b)
    <2>1. b \in Live(m) /\ b \in DOMAIN m.at
      BY <1>1, <1>2 DEF ZoneApart
    <2>2. QED
      BY <2>1, <1>4, RowOfLive
  <1>7. HasRow(n, e)
    <2>1. /\ Path(n, e) \in Seq(Nat)
          /\ Shifted(Path(m, y.base), Path(m, e), Path(m, x.base), Path(n, e))
      BY <1>2, InsideMoves
    <2>2. Path(m, x.base) # <<>> /\ Path(m, x.base) \in Seq(Nat)
      BY <1>4, BasesStay, PathType DEF HasRow
    <2>3. Len(Path(m, x.base)) # 0 /\ Len(Path(m, x.base)) \in Nat /\ Len(Path(m, x.base)) <= Len(Path(n, e))
      BY <2>1, <2>2 DEF Shifted, Leads
    <2>4. QED
      BY <2>1, <2>3 DEF HasRow
  <1>8. \A k \in kids[b] : k \in SlotsBelow(n)[e]
    BY <1>1 DEF Crossed, Crossing
  <1> HIDE DEF U, b, e
  <1>9. \A s \in U : Path(n, s) \in Seq(Nat) /\ Shifted(Path(m, b), Path(m, s), Path(n, e), Path(n, s))
    BY <1>2, <1>3, <1>4, <1>5, <1>6, <1>7, <1>8, ShiftedRegion DEF kids
  <1>10. QED
    BY <1>9 DEF U, b, e

\* What is below a terminus of x stays behind the base of x.
LEMMA BehindLeads ==
  ASSUME NEW m, NEW n, NEW x, NEW y, Crossed(m, n, x, y), NEW i \in DOMAIN x.term,
         NEW s \in Below(SlotsBelow(m), {x.term[i]})
  PROVE  /\ Path(m, s) \in Seq(Nat) /\ Path(n, s) \in Seq(Nat) /\ s \in DOMAIN m.at
         /\ Path(m, x.base) \in Seq(Nat) /\ Path(m, x.term[i]) \in Seq(Nat) /\ Path(n, y.term[i]) \in Seq(Nat)
         /\ Leads(Path(m, x.term[i]), Path(m, s)) /\ Leads(Path(n, y.term[i]), Path(n, s))
         /\ Leads(Path(m, x.base), Path(m, s)) /\ Leads(Path(m, x.base), Path(n, s))
  <1> DEFINE kids == SlotsBelow(m)
  <1>1. ZoneApart(m, x, y) /\ ZoneApart(m, y, x) /\ Wooded(m) /\ Wooded(n) /\ DOMAIN n.at = DOMAIN m.at
        /\ DOMAIN x.term = DOMAIN y.term
    BY CrossedZones DEF Crossed
  <1>2. /\ x.term[i] \in DOMAIN m.at /\ x.term[i] \in Below(kids, {x.base})
        /\ Below(kids, {x.term[i]}) \subseteq Below(kids, {x.base}) /\ Below(kids, {x.base}) \subseteq Live(m)
        /\ x.base \in DOMAIN m.at /\ Reach(kids, {x.base}) = {x.base} \cup Below(kids, {x.base})
        /\ y.term[i] \in DOMAIN m.at /\ y.term[i] \in Below(kids, {y.base})
        /\ \A j \in DOMAIN y.term : y.term[i] \notin Below(kids, {y.term[j]})
    BY <1>1 DEF ZoneApart
  <1>3. s \in Live(m) /\ s \in DOMAIN m.at /\ s \in Reach(kids, {x.base})
    <2>1. Live(m) \subseteq DOMAIN m.at
      BY <1>1, LiveParts
    <2>2. QED
      BY <1>2, <2>1
  <1>4. HasRow(m, s)
    BY <1>1, <1>3, RowOfLive
  <1>5. Leads(Path(m, x.base), Path(m, s))
    BY <1>1, <1>2, <1>3, <1>4, PathLeads
  <1>6. /\ Path(n, s) \in Seq(Nat)
        /\ Shifted(Path(m, x.term[i]), Path(m, s), Path(n, y.term[i]), Path(n, s))
    BY BehindMoves
  <1>7. Crossed(m, n, y, x)
    BY CrossedOtherWay
  <1>8. Shifted(Path(m, y.base), Path(m, y.term[i]), Path(m, x.base), Path(n, y.term[i]))
    BY <1>2, InsideMoves
  <1>9. /\ Path(m, s) \in Seq(Nat) /\ Path(m, x.base) \in Seq(Nat) /\ Path(m, x.term[i]) \in Seq(Nat)
        /\ Path(n, y.term[i]) \in Seq(Nat)
    BY <1>1, <1>2, <1>3, PathType
  <1>10. Leads(Path(m, x.base), Path(n, s))
    <2>1. Leads(Path(m, x.base), Path(n, y.term[i])) /\ Leads(Path(n, y.term[i]), Path(n, s))
      BY <1>6, <1>8 DEF Shifted
    <2>2. QED
      BY <1>6, <1>9, <2>1, LeadsTransitive
  <1>11. QED
    BY <1>3, <1>5, <1>6, <1>9, <1>10 DEF Shifted

LEMMA LedByBase ==
  ASSUME NEW m, NEW n, NEW x, NEW y, Crossed(m, n, x, y)
  PROVE  /\ \A s \in Live(m) : s \notin Reach(SlotsBelow(m), {x.base}) => ~Leads(Path(m, x.base), Path(m, s))
         /\ \A p \in Seq(Nat) : ~(Leads(Path(m, x.base), p) /\ Leads(Path(m, y.base), p))
  <1>1. ZoneApart(m, x, y) /\ ZoneApart(m, y, x) /\ Wooded(m)
    BY CrossedZones DEF Crossed
  <1>2. /\ x.base \in DOMAIN m.at /\ HasRow(m, x.base) /\ y.base \in DOMAIN m.at /\ HasRow(m, y.base)
    BY CrossedOtherWay, BasesStay
  <1>3. /\ \A s \in DOMAIN m.at : HasRow(m, s) /\ Leads(Path(m, x.base), Path(m, s)) => s \in Reach(SlotsBelow(m), {x.base})
        /\ \A s \in DOMAIN m.at : HasRow(m, s) /\ Leads(Path(m, y.base), Path(m, s)) => s \in Reach(SlotsBelow(m), {y.base})
    BY <1>1, <1>2, LedFromAbove
  <1>4. \A s \in Live(m) : s \in DOMAIN m.at /\ HasRow(m, s)
    BY <1>1, LiveParts, RowOfLive
  <1>5. ASSUME NEW p \in Seq(Nat), Leads(Path(m, x.base), p), Leads(Path(m, y.base), p) PROVE FALSE
    <2>1. Path(m, x.base) \in Seq(Nat) /\ Path(m, y.base) \in Seq(Nat)
      BY <1>1, <1>2, PathType
    <2>2. Leads(Path(m, x.base), Path(m, y.base)) \/ Leads(Path(m, y.base), Path(m, x.base))
      BY <1>5, <2>1, LeadsChain
    <2>3. y.base \in Reach(SlotsBelow(m), {x.base}) \/ x.base \in Reach(SlotsBelow(m), {y.base})
      BY <1>2, <1>3, <2>2
    <2>4. /\ x.base \in Reach(SlotsBelow(m), {x.base}) /\ y.base \in Reach(SlotsBelow(m), {y.base})
          /\ Reach(SlotsBelow(m), {x.base}) \cap Reach(SlotsBelow(m), {y.base}) = {}
      BY <1>1 DEF ZoneApart
    <2>5. QED
      BY <2>3, <2>4
  <1>6. QED
    BY <1>3, <1>4, <1>5

\* A slot behind zone x compares alike with what is not below the base of x.
LEMMA BehindAlike ==
  ASSUME NEW m, NEW n, NEW x, NEW y, Crossed(m, n, x, y), NEW i \in DOMAIN x.term,
         NEW s \in Below(SlotsBelow(m), {x.term[i]}), NEW r \in Seq(Nat), ~Leads(Path(m, x.base), r)
  PROVE  /\ PathLess(Path(m, s), r) => PathLess(Path(n, s), r)
         /\ PathLess(r, Path(m, s)) => PathLess(r, Path(n, s))
  <1>1. /\ Path(m, s) \in Seq(Nat) /\ Path(n, s) \in Seq(Nat) /\ Path(m, x.base) \in Seq(Nat)
        /\ Leads(Path(m, x.base), Path(m, s)) /\ Leads(Path(m, x.base), Path(n, s))
    BY BehindLeads
  <1>2. QED
    BY <1>1, LedAlike

\* Two slots behind one zone.
LEMMA BehindOne ==
  ASSUME NEW m, NEW n, NEW x, NEW y, Crossed(m, n, x, y),
         NEW i \in DOMAIN x.term, NEW a \in Below(SlotsBelow(m), {x.term[i]}),
         NEW j \in DOMAIN x.term, NEW b \in Below(SlotsBelow(m), {x.term[j]}), Before(m, a, b)
  PROVE  Before(n, a, b)
  <1>1. /\ Path(m, a) \in Seq(Nat) /\ Path(n, a) \in Seq(Nat)
        /\ Path(m, x.term[i]) \in Seq(Nat) /\ Path(n, y.term[i]) \in Seq(Nat)
        /\ Leads(Path(m, x.term[i]), Path(m, a)) /\ Leads(Path(n, y.term[i]), Path(n, a))
    BY BehindLeads
  <1>2. /\ Path(m, b) \in Seq(Nat) /\ Path(n, b) \in Seq(Nat)
        /\ Path(m, x.term[j]) \in Seq(Nat) /\ Path(n, y.term[j]) \in Seq(Nat)
        /\ Leads(Path(m, x.term[j]), Path(m, b)) /\ Leads(Path(n, y.term[j]), Path(n, b))
    BY BehindLeads
  <1>3. PathLess(Path(m, a), Path(m, b))
    BY DEF Before
  <1>4. CASE i = j
    <2>1. Shifted(Path(m, x.term[i]), Path(m, a), Path(n, y.term[i]), Path(n, a))
      BY BehindMoves
    <2>2. Shifted(Path(m, x.term[i]), Path(m, b), Path(n, y.term[i]), Path(n, b))
      BY <1>4, BehindMoves
    <2>3. PathLess(Path(n, a), Path(n, b))
      BY <1>1, <1>2, <1>3, <2>1, <2>2, ShiftedAlike
    <2>4. QED
      BY <2>3 DEF Before
  <1>5. CASE i # j
    <2>1. ZoneApart(m, x, y) /\ ZoneApart(m, y, x) /\ DOMAIN x.term = DOMAIN y.term /\ InOrder(m, x) /\ InOrder(m, y)
          /\ Wooded(m)
      BY CrossedZones DEF Crossed
    <2>2. i \in Nat /\ j \in Nat
      <3>1. x.term \in Seq(DOMAIN m.at)
        BY DEF Crossed, ZoneIn
      <3>2. QED
        BY <3>1
    <2>3. i < j
      <3>1. SUFFICES ASSUME j < i PROVE FALSE
        BY <1>5, <2>2
      <3>2. Apart(Path(m, x.term[j]), Path(m, x.term[i]))
        BY <2>1, <3>1 DEF InOrder
      <3>3. Apart(Path(m, b), Path(m, a))
        BY <1>1, <1>2, <3>2, ApartStays
      <3>4. PathLess(Path(m, b), Path(m, a))
        BY <1>1, <1>2, <3>3, PathLessParts
      <3>5. QED
        BY <1>1, <1>2, <1>3, <3>4, PathLessOneWay
    <2>4. Apart(Path(m, y.term[i]), Path(m, y.term[j]))
      BY <2>1, <2>3 DEF InOrder
    <2>5. /\ Shifted(Path(m, y.base), Path(m, y.term[i]), Path(m, x.base), Path(n, y.term[i]))
          /\ Shifted(Path(m, y.base), Path(m, y.term[j]), Path(m, x.base), Path(n, y.term[j]))
          /\ y.term[i] \in DOMAIN m.at /\ y.term[j] \in DOMAIN m.at
      <3>1. \A k \in DOMAIN y.term : /\ y.term[k] \in DOMAIN m.at
                                     /\ y.term[k] \in Below(SlotsBelow(m), {y.base})
                                     /\ \A l \in DOMAIN y.term : y.term[k] \notin Below(SlotsBelow(m), {y.term[l]})
        BY <2>1 DEF ZoneApart
      <3>2. \A k \in DOMAIN y.term : Shifted(Path(m, y.base), Path(m, y.term[k]), Path(m, x.base), Path(n, y.term[k]))
        BY <3>1, InsideMoves
      <3>3. QED
        BY <2>1, <3>1, <3>2
    <2>6. /\ Path(m, y.base) \in Seq(Nat) /\ Path(m, x.base) \in Seq(Nat)
          /\ Path(m, y.term[i]) \in Seq(Nat) /\ Path(m, y.term[j]) \in Seq(Nat)
      <3>1. x.base \in DOMAIN m.at /\ y.base \in DOMAIN m.at
        BY CrossedOtherWay, BasesStay
      <3>2. QED
        BY <2>1, <2>5, <3>1, PathType
    <2>7. Apart(Path(n, y.term[i]), Path(n, y.term[j]))
      BY <1>1, <1>2, <2>4, <2>5, <2>6, ShiftedAlike
    <2>8. Apart(Path(n, a), Path(n, b))
      BY <1>1, <1>2, <2>7, ApartStays
    <2>9. QED
      BY <1>1, <1>2, <2>8, PathLessParts DEF Before
  <1>6. QED
    BY <1>4, <1>5

\* Slots that are in neither zone.
Around(m, z, s) ==
  s # z.base /\ (s \in Below(SlotsBelow(m), {z.base}) => \E i \in DOMAIN z.term : s \in Below(SlotsBelow(m), {z.term[i]}))

LEMMA OrderKept ==
  ASSUME NEW m, NEW n, NEW x, NEW y, Crossed(m, n, x, y),
         NEW a \in Live(m), Around(m, x, a), Around(m, y, a),
         NEW b \in Live(m), Around(m, x, b), Around(m, y, b), Before(m, a, b)
  PROVE  Before(n, a, b)
  <1> DEFINE kids == SlotsBelow(m)
             Out(s) == s \notin Reach(kids, {x.base}) /\ s \notin Reach(kids, {y.base})
             Behind(z, s) == \E i \in DOMAIN z.term : s \in Below(kids, {z.term[i]})
  <1>1. ZoneApart(m, x, y) /\ ZoneApart(m, y, x) /\ Wooded(m) /\ Wooded(n) /\ DOMAIN n.at = DOMAIN m.at
        /\ Crossed(m, n, y, x)
    BY CrossedZones, CrossedOtherWay DEF Crossed
  <1>2. /\ Reach(kids, {x.base}) = {x.base} \cup Below(kids, {x.base})
        /\ Reach(kids, {y.base}) = {y.base} \cup Below(kids, {y.base})
        /\ Reach(kids, {x.base}) \cap Reach(kids, {y.base}) = {}
        /\ \A i \in DOMAIN x.term : Below(kids, {x.term[i]}) \subseteq Below(kids, {x.base})
        /\ \A i \in DOMAIN y.term : Below(kids, {y.term[i]}) \subseteq Below(kids, {y.base})
    BY <1>1 DEF ZoneApart
  <1>3. \A s \in {a, b} : Out(s) \/ Behind(x, s) \/ Behind(y, s)
    BY <1>2 DEF Around
  <1>4. a \in DOMAIN m.at /\ b \in DOMAIN m.at
    BY <1>1, LiveParts
  <1>5. /\ Path(m, a) \in Seq(Nat) /\ Path(m, b) \in Seq(Nat) /\ Path(n, a) \in Seq(Nat) /\ Path(n, b) \in Seq(Nat)
    BY <1>1, <1>4, PathType
  <1>6. PathLess(Path(m, a), Path(m, b))
    BY DEF Before
  <1>7. \A s \in {a, b} : Out(s) => Path(n, s) = Path(m, s)
    <2>1. \A s \in {a, b} : Out(s) => s \notin Below(SlotsBelow(m), {x.base}) \cup Below(SlotsBelow(m), {y.base})
      BY <1>2
    <2> HIDE DEF Out
    <2>2. \A s \in {a, b} : s \in DOMAIN m.at
      BY <1>4
    <2>3. QED
      BY <2>1, <2>2, OutsideStays
  <1>8. \A s \in {a, b} : Behind(x, s) => s \notin Reach(kids, {y.base})
    BY <1>2
  <1>9. \A s \in {a, b} : Behind(y, s) => s \notin Reach(kids, {x.base})
    BY <1>2
  <1>10. \A s \in {a, b} : /\ s \notin Reach(kids, {x.base}) => ~Leads(Path(m, x.base), Path(m, s))
                           /\ s \notin Reach(kids, {y.base}) => ~Leads(Path(m, y.base), Path(m, s))
    BY <1>1, LedByBase
  <1>11. ASSUME NEW z, NEW w, Crossed(m, n, z, w), NEW s \in {a, b}, Behind(z, s), NEW r \in Seq(Nat),
                ~Leads(Path(m, z.base), r)
         PROVE  /\ PathLess(Path(m, s), r) => PathLess(Path(n, s), r)
                /\ PathLess(r, Path(m, s)) => PathLess(r, Path(n, s))
                /\ Leads(Path(m, z.base), Path(n, s))
    <2>1. PICK i \in DOMAIN z.term : s \in Below(SlotsBelow(m), {z.term[i]})
      BY <1>11
    <2>2. QED
      BY <1>11, <2>1, BehindAlike, BehindLeads
  <1>12. CASE Out(a) /\ Out(b)
    BY <1>6, <1>7, <1>12 DEF Before
  <1>13. ASSUME NEW z, NEW w, Crossed(m, n, z, w), Behind(z, a), Out(b), ~Leads(Path(m, z.base), Path(m, b))
         PROVE  Before(n, a, b)
    <2>1. PathLess(Path(n, a), Path(m, b))
      BY <1>5, <1>6, <1>11, <1>13
    <2>2. QED
      BY <2>1, <1>7, <1>13 DEF Before
  <1>14. ASSUME NEW z, NEW w, Crossed(m, n, z, w), Behind(z, b), Out(a), ~Leads(Path(m, z.base), Path(m, a))
         PROVE  Before(n, a, b)
    <2>1. PathLess(Path(m, a), Path(n, b))
      BY <1>5, <1>6, <1>11, <1>14
    <2>2. QED
      BY <2>1, <1>7, <1>14 DEF Before
  <1>15. ASSUME NEW z, NEW w, Crossed(m, n, z, w), Behind(z, a), Behind(z, b)
         PROVE  Before(n, a, b)
    BY <1>15, BehindOne
  <1>16. ASSUME NEW z, NEW w, Crossed(m, n, z, w), Crossed(m, n, w, z), Behind(z, a), Behind(w, b),
                ~Leads(Path(m, z.base), Path(m, b))
         PROVE  Before(n, a, b)
    <2>1. PathLess(Path(n, a), Path(m, b)) /\ Leads(Path(m, z.base), Path(n, a))
      BY <1>5, <1>6, <1>11, <1>16
    <2>2. ~Leads(Path(m, w.base), Path(n, a))
      BY <1>5, <1>16, <2>1, LedByBase
    <2>3. PathLess(Path(n, a), Path(n, b))
      BY <1>5, <1>11, <1>16, <2>1, <2>2
    <2>4. QED
      BY <2>3 DEF Before
  <1> HIDE DEF Out, Behind
  <1>17. Out(a) => ~Leads(Path(m, x.base), Path(m, a)) /\ ~Leads(Path(m, y.base), Path(m, a))
    BY <1>10 DEF Out
  <1>18. Out(b) => ~Leads(Path(m, x.base), Path(m, b)) /\ ~Leads(Path(m, y.base), Path(m, b))
    BY <1>10 DEF Out
  <1>19. CASE Behind(x, a)
    BY <1>1, <1>3, <1>9, <1>10, <1>13, <1>15, <1>16, <1>18, <1>19
  <1>20. CASE Behind(y, a)
    BY <1>1, <1>3, <1>8, <1>10, <1>13, <1>15, <1>16, <1>18, <1>20
  <1>21. CASE Out(a)
    BY <1>1, <1>3, <1>12, <1>14, <1>17, <1>21
  <1>22. QED
    BY <1>3, <1>19, <1>20, <1>21

\* A swap of two zones changes the order of no two slots that are in neither:
\* paths, and so the answers of DepthFirstRelation, change but not their order.
LEMMA SwapKeepsOrder ==
  ASSUME NEW m, NEW n, NEW x, NEW y, Crossed(m, n, x, y),
         NEW a \in Live(m), Around(m, x, a), Around(m, y, a),
         NEW b \in Live(m), Around(m, x, b), Around(m, y, b)
  PROVE  Before(m, a, b) <=> Before(n, a, b)
  <1>1. Wooded(m) /\ Wooded(n) /\ a \in DOMAIN m.at /\ b \in DOMAIN m.at /\ DOMAIN n.at = DOMAIN m.at
    BY LiveParts DEF Crossed
  <1>2. /\ Path(m, a) \in Seq(Nat) /\ Path(m, b) \in Seq(Nat) /\ Path(n, a) \in Seq(Nat) /\ Path(n, b) \in Seq(Nat)
    BY <1>1, PathType
  <1>3. ASSUME Before(n, a, b) PROVE Before(m, a, b)
    <2>1. a # b
      BY <1>2, <1>3, PathLessOneWay DEF Before
    <2>2. Path(m, a) # Path(m, b)
      BY <1>1, <2>1, PathInjective, RowOfLive
    <2>3. PathLess(Path(m, a), Path(m, b)) \/ PathLess(Path(m, b), Path(m, a))
      BY <1>2, <2>2, PathLessTotal
    <2>4. ~Before(m, b, a)
      <3>1. SUFFICES ASSUME Before(m, b, a) PROVE FALSE
        OBVIOUS
      <3>2. Before(n, b, a)
        BY <3>1, OrderKept
      <3>3. QED
        BY <1>2, <1>3, <3>2, PathLessOneWay DEF Before
    <2>5. QED
      BY <2>3, <2>4 DEF Before
  <1>4. QED
    BY <1>3, OrderKept

-----------------------------------------------------------------------------
(* What MutableZone::Swap() does to paths. *)

LEMMA TerminiiInOrder ==
  ASSUME NEW m, Wooded(m), NEW z, z.term \in Seq(DOMAIN m.at), ValidZone(m, z), ~IsEmptyZone(z)
  PROVE  InOrder(m, z)
  <1> DEFINE p(i) == Path(m, z.term[i])
             n == Len(z.term)
  <1>1. \A i \in 1..n : p(i) \in Seq(Nat) /\ HasRow(m, z.term[i]) /\ z.term[i] \in DOMAIN m.at
    <2>1. TAKE i \in 1..n
    <2>2. z.term[i] \in DOMAIN m.at /\ z.term[i] \in ToSet(z.term)
      BY DEF ToSet
    <2>3. QED
      BY <2>2, PathType DEF ValidZone
  <1>2. ASSUME NEW i \in 1..(n - 1) PROVE Apart(p(i), p(i + 1))
    BY <1>2 DEF ValidZone, Before, IsAncestor, PathLess, Apart
  <1>3. ASSUME NEW i \in 1..n, NEW j \in 1..n, i < j PROVE Apart(p(i), p(j))
    <2> DEFINE Bad == {k \in (i + 1)..n : ~Apart(p(i), p(k))}
    <2>1. SUFFICES ASSUME Bad # {} PROVE FALSE
      BY <1>3
    <2>2. Bad \subseteq Nat
      OBVIOUS
    <2>3. PICK k \in Bad : \A l \in Bad : ~(<<l, k>> \in OpToRel(<, Nat))
      <3> HIDE DEF Bad
      <3>1. QED
        BY <2>1, <2>2, WFMin, NatLessThanWellFounded
    <2>4. \A l \in Bad : ~(l < k)
      BY <2>2, <2>3 DEF OpToRel
    <2>5. k # i + 1
      <3>1. i \in 1..(n - 1)
        BY <1>3
      <3>2. QED
        BY <3>1, <1>2
    <2>6. k - 1 \in (i + 1)..n /\ k - 1 < k /\ k - 1 \in 1..(n - 1) /\ (k - 1) + 1 = k
      BY <2>5
    <2>7. Apart(p(i), p(k - 1))
      BY <2>4, <2>6
    <2>8. Apart(p(k - 1), p(k))
      BY <2>6, <1>2
    <2>9. Apart(p(i), p(k))
      <3>1. i \in 1..n /\ k - 1 \in 1..n /\ k \in 1..n
        BY <2>6
      <3> HIDE DEF Bad, p
      <3>2. QED
        BY <3>1, <2>7, <2>8, <1>1, ApartTransitive
    <2>10. QED
      BY <2>9
  <1>4. DOMAIN z.term = 1..n
    OBVIOUS
  <1>5. QED
    BY <1>3, <1>4 DEF InOrder

\* What a swap of two valid zones does.
LEMMA SwapIsCrossed ==
  ASSUME NEW m, Wooded(m), NEW x, NEW y, Swappable(m, x, y), ValidZone(m, x), ValidZone(m, y),
         x.base \in Live(m), y.base \in Live(m), NEW n, n = Swap(m, x, y)
  PROVE  Crossed(m, n, x, y)
  <1> DEFINE kids == SlotsBelow(m)
             D == DOMAIN m.at
             N == Len(x.term) + 1
             xs == Boundary(x)
             ys == Boundary(y)
  <1>1. PICK t, u : t # u /\ ZoneIn(m, x, t) /\ ZoneIn(m, y, u)
    BY DEF Swappable
  <1>2. /\ N \in Nat /\ Paired(D, xs, ys, N) /\ Len(x.term) \in Nat /\ Len(y.term) = Len(x.term)
        /\ x.base \in D /\ y.base \in D /\ x.term \in Seq(D) /\ y.term \in Seq(D)
    <2>1. Len(y.term) = Len(x.term)
      BY DEF Swappable
    <2>2. /\ Len(x.term) \in Nat /\ Paired(DOMAIN m.at, Boundary(x), Boundary(y), Len(x.term) + 1)
          /\ x.base \in DOMAIN m.at /\ y.base \in DOMAIN m.at
          /\ x.term \in Seq(DOMAIN m.at) /\ y.term \in Seq(DOMAIN m.at)
      BY SwappablePairs
    <2>3. QED
      BY <2>1, <2>2
  <1>3. /\ \A i \in 1..N : /\ Partner(xs, ys, xs[i]) = ys[i] /\ Partner(xs, ys, ys[i]) = xs[i]
        /\ \A s : s \notin ToSet(xs) \cup ToSet(ys) => Partner(xs, ys, s) = s
    BY <1>2, Partners
  <1>4. /\ xs[1] = x.base /\ ys[1] = y.base
        /\ \A i \in 1..Len(x.term) : xs[i + 1] = x.term[i] /\ ys[i + 1] = y.term[i]
        /\ xs \in [1..N -> D] /\ ys \in [1..N -> D]
    BY <1>2, BoundaryParts DEF Paired
  <1>5. /\ Wooded(n) /\ DOMAIN n.at = D /\ n.type = m.type /\ n.slots = m.slots
        /\ \A s \in D \ (ToSet(xs) \cup ToSet(ys)) : n.at[s] = m.at[s]
    BY SwapKeepsWood
  <1>6. \A s \in D : n.at[s] = m.at[Partner(xs, ys, s)]
    <2>1. n.at = SwapContents(m.at, x, y)
      BY <1>2 DEF Swap, Wooded, SlotsPlaced
    <2>2. QED
      BY <2>1 DEF SwapContents, Partner
  <1>7. \A s \in D : \A r \in D : n.at[s] = m.at[r] => SlotsBelow(n)[s] = kids[r]
    BY <1>5 DEF SlotsBelow
  <1>8. \A i \in 1..N : /\ SlotsBelow(n)[xs[i]] = kids[ys[i]]
                        /\ SlotsBelow(n)[ys[i]] = kids[xs[i]]
    <2>1. \A i \in 1..N : xs[i] \in D /\ ys[i] \in D
      BY <1>4
    <2> HIDE DEF xs, ys, N, D, kids
    <2>2. QED
      BY <1>3, <1>6, <1>7, <2>1
  <1>9. DOMAIN x.term = 1..Len(x.term) /\ DOMAIN y.term = 1..Len(x.term)
    BY <1>2
  <1>10. Crossing(m, n, x, y) /\ Crossing(m, n, y, x)
    <2>1. \A i \in 1..Len(x.term) : i + 1 \in 1..N
      BY <1>2
    <2>2. 1 \in 1..N
      BY <1>2
    <2> HIDE DEF xs, ys, N, D, kids
    <2>3. \A i \in 1..Len(x.term) : /\ SlotsBelow(n)[x.term[i]] = kids[y.term[i]]
                                    /\ SlotsBelow(n)[y.term[i]] = kids[x.term[i]]
      BY <2>1, <1>4, <1>8
    <2>4. SlotsBelow(n)[x.base] = kids[y.base] /\ SlotsBelow(n)[y.base] = kids[x.base]
      BY <2>2, <1>4, <1>8
    <2>5. QED
      BY <2>3, <2>4, <1>9 DEF Crossing, kids
  <1>11. \A s \in D : s \notin ToSet(xs) \cup ToSet(ys) => SlotsBelow(n)[s] = kids[s]
    <2>1. TAKE s \in D
    <2>2. HAVE s \notin ToSet(xs) \cup ToSet(ys)
    <2>3. n.at[s] = m.at[s]
      BY <2>2, <1>5
    <2>4. QED
      BY <2>3, <1>7
  <1>12. \A z, v : ZoneIn(m, z, v) /\ z.base \in Live(m) => v \in DOMAIN m.type
    <2>1. TAKE z, v
    <2>2. HAVE ZoneIn(m, z, v) /\ z.base \in Live(m)
    <2>3. /\ IsKids(kids) /\ DOMAIN kids = D /\ Forest(kids, RootSlots(m)) /\ <<0, v>> \in RootSlots(m)
          /\ z.base \in Reach(kids, {<<0, v>>})
      BY <2>2, SlotBelow, ZoneParts DEF Wooded, ZoneIn
    <2> DEFINE A == {<<0, w>> : w \in DOMAIN m.type}
    <2>4. A \in SUBSET D /\ A \subseteq RootSlots(m)
      <3>1. \A w \in DOMAIN m.type : <<0, w>> \in D
        BY LiveParts
      <3>2. \A w : <<0, w>>[1] = 0
        OBVIOUS
      <3>3. \A w \in DOMAIN m.type : <<0, w>> \in RootSlots(m)
        BY <3>1, <3>2 DEF RootSlots
      <3>4. QED
        BY <3>1, <3>3
    <2>5. Live(m) = UNION {Reach(kids, {a}) : a \in A}
      <3>1. Live(m) = Reach(kids, A)
        BY DEF Live
      <3> HIDE DEF A, kids
      <3>2. QED
        BY <2>3, <2>4, <3>1, ReachIsUnion
    <2>6. PICK a \in A : z.base \in Reach(kids, {a})
      BY <2>2, <2>5
    <2>7. a = <<0, v>>
      <3>1. a \in RootSlots(m)
        BY <2>4
      <3> HIDE DEF A, kids
      <3>2. QED
        BY <2>3, <2>6, <3>1, RootsApart
    <2>8. QED
      BY <2>7
  <1>13. t \in DOMAIN m.type /\ u \in DOMAIN m.type
    BY <1>1, <1>12
  <1>14. InOrder(m, x) /\ InOrder(m, y)
    <2>1. \A z, v : ZoneIn(m, z, v) => ~IsEmptyZone(z)
      <3>1. TAKE z, v
      <3>2. HAVE ZoneIn(m, z, v)
      <3>3. SUFFICES ASSUME z.term = <<z.base>> PROVE FALSE
        BY DEF IsEmptyZone
      <3>4. 1 \in DOMAIN z.term /\ z.term[1] = z.base
        BY <3>3
      <3>5. QED
        BY <3>2, <3>4 DEF ZoneIn
    <2>2. QED
      BY <1>1, <1>2, <2>1, TerminiiInOrder
  <1>15. QED
    BY <1>1, <1>5, <1>9, <1>10, <1>11, <1>13, <1>14 DEF Crossed

-----------------------------------------------------------------------------
(* What is inside zones. *)

\* The slots right below each, for a walk that does not go on below stop.
CutBelow(kids, stop) == [s \in DOMAIN kids |-> IF s \in stop THEN {} ELSE kids[s]]

\* What a walk of zone z meets.
ZoneSlots(m, z) == Reach(CutBelow(SlotsBelow(m), ToSet(z.term)), {z.base})

Inside(m, x, y) == ZoneSlots(m, x) \cup ZoneSlots(m, y)

\* The parts cut off are trees of their own.
LEMMA CutForest ==
  ASSUME NEW kids, NEW roots, Forest(kids, roots), NEW stop \in SUBSET DOMAIN kids,
         NEW cut, cut = CutBelow(kids, stop)
  PROVE  DOMAIN cut = DOMAIN kids /\ Forest(cut, roots \cup UNION {kids[s] : s \in stop})
  <1> DEFINE more == UNION {kids[s] : s \in stop}
             D == DOMAIN kids
  <1>1. DOMAIN cut = D /\ \A s \in D : cut[s] = IF s \in stop THEN {} ELSE kids[s]
    BY DEF CutBelow
  <1>2. /\ IsKids(kids) /\ \A s \in D : kids[s] \subseteq D
        /\ roots \subseteq D
        /\ \A s, t \in D : kids[s] \cap kids[t] # {} => s = t
        /\ \A s \in D : kids[s] \cap roots = {}
        /\ Reach(kids, roots) = D
    BY DEF Forest, IsKids
  <1>3. IsKids(cut)
    <2>1. cut = [s \in D |-> cut[s]]
      BY <1>1 DEF CutBelow
    <2>2. \A s \in D : cut[s] \in SUBSET D
      BY <1>1, <1>2
    <2>3. QED
      BY <1>1, <2>1, <2>2 DEF IsKids
  <1>4. more \subseteq D /\ \A s \in stop : kids[s] \subseteq more
    BY <1>2
  <1>5. \A s \in D : cut[s] \cap (roots \cup more) = {}
    <2>1. TAKE s \in D
    <2>2. SUFFICES ASSUME s \notin stop, NEW e \in kids[s], e \in more PROVE FALSE
      BY <1>1, <1>2
    <2>3. PICK q \in stop : e \in kids[q]
      BY <2>2
    <2>4. q = s
      BY <1>2, <2>2, <2>3
    <2>5. QED
      BY <2>2, <2>3, <2>4
  <1>6. \A s, t \in D : cut[s] \cap cut[t] # {} => s = t
    BY <1>1, <1>2
  <1> HIDE DEF more
  <1>7. Reach(cut, roots \cup more) = D
    <2> DEFINE C == Reach(cut, roots \cup more)
    <2>1. (roots \cup more) \in SUBSET DOMAIN cut
      BY <1>1, <1>2, <1>4
    <2>2. C \subseteq D /\ (roots \cup more) \subseteq C /\ Closed(cut, C)
      BY <2>1, <1>1, <1>3, ReachIsLeast
    <2> HIDE DEF C
    <2>3. Closed(kids, C)
      <3>1. SUFFICES ASSUME NEW s \in C PROVE kids[s] \subseteq C
        BY DEF Closed
      <3>2. CASE s \in stop
        BY <3>2, <1>4, <2>2
      <3>3. CASE s \notin stop
        BY <3>3, <1>1, <2>2 DEF Closed
      <3>4. QED
        BY <3>2, <3>3
    <2>4. Reach(kids, roots) \subseteq C
      BY <1>2, <2>2, <2>3, ReachIsLeast
    <2>5. QED
      BY <1>2, <2>2, <2>4 DEF C
  <1>8. QED
    BY <1>1, <1>2, <1>3, <1>4, <1>5, <1>6, <1>7 DEF Forest, more

LEMMA CutParts ==
  ASSUME NEW kids, IsKids(kids), NEW stop, NEW cut, cut = CutBelow(kids, stop)
  PROVE  /\ IsKids(cut) /\ DOMAIN cut = DOMAIN kids
         /\ \A s \in DOMAIN kids : cut[s] = IF s \in stop THEN {} ELSE kids[s]
  BY DEF IsKids, CutBelow

LEMMA CutReaches ==
  ASSUME NEW kids, IsKids(kids), NEW stop, NEW A \in SUBSET DOMAIN kids
  PROVE  Reach(CutBelow(kids, stop), A) \subseteq Reach(kids, A)
  <1>1. PICK cut : cut = CutBelow(kids, stop)
    OBVIOUS
  <1>2. /\ IsKids(cut) /\ DOMAIN cut = DOMAIN kids
        /\ \A s \in DOMAIN kids : cut[s] = IF s \in stop THEN {} ELSE kids[s]
    BY <1>1, CutParts
  <1>3. PICK C : C = Reach(kids, A)
    OBVIOUS
  <1>4. C \in SUBSET DOMAIN kids /\ A \subseteq C /\ Closed(kids, C)
    BY <1>3, ReachIsLeast
  <1>5. Closed(cut, C)
    BY <1>2, <1>4 DEF Closed
  <1>6. Reach(cut, A) \subseteq C
    BY <1>2, <1>4, <1>5, ReachIsLeast
  <1>7. QED
    BY <1>1, <1>3, <1>6

\* To stop at what is not met changes nothing.
LEMMA CutElsewhere ==
  ASSUME NEW kids, IsKids(kids), NEW A \in SUBSET DOMAIN kids, NEW stop, NEW more,
         (more \ stop) \cap Reach(CutBelow(kids, stop), A) = {}, stop \subseteq more
  PROVE  Reach(CutBelow(kids, more), A) = Reach(CutBelow(kids, stop), A)
  <1>1. PICK c, d : c = CutBelow(kids, stop) /\ d = CutBelow(kids, more)
    OBVIOUS
  <1>2. /\ IsKids(c) /\ DOMAIN c = DOMAIN kids
        /\ \A s \in DOMAIN kids : c[s] = IF s \in stop THEN {} ELSE kids[s]
    BY <1>1, CutParts
  <1>3. /\ IsKids(d) /\ DOMAIN d = DOMAIN kids
        /\ \A s \in DOMAIN kids : d[s] = IF s \in more THEN {} ELSE kids[s]
    BY <1>1, CutParts
  <1>4. PICK C, E : C = Reach(c, A) /\ E = Reach(d, A)
    OBVIOUS
  <1>5. C \in SUBSET DOMAIN kids /\ A \subseteq C /\ Closed(c, C)
    BY <1>2, <1>4, ReachIsLeast
  <1>6. E \in SUBSET DOMAIN kids /\ A \subseteq E /\ Closed(d, E)
    BY <1>3, <1>4, ReachIsLeast
  <1>7. Closed(d, C)
    BY <1>2, <1>3, <1>5 DEF Closed
  <1>8. E \subseteq C
    BY <1>3, <1>4, <1>5, <1>7, ReachIsLeast
  <1>9. (more \ stop) \cap C = {}
    BY <1>1, <1>4
  <1>10. Closed(c, E)
    BY <1>2, <1>3, <1>6, <1>8, <1>9 DEF Closed
  <1>11. C \subseteq E
    BY <1>2, <1>4, <1>6, <1>10, ReachIsLeast
  <1>12. QED
    BY <1>1, <1>4, <1>8, <1>11

LEMMA InsideIsLive ==
  ASSUME NEW m, Wooded(m), NEW z, z.base \in Live(m)
  PROVE  ZoneSlots(m, z) \subseteq Reach(SlotsBelow(m), {z.base}) /\ ZoneSlots(m, z) \subseteq Live(m)
  <1> DEFINE kids == SlotsBelow(m)
  <1>1. IsKids(kids) /\ DOMAIN kids = DOMAIN m.at /\ Live(m) \subseteq DOMAIN m.at
    BY SlotBelow, LiveParts DEF Wooded
  <1>2. {z.base} \in SUBSET DOMAIN kids
    BY <1>1
  <1>3. ZoneSlots(m, z) \subseteq Reach(kids, {z.base})
    BY <1>1, <1>2, CutReaches DEF ZoneSlots
  <1>4. PICK A : A = {<<0, t>> : t \in DOMAIN m.type}
    OBVIOUS
  <1>5. A \in SUBSET DOMAIN kids /\ Live(m) = Reach(kids, A)
    BY <1>1, <1>4, LiveParts DEF Live
  <1>6. Reach(kids, {z.base}) \subseteq Reach(kids, A)
    <2>1. {z.base} \in SUBSET Reach(kids, A)
      BY <1>5
    <2> HIDE DEF kids
    <2>2. QED
      BY <1>1, <1>5, <2>1, ReachGrows
  <1>7. QED
    BY <1>3, <1>5, <1>6

\* What is outside zone x is around it.
LEMMA OutsideIsAround ==
  ASSUME NEW m, NEW n, NEW x, NEW y, Crossed(m, n, x, y), NEW s, s \notin ZoneSlots(m, x)
  PROVE  Around(m, x, s)
  <1> DEFINE kids == SlotsBelow(m)
             X == ToSet(x.term)
             Behind == UNION {Below(kids, {x.term[i]}) : i \in DOMAIN x.term}
  <1>1. ZoneApart(m, x, y)
    BY CrossedZones
  <1>2. /\ IsKids(kids) /\ DOMAIN kids = DOMAIN m.at /\ Forest(kids, RootSlots(m)) /\ x.base \in DOMAIN m.at
        /\ \A i \in DOMAIN x.term : x.term[i] \in DOMAIN m.at
        /\ \A q \in X : \E i \in DOMAIN x.term : q = x.term[i]
        /\ Reach(kids, {x.base}) = {x.base} \cup Below(kids, {x.base})
    BY <1>1 DEF ZoneApart
  <1>3. PICK cut : cut = CutBelow(kids, X)
    OBVIOUS
  <1>4. /\ IsKids(cut) /\ DOMAIN cut = DOMAIN kids
        /\ \A q \in DOMAIN kids : cut[q] = IF q \in X THEN {} ELSE kids[q]
    BY <1>2, <1>3, CutParts
  <1>5. PICK Z : Z = Reach(cut, {x.base})
    OBVIOUS
  <1>6. Z \subseteq DOMAIN kids /\ x.base \in Z /\ Closed(cut, Z)
    <2>1. {x.base} \in SUBSET DOMAIN cut
      BY <1>2, <1>4
    <2>2. QED
      BY <1>4, <1>5, <2>1, ReachIsLeast
  <1>7. Z = ZoneSlots(m, x)
    BY <1>3, <1>5 DEF ZoneSlots
  <1>8. \A i \in DOMAIN x.term : /\ kids[x.term[i]] \subseteq Below(kids, {x.term[i]})
                                 /\ Below(kids, {x.term[i]}) \subseteq DOMAIN kids
                                 /\ Closed(kids, Below(kids, {x.term[i]}))
    <2>1. TAKE i \in DOMAIN x.term
    <2>2. x.term[i] \in DOMAIN kids
      BY <1>2
    <2>3. Forest(kids, RootSlots(m))
      BY <1>2
    <2>4. PICK e : e = x.term[i]
      OBVIOUS
    <2> HIDE DEF kids
    <2>5. /\ kids[e] \subseteq Below(kids, {e}) /\ Below(kids, {e}) \subseteq DOMAIN kids
          /\ Closed(kids, Below(kids, {e}))
      BY <2>2, <2>3, <2>4, BelowFrom
    <2>6. QED
      BY <2>4, <2>5
  <1>9. Behind \subseteq DOMAIN kids /\ Closed(kids, Behind)
    BY <1>8 DEF Closed
  <1>10. \A q \in X : kids[q] \subseteq Behind
    BY <1>2, <1>8
  <1> HIDE DEF kids, X, Behind
  <1>11. Closed(kids, Z \cup Behind)
    <2>1. SUFFICES ASSUME NEW q \in Z \cup Behind PROVE kids[q] \subseteq Z \cup Behind
      BY DEF Closed
    <2>2. CASE q \in Behind
      BY <2>2, <1>9 DEF Closed
    <2>3. CASE q \in Z /\ q \in X
      BY <2>3, <1>10
    <2>4. CASE q \in Z /\ q \notin X
      BY <2>4, <1>4, <1>6 DEF Closed
    <2>5. QED
      BY <2>1, <2>2, <2>3, <2>4
  <1>12. Reach(kids, {x.base}) \subseteq Z \cup Behind
    <2>1. {x.base} \in SUBSET DOMAIN kids /\ (Z \cup Behind) \in SUBSET DOMAIN kids
      BY <1>2, <1>6, <1>9
    <2>2. QED
      BY <2>1, <1>2, <1>6, <1>11, ReachIsLeast
  <1>13. s # x.base
    BY <1>6, <1>7
  <1>14. s \in Below(kids, {x.base}) => s \in Behind
    BY <1>2, <1>7, <1>12
  <1>15. QED
    BY <1>13, <1>14 DEF Around, Behind, kids

-----------------------------------------------------------------------------
(* What the zones hold after the swap. *)

\* Zone v is x with the terminii of y, as after a swap.
TookOver(x, y, v) == v.base = x.base /\ ToSet(v.term) = ToSet(y.term)

\* What the walks of zones x and y of a swap depend on: the slots below each
\* before and after it, the bases, and the terminii.
ZonesCrossed(km, kn, a, b, X, Y) ==
  /\ IsKids(km) /\ IsKids(kn) /\ DOMAIN kn = DOMAIN km
  /\ a \in DOMAIN km /\ b \in DOMAIN km /\ a # b
  /\ X \subseteq Reach(km, {a}) /\ a \notin X /\ a \in Reach(km, {a})
  /\ Reach(km, {a}) \cap Reach(km, {b}) = {}
  /\ kn[a] = km[b]
  /\ \A s \in DOMAIN km : s \notin {a, b} \cup X \cup Y => kn[s] = km[s]
  /\ \A s \in Reach(km, {a}) : a \notin km[s]

LEMMA CrossedSets ==
  ASSUME NEW m, NEW n, NEW x, NEW y, Crossed(m, n, x, y)
  PROVE  ZonesCrossed(SlotsBelow(m), SlotsBelow(n), x.base, y.base, ToSet(x.term), ToSet(y.term))
  <1> DEFINE km == SlotsBelow(m)
             kn == SlotsBelow(n)
  <1>1. ZoneApart(m, x, y) /\ ZoneApart(m, y, x) /\ Wooded(n) /\ DOMAIN n.at = DOMAIN m.at
    BY CrossedZones DEF Crossed
  <1>2. /\ IsKids(km) /\ DOMAIN km = DOMAIN m.at /\ Forest(km, RootSlots(m))
        /\ x.base \in DOMAIN m.at
        /\ ToSet(Boundary(x)) = {x.base} \cup ToSet(x.term)
        /\ \A s \in ToSet(x.term) : \E i \in DOMAIN x.term : s = x.term[i]
        /\ \A i \in DOMAIN x.term : x.term[i] \in Below(km, {x.base})
        /\ Reach(km, {x.base}) = {x.base} \cup Below(km, {x.base})
        /\ Reach(km, {x.base}) \cap Reach(km, {y.base}) = {}
    BY <1>1 DEF ZoneApart
  <1>3. /\ y.base \in DOMAIN m.at
        /\ ToSet(Boundary(y)) = {y.base} \cup ToSet(y.term)
        /\ Reach(km, {y.base}) = {y.base} \cup Below(km, {y.base})
    BY <1>1 DEF ZoneApart
  <1>4. IsKids(kn) /\ DOMAIN kn = DOMAIN m.at
    BY <1>1, SlotBelow DEF Wooded
  <1>5. x.base # y.base
    BY <1>2, <1>3
  <1>6. /\ Closed(km, Below(km, {x.base})) /\ x.base \notin Below(km, {x.base})
        /\ km[x.base] \subseteq Below(km, {x.base})
    <2>1. x.base \in DOMAIN km
      BY <1>2
    <2>2. QED
      BY <2>1, <1>2, BelowFrom
  <1>7. ToSet(x.term) \subseteq Below(km, {x.base})
    BY <1>2
  <1>8. kn[x.base] = km[y.base]
    BY DEF Crossed, Crossing
  <1>9. \A s \in DOMAIN km : s \notin {x.base, y.base} \cup ToSet(x.term) \cup ToSet(y.term) => kn[s] = km[s]
    <2>1. \A s \in DOMAIN m.at : s \notin ToSet(Boundary(x)) \cup ToSet(Boundary(y)) => kn[s] = km[s]
      BY DEF Crossed
    <2>2. QED
      BY <2>1, <1>2, <1>3
  <1>10. \A s \in Reach(km, {x.base}) : x.base \notin km[s]
    BY <1>2, <1>6 DEF Closed
  <1>11. QED
    BY <1>2, <1>3, <1>4, <1>5, <1>6, <1>7, <1>8, <1>9, <1>10 DEF ZonesCrossed

\* What zone x holds after the swap is what zone y held before it.
LEMMA ZoneMoved ==
  ASSUME NEW m, NEW n, NEW x, NEW y, Crossed(m, n, x, y), NEW v, TookOver(x, y, v)
  PROVE  ToSet(x.term) \cap ZoneSlots(n, v) = {}
  <1>1. PICK km, kn : km = SlotsBelow(m) /\ kn = SlotsBelow(n)
    OBVIOUS
  <1>2. PICK X, Y, a, b : X = ToSet(x.term) /\ Y = ToSet(y.term) /\ a = x.base /\ b = y.base
    OBVIOUS
  <1>3. /\ IsKids(km) /\ IsKids(kn) /\ DOMAIN kn = DOMAIN km
        /\ a \in DOMAIN km /\ b \in DOMAIN km /\ a # b
        /\ X \subseteq Reach(km, {a}) /\ a \notin X /\ a \in Reach(km, {a})
        /\ Reach(km, {a}) \cap Reach(km, {b}) = {}
        /\ kn[a] = km[b]
        /\ \A s \in DOMAIN km : s \notin {a, b} \cup X \cup Y => kn[s] = km[s]
    <2>1. ZonesCrossed(km, kn, a, b, X, Y)
      BY <1>1, <1>2, CrossedSets
    <2>2. QED
      BY <2>1 DEF ZonesCrossed
  <1>4. /\ b \notin Y /\ b \in Reach(km, {b})
        /\ \A s \in Reach(km, {b}) : b \notin km[s]
    <2>1. Crossed(m, n, y, x)
      BY CrossedOtherWay
    <2>2. ZonesCrossed(km, kn, b, a, Y, X)
      BY <2>1, <1>1, <1>2, CrossedSets
    <2>3. QED
      BY <2>2 DEF ZonesCrossed
  <1>5. PICK cm, cn : cm = CutBelow(km, Y) /\ cn = CutBelow(kn, Y)
    OBVIOUS
  <1>6. /\ IsKids(cm) /\ DOMAIN cm = DOMAIN km /\ \A s \in DOMAIN km : cm[s] = IF s \in Y THEN {} ELSE km[s]
        /\ IsKids(cn) /\ DOMAIN cn = DOMAIN km /\ \A s \in DOMAIN km : cn[s] = IF s \in Y THEN {} ELSE kn[s]
    BY <1>3, <1>5, CutParts
  <1>7. PICK C : C = Reach(cm, {b})
    OBVIOUS
  <1>8. C \subseteq DOMAIN km /\ b \in C /\ Closed(cm, C) /\ C \subseteq Reach(km, {b})
    <2>1. {b} \in SUBSET DOMAIN cm /\ {b} \in SUBSET DOMAIN km
      BY <1>3, <1>6
    <2>2. C \subseteq DOMAIN cm /\ {b} \subseteq C /\ Closed(cm, C)
      BY <2>1, <1>6, <1>7, ReachIsLeast
    <2>3. C \subseteq Reach(km, {b})
      BY <2>1, <1>3, <1>5, <1>7, CutReaches
    <2>4. QED
      BY <2>2, <2>3, <1>6
  <1>9. PICK E : E = {a} \cup (C \ {b})
    OBVIOUS
  <1>10. Closed(cn, E)
    <2>1. SUFFICES ASSUME NEW s \in E, NEW e \in cn[s] PROVE e \in E
      BY DEF Closed
    <2>2. s \in DOMAIN km /\ s \notin Y /\ e \in kn[s]
      BY <2>1, <1>3, <1>6, <1>8, <1>9
    <2>3. CASE s = a
      <3>1. e \in km[b] /\ e \in cm[b]
        BY <2>2, <2>3, <1>3, <1>4, <1>6
      <3>2. e \in C /\ e # b
        BY <3>1, <1>4, <1>8 DEF Closed
      <3>3. QED
        BY <3>2, <1>9
    <2>4. CASE s # a
      <3>1. s \in C /\ s # b /\ s \in Reach(km, {b}) /\ s \notin X
        BY <2>1, <2>4, <1>3, <1>8, <1>9
      <3>2. kn[s] = km[s]
        BY <2>2, <2>4, <3>1, <1>3
      <3>3. e \in cm[s] /\ e # b
        BY <2>2, <3>1, <3>2, <1>4, <1>6
      <3>4. e \in C
        BY <3>1, <3>3, <1>8 DEF Closed
      <3>5. QED
        BY <3>3, <3>4, <1>9
    <2>5. QED
      BY <2>3, <2>4
  <1>11. Reach(cn, {a}) \subseteq E
    <2>1. {a} \in SUBSET DOMAIN cn /\ {a} \subseteq E /\ E \in SUBSET DOMAIN cn
      BY <1>3, <1>6, <1>8, <1>9
    <2>2. QED
      BY <2>1, <1>6, <1>10, ReachIsLeast
  <1>12. ZoneSlots(n, v) = Reach(cn, {a})
    BY <1>1, <1>2, <1>5 DEF ZoneSlots, TookOver
  <1>13. X \cap E = {}
    BY <1>3, <1>8, <1>9
  <1>14. QED
    BY <1>2, <1>11, <1>12, <1>13

\* Both zones together hold what they held before.
LEMMA InsideKept ==
  ASSUME NEW m, NEW n, NEW x, NEW y, Crossed(m, n, x, y), NEW v, TookOver(x, y, v), NEW w, TookOver(y, x, w)
  PROVE  Inside(n, v, w) = Inside(m, x, y)
  <1>1. PICK km, kn : km = SlotsBelow(m) /\ kn = SlotsBelow(n)
    OBVIOUS
  <1>2. PICK X, Y, a, b : X = ToSet(x.term) /\ Y = ToSet(y.term) /\ a = x.base /\ b = y.base
    OBVIOUS
  <1>3. PICK T : T = X \cup Y
    OBVIOUS
  <1>4. /\ IsKids(km) /\ IsKids(kn) /\ DOMAIN kn = DOMAIN km
        /\ a \in DOMAIN km /\ b \in DOMAIN km /\ a # b
        /\ X \subseteq Reach(km, {a})
        /\ Reach(km, {a}) \cap Reach(km, {b}) = {}
        /\ kn[a] = km[b] /\ a \notin X
        /\ \A s \in DOMAIN km : s \notin {a, b} \cup X \cup Y => kn[s] = km[s]
    <2>1. ZonesCrossed(km, kn, a, b, X, Y)
      BY <1>1, <1>2, CrossedSets
    <2>2. QED
      BY <2>1 DEF ZonesCrossed
  <1>5. Y \subseteq Reach(km, {b}) /\ kn[b] = km[a] /\ b \notin Y
    <2>1. Crossed(m, n, y, x)
      BY CrossedOtherWay
    <2>2. ZonesCrossed(km, kn, b, a, Y, X)
      BY <2>1, <1>1, <1>2, CrossedSets
    <2>3. QED
      BY <2>2 DEF ZonesCrossed
  <1>6. {a} \in SUBSET DOMAIN km /\ {b} \in SUBSET DOMAIN km
    BY <1>4
  <1>7. ZoneSlots(m, x) = Reach(CutBelow(km, T), {a})
    <2>1. Reach(CutBelow(km, X), {a}) \subseteq Reach(km, {a})
      BY <1>4, <1>6, CutReaches
    <2>2. (T \ X) \cap Reach(CutBelow(km, X), {a}) = {} /\ X \subseteq T
      BY <2>1, <1>3, <1>4, <1>5
    <2>3. Reach(CutBelow(km, T), {a}) = Reach(CutBelow(km, X), {a})
      BY <2>2, <1>4, <1>6, CutElsewhere
    <2>4. QED
      BY <2>3, <1>1, <1>2 DEF ZoneSlots
  <1>8. ZoneSlots(m, y) = Reach(CutBelow(km, T), {b})
    <2>1. Reach(CutBelow(km, Y), {b}) \subseteq Reach(km, {b})
      BY <1>4, <1>6, CutReaches
    <2>2. (T \ Y) \cap Reach(CutBelow(km, Y), {b}) = {} /\ Y \subseteq T
      BY <2>1, <1>3, <1>4, <1>5
    <2>3. Reach(CutBelow(km, T), {b}) = Reach(CutBelow(km, Y), {b})
      BY <2>2, <1>4, <1>6, CutElsewhere
    <2>4. QED
      BY <2>3, <1>1, <1>2 DEF ZoneSlots
  <1>9. ZoneSlots(n, v) = Reach(CutBelow(kn, T), {a})
    <2>1. ZoneSlots(n, v) = Reach(CutBelow(kn, Y), {a})
      BY <1>1, <1>2 DEF ZoneSlots, TookOver
    <2>2. (T \ Y) \cap Reach(CutBelow(kn, Y), {a}) = {} /\ Y \subseteq T
      BY <2>1, <1>2, <1>3, ZoneMoved
    <2>3. QED
      BY <2>1, <2>2, <1>4, <1>6, CutElsewhere
  <1>10. ZoneSlots(n, w) = Reach(CutBelow(kn, T), {b})
    <2>1. ZoneSlots(n, w) = Reach(CutBelow(kn, X), {b})
      BY <1>1, <1>2 DEF ZoneSlots, TookOver
    <2>2. (T \ X) \cap Reach(CutBelow(kn, X), {b}) = {} /\ X \subseteq T
      BY <2>1, <1>2, <1>3, ZoneMoved, CrossedOtherWay
    <2>3. QED
      BY <2>1, <2>2, <1>4, <1>6, CutElsewhere
  <1>11. PICK cm, cn : cm = CutBelow(km, T) /\ cn = CutBelow(kn, T)
    OBVIOUS
  <1>12. /\ IsKids(cm) /\ DOMAIN cm = DOMAIN km /\ \A s \in DOMAIN km : cm[s] = IF s \in T THEN {} ELSE km[s]
         /\ IsKids(cn) /\ DOMAIN cn = DOMAIN km /\ \A s \in DOMAIN km : cn[s] = IF s \in T THEN {} ELSE kn[s]
    BY <1>4, <1>11, CutParts
  <1>13. PICK A : A = {a, b}
    OBVIOUS
  <1>14. A \in SUBSET DOMAIN cm /\ A \in SUBSET DOMAIN cn
    BY <1>4, <1>12, <1>13
  <1>15. Inside(m, x, y) = Reach(cm, A)
    <2>1. Reach(cm, A) = UNION {Reach(cm, {q}) : q \in A}
      BY <1>12, <1>14, ReachIsUnion
    <2>2. QED
      BY <2>1, <1>7, <1>8, <1>11, <1>13 DEF Inside
  <1>16. Inside(n, v, w) = Reach(cn, A)
    <2>1. Reach(cn, A) = UNION {Reach(cn, {q}) : q \in A}
      BY <1>12, <1>14, ReachIsUnion
    <2>2. QED
      BY <2>1, <1>9, <1>10, <1>11, <1>13 DEF Inside
  <1>17. a \notin T /\ b \notin T
    <2>1. /\ Reach(km, {a}) \subseteq DOMAIN km /\ a \in Reach(km, {a}) /\ b \in Reach(km, {b})
      BY <1>4, <1>6, ReachIsLeast
    <2>2. QED
      BY <2>1, <1>3, <1>4, <1>5
  <1>18. cn[a] = cm[b] /\ cn[b] = cm[a] /\ \A s \in DOMAIN km : s \notin A => cn[s] = cm[s]
    <2>1. cn[a] = kn[a] /\ cn[b] = kn[b] /\ cm[a] = km[a] /\ cm[b] = km[b]
      BY <1>4, <1>12, <1>17
    <2>2. \A s \in DOMAIN km : s \notin A => cn[s] = cm[s]
      BY <1>3, <1>4, <1>12, <1>13
    <2>3. QED
      BY <2>1, <2>2, <1>4, <1>5
  <1>19. \A C \in SUBSET DOMAIN km : A \subseteq C => (Closed(cn, C) <=> Closed(cm, C))
    <2>1. TAKE C \in SUBSET DOMAIN km
    <2>2. HAVE A \subseteq C
    <2>3. a \in C /\ b \in C
      BY <2>2, <1>13
    <2>4. \A s \in C : s \in A => s = a \/ s = b
      BY <1>13
    <2>5. ASSUME Closed(cm, C) PROVE Closed(cn, C)
      <3>1. cm[a] \subseteq C /\ cm[b] \subseteq C /\ \A s \in C : cm[s] \subseteq C
        BY <2>3, <2>5 DEF Closed
      <3>2. \A s \in C : cn[s] \subseteq C
        BY <3>1, <2>4, <1>18
      <3>3. QED
        BY <3>2 DEF Closed
    <2>6. ASSUME Closed(cn, C) PROVE Closed(cm, C)
      <3>1. cn[a] \subseteq C /\ cn[b] \subseteq C /\ \A s \in C : cn[s] \subseteq C
        BY <2>3, <2>6 DEF Closed
      <3>2. \A s \in C : cm[s] \subseteq C
        BY <3>1, <2>4, <1>18
      <3>3. QED
        BY <3>2 DEF Closed
    <2>7. QED
      BY <2>5, <2>6
  <1>20. Reach(cm, A) = Reach(cn, A)
    BY <1>12, <1>19 DEF Reach
  <1>21. QED
    BY <1>15, <1>16, <1>20

-----------------------------------------------------------------------------
(* The nodes whose content a swap changes. *)

\* The nodes the slots S point to.
PointedTo(m, S) == {m.at[s] : s \in S}

\* The nodes above slots of B: those that slots above B point to.
Disturbs(m, B) == PointedTo(m, {a \in Live(m) : Below(SlotsBelow(m), {a}) \cap B # {}})

\* The slots from which a walk meets none of B.
Clear(kids, B) == {a \in DOMAIN kids : Reach(kids, {a}) \cap B = {}}

LEMMA ClearParts ==
  ASSUME NEW kids, IsKids(kids), NEW B
  PROVE  /\ Clear(kids, B) \subseteq DOMAIN kids /\ Clear(kids, B) \cap B = {}
         /\ Closed(kids, Clear(kids, B))
         /\ \A s \in DOMAIN kids : Below(kids, {s}) \cap B = {} <=> kids[s] \subseteq Clear(kids, B)
  <1> DEFINE D == DOMAIN kids
  <1>1. \A s \in D : /\ s \in Reach(kids, {s}) /\ kids[s] \subseteq D
                     /\ Reach(kids, {s}) = {s} \cup UNION {Reach(kids, {k}) : k \in kids[s]}
                     /\ Below(kids, {s}) = UNION {Reach(kids, {k}) : k \in kids[s]}
    <2>1. TAKE s \in D
    <2>2. /\ Reach(kids, {s}) = {s} \cup UNION {Reach(kids, {k}) : k \in kids[s]}
          /\ Below(kids, {s}) = UNION {Reach(kids, {k}) : k \in kids[s]}
      BY ReachStep
    <2>3. QED
      BY <2>2 DEF IsKids
  <1>2. Clear(kids, B) \subseteq D /\ Clear(kids, B) \cap B = {}
    BY <1>1 DEF Clear
  <1>3. \A s \in D : Below(kids, {s}) \cap B = {} <=> kids[s] \subseteq Clear(kids, B)
    <2>1. TAKE s \in D
    <2>2. \A k \in kids[s] : k \in Clear(kids, B) <=> Reach(kids, {k}) \cap B = {}
      BY <1>1 DEF Clear
    <2>3. Below(kids, {s}) = UNION {Reach(kids, {k}) : k \in kids[s]}
      BY <1>1
    <2>4. \A e : e \in Below(kids, {s}) <=> \E k \in kids[s] : e \in Reach(kids, {k})
      BY <2>3
    <2>5. QED
      BY <2>2, <2>4
  <1>4. Closed(kids, Clear(kids, B))
    <2>1. SUFFICES ASSUME NEW s \in Clear(kids, B) PROVE kids[s] \subseteq Clear(kids, B)
      BY DEF Closed
    <2>2. s \in D /\ Reach(kids, {s}) \cap B = {}
      BY <2>1 DEF Clear
    <2>3. Below(kids, {s}) \subseteq Reach(kids, {s})
      BY <2>2, <1>1
    <2>4. QED
      BY <2>2, <2>3, <1>3
  <1>5. QED
    BY <1>2, <1>3, <1>4

\* Where a walk meets none of B, what is below slots of B does not matter.
LEMMA ClearGrows ==
  ASSUME NEW km, IsKids(km), NEW kn, IsKids(kn), DOMAIN kn = DOMAIN km, NEW B,
         \A s \in DOMAIN km : s \notin B => kn[s] = km[s]
  PROVE  Clear(km, B) \subseteq Clear(kn, B)
  <1>1. PICK C : C = Clear(km, B)
    OBVIOUS
  <1>2. C \in SUBSET DOMAIN km /\ C \cap B = {} /\ Closed(km, C)
    BY <1>1, ClearParts
  <1>3. Closed(kn, C)
    BY <1>2 DEF Closed
  <1>4. SUFFICES ASSUME NEW a \in C PROVE Reach(kn, {a}) \cap B = {} /\ a \in DOMAIN kn
    BY <1>1 DEF Clear
  <1>5. {a} \in SUBSET DOMAIN kn /\ {a} \subseteq C /\ C \in SUBSET DOMAIN kn
    BY <1>2
  <1>6. Reach(kn, {a}) \subseteq C
    BY <1>3, <1>5, ReachIsLeast
  <1>7. QED
    BY <1>2, <1>5, <1>6

LEMMA ClearKept ==
  ASSUME NEW km, IsKids(km), NEW kn, IsKids(kn), DOMAIN kn = DOMAIN km, NEW B,
         \A s \in DOMAIN km : s \notin B => kn[s] = km[s]
  PROVE  Clear(kn, B) = Clear(km, B)
  <1>1. Clear(km, B) \subseteq Clear(kn, B)
    BY ClearGrows
  <1>2. \A s \in DOMAIN kn : s \notin B => km[s] = kn[s]
    OBVIOUS
  <1>3. Clear(kn, B) \subseteq Clear(km, B)
    BY <1>2, ClearGrows
  <1>4. QED
    BY <1>1, <1>3

\* The nodes slots of L point to, but for those whose slots are all in C.
NotAllIn(m, L, C) == {k \in PointedTo(m, L) : ~(ToSet(m.slots[k]) \subseteq C)}

\* The nodes that are disturbed, by the slots inside them.
LEMMA DisturbedBySlots ==
  ASSUME NEW m, Wooded(m), NEW B
  PROVE  Disturbs(m, B) = NotAllIn(m, Live(m), Clear(SlotsBelow(m), B))
  <1> DEFINE kids == SlotsBelow(m)
  <1>1. IsKids(kids) /\ DOMAIN kids = DOMAIN m.at /\ Live(m) \subseteq DOMAIN m.at
    BY SlotBelow, LiveParts DEF Wooded
  <1>2. \A a \in Live(m) : kids[a] = ToSet(m.slots[m.at[a]]) /\ a \in DOMAIN kids
    BY <1>1 DEF SlotsBelow
  <1> HIDE DEF kids
  <1>3. \A a \in Live(m) : Below(kids, {a}) \cap B # {} <=> ~(ToSet(m.slots[m.at[a]]) \subseteq Clear(kids, B))
    BY <1>1, <1>2, ClearParts
  <1>4. \A k : k \in Disturbs(m, B) <=> \E a \in Live(m) : k = m.at[a] /\ Below(kids, {a}) \cap B # {}
    BY DEF Disturbs, PointedTo, kids
  <1>5. \A k : k \in PointedTo(m, Live(m)) <=> \E a \in Live(m) : k = m.at[a]
    BY DEF PointedTo
  <1>6. QED
    BY <1>3, <1>4, <1>5 DEF kids, NotAllIn

\* A swap changes neither which nodes the trees have nor which it disturbs.
LEMMA SwapPointsAlike ==
  ASSUME NEW m, Wooded(m), NEW x, NEW y, Swappable(m, x, y), NEW n, n = Swap(m, x, y),
         NEW B, B = ToSet(Boundary(x)) \cup ToSet(Boundary(y)), B \subseteq Live(m)
  PROVE  /\ Live(n) = Live(m) /\ PointedTo(n, Live(m)) = PointedTo(m, Live(m))
         /\ Disturbs(n, B) = Disturbs(m, B)
         /\ Clear(SlotsBelow(n), B) = Clear(SlotsBelow(m), B)
  <1> DEFINE L == Live(m)
             D == DOMAIN m.at
  <1>1. /\ Wooded(n) /\ DOMAIN n.at = D /\ RootSlots(n) = RootSlots(m)
        /\ n.label = m.label /\ n.slots = m.slots /\ n.type = m.type
        /\ \A s \in D \ B : n.at[s] = m.at[s]
        /\ \A A \in SUBSET D :
             {x.base, y.base} \subseteq Reach(SlotsBelow(m), A) =>
               Reach(SlotsBelow(n), A) = Reach(SlotsBelow(m), A)
    BY SwapKeepsWood
  <1>2. PICK swap : Exchanges(m, x, y, swap)
    BY SwapIsExchange
  <1>3. /\ DOMAIN SlotsBelow(m) = D /\ IsKids(SlotsBelow(m)) /\ IsKids(SlotsBelow(n))
        /\ DOMAIN SlotsBelow(n) = D
    BY <1>1, SlotBelow DEF Wooded
  <1>4. /\ x.base \in D /\ y.base \in D /\ x.term \in Seq(D) /\ y.term \in Seq(D)
    BY SwappablePairs
  <1>5. B = {x.base, y.base} \cup ToSet(x.term) \cup ToSet(y.term)
    <2>1. ToSet(Boundary(x)) = {x.base} \cup ToSet(x.term)
      BY <1>4, BoundaryParts
    <2>2. ToSet(Boundary(y)) = {y.base} \cup ToSet(y.term)
      BY <1>4, BoundaryParts
    <2>3. QED
      BY <2>1, <2>2
  <1>6. L \subseteq D
    BY LiveParts
  <1>7. /\ \A s \in D : swap[s] \in D /\ swap[swap[s]] = s /\ n.at[s] = m.at[swap[s]]
        /\ \A s \in L : swap[s] \in L
    <2>1. /\ swap \in [D -> D] /\ \A s \in D : swap[swap[s]] = s
          /\ \A s \in D : s \notin B => swap[s] = s
          /\ \A s \in B : swap[s] \in B
      <3>1. Exchange(SlotsBelow(m), swap, {x.base, y.base}, ToSet(x.term) \cup ToSet(y.term))
        BY <1>2 DEF Exchanges
      <3>2. QED
        BY <3>1, <1>3, <1>5 DEF Exchange
    <2>2. \A s \in D : n.at[s] = m.at[swap[s]]
      <3>1. n = [m EXCEPT !.at = [s \in D |-> m.at[swap[s]]]] /\ DOMAIN m = {"label", "slots", "at", "type", "freed"}
        BY <1>2 DEF Exchanges, Wooded, SlotsPlaced
      <3>2. QED
        BY <3>1
    <2>3. QED
      BY <2>1, <2>2, <1>6
  <1>8. Live(n) = L
    <2> DEFINE A == {<<0, t>> : t \in DOMAIN m.type}
    <2>1. A \in SUBSET D
      BY LiveParts
    <2>2. {x.base, y.base} \subseteq L
      BY <1>5
    <2>3. L = Reach(SlotsBelow(m), A) /\ Live(n) = Reach(SlotsBelow(n), A)
      BY <1>1 DEF Live
    <2> HIDE DEF A, L
    <2>4. QED
      BY <1>1, <2>1, <2>2, <2>3
  <1> HIDE DEF L
  <1>9. PointedTo(n, L) = PointedTo(m, L)
    <2>1. \A k : k \in PointedTo(n, L) => k \in PointedTo(m, L)
      BY <1>6, <1>7 DEF PointedTo
    <2>2. ASSUME NEW s \in L PROVE m.at[s] \in PointedTo(n, L)
      <3>1. swap[s] \in L /\ n.at[swap[s]] = m.at[s]
        BY <1>6, <1>7
      <3>2. QED
        BY <3>1 DEF PointedTo
    <2>3. \A k : k \in PointedTo(m, L) => k \in PointedTo(n, L)
      BY <2>2 DEF PointedTo
    <2>4. QED
      BY <2>1, <2>3
  <1>10. \A s \in D : s \notin B => SlotsBelow(n)[s] = SlotsBelow(m)[s]
    BY <1>1 DEF SlotsBelow
  <1>11. Clear(SlotsBelow(n), B) = Clear(SlotsBelow(m), B)
    BY <1>3, <1>10, ClearKept
  <1>12. Disturbs(n, B) = Disturbs(m, B)
    <2>1. Disturbs(n, B) = NotAllIn(n, Live(n), Clear(SlotsBelow(n), B))
      BY <1>1, DisturbedBySlots
    <2>2. Disturbs(m, B) = NotAllIn(m, Live(m), Clear(SlotsBelow(m), B))
      BY DisturbedBySlots
    <2>3. QED
      BY <2>1, <2>2, <1>1, <1>8, <1>9, <1>11 DEF L, NotAllIn
  <1>13. QED
    BY <1>8, <1>9, <1>11, <1>12 DEF L

-----------------------------------------------------------------------------
(* Recursion downwards. *)

\* What is below never comes round.
Grounded(kids) == \A X \in SUBSET DOMAIN kids : X # {} => \E q \in X : kids[q] \cap X = {}

\* Function f has, for each element of P, what step makes of the values below.
Recursive(kids, step, P, f) ==
  \A p \in P : f[p] = step[p][[k \in kids[p] |-> f[k]]]

PartlyDone(kids, V, step, P, f) ==
  /\ P \in SUBSET DOMAIN kids /\ Closed(kids, P) /\ f \in [P -> V] /\ Recursive(kids, step, P, f)

LEMMA PartsAgree ==
  ASSUME NEW kids, IsKids(kids), Grounded(kids), NEW V, NEW step,
         NEW P, NEW f, PartlyDone(kids, V, step, P, f), NEW Q, NEW g, PartlyDone(kids, V, step, Q, g)
  PROVE  \A p \in P \cap Q : f[p] = g[p]
  <1> DEFINE X == {p \in P \cap Q : f[p] # g[p]}
  <1>1. SUFFICES ASSUME X # {} PROVE FALSE
    OBVIOUS
  <1>2. X \in SUBSET DOMAIN kids
    BY DEF PartlyDone
  <1>3. PICK q \in X : kids[q] \cap X = {}
    BY <1>1, <1>2 DEF Grounded
  <1>4. q \in P /\ q \in Q /\ f[q] # g[q]
    BY <1>3
  <1>5. kids[q] \subseteq P /\ kids[q] \subseteq Q
    BY <1>4 DEF PartlyDone, Closed
  <1>6. \A k \in kids[q] : f[k] = g[k]
    BY <1>3, <1>5
  <1>7. [k \in kids[q] |-> f[k]] = [k \in kids[q] |-> g[k]]
    BY <1>6
  <1>8. f[q] = step[q][[k \in kids[q] |-> f[k]]] /\ g[q] = step[q][[k \in kids[q] |-> g[k]]]
    BY <1>4 DEF PartlyDone, Recursive
  <1>9. QED
    BY <1>4, <1>7, <1>8

LEMMA RecursionExists ==
  ASSUME NEW kids, IsKids(kids), Grounded(kids), NEW V, NEW step,
         \A p \in DOMAIN kids : step[p] \in [[kids[p] -> V] -> V]
  PROVE  \E f \in [DOMAIN kids -> V] : Recursive(kids, step, DOMAIN kids, f)
  <1> DEFINE D == DOMAIN kids
             Done(p, v) == \E P, f : PartlyDone(kids, V, step, P, f) /\ p \in P /\ v = f[p]
             W == {p \in D : \E v : Done(p, v)}
             F == [p \in W |-> CHOOSE v : Done(p, v)]
  <1>1. ASSUME NEW P, NEW f, PartlyDone(kids, V, step, P, f) PROVE P \subseteq W /\ \A p \in P : F[p] = f[p]
    <2>1. \A p \in P : Done(p, f[p])
      BY <1>1
    <2>2. \A p \in P : \A v : Done(p, v) => v = f[p]
      <3>1. TAKE p \in P
      <3>2. TAKE v
      <3>3. HAVE Done(p, v)
      <3>4. PICK Q, g : PartlyDone(kids, V, step, Q, g) /\ p \in Q /\ v = g[p]
        BY <3>3
      <3>5. QED
        BY <1>1, <3>4, PartsAgree
    <2>3. P \subseteq D
      BY <1>1 DEF PartlyDone
    <2> HIDE DEF Done
    <2>4. P \subseteq W
      BY <2>1, <2>3
    <2>5. ASSUME NEW p \in P PROVE F[p] = f[p]
      <3>1. Done(p, CHOOSE v : Done(p, v))
        BY <2>1
      <3>2. F[p] = CHOOSE v : Done(p, v)
        BY <2>4
      <3>3. QED
        BY <2>2, <3>1, <3>2
    <2>6. QED
      BY <2>4, <2>5
  <1>2. \A p \in W : \E P, f : PartlyDone(kids, V, step, P, f) /\ p \in P
    OBVIOUS
  <1> HIDE DEF F
  <1>3. W \in SUBSET D /\ F = [p \in W |-> F[p]]
    BY DEF F
  <1> HIDE DEF W
  <1>4. ASSUME NEW p \in W
        PROVE  kids[p] \subseteq W /\ F[p] \in V /\ F[p] = step[p][[k \in kids[p] |-> F[k]]]
    <2>1. PICK P, f : PartlyDone(kids, V, step, P, f) /\ p \in P
      BY <1>2
    <2>2. P \subseteq W /\ \A q \in P : F[q] = f[q]
      BY <1>1, <2>1
    <2>3. kids[p] \subseteq P /\ f[p] \in V /\ f[p] = step[p][[k \in kids[p] |-> f[k]]]
      BY <2>1 DEF PartlyDone, Closed, Recursive
    <2>4. [k \in kids[p] |-> f[k]] = [k \in kids[p] |-> F[k]]
      BY <2>2, <2>3
    <2>5. QED
      BY <2>1, <2>2, <2>3, <2>4
  <1>5. W = D
    <2>1. SUFFICES ASSUME D \ W # {} PROVE FALSE
      BY <1>3
    <2>2. PICK q \in D \ W : kids[q] \cap (D \ W) = {}
      BY <2>1 DEF Grounded
    <2>3. kids[q] \subseteq W
      BY <2>2 DEF IsKids
    <2>4. PICK h : h = [k \in kids[q] |-> F[k]]
      OBVIOUS
    <2>5. h \in [kids[q] -> V]
      BY <1>4, <2>3, <2>4
    <2>6. PICK v : v = step[q][h]
      OBVIOUS
    <2>7. v \in V
      BY <2>5, <2>6
    <2>8. PICK P : P = W \cup {q}
      OBVIOUS
    <2>9. PICK g : g = [p \in P |-> IF p = q THEN v ELSE F[p]]
      OBVIOUS
    <2>10. g \in [P -> V] /\ g[q] = v /\ \A p \in W : g[p] = F[p]
      BY <1>4, <2>2, <2>7, <2>8, <2>9
    <2>11. \A p \in P : kids[p] \subseteq W
      BY <1>4, <2>3, <2>8
    <2>12. \A p \in P : [k \in kids[p] |-> g[k]] = [k \in kids[p] |-> F[k]]
      BY <2>10, <2>11
    <2>13. Recursive(kids, step, P, g)
      <3>1. SUFFICES ASSUME NEW p \in P PROVE g[p] = step[p][[k \in kids[p] |-> g[k]]]
        BY DEF Recursive
      <3>2. CASE p = q
        BY <3>2, <2>4, <2>6, <2>10, <2>12
      <3>3. CASE p \in W
        BY <3>3, <1>4, <2>10, <2>12
      <3>4. QED
        BY <3>2, <3>3, <2>8
    <2>14. PartlyDone(kids, V, step, P, g)
      BY <1>3, <2>2, <2>8, <2>10, <2>11, <2>13 DEF PartlyDone, Closed
    <2>15. q \in W
      BY <1>1, <2>8, <2>14
    <2>16. QED
      BY <2>2, <2>15
  <1>6. F \in [D -> V] /\ Recursive(kids, step, D, F)
    BY <1>3, <1>4, <1>5 DEF Recursive
  <1>7. QED
    BY <1>6

=============================================================================
