------------------------ MODULE AndRuleEngine_proofs -------------------------
(***************************************************************************)
(* Proofs, for any number of agents and decisions and any trees of choices *)
(* whatever their size, that Compare() finds a match if there is one: that *)
(* iterators stay valid, and that a conjecture takes every combination of  *)
(* choices once and in order.                                              *)
(***************************************************************************)
EXTENDS AndRuleEngine, WellFoundedInduction, TLAPS

-----------------------------------------------------------------------------
(* Numbers and sequences.                                                  *)

LEMMA Least ==
    ASSUME NEW T, T \subseteq Nat, T # {}
    PROVE  \E m \in T : \A k \in T : m <= k
  <1>1. PICK x \in T : \A y \in T : ~ (<<y, x>> \in OpToRel(<, Nat))
    BY WFMin, NatLessThanWellFounded
  <1>2. \A y \in T : ~ (y < x)
    BY <1>1 DEF OpToRel
  <1>3. QED
    BY <1>2

(* A set of numbers up to n has a greatest one. *)
LEMMA Greatest ==
    ASSUME NEW n \in Nat, NEW T, T \subseteq 1..n, T # {}
    PROVE  Max(T) \in T /\ \A k \in T : k <= Max(T)
  <1> DEFINE U == {n - k : k \in T}
  <1>1. U \subseteq Nat /\ U # {}
    <2>1. \A k \in T : n - k \in Nat
      OBVIOUS
    <2>2. \A u \in U : u \in Nat
      BY <2>1
    <2>3. PICK k \in T : TRUE
      OBVIOUS
    <2>4. n - k \in U
      BY <2>3
    <2>5. QED
      BY <2>2, <2>4
  <1> HIDE DEF U
  <1>2. PICK m \in U : \A k \in U : m <= k
    BY <1>1, Least
  <1>3. PICK g \in T : m = n - g
    BY <1>2 DEF U
  <1>4. \A k \in T : n - k \in U
    BY DEF U
  <1>5. \A k \in T : g >= k
    BY <1>2, <1>3, <1>4
  <1>6. Max(T) \in T /\ \A k \in T : Max(T) >= k
    BY <1>5 DEF Max
  <1>7. QED
    BY <1>6

LEMMA Prefix ==
    ASSUME NEW s \in Seq(Nat), NEW k \in 0..Len(s)
    PROVE  /\ SubSeq(s, 1, k) \in Seq(Nat)
           /\ Len(SubSeq(s, 1, k)) = k
           /\ \A i \in 1..k : SubSeq(s, 1, k)[i] = s[i]
  OBVIOUS

LEMMA SameSequence ==
    ASSUME NEW s \in Seq(Nat), NEW t \in Seq(Nat), Len(s) = Len(t),
           \A i \in 1..Len(s) : s[i] = t[i]
    PROVE  s = t
  OBVIOUS

LEMMA SamePrefix ==
    ASSUME NEW s \in Seq(Nat), NEW t \in Seq(Nat), NEW k \in Nat, k <= Len(s), k <= Len(t),
           \A i \in 1..k : s[i] = t[i]
    PROVE  SubSeq(s, 1, k) = SubSeq(t, 1, k)
  <1>1. k \in 0..Len(s) /\ k \in 0..Len(t)
    OBVIOUS
  <1> DEFINE u == SubSeq(s, 1, k)
             v == SubSeq(t, 1, k)
  <1>2. u \in Seq(Nat) /\ v \in Seq(Nat) /\ Len(u) = k /\ Len(v) = k
    BY <1>1, Prefix
  <1>3. \A i \in 1..k : u[i] = v[i]
    BY <1>1, Prefix
  <1> HIDE DEF u, v
  <1>4. u = v
    BY <1>2, <1>3, SameSequence
  <1>5. QED
    BY <1>4 DEF u, v

LEMMA WholePrefix ==
    ASSUME NEW s \in Seq(Nat)
    PROVE  SubSeq(s, 1, Len(s)) = s
  OBVIOUS

-----------------------------------------------------------------------------
(* Ranges and trees of choices.                                            *)

LEMMA RangeFacts ==
    ASSUME NEW r \in Ranges
    PROVE  /\ r.kind = "range" /\ r.size \in Nat /\ r.inclusive \in BOOLEAN
           /\ \A c \in ChoicesOf(r) : c \in Nat /\ \A d \in 0..c : d \in ChoicesOf(r)
           /\ ChoicesOf(r) # {} => 0 \in ChoicesOf(r)
           /\ r # Hit /\ r # Mismatch
  BY DEF Ranges, ChoicesOf, Hit, Mismatch

(* The last choice is the one that cannot be stepped on. *)
LEMMA LastChoice ==
    ASSUME NEW r \in Ranges, NEW c \in ChoicesOf(r)
    PROVE  /\ c + 1 \in ChoicesOf(r) <=> c # r.size /\ (r.inclusive \/ c + 1 # r.size)
           /\ c + 1 \notin ChoicesOf(r) => \A d \in ChoicesOf(r) : d <= c
  BY DEF Ranges, ChoicesOf

LEMMA KindFacts ==
    /\ Hit.kind # "range" /\ Mismatch.kind # "range" /\ Hit # Mismatch
    /\ EmptyRange \in Ranges /\ EmptyRange.size = 0 /\ EmptyRange.inclusive = FALSE
    /\ Begin \in [mode : {"BEGIN", "ITER"}, iter : Nat] /\ At(Begin) = 0
    /\ \A i \in Nat : /\ Iter(i) \in [mode : {"BEGIN", "ITER"}, iter : Nat]
                      /\ At(Iter(i)) = i
  BY DEF Hit, Mismatch, EmptyRange, DecisionRange, Ranges, Begin, Iter, At

LEMMA TreeNode ==
    ASSUME NEW tree, NEW a \in Agents, IsChoiceTree(tree, a), NEW p \in DOMAIN tree
    PROVE  /\ p \in Seq(Nat)
           /\ tree[p].kind = "range" =>
                  /\ tree[p] \in Ranges /\ Len(p) < NumDecisions[a]
                  /\ 0 \in ChoicesOf(tree[p])
                  /\ \A c \in ChoicesOf(tree[p]) : Append(p, c) \in DOMAIN tree
           /\ tree[p].kind # "range" => tree[p] = Hit \/ tree[p] = Mismatch
  <1>1. p \in Seq(Nat)
    BY DEF IsChoiceTree
  <1>2. CASE tree[p] = Hit \/ tree[p] = Mismatch
    BY <1>1, <1>2, KindFacts
  <1>3. CASE ~ (tree[p] = Hit \/ tree[p] = Mismatch)
    <2>1. /\ tree[p] \in Ranges /\ Len(p) < NumDecisions[a] /\ ChoicesOf(tree[p]) # {}
          /\ \A c \in ChoicesOf(tree[p]) : Append(p, c) \in DOMAIN tree
      BY <1>3 DEF IsChoiceTree
    <2>2. QED
      BY <1>1, <2>1, RangeFacts
  <1>4. QED
    BY <1>2, <1>3

(* A leaf that agrees with another one as far as the choices of the latter *)
(* can be stepped on comes before it.                                      *)
LEMMA LeavesApart ==
    ASSUME NEW tree, NEW a \in Agents, IsChoiceTree(tree, a),
           NEW p \in DOMAIN tree, NEW q \in DOMAIN tree, p # q,
           tree[p].kind # "range", tree[q].kind # "range",
           Reachable(tree, p), Reachable(tree, q),
           NEW b \in Nat, \A i \in 1..Len(q) : i <= Len(p) /\ i <= b => p[i] = q[i],
           \A i \in 1..Len(q) : i > b => q[i] + 1 \notin ChoicesOf(tree[SubSeq(q, 1, i - 1)])
    PROVE  Before(p, q)
  <1>1. p \in Seq(Nat) /\ q \in Seq(Nat)
    BY TreeNode
  <1> DEFINE T == {i \in 1..Len(q) : i <= Len(p) /\ p[i] # q[i]}
  <1>2. ASSUME T = {} PROVE FALSE
    <2>1. \A i \in 1..Len(q) : i <= Len(p) => p[i] = q[i]
      BY <1>2
    <2>2. CASE Len(p) = Len(q)
      BY <1>1, <2>1, <2>2, SameSequence
    <2>3. CASE Len(p) < Len(q)
      <3>1. SubSeq(q, 1, Len(p)) = SubSeq(p, 1, Len(p))
        BY <1>1, <2>1, <2>3, SamePrefix
      <3>2. SubSeq(q, 1, Len(p)) = p
        BY <1>1, <3>1, WholePrefix
      <3>3. Len(p) + 1 \in 1..Len(q) /\ (Len(p) + 1) - 1 = Len(p)
        BY <1>1, <2>3
      <3>4. tree[SubSeq(q, 1, Len(p))].kind = "range"
        BY <3>3 DEF Reachable
      <3>5. QED
        BY <3>2, <3>4
    <2>4. CASE Len(q) < Len(p)
      <3>1. SubSeq(p, 1, Len(q)) = SubSeq(q, 1, Len(q))
        BY <1>1, <2>1, <2>4, SamePrefix
      <3>2. SubSeq(p, 1, Len(q)) = q
        BY <1>1, <3>1, WholePrefix
      <3>3. Len(q) + 1 \in 1..Len(p) /\ (Len(q) + 1) - 1 = Len(q)
        BY <1>1, <2>4
      <3>4. tree[SubSeq(p, 1, Len(q))].kind = "range"
        BY <3>3 DEF Reachable
      <3>5. QED
        BY <3>2, <3>4
    <2>5. QED
      BY <1>1, <2>2, <2>3, <2>4
  <1>3. T \subseteq Nat
    OBVIOUS
  <1>4. PICK m \in T : \A k \in T : m <= k
    BY <1>2, <1>3, Least
  <1>5. m \in 1..Len(q) /\ m <= Len(p) /\ p[m] # q[m]
    BY <1>4
  <1>6. \A j \in 1..(m - 1) : p[j] = q[j]
    <2> SUFFICES ASSUME NEW j \in 1..(m - 1) PROVE p[j] = q[j]
      OBVIOUS
    <2>1. j \in 1..Len(q) /\ j <= Len(p) /\ ~ (m <= j)
      BY <1>1, <1>5
    <2>2. j \notin T
      BY <1>4, <2>1
    <2>3. QED
      BY <2>1, <2>2
  <1> HIDE DEF T
  <1>7. m > b
    <2>1. ~ (m <= b)
      BY <1>5
    <2>2. QED
      BY <1>1, <1>5, <2>1
  <1>8. m - 1 \in Nat /\ m - 1 <= Len(p) /\ m - 1 <= Len(q)
    BY <1>1, <1>5
  <1>9. SubSeq(p, 1, m - 1) = SubSeq(q, 1, m - 1)
    BY <1>1, <1>6, <1>8, SamePrefix
  <1> DEFINE o == SubSeq(q, 1, m - 1)
  <1>10. o \in DOMAIN tree /\ tree[o].kind = "range" /\ q[m] \in ChoicesOf(tree[o])
    BY <1>5 DEF Reachable
  <1>11. p[m] \in ChoicesOf(tree[o])
    <2>1. m \in 1..Len(p)
      BY <1>1, <1>5
    <2>2. p[m] \in ChoicesOf(tree[SubSeq(p, 1, m - 1)])
      BY <2>1 DEF Reachable
    <2>3. QED
      BY <2>2, <1>9
  <1>12. q[m] + 1 \notin ChoicesOf(tree[o])
    BY <1>5, <1>7
  <1> HIDE DEF o
  <1>13. tree[o] \in Ranges
    BY <1>10, TreeNode
  <1>14. p[m] <= q[m]
    BY <1>10, <1>11, <1>12, <1>13, LastChoice
  <1>15. p[m] \in Nat /\ q[m] \in Nat
    BY <1>10, <1>11, <1>13, RangeFacts
  <1>16. p[m] < q[m]
    BY <1>5, <1>14, <1>15
  <1>17. QED
    BY <1>5, <1>6, <1>16 DEF Before


-----------------------------------------------------------------------------
(* Following choices down a tree.                                          *)

LEMMA FollowsLeads ==
    ASSUME NEW tree, NEW a \in Agents, IsChoiceTree(tree, a), NEW ranges,
           NEW s \in Seq(Nat), NEW k \in 0..Len(s), Follows(tree, ranges, s, k)
    PROVE  /\ SubSeq(s, 1, k) \in DOMAIN tree
           /\ Reachable(tree, SubSeq(s, 1, k))
           /\ \A i \in 1..k : /\ SubSeq(s, 1, i - 1) = SubSeq(SubSeq(s, 1, k), 1, i - 1)
                              /\ tree[SubSeq(s, 1, i - 1)] \in Ranges
  <1> DEFINE p == SubSeq(s, 1, k)
  <1>1. p \in Seq(Nat) /\ Len(p) = k /\ \A i \in 1..k : p[i] = s[i]
    BY Prefix
  <1> HIDE DEF p
  <1>2. ASSUME NEW i \in 1..k
        PROVE  /\ SubSeq(s, 1, i - 1) = SubSeq(p, 1, i - 1)
               /\ SubSeq(p, 1, i - 1) \in DOMAIN tree
               /\ tree[SubSeq(p, 1, i - 1)].kind = "range"
               /\ p[i] \in ChoicesOf(tree[SubSeq(p, 1, i - 1)])
               /\ tree[SubSeq(s, 1, i - 1)] \in Ranges
    <2>1. i - 1 \in Nat /\ i - 1 <= Len(s) /\ i - 1 <= Len(p)
      BY <1>1
    <2>2. \A j \in 1..(i - 1) : s[j] = p[j]
      BY <1>1
    <2>3. SubSeq(s, 1, i - 1) = SubSeq(p, 1, i - 1)
      BY <1>1, <2>1, <2>2, SamePrefix
    <2>4. /\ SubSeq(s, 1, i - 1) \in DOMAIN tree /\ tree[SubSeq(s, 1, i - 1)].kind = "range"
          /\ s[i] \in ChoicesOf(tree[SubSeq(s, 1, i - 1)])
      BY DEF Follows
    <2>5. p[i] = s[i]
      BY <1>1
    <2>6. tree[SubSeq(s, 1, i - 1)] \in Ranges
      BY <2>4, TreeNode
    <2>7. QED
      BY <2>3, <2>4, <2>5, <2>6
  <1>3. Reachable(tree, p)
    BY <1>1, <1>2 DEF Reachable
  <1>4. CASE k = 0
    <2>1. p = <<>>
      BY <1>1, <1>4
    <2>2. QED
      BY <1>2, <1>3, <2>1 DEF IsChoiceTree, p
  <1>5. CASE k # 0
    <2> DEFINE o == SubSeq(p, 1, k - 1)
    <2>1. k \in 1..k /\ k - 1 \in 0..Len(p)
      BY <1>1, <1>5
    <2>2. o \in DOMAIN tree /\ tree[o].kind = "range" /\ p[k] \in ChoicesOf(tree[o])
      BY <1>2, <2>1
    <2>3. o \in Seq(Nat) /\ Len(o) = k - 1 /\ \A i \in 1..(k - 1) : o[i] = p[i]
      BY <1>1, <2>1, Prefix
    <2> HIDE DEF o
    <2>4. Append(o, p[k]) \in DOMAIN tree
      BY <2>2, TreeNode
    <2>5. p[k] \in Nat
      BY <1>1, <2>1
    <2>6. Append(o, p[k]) = p
      <3>1. Append(o, p[k]) \in Seq(Nat) /\ Len(Append(o, p[k])) = k
        BY <2>3, <2>5, <1>5
      <3>2. \A i \in 1..k : Append(o, p[k])[i] = p[i]
        BY <2>3, <1>5
      <3>3. QED
        BY <1>1, <3>1, <3>2, SameSequence
    <2>7. QED
      BY <1>2, <1>3, <2>4, <2>6 DEF p
  <1>6. QED
    BY <1>4, <1>5

LEMMA FollowsSame ==
    ASSUME NEW tree, NEW d, NEW e, NEW s \in Seq(Nat), NEW t \in Seq(Nat),
           NEW k \in 0..Len(s), k <= Len(t), Follows(tree, d, s, k),
           \A i \in 1..k : d[i] = e[i], \A i \in 1..k : s[i] = t[i]
    PROVE  Follows(tree, e, t, k)
  <1> SUFFICES ASSUME NEW i \in 1..k
               PROVE  /\ SubSeq(t, 1, i - 1) \in DOMAIN tree
                      /\ tree[SubSeq(t, 1, i - 1)].kind = "range"
                      /\ e[i] = tree[SubSeq(t, 1, i - 1)]
                      /\ t[i] \in ChoicesOf(tree[SubSeq(t, 1, i - 1)])
    BY DEF Follows
  <1>1. i - 1 \in Nat /\ i - 1 <= Len(s) /\ i - 1 <= Len(t)
    OBVIOUS
  <1>2. \A j \in 1..(i - 1) : s[j] = t[j]
    OBVIOUS
  <1>3. SubSeq(s, 1, i - 1) = SubSeq(t, 1, i - 1)
    BY <1>1, <1>2, SamePrefix
  <1>4. d[i] = e[i] /\ s[i] = t[i]
    OBVIOUS
  <1>5. QED
    BY <1>3, <1>4 DEF Follows

LEMMA FollowsLess ==
    ASSUME NEW tree, NEW d, NEW s, NEW k \in Nat, NEW l \in 0..k, Follows(tree, d, s, k)
    PROVE  Follows(tree, d, s, l)
  <1>1. \A i \in 1..l : i \in 1..k
    OBVIOUS
  <1>2. QED
    BY <1>1 DEF Follows

-----------------------------------------------------------------------------
(* The order of paths.                                                     *)

LEMMA NothingBeforeZeros ==
    ASSUME NEW p \in Seq(Nat), NEW s, \A i \in 1..Len(s) : s[i] = 0
    PROVE  ~ Before(p, s)
  BY DEF Before

LEMMA BeforePath ==
    ASSUME NEW p \in Seq(Nat), NEW s \in Seq(Nat), NEW m \in 0..Len(s),
           \A i \in 1..Len(s) : i > m => s[i] = 0
    PROVE  Before(p, s) <=> Before(p, SubSeq(s, 1, m))
  <1> DEFINE q == SubSeq(s, 1, m)
  <1>1. q \in Seq(Nat) /\ Len(q) = m /\ \A i \in 1..m : q[i] = s[i]
    BY Prefix
  <1> HIDE DEF q
  <1>2. ASSUME Before(p, s) PROVE Before(p, q)
    <2>1. PICK i \in 1..Len(s) : i <= Len(p) /\ p[i] < s[i] /\ \A j \in 1..(i - 1) : p[j] = s[j]
      BY <1>2 DEF Before
    <2>2. i \in 1..Len(p)
      BY <2>1
    <2>3. p[i] \in Nat
      BY <2>2
    <2>8. s[i] # 0
      <3>1. p[i] < s[i]
        BY <2>1
      <3>2. ~ (p[i] < 0)
        BY <2>3
      <3>3. QED
        BY <3>1, <3>2
    <2>4. i \in 1..m
      <3>1. ~ (i > m)
        BY <2>8
      <3>2. QED
        BY <3>1
    <2>5. \A j \in 1..(i - 1) : p[j] = q[j]
      <3>1. \A j \in 1..(i - 1) : j \in 1..m
        BY <2>4
      <3>2. QED
        BY <1>1, <2>1, <3>1
    <2>6. QED
      BY <1>1, <2>1, <2>4, <2>5 DEF Before
  <1>3. ASSUME Before(p, q) PROVE Before(p, s)
    <2>1. PICK i \in 1..Len(q) : i <= Len(p) /\ p[i] < q[i] /\ \A j \in 1..(i - 1) : p[j] = q[j]
      BY <1>3 DEF Before
    <2>2. i \in 1..Len(s) /\ q[i] = s[i]
      BY <1>1, <2>1
    <2>3. \A j \in 1..(i - 1) : p[j] = s[j]
      BY <1>1, <2>1
    <2>4. QED
      BY <2>1, <2>2, <2>3 DEF Before
  <1>4. QED
    BY <1>2, <1>3 DEF q

(* t is s with choice b stepped on and what follows invalidated. *)
StepsOn(s, t, b) ==
    /\ b \in 1..Len(s) /\ Len(t) = Len(s)
    /\ \A i \in 1..Len(s) : i < b => t[i] = s[i]
    /\ t[b] = s[b] + 1
    /\ \A i \in 1..Len(s) : i > b => t[i] = 0

LEMMA StepsOver ==
    ASSUME NEW p \in Seq(Nat), NEW s \in Seq(Nat), NEW t \in Seq(Nat), NEW b, StepsOn(s, t, b)
    PROVE  /\ Before(p, s) => Before(p, t)
           /\ b <= Len(p) /\ (\A i \in 1..b : p[i] = s[i]) => Before(p, t)
           /\ Before(p, t) => Before(p, s) \/ (b <= Len(p) /\ \A i \in 1..b : p[i] = s[i])
  <1>0. b \in 1..Len(s) /\ s[b] \in Nat
    BY DEF StepsOn
  <1>1. ASSUME Before(p, s) PROVE Before(p, t)
    <2>1. PICK i \in 1..Len(s) : i <= Len(p) /\ p[i] < s[i] /\ \A j \in 1..(i - 1) : p[j] = s[j]
      BY <1>1 DEF Before
    <2>2. p[i] \in Nat /\ s[i] \in Nat
      BY <2>1
    <2>3. CASE i < b
      <3>1. p[i] < t[i] /\ i \in 1..Len(t)
        BY <2>1, <2>3 DEF StepsOn
      <3>2. \A j \in 1..(i - 1) : p[j] = t[j]
        BY <1>0, <2>1, <2>3 DEF StepsOn
      <3>3. QED
        BY <2>1, <3>1, <3>2 DEF Before
    <2>4. CASE i = b
      <3>1. p[i] < t[i] /\ i \in 1..Len(t)
        BY <2>1, <2>2, <2>4 DEF StepsOn
      <3>2. \A j \in 1..(i - 1) : p[j] = t[j]
        BY <1>0, <2>1, <2>4 DEF StepsOn
      <3>3. QED
        BY <2>1, <3>1, <3>2 DEF Before
    <2>5. CASE i > b
      <3>1. b \in 1..(i - 1) /\ b <= Len(p)
        BY <1>0, <2>1, <2>5
      <3>2. p[b] = s[b]
        BY <2>1, <3>1
      <3>3. p[b] < t[b] /\ b \in 1..Len(t)
        BY <1>0, <3>2 DEF StepsOn
      <3>4. \A j \in 1..(b - 1) : p[j] = t[j]
        BY <1>0, <2>1, <2>5 DEF StepsOn
      <3>5. QED
        BY <3>1, <3>3, <3>4 DEF Before
    <2>6. QED
      BY <1>0, <2>3, <2>4, <2>5
  <1>2. ASSUME b <= Len(p), \A i \in 1..b : p[i] = s[i] PROVE Before(p, t)
    <2>1. p[b] < t[b] /\ b \in 1..Len(t)
      BY <1>0, <1>2 DEF StepsOn
    <2>2. \A j \in 1..(b - 1) : p[j] = t[j]
      BY <1>0, <1>2 DEF StepsOn
    <2>3. QED
      BY <1>2, <2>1, <2>2 DEF Before
  <1>3. ASSUME Before(p, t) PROVE Before(p, s) \/ (b <= Len(p) /\ \A i \in 1..b : p[i] = s[i])
    <2>1. PICK i \in 1..Len(t) : i <= Len(p) /\ p[i] < t[i] /\ \A j \in 1..(i - 1) : p[j] = t[j]
      BY <1>3 DEF Before
    <2>2. p[i] \in Nat /\ i \in 1..Len(s)
      <3>1. i \in 1..Len(p) /\ Len(t) = Len(s)
        BY <2>1 DEF StepsOn
      <3>2. QED
        BY <3>1
    <2>3. i <= b
      <3>0. t[i] # 0
        BY <2>1, <2>2
      <3>1. ~ (i > b)
        BY <2>2, <3>0 DEF StepsOn
      <3>2. QED
        BY <1>0, <3>1
    <2>4. \A j \in 1..(i - 1) : p[j] = s[j]
      BY <1>0, <2>1, <2>2, <2>3 DEF StepsOn
    <2>5. CASE i < b
      <3>1. p[i] < s[i]
        BY <2>1, <2>2, <2>5 DEF StepsOn
      <3>2. QED
        BY <2>1, <2>2, <2>4, <3>1 DEF Before
    <2>6. CASE i = b /\ p[i] < s[i]
      BY <2>1, <2>2, <2>4, <2>6 DEF Before
    <2>7. CASE i = b /\ ~ (p[i] < s[i])
      <3>1. p[b] = s[b]
        BY <1>0, <2>1, <2>2, <2>7 DEF StepsOn
      <3>2. \A j \in 1..b : p[j] = s[j]
        BY <1>0, <2>4, <2>7, <3>1
      <3>3. QED
        BY <2>1, <2>7, <3>2
    <2>8. QED
      BY <1>0, <2>3, <2>5, <2>6, <2>7
  <1>4. QED
    BY <1>1, <1>2, <1>3


-----------------------------------------------------------------------------
(* What the invariant says of a call that is regenerating.                 *)

Choice == [mode : {"BEGIN", "ITER"}, iter : Nat]

LEMMA ChoiceFacts ==
    ASSUME NEW c \in Choice
    PROVE  At(c) \in Nat /\ (c = Begin => At(c) = 0)
  BY DEF Choice, At, Begin

LEMMA CallFacts ==
    ASSUME RegenerationInvariant, Regenerating
    PROVE  /\ world \in Worlds /\ goal = world.goal /\ basic \in goal \ reported
           /\ agent \in Agents /\ NumDecisions[agent] \in Nat
           /\ \A a \in Agents : IsChoiceTree(world.ask[basic][a], a)
           /\ IsChoiceTree(Tree, agent)
  <1>1. pc # "idle" /\ pc \notin {"idle", "matched", "mismatched"}
    BY DEF Regenerating
  <1>2. world \in Worlds /\ goal = world.goal
    BY <1>1 DEF RegenerationInvariant, SolverInStep
  <1>3. basic \in goal \ reported
    BY DEF RegenerationInvariant, TriedSoFar
  <1>4. agent \in Agents
    BY DEF RegenerationInvariant, TypeOK
  <1>5. \A a \in Agents : IsChoiceTree(world.ask[basic][a], a)
    BY <1>2, <1>3, WorldsAssumption
  <1>6. NumDecisions[agent] \in Nat
    BY <1>4, WorldsAssumption
  <1>7. QED
    BY <1>2, <1>3, <1>4, <1>5, <1>6 DEF Tree

LEMMA PositionFacts ==
    ASSUME TypeOK
    PROVE  /\ NumDecisions[agent] \in Nat
           /\ Position \in Seq(Nat) /\ Len(Position) = NumDecisions[agent]
           /\ \A i \in 1..NumDecisions[agent] :
                  /\ choices[agent][i] \in Choice
                  /\ Position[i] = At(choices[agent][i]) /\ Position[i] \in Nat
                  /\ choices[agent][i] = Begin => Position[i] = 0
  <1>1. NumDecisions[agent] \in Nat
    BY WorldsAssumption DEF TypeOK
  <1>2. choices[agent] \in [1..NumDecisions[agent] -> Choice]
    BY DEF TypeOK, Choice
  <1>3. \A i \in 1..NumDecisions[agent] :
            /\ choices[agent][i] \in Choice /\ At(choices[agent][i]) \in Nat
            /\ choices[agent][i] = Begin => At(choices[agent][i]) = 0
    BY <1>2, ChoiceFacts
  <1>4. Position \in [1..NumDecisions[agent] -> Nat]
    BY <1>3 DEF Position
  <1>5. Position \in Seq(Nat) /\ Len(Position) = NumDecisions[agent]
    BY <1>1, <1>4
  <1>6. QED
    BY <1>1, <1>3, <1>5 DEF Position

LEMMA StartFacts ==
    ASSUME NEW a \in Agents
    PROVE  /\ NumDecisions[a] \in Nat
           /\ AllBegin(a) \in [1..NumDecisions[a] -> Choice]
           /\ AllEmpty(a) \in [1..NumDecisions[a] -> Ranges]
           /\ \A i \in 1..NumDecisions[a] : AllBegin(a)[i] = Begin
  <1>1. Begin \in Choice /\ EmptyRange \in Ranges
    BY KindFacts DEF Choice
  <1>2. QED
    BY <1>1, WorldsAssumption DEF AllBegin, AllEmpty

LEMMA AdvanceableFacts ==
    ASSUME TypeOK, Advanceable(agent) # {}
    PROVE  /\ Max(Advanceable(agent)) \in Advanceable(agent)
           /\ Max(Advanceable(agent)) \in 1..NumDecisions[agent]
           /\ \A i \in Advanceable(agent) : i <= Max(Advanceable(agent))
           /\ last_activity[agent] = "QUERY"
  <1> DEFINE S == Advanceable(agent)
  <1>1. S \subseteq 1..NumDecisions[agent] /\ last_activity[agent] = "QUERY"
    BY DEF Advanceable
  <1>2. NumDecisions[agent] \in Nat
    BY PositionFacts
  <1> HIDE DEF S
  <1>3. S # {}
    BY DEF S
  <1>4. Max(S) \in S /\ \A k \in S : k <= Max(S)
    BY <1>1, <1>2, <1>3, Greatest
  <1>5. QED
    BY <1>1, <1>4 DEF S

(* What IncrementAgent() does to the position. *)
LEMMA IncrementFacts ==
    ASSUME TypeOK
    PROVE  /\ IncrementAgent(agent) \in [1..NumDecisions[agent] -> Choice]
           /\ Advanceable(agent) # {} =>
                \A i \in 1..NumDecisions[agent] :
                    /\ i > Max(Advanceable(agent)) => IncrementAgent(agent)[i] = Begin
                    /\ i = Max(Advanceable(agent)) =>
                           IncrementAgent(agent)[i] = Iter(Position[i] + 1)
                    /\ i < Max(Advanceable(agent)) =>
                           IncrementAgent(agent)[i] = choices[agent][i]
  <1>1. CASE Advanceable(agent) = {}
    BY <1>1, StartFacts DEF IncrementAgent, TypeOK
  <1>2. CASE Advanceable(agent) # {}
    <2> DEFINE b == Max(Advanceable(agent))
               f == [i \in 1..NumDecisions[agent] |->
                        CASE i > b -> Begin
                          [] i = b -> Iter(At(choices[agent][b]) + 1)
                          [] OTHER -> choices[agent][i]]
    <2>1. IncrementAgent(agent) = f
      BY <1>2 DEF IncrementAgent
    <2>2. b \in 1..NumDecisions[agent]
      BY <1>2, AdvanceableFacts
    <2>3. /\ \A i \in 1..NumDecisions[agent] :
                 choices[agent][i] \in Choice /\ Position[i] = At(choices[agent][i])
          /\ Position[b] \in Nat /\ NumDecisions[agent] \in Nat
      BY <2>2, PositionFacts
    <2> HIDE DEF b
    <2>4. \A i \in 1..NumDecisions[agent] :
              /\ i > b => f[i] = Begin
              /\ i = b => f[i] = Iter(Position[i] + 1)
              /\ i < b => f[i] = choices[agent][i]
      BY <2>2, <2>3
    <2>5. Begin \in Choice /\ Iter(Position[b] + 1) \in Choice
      BY <2>3, KindFacts DEF Choice
    <2>6. \A i \in 1..NumDecisions[agent] : f[i] \in Choice
      BY <2>2, <2>3, <2>4, <2>5
    <2>7. f \in [1..NumDecisions[agent] -> Choice]
      BY <2>6
    <2> HIDE DEF f
    <2>8. QED
      BY <2>1, <2>4, <2>7 DEF b
  <1>3. QED
    BY <1>1, <1>2


-----------------------------------------------------------------------------
(* Types.                                                                  *)

LEMMA InitHolds == Init => RegenerationInvariant
  <1> SUFFICES ASSUME Init PROVE RegenerationInvariant
    OBVIOUS
  <1>1. TypeOK
    <2>1. basic \in Solution
      BY WorldsAssumption DEF Init, Nothing
    <2>2. agent \in Agents
      BY WorldsAssumption DEF Init, Agents
    <2>3. DOMAIN choices = Agents /\ DOMAIN decisions = Agents
      BY DEF Init
    <2>4. \A a \in Agents : /\ choices[a] \in [1..NumDecisions[a] -> Choice]
                            /\ decisions[a] \in [1..NumDecisions[a] -> Ranges]
      BY StartFacts DEF Init
    <2>5. path \in Seq(Nat) /\ tried \subseteq Seq(Nat) /\ chosen \in Seq(Seq(Nat))
      BY DEF Init
    <2>6. last_activity \in [Agents -> {"NEW", "QUERY", "CONJECTURE"}]
      BY DEF Init
    <2>7. QED
      BY <2>1, <2>2, <2>3, <2>4, <2>5, <2>6 DEF Init, TypeOK, Choice
  <1>2. QED
    BY <1>1 DEF Init, RegenerationInvariant, SolverInStep, GivenUpForCause, ChoicesFollow,
        PathFollows, QueryEnded, TriedSoFar, ChosenSoFar, MatchIsReal, MismatchIsReal,
        Regenerating

(* Actions that leave the conjectures alone. *)
LEMMA PlainTypes ==
    ASSUME RegenerationInvariant, UNCHANGED <<choices, decisions>>,
           last_activity' \in [Agents -> {"NEW", "QUERY", "CONJECTURE"}],
           pc' \in {"idle", "solving", "begin", "query", "client", "caught", "returned",
                    "thrown", "matched", "mismatched"},
           basic' \in Solution, agent' \in Agents, path' \in Seq(Nat),
           tried' \subseteq Seq(Nat), chosen' \in Seq(Seq(Nat))
    PROVE  TypeOK'
  BY DEF RegenerationInvariant, TypeOK

LEMMA StartTypes ==
    ASSUME RegenerationInvariant, NEW a \in Agents, Start(a)
    PROVE  /\ DOMAIN choices' = Agents /\ DOMAIN decisions' = Agents
           /\ \A b \in Agents :
                 /\ choices'[b] \in [1..NumDecisions[b] -> Choice]
                 /\ decisions'[b] \in [1..NumDecisions[b] -> Ranges]
           /\ last_activity' \in [Agents -> {"NEW", "QUERY", "CONJECTURE"}]
           /\ choices'[a] = AllBegin(a)
  <1>1. TypeOK
    BY DEF RegenerationInvariant
  <1>2. /\ DOMAIN choices = Agents /\ DOMAIN decisions = Agents
        /\ \A b \in Agents :
              /\ choices[b] \in [1..NumDecisions[b] -> Choice]
              /\ decisions[b] \in [1..NumDecisions[b] -> Ranges]
    BY <1>1 DEF TypeOK, Choice
  <1>3. DOMAIN choices' = Agents /\ DOMAIN decisions' = Agents
    BY <1>2 DEF Start
  <1>4. choices'[a] = AllBegin(a) /\ decisions'[a] = AllEmpty(a)
    BY <1>2 DEF Start
  <1>5. \A b \in Agents : b # a => choices'[b] = choices[b] /\ decisions'[b] = decisions[b]
    BY <1>2 DEF Start
  <1>6. \A b \in Agents : /\ choices'[b] \in [1..NumDecisions[b] -> Choice]
                          /\ decisions'[b] \in [1..NumDecisions[b] -> Ranges]
    BY <1>2, <1>4, <1>5, StartFacts
  <1>7. last_activity' \in [Agents -> {"NEW", "QUERY", "CONJECTURE"}]
    BY <1>1 DEF TypeOK, Start
  <1>8. QED
    BY <1>3, <1>4, <1>6, <1>7

LEMMA ChoicesTypes ==
    ASSUME RegenerationInvariant, NEW c \in [1..NumDecisions[agent] -> Choice],
           choices' = [choices EXCEPT ![agent] = c]
    PROVE  /\ DOMAIN choices' = Agents /\ choices'[agent] = c
           /\ \A b \in Agents : choices'[b] \in [1..NumDecisions[b] -> Choice]
  <1>1. /\ DOMAIN choices = Agents /\ agent \in Agents
        /\ \A b \in Agents : choices[b] \in [1..NumDecisions[b] -> Choice]
    BY DEF RegenerationInvariant, TypeOK, Choice
  <1>2. choices'[agent] = c /\ \A b \in Agents : b # agent => choices'[b] = choices[b]
    BY <1>1
  <1>3. QED
    BY <1>1, <1>2

LEMMA DecisionsTypes ==
    ASSUME RegenerationInvariant, NEW d \in [1..NumDecisions[agent] -> Ranges],
           decisions' = [decisions EXCEPT ![agent] = d]
    PROVE  /\ DOMAIN decisions' = Agents /\ decisions'[agent] = d
           /\ \A b \in Agents : decisions'[b] \in [1..NumDecisions[b] -> Ranges]
  <1>1. /\ DOMAIN decisions = Agents /\ agent \in Agents
        /\ \A b \in Agents : decisions[b] \in [1..NumDecisions[b] -> Ranges]
    BY DEF RegenerationInvariant, TypeOK
  <1>2. decisions'[agent] = d /\ \A b \in Agents : b # agent => decisions'[b] = decisions[b]
    BY <1>1
  <1>3. QED
    BY <1>1, <1>2

(* The first position of an agent: nothing chosen, nothing tried. *)
LEMMA AgentStarts ==
    ASSUME TypeOK', NEW a \in Agents, pc' = "begin", agent' = a, choices'[a] = AllBegin(a),
           tried' = {}, basic' \in goal' \ reported',
           IsChoiceTree(world'.ask[basic'][a], a)
    PROVE  ChoicesFollow' /\ PathFollows' /\ QueryEnded' /\ TriedSoFar'
  <1>1. NumDecisions[a] \in Nat /\ \A i \in 1..NumDecisions[a] : choices'[a][i] = Begin
    BY StartFacts
  <1>2. PathFollows' /\ QueryEnded'
    BY DEF PathFollows, QueryEnded
  <1>3. ChoicesFollow'
    <2>1. Follows(Tree', decisions'[agent'], Position', 0)
      BY DEF Follows
    <2>2. 0 \in 0..NumDecisions[agent']
      BY <1>1
    <2>3. \A i \in 1..NumDecisions[agent'] : i > 0 => choices'[agent'][i] = Begin
      BY <1>1
    <2>4. QED
      BY <2>1, <2>2, <2>3 DEF ChoicesFollow
  <1>4. Position' = [i \in 1..NumDecisions[a] |-> At(choices'[a][i])]
    BY DEF Position
  <1>5. Len(Position') = NumDecisions[a] /\ \A i \in 1..Len(Position') : Position'[i] = 0
    <2>1. \A i \in 1..NumDecisions[a] : At(choices'[a][i]) = 0
      BY <1>1, KindFacts
    <2>2. Position' = [i \in 1..NumDecisions[a] |-> 0]
      BY <1>4, <2>1
    <2>3. QED
      BY <1>1, <2>2
  <1>6. \A p \in Hits(basic, agent)' : p \in Seq(Nat)
    BY DEF Hits, IsChoiceTree
  <1>7. \A p \in Hits(basic, agent)' : ~ Before(p, Position')
    BY <1>5, <1>6, NothingBeforeZeros
  <1>8. QED
    BY <1>2, <1>3, <1>7 DEF TriedSoFar


-----------------------------------------------------------------------------
(* The steps of Compare() around the regeneration.                         *)

LEMMA QuietPhase ==
    ASSUME ~ Regenerating'
    PROVE  ChoicesFollow' /\ PathFollows' /\ QueryEnded' /\ TriedSoFar' /\ ChosenSoFar'
  BY DEF Regenerating, ChoicesFollow, PathFollows, QueryEnded, TriedSoFar, ChosenSoFar

LEMMA CompareStep == RegenerationInvariant /\ Compare => RegenerationInvariant'
  <1> SUFFICES ASSUME RegenerationInvariant, Compare PROVE RegenerationInvariant'
    OBVIOUS
  <1>1. TypeOK'
    BY PlainTypes DEF RegenerationInvariant, TypeOK, Compare, conjecture
  <1>2. SolverInStep'
    BY DEF RegenerationInvariant, SolverInStep, Compare, Solver!Start, Regenerating
  <1>3. GivenUpForCause'
    <2>1. reported' = {}
      BY DEF RegenerationInvariant, SolverInStep, Compare, Solver!Start
    <2>2. QED
      BY <2>1 DEF GivenUpForCause
  <1>4. ~ Regenerating' /\ MatchIsReal' /\ MismatchIsReal'
    BY DEF Compare, Regenerating, MatchIsReal, MismatchIsReal
  <1>5. QED
    BY <1>1, <1>2, <1>3, <1>4, QuietPhase DEF RegenerationInvariant

LEMMA RunSolverStep == RegenerationInvariant /\ RunSolver => RegenerationInvariant'
  <1> SUFFICES ASSUME RegenerationInvariant, RunSolver PROVE RegenerationInvariant'
    OBVIOUS
  <1>1. TypeOK'
    BY PlainTypes DEF RegenerationInvariant, TypeOK, RunSolver, conjecture
  <1>2. SolverInStep'
    BY DEF RegenerationInvariant, SolverInStep, RunSolver, Solver!Begin, Regenerating
  <1>3. GivenUpForCause'
    BY DEF RegenerationInvariant, GivenUpForCause, RunSolver, Solver!Begin, Regenerable, Hits
  <1>4. ~ Regenerating' /\ MatchIsReal' /\ MismatchIsReal'
    BY DEF RunSolver, Regenerating, MatchIsReal, MismatchIsReal
  <1>5. QED
    BY <1>1, <1>2, <1>3, <1>4, QuietPhase DEF RegenerationInvariant

LEMMA OnSolutionStep == RegenerationInvariant /\ OnSolution => RegenerationInvariant'
  <1> SUFFICES ASSUME RegenerationInvariant, OnSolution PROVE RegenerationInvariant'
    OBVIOUS
  <1>0. /\ pc = "solving" /\ pc' = "begin" /\ agent' = 1 /\ chosen' = <<>> /\ tried' = {}
        /\ basic' \in goal \ reported /\ Start(1)
        /\ UNCHANGED <<world, solver_phase, goal, reported, path>>
    BY DEF OnSolution, solver
  <1>1. 1 \in Agents
    BY WorldsAssumption DEF Agents
  <1>2. world \in Worlds /\ goal = world.goal /\ reported \subseteq goal
    BY <1>0 DEF RegenerationInvariant, SolverInStep
  <1>3. basic' \in Solution /\ \A a \in Agents : IsChoiceTree(world.ask[basic'][a], a)
    BY <1>0, <1>2, WorldsAssumption
  <1>4. TypeOK'
    <2>1. path \in Seq(Nat)
      BY DEF RegenerationInvariant, TypeOK
    <2>2. chosen' \in Seq(Seq(Nat)) /\ tried' \subseteq Seq(Nat) /\ path' \in Seq(Nat)
      BY <1>0, <2>1
    <2>3. QED
      BY <1>0, <1>1, <1>3, <2>2, StartTypes DEF TypeOK, Choice
  <1>5. ChoicesFollow' /\ PathFollows' /\ QueryEnded' /\ TriedSoFar'
    <2>1. choices'[1] = AllBegin(1)
      BY <1>0, <1>1, StartTypes
    <2>2. IsChoiceTree(world'.ask[basic'][1], 1)
      BY <1>0, <1>1, <1>3
    <2>3. QED
      BY <1>0, <1>1, <1>4, <2>1, <2>2, AgentStarts
  <1>6. SolverInStep'
    BY <1>0 DEF RegenerationInvariant, SolverInStep, Regenerating
  <1>7. GivenUpForCause'
    BY <1>0 DEF RegenerationInvariant, GivenUpForCause, Regenerable, Hits
  <1>8. ChosenSoFar' /\ MatchIsReal' /\ MismatchIsReal'
    <2>1. Len(chosen') = agent' - 1 /\ 1..(agent' - 1) = {}
      BY <1>0
    <2>2. QED
      BY <1>0, <2>1 DEF ChosenSoFar, MatchIsReal, MismatchIsReal
  <1>9. QED
    BY <1>4, <1>5, <1>6, <1>7, <1>8 DEF RegenerationInvariant

LEMMA SolverReturnsStep == RegenerationInvariant /\ SolverReturns => RegenerationInvariant'
  <1> SUFFICES ASSUME RegenerationInvariant, SolverReturns PROVE RegenerationInvariant'
    OBVIOUS
  <1>1. TypeOK'
    BY PlainTypes DEF RegenerationInvariant, TypeOK, SolverReturns, conjecture
  <1>2. /\ solver_phase' = "done" /\ goal' = goal /\ reported' = reported /\ reported = goal
        /\ pc = "solving" /\ pc' = "returned" /\ world' = world
    <2>1. /\ pc = "solving" /\ pc' = "returned" /\ world' = world /\ reported' = reported
          /\ Solver!Finish
      BY DEF SolverReturns
    <2>2. CASE solver_phase' = "done" /\ reported = goal /\ UNCHANGED <<goal, reported>>
      BY <2>1, <2>2
    <2>3. CASE Solver!Report({"started"}, "done") /\ reported' = goal
      BY <2>1, <2>3 DEF Solver!Report
    <2>4. QED
      BY <2>1, <2>2, <2>3 DEF Solver!Finish
  <1>3. SolverInStep'
    BY <1>2 DEF RegenerationInvariant, SolverInStep, Regenerating
  <1>4. GivenUpForCause'
    BY <1>2 DEF RegenerationInvariant, GivenUpForCause, Regenerable, Hits
  <1>5. ~ Regenerating' /\ MatchIsReal' /\ MismatchIsReal'
    BY <1>2 DEF Regenerating, MatchIsReal, MismatchIsReal
  <1>6. QED
    BY <1>1, <1>3, <1>4, <1>5, QuietPhase DEF RegenerationInvariant

LEMMA StopSolverStep == RegenerationInvariant /\ StopSolver => RegenerationInvariant'
  <1> SUFFICES ASSUME RegenerationInvariant, StopSolver PROVE RegenerationInvariant'
    OBVIOUS
  <1>0. /\ solver_phase' = "idle" /\ goal' = {} /\ reported' = {}
        /\ UNCHANGED <<world, basic, agent, path, choices, decisions, last_activity, chosen, tried>>
        /\ pc \in {"returned", "thrown"}
        /\ pc' = IF pc = "thrown" THEN "matched" ELSE "mismatched"
    BY DEF StopSolver, Solver!Stop, conjecture
  <1>1. TypeOK'
    BY <1>0, PlainTypes DEF RegenerationInvariant, TypeOK
  <1>2. SolverInStep'
    BY <1>0 DEF RegenerationInvariant, SolverInStep, Regenerating
  <1>3. GivenUpForCause' /\ ~ Regenerating'
    BY <1>0 DEF GivenUpForCause, Regenerating
  <1>4. MatchIsReal'
    BY <1>0 DEF RegenerationInvariant, MatchIsReal, Hits
  <1>5. MismatchIsReal'
    <2>1. CASE pc = "returned"
      <3>1. reported = world.goal
        BY <2>1 DEF RegenerationInvariant, SolverInStep
      <3>2. \A s \in world.goal : ~ Regenerable(s)
        BY <2>1, <3>1 DEF RegenerationInvariant, GivenUpForCause
      <3>3. QED
        BY <1>0, <3>2 DEF MismatchIsReal, Regenerable, Hits
    <2>2. CASE pc = "thrown"
      BY <1>0, <2>2 DEF MismatchIsReal
    <2>3. QED
      BY <1>0, <2>1, <2>2
  <1>6. QED
    BY <1>1, <1>2, <1>3, <1>4, <1>5, QuietPhase DEF RegenerationInvariant

LEMMA ReturnStep == RegenerationInvariant /\ Return => RegenerationInvariant'
  <1> SUFFICES ASSUME RegenerationInvariant, Return PROVE RegenerationInvariant'
    OBVIOUS
  <1>0. /\ pc \in {"matched", "mismatched"} /\ pc' = "idle"
        /\ basic' = Nothing /\ agent' = 1 /\ path' = <<>> /\ chosen' = <<>> /\ tried' = {}
        /\ UNCHANGED <<solver_phase, goal, reported, choices, decisions, last_activity>>
    BY DEF Return, solver, conjecture
  <1>1. TypeOK'
    <2>1. basic' \in Solution /\ agent' \in Agents
      BY <1>0, WorldsAssumption DEF Nothing, Agents
    <2>2. path' \in Seq(Nat) /\ chosen' \in Seq(Seq(Nat)) /\ tried' \subseteq Seq(Nat)
      BY <1>0
    <2>3. last_activity' \in [Agents -> {"NEW", "QUERY", "CONJECTURE"}]
      BY <1>0 DEF RegenerationInvariant, TypeOK
    <2>4. QED
      BY <1>0, <2>1, <2>2, <2>3, PlainTypes
  <1>2. SolverInStep'
    BY <1>0 DEF RegenerationInvariant, SolverInStep, Regenerating
  <1>3. GivenUpForCause' /\ ~ Regenerating' /\ MatchIsReal' /\ MismatchIsReal'
    BY <1>0 DEF GivenUpForCause, Regenerating, MatchIsReal, MismatchIsReal
  <1>4. QED
    BY <1>1, <1>2, <1>3, QuietPhase DEF RegenerationInvariant


-----------------------------------------------------------------------------
(* The steps of AgentRegeneration().                                       *)

(* A step of the regeneration that stays with the agent and the solution.  *)
SameAgent ==
    UNCHANGED <<world, solver_phase, goal, reported, basic, agent, chosen>>

LEMMA SameAgentKeeps ==
    ASSUME RegenerationInvariant, Regenerating, Regenerating', SameAgent
    PROVE  SolverInStep' /\ GivenUpForCause' /\ ChosenSoFar' /\ MatchIsReal' /\ MismatchIsReal'
  <1>1. SolverInStep'
    BY DEF RegenerationInvariant, SolverInStep, Regenerating, SameAgent
  <1>2. GivenUpForCause'
    BY DEF RegenerationInvariant, GivenUpForCause, Regenerating, SameAgent, Regenerable, Hits
  <1>3. ChosenSoFar'
    BY DEF RegenerationInvariant, ChosenSoFar, SameAgent, Hits
  <1>4. MatchIsReal' /\ MismatchIsReal'
    BY DEF Regenerating, MatchIsReal, MismatchIsReal
  <1>5. QED
    BY <1>1, <1>2, <1>3, <1>4

LEMMA BeginQueryStep == RegenerationInvariant /\ BeginQuery => RegenerationInvariant'
  <1> SUFFICES ASSUME RegenerationInvariant, BeginQuery PROVE RegenerationInvariant'
    OBVIOUS
  <1>0. /\ pc = "begin" /\ pc' = "query" /\ path' = <<>> /\ SameAgent
        /\ UNCHANGED <<choices, decisions, tried>>
        /\ last_activity' = [last_activity EXCEPT ![agent] = "QUERY"]
    BY DEF BeginQuery, SameAgent, solver
  <1>1. Regenerating /\ Regenerating'
    BY <1>0 DEF Regenerating
  <1>2. TypeOK /\ IsChoiceTree(Tree, agent) /\ agent \in Agents
    BY <1>1, CallFacts DEF RegenerationInvariant
  <1>3. TypeOK'
    <2>1. last_activity' \in [Agents -> {"NEW", "QUERY", "CONJECTURE"}] /\ path' \in Seq(Nat)
      BY <1>0, <1>2 DEF TypeOK
    <2>2. QED
      BY <1>0, <1>2, <2>1, PlainTypes DEF TypeOK, SameAgent
  <1>4. Tree' = Tree /\ Position' = Position /\ agent' = agent
    BY <1>0 DEF Tree, Position, SameAgent
  <1>5. ChoicesFollow'
    BY <1>0, <1>1, <1>4 DEF RegenerationInvariant, ChoicesFollow
  <1>6. PathFollows'
    <2>1. Position \in Seq(Nat) /\ NumDecisions[agent] \in Nat
      BY <1>2, PositionFacts
    <2>2. SubSeq(Position, 1, 0) = <<>> /\ Len(<<>>) = 0
      BY <2>1
    <2>3. <<>> \in DOMAIN Tree
      BY <1>2 DEF IsChoiceTree
    <2>4. Follows(Tree, decisions[agent], Position, 0)
      BY DEF Follows
    <2>5. last_activity'[agent] = "QUERY"
      BY <1>0, <1>2 DEF TypeOK
    <2>6. QED
      BY <1>0, <1>4, <2>1, <2>2, <2>3, <2>4, <2>5 DEF PathFollows
  <1>7. QueryEnded'
    BY <1>0 DEF QueryEnded
  <1>8. TriedSoFar'
    BY <1>0, <1>1, <1>4 DEF RegenerationInvariant, TriedSoFar, SameAgent, Hits
  <1>9. QED
    BY <1>0, <1>1, <1>3, <1>5, <1>6, <1>7, <1>8, SameAgentKeeps DEF RegenerationInvariant

LEMMA RegisterDecisionStep == RegenerationInvariant /\ RegisterDecision => RegenerationInvariant'
  <1> SUFFICES ASSUME RegenerationInvariant, RegisterDecision PROVE RegenerationInvariant'
    OBVIOUS
  <1> DEFINE n == Len(path) + 1
             r == Tree[path]
  <1>0. /\ pc = "query" /\ pc' = "query" /\ SameAgent /\ UNCHANGED <<choices, last_activity, tried>>
        /\ r.kind = "range" /\ path' = Append(path, At(choices[agent][n]))
        /\ decisions' = IF choices[agent][n].mode = "BEGIN"
                        THEN [decisions EXCEPT ![agent][n] = r] ELSE decisions
    BY DEF RegisterDecision, SameAgent, solver, Asked, Tree
  <1>1. Regenerating /\ Regenerating'
    BY <1>0 DEF Regenerating
  <1>2. TypeOK /\ IsChoiceTree(Tree, agent) /\ agent \in Agents
    BY <1>1, CallFacts DEF RegenerationInvariant
  <1>3. /\ last_activity[agent] = "QUERY" /\ Len(path) <= NumDecisions[agent]
        /\ path = SubSeq(Position, 1, Len(path)) /\ path \in DOMAIN Tree
        /\ Follows(Tree, decisions[agent], Position, Len(path))
    BY <1>0 DEF RegenerationInvariant, PathFollows
  <1>4. /\ path \in Seq(Nat) /\ r \in Ranges /\ Len(path) < NumDecisions[agent]
        /\ 0 \in ChoicesOf(r) /\ \A c \in ChoicesOf(r) : Append(path, c) \in DOMAIN Tree
    BY <1>0, <1>2, <1>3, TreeNode
  <1>5. /\ Position \in Seq(Nat) /\ NumDecisions[agent] \in Nat
        /\ Len(Position) = NumDecisions[agent]
    BY <1>2, PositionFacts
  <1>6. n \in 1..NumDecisions[agent] /\ n \in 0..Len(Position) /\ n - 1 = Len(path)
    BY <1>4, <1>5
  <1>7. /\ Position[n] = At(choices[agent][n]) /\ Position[n] \in Nat
        /\ choices[agent][n] = Begin => Position[n] = 0
    BY <1>2, <1>6, PositionFacts
  <1>8. PICK k \in 0..NumDecisions[agent] :
            /\ Follows(Tree, decisions[agent], Position, k)
            /\ \A i \in 1..NumDecisions[agent] : i > k => choices[agent][i] = Begin
    BY <1>1 DEF RegenerationInvariant, ChoicesFollow
  <1> HIDE DEF n, r
  <1>9. SubSeq(Position, 1, n - 1) = path /\ Tree[path] = r
    BY <1>3, <1>6 DEF r
  <1>10. n <= k => decisions[agent][n] = r /\ Position[n] \in ChoicesOf(r)
    <2> SUFFICES ASSUME n <= k PROVE decisions[agent][n] = r /\ Position[n] \in ChoicesOf(r)
      OBVIOUS
    <2>1. n \in 1..k
      BY <1>6
    <2>2. QED
      BY <1>8, <1>9, <2>1 DEF Follows
  <1>11. Position[n] \in ChoicesOf(r)
    <2>1. CASE n <= k
      BY <1>10, <2>1
    <2>2. CASE ~ (n <= k)
      <3>1. n > k
        BY <1>6, <2>2
      <3>2. choices[agent][n] = Begin
        BY <1>6, <1>8, <3>1
      <3>3. QED
        BY <1>4, <1>7, <3>2
    <2>3. QED
      BY <2>1, <2>2
  (* The decisions, but for the one registered, stay; it becomes the range. *)
  <1>12. /\ decisions[agent] \in [1..NumDecisions[agent] -> Ranges] /\ DOMAIN decisions = Agents
    BY <1>2 DEF TypeOK
  <1>13. choices[agent][n].mode # "BEGIN" => decisions[agent][n] = r
    <2> SUFFICES ASSUME choices[agent][n].mode # "BEGIN" PROVE decisions[agent][n] = r
      OBVIOUS
    <2>1. choices[agent][n] # Begin
      BY DEF Begin
    <2>2. ~ (n > k)
      BY <1>6, <1>8, <2>1
    <2>3. QED
      BY <1>6, <1>10, <2>2
  <1> DEFINE d == [decisions[agent] EXCEPT ![n] = r]
  <1>15. /\ d \in [1..NumDecisions[agent] -> Ranges] /\ d[n] = r
         /\ \A i \in 1..NumDecisions[agent] : i # n => d[i] = decisions[agent][i]
    BY <1>4, <1>6, <1>12
  <1>16. /\ DOMAIN decisions' = Agents /\ decisions'[agent] = d
         /\ \A b \in Agents : decisions'[b] \in [1..NumDecisions[b] -> Ranges]
    <2>1. CASE choices[agent][n].mode = "BEGIN"
      <3>1. decisions' = [decisions EXCEPT ![agent] = d]
        BY <1>0, <2>1
      <3> HIDE DEF d
      <3>2. QED
        BY <1>15, <3>1, DecisionsTypes
    <2>2. CASE choices[agent][n].mode # "BEGIN"
      <3>1. decisions[agent][n] = r /\ decisions' = decisions
        BY <1>0, <1>13, <2>2
      <3>2. d = decisions[agent]
        BY <1>12, <3>1
      <3> HIDE DEF d
      <3>3. QED
        BY <1>2, <3>1, <3>2 DEF TypeOK
    <2>3. QED
      BY <2>1, <2>2
  <1> HIDE DEF d
  <1>17. path' = Append(path, Position[n]) /\ path' \in Seq(Nat) /\ Len(path') = n
    BY <1>0, <1>4, <1>6, <1>7
  <1>18. TypeOK'
    BY <1>0, <1>2, <1>16, <1>17 DEF TypeOK, SameAgent
  <1>19. Tree' = Tree /\ Position' = Position /\ agent' = agent
    BY <1>0 DEF Tree, Position, SameAgent
  <1>20. path' \in DOMAIN Tree
    BY <1>4, <1>11, <1>17
  <1>21. path' = SubSeq(Position, 1, n)
    <2> DEFINE u == SubSeq(Position, 1, n)
    <2>1. u \in Seq(Nat) /\ Len(u) = n /\ \A i \in 1..n : u[i] = Position[i]
      BY <1>5, <1>6, Prefix
    <2>2. \A i \in 1..Len(path) : path[i] = Position[i]
      <3>1. Len(path) \in 0..Len(Position)
        BY <1>4, <1>5
      <3>2. QED
        BY <1>3, <1>5, <3>1, Prefix
    <2> HIDE DEF u
    <2>3. \A i \in 1..n : path'[i] = Position[i]
      BY <1>4, <1>6, <1>17, <2>2
    <2>4. path' = u
      BY <1>17, <2>1, <2>3, SameSequence
    <2>5. QED
      BY <2>4 DEF u
  <1>22. Follows(Tree, d, Position, n)
    <2> SUFFICES ASSUME NEW i \in 1..n
                 PROVE  /\ SubSeq(Position, 1, i - 1) \in DOMAIN Tree
                        /\ Tree[SubSeq(Position, 1, i - 1)].kind = "range"
                        /\ d[i] = Tree[SubSeq(Position, 1, i - 1)]
                        /\ Position[i] \in ChoicesOf(Tree[SubSeq(Position, 1, i - 1)])
      BY DEF Follows
    <2>1. CASE i = n
      <3>1. SubSeq(Position, 1, i - 1) = path
        BY <1>9, <2>1
      <3>2. QED
        BY <1>0, <1>3, <1>9, <1>11, <1>15, <2>1, <3>1
    <2>2. CASE i # n
      <3>1. i \in 1..Len(path) /\ i \in 1..NumDecisions[agent]
        BY <1>4, <1>5, <1>6, <2>2
      <3>2. d[i] = decisions[agent][i]
        BY <1>15, <2>2, <3>1
      <3>3. QED
        BY <1>3, <3>1, <3>2 DEF Follows
    <2>3. QED
      BY <2>1, <2>2
  <1>23. PathFollows'
    <2>1. path' = SubSeq(Position', 1, Len(path')) /\ path' \in DOMAIN Tree'
      BY <1>17, <1>19, <1>20, <1>21
    <2>2. Follows(Tree', decisions'[agent'], Position', Len(path'))
      BY <1>16, <1>17, <1>19, <1>22
    <2>3. Len(path') <= NumDecisions[agent'] /\ last_activity'[agent'] = "QUERY"
      BY <1>0, <1>3, <1>5, <1>6, <1>17, <1>19
    <2>4. QED
      BY <2>1, <2>2, <2>3 DEF PathFollows
  <1>24. ChoicesFollow'
    <2>1. CASE k < n
      <3>1. \A i \in 1..NumDecisions[agent] : i > n => choices[agent][i] = Begin
        BY <1>6, <1>8, <2>1
      <3>2. n \in 0..NumDecisions[agent]
        BY <1>6
      <3>3. QED
        BY <1>0, <1>16, <1>19, <1>22, <3>1, <3>2 DEF ChoicesFollow
    <2>2. CASE ~ (k < n)
      <3>1. n <= k /\ k \in 0..Len(Position)
        BY <1>5, <1>6, <2>2
      <3>2. \A i \in 1..k : decisions[agent][i] = d[i]
        <4> SUFFICES ASSUME NEW i \in 1..k PROVE decisions[agent][i] = d[i]
          OBVIOUS
        <4>1. i \in 1..NumDecisions[agent]
          BY <1>5
        <4>2. QED
          BY <1>10, <1>15, <3>1, <4>1
      <3>3. Follows(Tree, d, Position, k)
        BY <1>5, <1>8, <3>1, <3>2, FollowsSame
      <3>4. QED
        BY <1>0, <1>8, <1>16, <1>19, <3>3 DEF ChoicesFollow
    <2>3. QED
      BY <2>1, <2>2
  <1>25. QueryEnded'
    BY <1>0 DEF QueryEnded
  <1>26. TriedSoFar'
    BY <1>0, <1>1, <1>19 DEF RegenerationInvariant, TriedSoFar, SameAgent, Hits
  <1>27. QED
    BY <1>0, <1>1, <1>18, <1>23, <1>24, <1>25, <1>26, SameAgentKeeps DEF RegenerationInvariant


(* Where a query has ended, nothing is chosen beyond its path. *)
LEMMA EndOfPath ==
    ASSUME RegenerationInvariant, pc \in {"query", "client", "caught"}, Tree[path].kind # "range"
    PROVE  \A i \in 1..NumDecisions[agent] : i > Len(path) =>
               choices[agent][i] = Begin /\ Position[i] = 0
  <1>1. Regenerating /\ TypeOK
    BY DEF Regenerating, RegenerationInvariant
  <1>2. path \in Seq(Nat) /\ path = SubSeq(Position, 1, Len(path))
    BY <1>1 DEF RegenerationInvariant, PathFollows, TypeOK
  <1>3. PICK k \in 0..NumDecisions[agent] :
            /\ Follows(Tree, decisions[agent], Position, k)
            /\ \A i \in 1..NumDecisions[agent] : i > k => choices[agent][i] = Begin
    BY <1>1 DEF RegenerationInvariant, ChoicesFollow
  <1>4. NumDecisions[agent] \in Nat
    BY <1>1, PositionFacts
  <1>5. k <= Len(path)
    <2> SUFFICES ASSUME k > Len(path) PROVE FALSE
      BY <1>2, <1>4
    <2>1. Len(path) + 1 \in 1..k /\ (Len(path) + 1) - 1 = Len(path)
      BY <1>2, <1>4
    <2>2. Tree[SubSeq(Position, 1, Len(path))].kind = "range"
      BY <1>3, <2>1 DEF Follows
    <2>3. QED
      BY <1>2, <2>2
  <1>6. \A i \in 1..NumDecisions[agent] : i > Len(path) => choices[agent][i] = Begin
    BY <1>2, <1>3, <1>4, <1>5
  <1>7. QED
    BY <1>1, <1>6, PositionFacts

LEMMA QueryEnds ==
    ASSUME RegenerationInvariant, pc = "query", Tree[path] \in {Hit, Mismatch},
           pc' \in {"client", "caught"}, pc' = "client" <=> Tree[path] = Hit,
           decisions' = CompleteDecisionsWithEmpty, SameAgent,
           UNCHANGED <<path, choices, last_activity, tried>>
    PROVE  RegenerationInvariant'
  <1>1. Regenerating /\ Regenerating'
    BY DEF Regenerating
  <1>2. TypeOK /\ IsChoiceTree(Tree, agent) /\ agent \in Agents
    BY <1>1, CallFacts DEF RegenerationInvariant
  <1>3. /\ last_activity[agent] = "QUERY" /\ Len(path) <= NumDecisions[agent]
        /\ path = SubSeq(Position, 1, Len(path)) /\ path \in DOMAIN Tree
        /\ Follows(Tree, decisions[agent], Position, Len(path))
    BY DEF RegenerationInvariant, PathFollows
  <1>4. /\ Position \in Seq(Nat) /\ NumDecisions[agent] \in Nat
        /\ Len(Position) = NumDecisions[agent]
    BY <1>2, PositionFacts
  <1>5. Tree[path].kind # "range" /\ path \in Seq(Nat)
    BY <1>2, KindFacts DEF TypeOK
  <1> DEFINE d == [i \in 1..NumDecisions[agent] |->
                      IF i > Len(path) THEN EmptyRange ELSE decisions[agent][i]]
  <1>6. decisions[agent] \in [1..NumDecisions[agent] -> Ranges]
    BY <1>2 DEF TypeOK
  <1>7. decisions' = [decisions EXCEPT ![agent] = d]
    BY <1>6 DEF CompleteDecisionsWithEmpty
  <1>8. /\ d \in [1..NumDecisions[agent] -> Ranges]
        /\ \A i \in 1..NumDecisions[agent] : i > Len(path) => d[i] = EmptyRange
        /\ \A i \in 1..NumDecisions[agent] : ~ (i > Len(path)) => d[i] = decisions[agent][i]
    BY <1>6, KindFacts
  <1> HIDE DEF d
  <1>9. /\ DOMAIN decisions' = Agents /\ decisions'[agent] = d
        /\ \A b \in Agents : decisions'[b] \in [1..NumDecisions[b] -> Ranges]
    BY <1>7, <1>8, DecisionsTypes
  <1>10. TypeOK'
    BY <1>2, <1>9 DEF TypeOK, SameAgent
  <1>11. Tree' = Tree /\ Position' = Position /\ agent' = agent
    BY DEF Tree, Position, SameAgent
  <1>12. Follows(Tree, d, Position, Len(path))
    <2>1. Len(path) \in 0..Len(Position)
      BY <1>3, <1>4, <1>5
    <2>2. \A i \in 1..Len(path) : decisions[agent][i] = d[i]
      BY <1>3, <1>4, <1>5, <1>8
    <2>3. QED
      BY <1>3, <1>4, <2>1, <2>2, FollowsSame
  <1>13. PathFollows'
    <2>1. Follows(Tree', decisions'[agent'], Position', Len(path'))
      BY <1>9, <1>11, <1>12
    <2>2. QED
      BY <1>3, <1>11, <2>1 DEF PathFollows
  <1>14. ChoicesFollow'
    <2>1. Len(path) \in 0..NumDecisions[agent]
      BY <1>3, <1>4, <1>5
    <2>2. \A i \in 1..NumDecisions[agent] : i > Len(path) => choices[agent][i] = Begin
      BY <1>5, EndOfPath
    <2>3. QED
      BY <1>9, <1>11, <1>12, <2>1, <2>2 DEF ChoicesFollow
  <1>15. QueryEnded'
    BY <1>5, <1>8, <1>9, <1>11 DEF QueryEnded
  <1>16. TriedSoFar'
    BY <1>1, <1>11 DEF RegenerationInvariant, TriedSoFar, SameAgent, Hits
  <1>17. QED
    BY <1>1, <1>10, <1>13, <1>14, <1>15, <1>16, SameAgentKeeps DEF RegenerationInvariant

LEMMA QueryReturnsStep == RegenerationInvariant /\ QueryReturns => RegenerationInvariant'
  <1> SUFFICES ASSUME RegenerationInvariant, QueryReturns PROVE RegenerationInvariant'
    OBVIOUS
  <1>1. /\ pc = "query" /\ Tree[path] = Hit /\ pc' = "client" /\ SameAgent
        /\ decisions' = CompleteDecisionsWithEmpty
        /\ UNCHANGED <<path, choices, last_activity, tried>>
    BY DEF QueryReturns, SameAgent, solver, Asked, Tree
  <1>2. QED
    BY <1>1, QueryEnds

LEMMA QueryThrowsStep == RegenerationInvariant /\ QueryThrows => RegenerationInvariant'
  <1> SUFFICES ASSUME RegenerationInvariant, QueryThrows PROVE RegenerationInvariant'
    OBVIOUS
  <1>1. /\ pc = "query" /\ Tree[path] = Mismatch /\ pc' = "caught" /\ SameAgent
        /\ decisions' = CompleteDecisionsWithEmpty
        /\ UNCHANGED <<path, choices, last_activity, tried>>
    BY DEF QueryThrows, SameAgent, solver, Asked, Tree
  <1>2. QED
    BY <1>1, QueryEnds, KindFacts

LEMMA ClientRejectsStep == RegenerationInvariant /\ ClientRejects => RegenerationInvariant'
  <1> SUFFICES ASSUME RegenerationInvariant, ClientRejects PROVE RegenerationInvariant'
    OBVIOUS
  <1>0. /\ pc = "client" /\ pc' = "caught" /\ <<basic, agent, path>> \notin world.good
        /\ tried' = tried \cup {path} /\ SameAgent
        /\ UNCHANGED <<path, choices, decisions, last_activity>>
    BY DEF ClientRejects, SameAgent, solver, conjecture
  <1>1. Regenerating /\ Regenerating' /\ TypeOK
    BY <1>0 DEF Regenerating, RegenerationInvariant
  <1>2. TypeOK'
    BY <1>0, <1>1, PlainTypes DEF TypeOK, SameAgent
  <1>3. Tree' = Tree /\ Position' = Position /\ agent' = agent
    BY <1>0 DEF Tree, Position, SameAgent
  <1>4. ChoicesFollow' /\ PathFollows'
    BY <1>0, <1>1, <1>3 DEF RegenerationInvariant, ChoicesFollow, PathFollows
  <1>5. QueryEnded'
    BY <1>0, <1>3 DEF RegenerationInvariant, QueryEnded
  <1>6. TriedSoFar'
    BY <1>0, <1>1, <1>3 DEF RegenerationInvariant, TriedSoFar, SameAgent, Hits
  <1>7. QED
    BY <1>0, <1>1, <1>2, <1>4, <1>5, <1>6, SameAgentKeeps DEF RegenerationInvariant

(* The path of a query that has ended is a leaf of the tree, and comes     *)
(* before what the position comes to next.                                 *)
LEMMA PathIsLeaf ==
    ASSUME RegenerationInvariant, pc \in {"client", "caught"}
    PROVE  /\ path \in Seq(Nat) /\ path \in DOMAIN Tree /\ Reachable(Tree, path)
           /\ Tree[path].kind # "range"
           /\ Len(path) \in 0..Len(Position) /\ Len(Position) = NumDecisions[agent]
           /\ path = SubSeq(Position, 1, Len(path))
           /\ \A i \in 1..Len(path) : path[i] = Position[i]
           /\ \A i \in 1..Len(Position) : i > Len(path) => Position[i] = 0
           /\ \A p \in Seq(Nat) : Before(p, Position) <=> Before(p, path)
  <1>1. Regenerating /\ TypeOK
    BY DEF Regenerating, RegenerationInvariant
  <1>2. IsChoiceTree(Tree, agent) /\ agent \in Agents
    BY <1>1, CallFacts
  <1>3. /\ Len(path) <= NumDecisions[agent]
        /\ path = SubSeq(Position, 1, Len(path)) /\ path \in DOMAIN Tree
        /\ Follows(Tree, decisions[agent], Position, Len(path))
    BY DEF RegenerationInvariant, PathFollows
  <1>4. /\ Position \in Seq(Nat) /\ NumDecisions[agent] \in Nat
        /\ Len(Position) = NumDecisions[agent] /\ path \in Seq(Nat)
    BY <1>1, PositionFacts DEF TypeOK
  <1>5. Len(path) \in 0..Len(Position)
    BY <1>3, <1>4
  <1>6. Reachable(Tree, path)
    <2>1. Reachable(Tree, SubSeq(Position, 1, Len(path)))
      BY <1>2, <1>3, <1>4, <1>5, FollowsLeads
    <2>2. QED
      BY <1>3, <2>1
  <1>7. \A i \in 1..Len(path) : path[i] = Position[i]
    BY <1>3, <1>4, <1>5, Prefix
  <1>8. Tree[path].kind # "range"
    BY DEF RegenerationInvariant, QueryEnded
  <1>9. \A i \in 1..Len(Position) : i > Len(path) => Position[i] = 0
    BY <1>4, <1>8, EndOfPath
  <1>10. \A p \in Seq(Nat) : Before(p, Position) <=> Before(p, path)
    <2> SUFFICES ASSUME NEW p \in Seq(Nat) PROVE Before(p, Position) <=> Before(p, path)
      OBVIOUS
    <2>1. Before(p, Position) <=> Before(p, SubSeq(Position, 1, Len(path)))
      BY <1>4, <1>5, <1>9, BeforePath
    <2>2. QED
      BY <1>3, <2>1
  <1>11. QED
    BY <1>3, <1>4, <1>5, <1>6, <1>7, <1>8, <1>9, <1>10


(* IncrementAgent() steps on exactly the choices that are not the last of  *)
(* their ranges.                                                           *)
LEMMA AdvancesInRange ==
    ASSUME RegenerationInvariant, pc = "caught", NEW i \in 1..NumDecisions[agent]
    PROVE  /\ i \in Advanceable(agent) => i <= Len(path)
           /\ i <= Len(path) =>
                (i \in Advanceable(agent) <=>
                     Position[i] + 1 \in ChoicesOf(Tree[SubSeq(Position, 1, i - 1)]))
  <1>1. Regenerating /\ TypeOK
    BY DEF Regenerating, RegenerationInvariant
  <1>2. IsChoiceTree(Tree, agent) /\ agent \in Agents
    BY <1>1, CallFacts
  <1>3. /\ last_activity[agent] = "QUERY"
        /\ Follows(Tree, decisions[agent], Position, Len(path))
    BY DEF RegenerationInvariant, PathFollows
  <1>4. /\ Position[i] = At(choices[agent][i]) /\ Position[i] \in Nat
        /\ choices[agent][i] = Begin => Position[i] = 0
    BY <1>1, PositionFacts
  <1> DEFINE r == decisions[agent][i]
  <1>5. i \in Advanceable(agent) <=>
            Position[i] # r.size /\ (r.inclusive \/ Position[i] + 1 # r.size)
    BY <1>3, <1>4 DEF Advanceable, CanAdvance
  <1>6. path \in Seq(Nat)
    BY <1>1 DEF TypeOK
  <1>7. i > Len(path) => i \notin Advanceable(agent)
    <2> SUFFICES ASSUME i > Len(path) PROVE i \notin Advanceable(agent)
      OBVIOUS
    <2>1. r = EmptyRange /\ Tree[path].kind # "range"
      BY DEF RegenerationInvariant, QueryEnded
    <2>2. Position[i] = 0
      BY <2>1, EndOfPath
    <2>3. QED
      BY <1>5, <2>1, <2>2, KindFacts
  <1>8. i <= Len(path) =>
            (i \in Advanceable(agent) <=>
                 Position[i] + 1 \in ChoicesOf(Tree[SubSeq(Position, 1, i - 1)]))
    <2> SUFFICES ASSUME i <= Len(path)
                 PROVE  i \in Advanceable(agent) <=>
                            Position[i] + 1 \in ChoicesOf(Tree[SubSeq(Position, 1, i - 1)])
      OBVIOUS
    <2>1. i \in 1..Len(path)
      BY <1>6
    <2>2. /\ SubSeq(Position, 1, i - 1) \in DOMAIN Tree
          /\ Tree[SubSeq(Position, 1, i - 1)].kind = "range"
          /\ r = Tree[SubSeq(Position, 1, i - 1)] /\ Position[i] \in ChoicesOf(r)
      BY <1>3, <2>1 DEF Follows
    <2>3. r \in Ranges
      BY <1>2, <2>2, TreeNode
    <2> HIDE DEF r
    <2>4. Position[i] + 1 \in ChoicesOf(r) <=>
              Position[i] # r.size /\ (r.inclusive \/ Position[i] + 1 # r.size)
      BY <2>2, <2>3, LastChoice
    <2>5. QED
      BY <1>5, <2>2, <2>4
  <1>9. QED
    BY <1>6, <1>7, <1>8

(* No hit is left untried among the leaves that agree with the path as far *)
(* as it can be stepped on.                                                *)
LEMMA NoHitLeft ==
    ASSUME RegenerationInvariant, pc = "caught", NEW p \in Hits(basic, agent), p \notin tried,
           NEW b \in Nat, \A i \in 1..Len(path) : i <= Len(p) /\ i <= b => p[i] = path[i],
           \A i \in 1..NumDecisions[agent] : i > b => i \notin Advanceable(agent)
    PROVE  FALSE
  <1>1. Regenerating /\ pc \in {"client", "caught"}
    BY DEF Regenerating
  <1>2. IsChoiceTree(Tree, agent) /\ agent \in Agents /\ NumDecisions[agent] \in Nat
    BY <1>1, CallFacts
  <1>3. /\ path \in Seq(Nat) /\ path \in DOMAIN Tree /\ Reachable(Tree, path)
        /\ Tree[path].kind # "range" /\ path = SubSeq(Position, 1, Len(path))
        /\ Len(path) \in 0..Len(Position) /\ Len(Position) = NumDecisions[agent]
        /\ \A i \in 1..Len(path) : path[i] = Position[i]
        /\ \A o \in Seq(Nat) : Before(o, Position) <=> Before(o, path)
    BY <1>1, PathIsLeaf
  <1>4. p \in DOMAIN Tree /\ Tree[p] = Hit /\ Reachable(Tree, p)
    BY DEF Hits, Tree
  <1>5. p \in Seq(Nat) /\ Tree[p].kind # "range"
    BY <1>2, <1>4, TreeNode, KindFacts
  <1>6. p # path
    <2>1. Tree[path] = Mismatch \/ path \in tried
      BY DEF RegenerationInvariant, QueryEnded
    <2>2. QED
      BY <1>4, <2>1, KindFacts
  <1>7. \A i \in 1..Len(path) : i > b => path[i] + 1 \notin ChoicesOf(Tree[SubSeq(path, 1, i - 1)])
    <2> SUFFICES ASSUME NEW i \in 1..Len(path), i > b
                 PROVE  path[i] + 1 \notin ChoicesOf(Tree[SubSeq(path, 1, i - 1)])
      OBVIOUS
    <2>1. i \in 1..NumDecisions[agent] /\ i <= Len(path)
      BY <1>2, <1>3
    <2>2. Position[i] + 1 \notin ChoicesOf(Tree[SubSeq(Position, 1, i - 1)])
      BY <2>1, AdvancesInRange
    <2>3. SubSeq(path, 1, i - 1) = SubSeq(Position, 1, i - 1)
      <3>1. i - 1 \in Nat /\ i - 1 <= Len(path) /\ i - 1 <= Len(Position)
        BY <1>2, <1>3
      <3>2. \A j \in 1..(i - 1) : path[j] = Position[j]
        <4>1. \A j \in 1..(i - 1) : j \in 1..Len(path)
          BY <1>3
        <4>2. QED
          BY <1>3, <4>1
      <3>3. Position \in Seq(Nat)
        BY PositionFacts DEF RegenerationInvariant
      <3>4. QED
        BY <1>3, <3>1, <3>2, <3>3, SamePrefix
    <2>4. path[i] = Position[i]
      BY <1>3
    <2>5. QED
      BY <2>2, <2>3, <2>4
  <1>8. Before(p, path)
    BY <1>2, <1>3, <1>4, <1>5, <1>6, <1>7, LeavesApart
  <1>9. Before(p, Position)
    BY <1>3, <1>5, <1>8
  <1>10. QED
    BY <1>1, <1>9 DEF RegenerationInvariant, TriedSoFar

LEMMA TryAgainStep == RegenerationInvariant /\ TryAgain => RegenerationInvariant'
  <1> SUFFICES ASSUME RegenerationInvariant, TryAgain PROVE RegenerationInvariant'
    OBVIOUS
  <1>0. /\ pc = "caught" /\ pc' = "begin" /\ Advanceable(agent) # {} /\ SameAgent
        /\ UNCHANGED <<path, decisions, tried>> /\ Increment(TRUE)
    BY DEF TryAgain, SameAgent, solver, Increment
  <1>1. Regenerating /\ Regenerating' /\ TypeOK /\ pc \in {"client", "caught"}
    BY <1>0 DEF Regenerating, RegenerationInvariant
  <1>2. IsChoiceTree(Tree, agent) /\ agent \in Agents /\ NumDecisions[agent] \in Nat
    BY <1>1, CallFacts
  <1> DEFINE b == Max(Advanceable(agent))
             c == IncrementAgent(agent)
  <1>3. /\ b \in Advanceable(agent) /\ b \in 1..NumDecisions[agent]
        /\ \A i \in Advanceable(agent) : i <= b
        /\ last_activity[agent] = "QUERY"
    BY <1>0, <1>1, AdvanceableFacts
  <1>4. /\ c \in [1..NumDecisions[agent] -> Choice]
        /\ \A i \in 1..NumDecisions[agent] :
               /\ i > b => c[i] = Begin
               /\ i = b => c[i] = Iter(Position[i] + 1)
               /\ i < b => c[i] = choices[agent][i]
    BY <1>0, <1>1, IncrementFacts
  <1> HIDE DEF b, c
  <1>5. choices' = [choices EXCEPT ![agent] = c]
    BY <1>0, <1>3 DEF Increment, c
  <1>6. /\ DOMAIN choices' = Agents /\ choices'[agent] = c
        /\ \A a \in Agents : choices'[a] \in [1..NumDecisions[a] -> Choice]
    BY <1>4, <1>5, ChoicesTypes
  <1>7. last_activity' \in [Agents -> {"NEW", "QUERY", "CONJECTURE"}]
    BY <1>0, <1>1 DEF Increment, TypeOK
  <1>8. TypeOK'
    BY <1>0, <1>1, <1>6, <1>7 DEF TypeOK, SameAgent, Choice
  (* The new position. *)
  <1> DEFINE s == Position
             t == [i \in 1..NumDecisions[agent] |-> At(c[i])]
  <1>9. Position' = t /\ Tree' = Tree /\ agent' = agent
    BY <1>0, <1>6 DEF Position, Tree, SameAgent
  <1>10. /\ s \in Seq(Nat) /\ Len(s) = NumDecisions[agent]
         /\ \A i \in 1..NumDecisions[agent] : s[i] = At(choices[agent][i]) /\ s[i] \in Nat
    BY <1>1, PositionFacts
  <1>11. t \in Seq(Nat) /\ Len(t) = NumDecisions[agent]
    <2>1. \A i \in 1..NumDecisions[agent] : At(c[i]) \in Nat
      BY <1>4, ChoiceFacts
    <2>2. t \in [1..NumDecisions[agent] -> Nat]
      BY <2>1
    <2>3. QED
      BY <1>2, <2>2
  <1>12. /\ \A i \in 1..NumDecisions[agent] : i < b => t[i] = s[i]
         /\ t[b] = s[b] + 1
         /\ \A i \in 1..NumDecisions[agent] : i > b => t[i] = 0
    <2>1. \A i \in 1..NumDecisions[agent] : t[i] = At(c[i])
      OBVIOUS
    <2>2. \A i \in 1..NumDecisions[agent] : i < b => t[i] = s[i]
      BY <1>4, <1>10, <2>1
    <2>3. s[b] + 1 \in Nat
      BY <1>3, <1>10
    <2>4. t[b] = s[b] + 1
      BY <1>3, <1>4, <2>1, <2>3, KindFacts
    <2>5. \A i \in 1..NumDecisions[agent] : i > b => t[i] = 0
      BY <1>4, <2>1, KindFacts
    <2>6. QED
      BY <2>2, <2>4, <2>5
  <1> HIDE DEF s, t
  <1>13. StepsOn(s, t, b)
    BY <1>3, <1>10, <1>11, <1>12 DEF StepsOn
  <1>14. /\ path \in Seq(Nat) /\ Len(path) \in 0..Len(s)
         /\ \A i \in 1..Len(path) : path[i] = s[i]
    BY <1>1, PathIsLeaf DEF s
  <1>15. b <= Len(path) /\ s[b] + 1 \in ChoicesOf(Tree[SubSeq(s, 1, b - 1)])
    BY <1>0, <1>3, AdvancesInRange DEF s
  <1>16. ChoicesFollow'
    <2>1. Follows(Tree, decisions[agent], s, Len(path))
      BY <1>1 DEF RegenerationInvariant, PathFollows, s
    <2>2. Follows(Tree, decisions[agent], t, b)
      <3> SUFFICES ASSUME NEW i \in 1..b
                   PROVE  /\ SubSeq(t, 1, i - 1) \in DOMAIN Tree
                          /\ Tree[SubSeq(t, 1, i - 1)].kind = "range"
                          /\ decisions[agent][i] = Tree[SubSeq(t, 1, i - 1)]
                          /\ t[i] \in ChoicesOf(Tree[SubSeq(t, 1, i - 1)])
        BY DEF Follows
      <3>1. i \in 1..NumDecisions[agent] /\ i \in 1..Len(path)
        BY <1>2, <1>3, <1>14, <1>15
      <3>2. SubSeq(t, 1, i - 1) = SubSeq(s, 1, i - 1)
        <4>1. i - 1 \in Nat /\ i - 1 <= Len(s) /\ i - 1 <= Len(t)
          BY <1>2, <1>10, <1>11, <3>1
        <4>2. \A j \in 1..(i - 1) : j \in 1..NumDecisions[agent] /\ j < b
          BY <1>2, <1>3
        <4>3. \A j \in 1..(i - 1) : s[j] = t[j]
          BY <1>12, <4>2
        <4>4. QED
          BY <1>10, <1>11, <4>1, <4>3, SamePrefix
      <3>3. /\ SubSeq(s, 1, i - 1) \in DOMAIN Tree
            /\ Tree[SubSeq(s, 1, i - 1)].kind = "range"
            /\ decisions[agent][i] = Tree[SubSeq(s, 1, i - 1)]
            /\ s[i] \in ChoicesOf(Tree[SubSeq(s, 1, i - 1)])
        BY <2>1, <3>1 DEF Follows
      <3>4. CASE i = b
        BY <1>12, <1>15, <3>2, <3>3, <3>4
      <3>5. CASE i # b
        <4>1. i < b
          BY <1>3, <3>5
        <4>2. t[i] = s[i]
          BY <1>12, <3>1, <4>1
        <4>3. QED
          BY <3>2, <3>3, <4>2
      <3>6. QED
        BY <3>4, <3>5
    <2>3. b \in 0..NumDecisions[agent]
      BY <1>2, <1>3
    <2>4. \A i \in 1..NumDecisions[agent] : i > b => choices'[agent][i] = Begin
      BY <1>4, <1>6
    <2>5. QED
      BY <1>0, <1>9, <2>2, <2>3, <2>4 DEF ChoicesFollow
  <1>17. PathFollows' /\ QueryEnded'
    BY <1>0 DEF PathFollows, QueryEnded
  <1>18. ASSUME NEW p \in tried PROVE Before(p, t)
    <2>1. p \in Seq(Nat)
      BY <1>1 DEF TypeOK
    <2>2. Before(p, s) \/ p = path
      BY <1>1 DEF RegenerationInvariant, TriedSoFar, s
    <2>3. CASE Before(p, s)
      BY <1>10, <1>11, <1>13, <2>1, <2>3, StepsOver
    <2>4. CASE p = path
      <3>1. b <= Len(p) /\ \A i \in 1..b : p[i] = s[i]
        <4>1. \A i \in 1..b : i \in 1..Len(path)
          BY <1>3, <1>14, <1>15
        <4>2. QED
          BY <1>14, <1>15, <2>4, <4>1
      <3>2. QED
        BY <1>10, <1>11, <1>13, <2>1, <3>1, StepsOver
    <2>5. QED
      BY <2>2, <2>3, <2>4
  <1>19. ASSUME NEW p \in Hits(basic, agent), p \notin tried PROVE ~ Before(p, t)
    <2> SUFFICES ASSUME Before(p, t) PROVE FALSE
      OBVIOUS
    <2>1. p \in Seq(Nat)
      BY <1>2 DEF Hits, Tree, IsChoiceTree
    <2>2. ~ Before(p, s)
      BY <1>1, <1>19 DEF RegenerationInvariant, TriedSoFar, s
    <2>3. b <= Len(p) /\ \A i \in 1..b : p[i] = s[i]
      BY <1>10, <1>11, <1>13, <2>1, <2>2, StepsOver
    <2>4. \A i \in 1..Len(path) : i <= Len(p) /\ i <= b => p[i] = path[i]
      <3> SUFFICES ASSUME NEW i \in 1..Len(path), i <= b PROVE p[i] = path[i]
        OBVIOUS
      <3>1. i \in 1..b
        BY <1>3
      <3>2. QED
        BY <1>14, <2>3, <3>1
    <2>5. \A i \in 1..NumDecisions[agent] : i > b => i \notin Advanceable(agent)
      BY <1>2, <1>3
    <2>6. b \in Nat
      BY <1>3
    <2>7. QED
      BY <1>0, <1>19, <2>4, <2>5, <2>6, NoHitLeft
  <1>20. TriedSoFar'
    BY <1>0, <1>1, <1>9, <1>18, <1>19 DEF RegenerationInvariant, TriedSoFar, SameAgent, Hits
  <1>21. QED
    BY <1>0, <1>1, <1>8, <1>16, <1>17, <1>20, SameAgentKeeps DEF RegenerationInvariant


(* When a conjecture gives up, every hit of the agent has been refused. *)
LEMMA AllHitsTried ==
    ASSUME RegenerationInvariant, pc = "caught", Advanceable(agent) = {}
    PROVE  Hits(basic, agent) \subseteq tried /\ ~ Regenerable(basic)
  <1>1. Regenerating /\ agent \in Agents
    BY CallFacts DEF Regenerating
  <1>2. ASSUME NEW p \in Hits(basic, agent), p \notin tried PROVE FALSE
    <2>1. \A i \in 1..Len(path) : i <= Len(p) /\ i <= 0 => p[i] = path[i]
      OBVIOUS
    <2>2. \A i \in 1..NumDecisions[agent] : i > 0 => i \notin Advanceable(agent)
      OBVIOUS
    <2>3. 0 \in Nat
      OBVIOUS
    <2>4. QED
      BY <1>2, <2>1, <2>2, <2>3, NoHitLeft
  <1>3. Hits(basic, agent) \subseteq tried
    BY <1>2
  <1>4. \A p \in tried : <<basic, agent, p>> \notin world.good
    BY <1>1 DEF RegenerationInvariant, TriedSoFar
  <1>5. ~ Regenerable(basic)
    BY <1>1, <1>3, <1>4 DEF Regenerable
  <1>6. QED
    BY <1>3, <1>5

LEMMA GiveUpStep == RegenerationInvariant /\ GiveUp => RegenerationInvariant'
  <1> SUFFICES ASSUME RegenerationInvariant, GiveUp PROVE RegenerationInvariant'
    OBVIOUS
  <1>0. /\ pc = "caught" /\ Increment(FALSE) /\ path' = <<>> /\ SolutionFails
        /\ UNCHANGED <<world, basic, agent, decisions, chosen, tried>>
    BY DEF GiveUp
  <1>1. Regenerating /\ TypeOK /\ Advanceable(agent) = {}
    BY <1>0 DEF Regenerating, RegenerationInvariant, Increment
  <1>2. basic \in goal \ reported /\ goal = world.goal /\ reported \subseteq goal
    BY <1>1, CallFacts DEF RegenerationInvariant, SolverInStep
  <1>3. /\ goal' = goal /\ reported' = reported \cup {basic}
        /\ \/ solver_phase' = "solving" /\ pc' = "solving"
           \/ solver_phase' = "done" /\ pc' = "returned" /\ reported' = goal'
    <2>1. /\ Solver!ReportAndContinue \/ Solver!Finish
          /\ reported' = reported \cup {basic}
          /\ pc' = IF solver_phase' = "done" THEN "returned" ELSE "solving"
      BY <1>0 DEF SolutionFails
    <2>2. CASE Solver!ReportAndContinue
      <3>1. solver_phase' = "solving" /\ goal' = goal
        BY <2>2 DEF Solver!ReportAndContinue, Solver!Report
      <3>2. QED
        BY <2>1, <3>1
    <2>3. CASE Solver!Finish
      <3>1. CASE reported = goal /\ UNCHANGED <<goal, reported>>
        BY <1>2, <2>1, <3>1
      <3>2. CASE Solver!Report({"started"}, "done") /\ reported' = goal
        BY <2>1, <3>2 DEF Solver!Report
      <3>3. QED
        BY <2>3, <3>1, <3>2 DEF Solver!Finish
    <2>4. QED
      BY <2>1, <2>2, <2>3
  <1>4. TypeOK'
    <2>1. \A a \in Agents : choices'[a] \in [1..NumDecisions[a] -> Choice]
      <3>1. CASE last_activity[agent] = "QUERY"
        <4>1. choices' = [choices EXCEPT ![agent] = IncrementAgent(agent)]
          BY <1>0, <3>1 DEF Increment
        <4>2. IncrementAgent(agent) \in [1..NumDecisions[agent] -> Choice]
          BY <1>1, IncrementFacts
        <4>3. QED
          BY <4>1, <4>2, ChoicesTypes
      <3>2. CASE last_activity[agent] # "QUERY"
        BY <1>0, <1>1, <3>2 DEF Increment, TypeOK, Choice
      <3>3. QED
        BY <3>1, <3>2
    <2>2. DOMAIN choices' = Agents
      BY <1>0, <1>1 DEF Increment, TypeOK
    <2>3. last_activity' \in [Agents -> {"NEW", "QUERY", "CONJECTURE"}]
      BY <1>0, <1>1 DEF Increment, TypeOK
    <2>4. path' \in Seq(Nat) /\ pc' \in {"solving", "returned"}
      BY <1>0, <1>3
    <2>5. QED
      BY <1>0, <1>1, <2>1, <2>2, <2>3, <2>4 DEF TypeOK, Choice
  <1>5. ~ Regenerating' /\ MatchIsReal' /\ MismatchIsReal'
    BY <1>3 DEF Regenerating, MatchIsReal, MismatchIsReal
  <1>6. SolverInStep'
    BY <1>0, <1>1, <1>2, <1>3, <1>5 DEF RegenerationInvariant, SolverInStep
  <1>7. GivenUpForCause'
    <2>1. ~ Regenerable(basic)
      BY <1>0, <1>1, AllHitsTried
    <2>2. \A s \in reported : ~ Regenerable(s)
      BY <1>0 DEF RegenerationInvariant, GivenUpForCause
    <2>3. \A s \in reported' : ~ Regenerable(s)
      BY <1>3, <2>1, <2>2
    <2>4. QED
      BY <1>0, <2>3 DEF GivenUpForCause, Regenerable, Hits
  <1>8. QED
    BY <1>4, <1>5, <1>6, <1>7, QuietPhase DEF RegenerationInvariant

(* The links of the agent that was accepted join those of the agents before. *)
LEMMA AcceptedFacts ==
    ASSUME RegenerationInvariant, Accepted
    PROVE  /\ Regenerating /\ agent \in Agents
           /\ path' = <<>> /\ chosen' = Append(chosen, path) /\ UNCHANGED <<world, basic>>
           /\ chosen' \in Seq(Seq(Nat)) /\ Len(chosen') = agent
           /\ \A a \in 1..agent : chosen'[a] \in Hits(basic, a)
                                  /\ <<basic, a, chosen'[a]>> \in world.good
  <1>0. /\ pc = "client" /\ <<basic, agent, path>> \in world.good
        /\ path' = <<>> /\ chosen' = Append(chosen, path) /\ UNCHANGED <<world, basic>>
    BY DEF Accepted
  <1>1. Regenerating /\ TypeOK /\ pc \in {"client", "caught"}
    BY <1>0 DEF Regenerating, RegenerationInvariant
  <1>2. agent \in Agents /\ chosen \in Seq(Seq(Nat)) /\ path \in Seq(Nat)
    BY <1>1 DEF TypeOK
  <1>3. agent \in Nat /\ agent >= 1
    BY <1>2, WorldsAssumption DEF Agents
  <1>4. /\ Len(chosen) = agent - 1
        /\ \A a \in 1..(agent - 1) :
               chosen[a] \in Hits(basic, a) /\ <<basic, a, chosen[a]>> \in world.good
    BY <1>1 DEF RegenerationInvariant, ChosenSoFar
  <1>5. path \in Hits(basic, agent)
    <2>1. path \in DOMAIN Tree /\ Reachable(Tree, path)
      BY <1>1, PathIsLeaf
    <2>2. Tree[path] = Hit
      BY <1>0 DEF RegenerationInvariant, QueryEnded
    <2>3. QED
      BY <2>1, <2>2 DEF Hits, Tree
  <1>6. chosen' \in Seq(Seq(Nat)) /\ Len(chosen') = agent
    BY <1>0, <1>2, <1>3, <1>4
  <1>7. \A a \in 1..agent : a # agent => a \in 1..(agent - 1) /\ chosen'[a] = chosen[a]
    BY <1>0, <1>2, <1>3, <1>4
  <1>8. chosen'[agent] = path
    BY <1>0, <1>2, <1>3, <1>4
  <1>9. QED
    BY <1>0, <1>1, <1>2, <1>4, <1>5, <1>6, <1>7, <1>8

LEMMA ClientAcceptsStep == RegenerationInvariant /\ ClientAccepts => RegenerationInvariant'
  <1> SUFFICES ASSUME RegenerationInvariant, ClientAccepts PROVE RegenerationInvariant'
    OBVIOUS
  <1>0. /\ Accepted /\ agent < N /\ agent' = agent + 1 /\ Start(agent + 1) /\ tried' = {}
        /\ pc' = "begin" /\ UNCHANGED <<solver_phase, goal, reported>>
    BY DEF ClientAccepts, solver
  <1>1. /\ Regenerating /\ agent \in Agents /\ TypeOK
        /\ path' = <<>> /\ UNCHANGED <<world, basic>>
        /\ chosen' \in Seq(Seq(Nat)) /\ Len(chosen') = agent
        /\ \A a \in 1..agent : chosen'[a] \in Hits(basic, a)
                               /\ <<basic, a, chosen'[a]>> \in world.good
    BY <1>0, AcceptedFacts DEF RegenerationInvariant
  <1>2. agent \in Nat /\ agent + 1 \in Agents /\ agent' - 1 = agent
    BY <1>0, <1>1, WorldsAssumption DEF Agents
  <1>3. /\ basic \in goal \ reported /\ \A a \in Agents : IsChoiceTree(world.ask[basic][a], a)
    BY <1>1, CallFacts
  <1>4. TypeOK'
    <2>1. path' \in Seq(Nat) /\ tried' \subseteq Seq(Nat) /\ basic' \in Solution
      BY <1>0, <1>1 DEF TypeOK
    <2>2. QED
      BY <1>0, <1>1, <1>2, <2>1, StartTypes DEF TypeOK, Choice
  <1>5. ChoicesFollow' /\ PathFollows' /\ QueryEnded' /\ TriedSoFar'
    <2> DEFINE a == agent + 1
    <2>1. choices'[a] = AllBegin(a)
      BY <1>0, <1>2, StartTypes
    <2>2. IsChoiceTree(world'.ask[basic'][a], a) /\ basic' \in goal' \ reported'
      BY <1>0, <1>1, <1>2, <1>3
    <2>3. a \in Agents /\ agent' = a
      BY <1>0, <1>2
    <2> HIDE DEF a
    <2>4. QED
      BY <1>0, <1>4, <2>1, <2>2, <2>3, AgentStarts
  <1>6. ChosenSoFar'
    <2>1. Len(chosen') = agent' - 1
      BY <1>1, <1>2
    <2>2. \A a \in 1..(agent' - 1) : chosen'[a] \in Hits(basic, a)'
                                    /\ <<basic', a, chosen'[a]>> \in world'.good
      BY <1>1, <1>2 DEF Hits
    <2>3. QED
      BY <2>1, <2>2 DEF ChosenSoFar
  <1>7. SolverInStep'
    BY <1>0, <1>1 DEF RegenerationInvariant, SolverInStep, Regenerating
  <1>8. GivenUpForCause'
    BY <1>0, <1>1 DEF RegenerationInvariant, GivenUpForCause, Regenerating, Regenerable, Hits
  <1>9. MatchIsReal' /\ MismatchIsReal'
    BY <1>0 DEF MatchIsReal, MismatchIsReal
  <1>10. QED
    BY <1>4, <1>5, <1>6, <1>7, <1>8, <1>9 DEF RegenerationInvariant

LEMMA SuccessfulMatchStep == RegenerationInvariant /\ SuccessfulMatch => RegenerationInvariant'
  <1> SUFFICES ASSUME RegenerationInvariant, SuccessfulMatch PROVE RegenerationInvariant'
    OBVIOUS
  <1>0. /\ Accepted /\ agent = N /\ Solver!ReportAndAbort /\ reported' = reported \cup {basic}
        /\ tried' = tried \cup {path} /\ pc' = "thrown"
        /\ UNCHANGED <<agent, choices, decisions, last_activity>>
    BY DEF SuccessfulMatch, conjecture
  <1>1. /\ Regenerating /\ agent \in Agents /\ TypeOK
        /\ path' = <<>> /\ UNCHANGED <<world, basic>>
        /\ chosen' \in Seq(Seq(Nat)) /\ Len(chosen') = agent
        /\ \A a \in 1..agent : chosen'[a] \in Hits(basic, a)
                               /\ <<basic, a, chosen'[a]>> \in world.good
    BY <1>0, AcceptedFacts DEF RegenerationInvariant
  <1>2. solver_phase' = "aborted" /\ goal' = goal
    BY <1>0 DEF Solver!ReportAndAbort, Solver!Report
  <1>3. basic \in goal /\ goal = world.goal
    BY <1>1, CallFacts
  <1>4. TypeOK'
    <2>1. path' \in Seq(Nat) /\ tried' \subseteq Seq(Nat) /\ basic' \in Solution
          /\ last_activity' \in [Agents -> {"NEW", "QUERY", "CONJECTURE"}]
      BY <1>0, <1>1 DEF TypeOK
    <2>2. QED
      BY <1>0, <1>1, <2>1, PlainTypes
  <1>5. SolverInStep'
    BY <1>0, <1>1, <1>2, <1>3 DEF RegenerationInvariant, SolverInStep, Regenerating
  <1>6. GivenUpForCause' /\ ~ Regenerating' /\ MismatchIsReal'
    BY <1>0 DEF GivenUpForCause, Regenerating, MismatchIsReal
  <1>7. MatchIsReal'
    <2>1. \A a \in Agents : chosen'[a] \in Hits(basic, a)'
                            /\ <<basic', a, chosen'[a]>> \in world'.good
      BY <1>0, <1>1 DEF Hits, Agents
    <2>2. basic' \in world'.goal /\ Len(chosen') = N
      BY <1>0, <1>1, <1>3
    <2>3. QED
      BY <2>1, <2>2 DEF MatchIsReal
  <1>8. QED
    BY <1>4, <1>5, <1>6, <1>7, QuietPhase DEF RegenerationInvariant

-----------------------------------------------------------------------------
(* The theorems.                                                           *)

LEMMA StutterKeeps == RegenerationInvariant /\ UNCHANGED vars => RegenerationInvariant'
  <1> SUFFICES ASSUME RegenerationInvariant, UNCHANGED vars PROVE RegenerationInvariant'
    OBVIOUS
  <1> USE DEF vars, solver, conjecture, RegenerationInvariant
  <1>1. TypeOK'
    BY DEF TypeOK
  <1>2. SolverInStep'
    BY DEF SolverInStep, Regenerating
  <1>3. GivenUpForCause'
    BY DEF GivenUpForCause, Regenerable, Hits
  <1>4. Regenerating' = Regenerating /\ Tree' = Tree /\ Position' = Position
    BY DEF Regenerating, Tree, Position
  <1>5. ChoicesFollow' /\ PathFollows' /\ QueryEnded'
    BY <1>4 DEF ChoicesFollow, PathFollows, QueryEnded
  <1>6. TriedSoFar'
    BY <1>4 DEF TriedSoFar, Hits
  <1>7. ChosenSoFar'
    BY <1>4 DEF ChosenSoFar, Hits
  <1>8. MatchIsReal' /\ MismatchIsReal'
    BY DEF MatchIsReal, MismatchIsReal, Regenerable, Hits
  <1>9. QED
    BY <1>1, <1>2, <1>3, <1>5, <1>6, <1>7, <1>8

LEMMA NextKeeps == RegenerationInvariant /\ [Next]_vars => RegenerationInvariant'
  BY CompareStep, RunSolverStep, OnSolutionStep, SolverReturnsStep, StopSolverStep, ReturnStep,
     BeginQueryStep, RegisterDecisionStep, QueryReturnsStep, QueryThrowsStep, ClientRejectsStep,
     TryAgainStep, GiveUpStep, ClientAcceptsStep, SuccessfulMatchStep, StutterKeeps
  DEF Next, Running

(* The conjectures, the path of the query, the links found so far and the  *)
(* solver agree at every step of every call of Compare(), whatever trees   *)
(* of choices the calls meet one after the other.                          *)
THEOREM RegenerationInvariantHolds == Spec => []RegenerationInvariant
  BY InitHolds, NextKeeps, PTL DEF Spec

(* A match that Compare() returns is one solution with accepted links of   *)
(* every agent, all found for that solution.                               *)
THEOREM MatchesAreReal == Spec => []MatchIsReal
  <1>1. RegenerationInvariant => MatchIsReal
    BY DEF RegenerationInvariant
  <1>2. QED
    BY <1>1, RegenerationInvariantHolds, PTL

(* Compare() throws a mismatch only when no solution can be regenerated.   *)
THEOREM MismatchesAreReal == Spec => []MismatchIsReal
  <1>1. RegenerationInvariant => MismatchIsReal
    BY DEF RegenerationInvariant
  <1>2. QED
    BY <1>1, RegenerationInvariantHolds, PTL

(* RegisterDecision() never applies an iterator to a range it is not from, *)
(* nor to the end of an exclusive range.                                   *)
THEOREM IteratorsStayValid == Spec => []IteratorsValid
  <1>1. RegenerationInvariant => IteratorsValid
    <2> SUFFICES ASSUME RegenerationInvariant, pc = "query", Tree[path].kind = "range"
                 PROVE  /\ choices[agent][Len(path) + 1].mode = "ITER" =>
                               decisions[agent][Len(path) + 1] = Tree[path]
                        /\ At(choices[agent][Len(path) + 1]) \in ChoicesOf(Tree[path])
      BY DEF IteratorsValid, Asked, Tree
    <2> DEFINE n == Len(path) + 1
    <2>1. Regenerating /\ TypeOK
      BY DEF Regenerating, RegenerationInvariant
    <2>2. IsChoiceTree(Tree, agent) /\ agent \in Agents /\ NumDecisions[agent] \in Nat
      BY <2>1, CallFacts
    <2>3. path = SubSeq(Position, 1, Len(path)) /\ path \in DOMAIN Tree
      BY DEF RegenerationInvariant, PathFollows
    <2>4. path \in Seq(Nat) /\ Len(path) < NumDecisions[agent] /\ 0 \in ChoicesOf(Tree[path])
      BY <2>2, <2>3, TreeNode
    <2>5. n \in 1..NumDecisions[agent] /\ n - 1 = Len(path)
      BY <2>2, <2>4
    <2>6. PICK k \in 0..NumDecisions[agent] :
              /\ Follows(Tree, decisions[agent], Position, k)
              /\ \A i \in 1..NumDecisions[agent] : i > k => choices[agent][i] = Begin
      BY <2>1 DEF RegenerationInvariant, ChoicesFollow
    <2>7. Position[n] = At(choices[agent][n])
      BY <2>1, <2>5, PositionFacts
    <2> HIDE DEF n
    <2>8. SubSeq(Position, 1, n - 1) = path
      BY <2>3, <2>5
    <2>9. CASE n > k
      <3>1. choices[agent][n] = Begin
        BY <2>5, <2>6, <2>9
      <3>2. choices[agent][n].mode # "ITER" /\ At(choices[agent][n]) = 0
        BY <3>1, KindFacts DEF Begin
      <3>3. QED
        BY <2>4, <3>2 DEF n
    <2>10. CASE ~ (n > k)
      <3>1. n \in 1..k
        BY <2>2, <2>5, <2>10
      <3>2. decisions[agent][n] = Tree[path] /\ Position[n] \in ChoicesOf(Tree[path])
        BY <2>6, <2>8, <3>1 DEF Follows
      <3>3. QED
        BY <2>7, <3>2 DEF n
    <2>11. QED
      BY <2>9, <2>10
  <1>2. QED
    BY <1>1, RegenerationInvariantHolds, PTL

(* The combinations of one agent are tried in order, so none twice, and no *)
(* conjecture gives up before all have been.                               *)
THEOREM AllAreTried == Spec => TriesAll
  <1>1. RegenerationInvariant /\ RegenerationInvariant' /\ [Next]_vars =>
            [/\ GiveUp => Hits(basic, agent) \subseteq tried
             /\ pc' = "client" => \A p \in tried' : Before(p, path')]_vars
    <2> SUFFICES ASSUME RegenerationInvariant, RegenerationInvariant', Next
                 PROVE  /\ GiveUp => Hits(basic, agent) \subseteq tried
                        /\ pc' = "client" => \A p \in tried' : Before(p, path')
      OBVIOUS
    <2>1. ASSUME GiveUp PROVE Hits(basic, agent) \subseteq tried
      BY <2>1, AllHitsTried DEF GiveUp, Increment
    <2>2. ASSUME pc' = "client" PROVE \A p \in tried' : Before(p, path')
      <3>1. QueryReturns
        BY <2>2 DEF Next, Running, Compare, RunSolver, OnSolution, SolverReturns, StopSolver,
            Return, BeginQuery, RegisterDecision, QueryThrows, ClientRejects, TryAgain,
            GiveUp, SolutionFails, ClientAccepts, SuccessfulMatch
      <3>2. /\ pc = "query" /\ Tree[path] = Hit /\ SameAgent
            /\ UNCHANGED <<path, choices, tried>>
        BY <3>1 DEF QueryReturns, SameAgent, solver, Asked, Tree
      <3>3. Regenerating /\ TypeOK /\ Tree[path].kind # "range"
        BY <3>2, KindFacts DEF Regenerating, RegenerationInvariant
      <3>4. \A p \in tried : p \in Seq(Nat) /\ Before(p, Position)
        BY <3>2, <3>3 DEF RegenerationInvariant, TriedSoFar, TypeOK
      <3>5. /\ path = SubSeq(Position, 1, Len(path)) /\ Len(path) <= NumDecisions[agent]
            /\ path \in Seq(Nat)
        BY <3>2, <3>3 DEF RegenerationInvariant, PathFollows, TypeOK
      <3>6. /\ Position \in Seq(Nat) /\ Len(Position) = NumDecisions[agent]
            /\ NumDecisions[agent] \in Nat
        BY <3>3, PositionFacts
      <3>7. \A i \in 1..Len(Position) : i > Len(path) => Position[i] = 0
        BY <3>2, <3>3, <3>6, EndOfPath
      <3>8. Len(path) \in 0..Len(Position)
        BY <3>5, <3>6
      <3>9. \A p \in tried : Before(p, SubSeq(Position, 1, Len(path)))
        BY <3>4, <3>6, <3>7, <3>8, BeforePath
      <3>10. QED
        BY <3>2, <3>5, <3>9
    <2>3. QED
      BY <2>1, <2>2
  <1>2. QED
    BY <1>1, RegenerationInvariantHolds, PTL DEF Spec, TriesAll
=============================================================================
