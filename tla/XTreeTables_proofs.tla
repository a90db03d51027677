------------------------- MODULE XTreeTables_proofs -------------------------
(****************************************************************************)
(* Proof that the tables and the orderings of XTreeTables always come out   *)
(* as the trees have it, whatever is built, torn down and swapped, and that *)
(* no step on them meets an ASSERT or a std::set out of order. The tables   *)
(* come first (IInv); the orderings, whose relations read the tables and    *)
(* the trees, rest on that (OInv).                                          *)
(****************************************************************************)
EXTENDS XTreeTables, TreeZones_proofs

-----------------------------------------------------------------------------
(* Links are what is reached. *)

LEMMA WalkOfAll ==
  ASSUME NEW m, Wooded(m)
  PROVE  \A s \in DOMAIN m.at : ZoneLinks(m, s, ToSet(<<>>)) = Reach(SlotsBelow(m), {s})
  <1> DEFINE kids == SlotsBelow(m)
             Is(g) == g = [q \in DOMAIN m.at |->
                            IF q \in ToSet(<<>>) THEN {q}
                            ELSE {q} \cup UNION {g[r] : r \in ToSet(m.slots[m.at[q]])}]
             links == CHOOSE g : Is(g)
  <1>1. IsKids(kids) /\ DOMAIN kids = DOMAIN m.at
    BY SlotBelow DEF Wooded
  <1>2. \A q \in DOMAIN m.at : q \notin ToSet(<<>>) /\ kids[q] = ToSet(m.slots[m.at[q]])
    BY DEF ToSet, SlotsBelow
  <1>3. \A g : Is(g) <=> WalksDown(kids, g)
    BY <1>1, <1>2 DEF WalksDown
  <1>4. \E g : Is(g)
    BY <1>1, <1>3, WalkExists
  <1>5. Is(links)
    <2> HIDE DEF Is
    <2>1. QED
      BY <1>4
  <1>6. \A s \in DOMAIN m.at : ZoneLinks(m, s, ToSet(<<>>)) = links[s]
    BY Zenon DEF ZoneLinks
  <1>7. WalksDown(kids, links)
    <2> HIDE DEF Is, links, kids
    <2>1. QED
      BY <1>3, <1>5
  <1> HIDE DEF links, kids
  <1>8. \A s \in DOMAIN kids : links[s] = Reach(kids, {s})
    <2>1. Forest(kids, RootSlots(m)) /\ IsFiniteSet(DOMAIN kids)
      BY <1>1 DEF Wooded, SlotsPlaced, kids
    <2>2. QED
      BY <2>1, <1>7, WalkIsReach
  <1>9. QED
    BY <1>1, <1>6, <1>8 DEF kids

LEMMA LinksOfTrees ==
  ASSUME Wooded(mem)
  PROVE  /\ \A z : z.base \in DOMAIN mem.at /\ z.term = <<>> => Links(z) = Reach(SlotsBelow(mem), {z.base})
         /\ \A t : <<0, t>> \in DOMAIN mem.at => Links(WholeTree(t)) = Reach(SlotsBelow(mem), {<<0, t>>})
         /\ LiveLinks = Live(mem)
         /\ \A t \in DOMAIN mem.type : <<0, t>> \in DOMAIN mem.at
  <1>1. \A z : z.base \in DOMAIN mem.at /\ z.term = <<>> => Links(z) = Reach(SlotsBelow(mem), {z.base})
    BY WalkOfAll DEF Links
  <1>2. \A t : <<0, t>> \in DOMAIN mem.at => Links(WholeTree(t)) = Reach(SlotsBelow(mem), {<<0, t>>})
    <2>1. \A t : WholeTree(t).base = <<0, t>> /\ WholeTree(t).term = <<>>
      BY DEF WholeTree
    <2>2. QED
      BY <1>1, <2>1
  <1>3. \A t \in DOMAIN mem.type : <<0, t>> \in DOMAIN mem.at
    BY DEF Wooded, TreesNumbered
  <1>4. LiveLinks = Live(mem)
    <2> DEFINE A == {<<0, t>> : t \in DOMAIN mem.type}
    <2>1. IsKids(SlotsBelow(mem)) /\ A \in SUBSET DOMAIN SlotsBelow(mem)
      BY <1>3, SlotBelow DEF Wooded
    <2>2. Live(mem) = UNION {Reach(SlotsBelow(mem), {a}) : a \in A}
      <3> HIDE DEF A
      <3>1. Reach(SlotsBelow(mem), A) = UNION {Reach(SlotsBelow(mem), {a}) : a \in A}
        BY <2>1, ReachIsUnion
      <3>2. QED
        BY <3>1 DEF Live, A
    <2>3. \A s : s \in LiveLinks <=> \E t \in DOMAIN mem.type : s \in Links(WholeTree(t))
      BY DEF LiveLinks
    <2>4. \A s : s \in Live(mem) <=> \E t \in DOMAIN mem.type : s \in Reach(SlotsBelow(mem), {<<0, t>>})
      BY <2>2
    <2>5. \A s : s \in LiveLinks <=> s \in Live(mem)
      BY <2>3, <2>4, <1>2, <1>3
    <2>6. QED
      BY <2>5
  <1>5. QED
    BY <1>1, <1>2, <1>3, <1>4

-----------------------------------------------------------------------------
(* What the tables should have for a set of links. *)

Declares(m, s) == s[1] # 0 /\ m.label[s[1]] = Declarer /\ Position(s, m.slots[s[1]]) = 1

RowsOf(m, S) == [s \in S |-> RowOf(m, s)]

NodesOf(m, S) ==
  [n \in {m.at[s] : s \in S} |->
     [incoming |-> {s \in S : m.at[s] = n}, declaring |-> {s \in S : m.at[s] = n /\ Declares(m, s)}]]

\* The links S have their rows.
Rowed(S) == \A s \in S : s \in DOMAIN rows /\ rows[s] = RowOf(mem, s)

LEMMA DeclaresByRow ==
  ASSUME SlotsPlaced(mem), NEW S \in SUBSET DOMAIN mem.at, Rowed(S)
  PROVE  \A s \in S : IsDeclarer(s) <=> Declares(mem, s)
  <1>1. TAKE s \in S
  <1>2. rows[s] = RowOf(mem, s)
    BY DEF Rowed
  <1>3. CASE s[1] = 0
    BY <1>2, <1>3 DEF RowOf, IsDeclarer, Declares
  <1>4. CASE s[1] # 0
    <2>1. rows[s].parent = s[1] /\ rows[s].pos = Position(s, mem.slots[s[1]])
      BY <1>2, <1>4 DEF RowOf
    <2>2. QED
      BY <2>1, <1>4 DEF IsDeclarer, Declares, Null
  <1>5. QED
    BY <1>3, <1>4

LEMMA LinksInserted ==
  ASSUME NEW R, NEW S, R \cap S = {}, nodes = NodesOf(mem, R),
         \A s \in S : s \in DOMAIN rows /\ (IsDeclarer(s) <=> Declares(mem, s))
  PROVE  CanInsertLinks(S) /\ InsertLinks(S) = NodesOf(mem, R \cup S)
  <1> DEFINE at(s) == mem.at[s]
             N(T) == {at(s) : s \in T}
             In(T, n) == {s \in T : at(s) = n}
             De(T, n) == {s \in T : at(s) = n /\ Declares(mem, s)}
             old(n) == IF n \in DOMAIN nodes THEN nodes[n] ELSE [incoming |-> {}, declaring |-> {}]
             new(n) == {s \in S : mem.at[s] = n}
  <1>1. DOMAIN nodes = N(R) /\ \A n \in N(R) : nodes[n].incoming = In(R, n) /\ nodes[n].declaring = De(R, n)
    BY DEF NodesOf
  <1>2. CanInsertLinks(S)
    <2>1. SUFFICES ASSUME NEW s \in S, mem.at[s] \in DOMAIN nodes
                   PROVE  s \notin nodes[mem.at[s]].incoming
      BY DEF CanInsertLinks
    <2>2. nodes[mem.at[s]].incoming = In(R, mem.at[s])
      BY <2>1, <1>1
    <2>3. QED
      BY <2>2
  <1>3. \A n : old(n).incoming = In(R, n) /\ old(n).declaring = De(R, n)
    <2>1. TAKE n
    <2>2. CASE n \in N(R)
      BY <2>2, <1>1
    <2>3. CASE n \notin N(R)
      <3>1. In(R, n) = {} /\ De(R, n) = {}
        BY <2>3
      <3>2. n \notin DOMAIN nodes
        BY <2>3, <1>1
      <3>3. QED
        BY <3>1, <3>2
    <2>4. QED
      BY <2>2, <2>3
  <1>4. \A n : /\ old(n).incoming \cup new(n) = In(R \cup S, n)
              /\ old(n).declaring \cup {s \in new(n) : IsDeclarer(s)} = De(R \cup S, n)
    <2>1. TAKE n
    <2>2. In(R, n) \cup new(n) = In(R \cup S, n)
      OBVIOUS
    <2>3. De(R, n) \cup {s \in new(n) : IsDeclarer(s)} = De(R \cup S, n)
      OBVIOUS
    <2> HIDE DEF old, new, In, De
    <2>4. QED
      BY <1>3, <2>2, <2>3
  <1> DEFINE added == [n \in {mem.at[s] : s \in S} |->
                         [incoming |-> old(n).incoming \cup new(n),
                          declaring |-> old(n).declaring \cup {s \in new(n) : IsDeclarer(s)}]]
  <1>5. added = [n \in N(S) |-> [incoming |-> In(R \cup S, n), declaring |-> De(R \cup S, n)]]
    <2> HIDE DEF old, new, In, De
    <2>1. \A n \in N(S) : [incoming |-> old(n).incoming \cup new(n),
                           declaring |-> old(n).declaring \cup {s \in new(n) : IsDeclarer(s)}]
                        = [incoming |-> In(R \cup S, n), declaring |-> De(R \cup S, n)]
      BY <1>4
    <2>2. QED
      BY <2>1
  <1>6. InsertLinks(S) = Overlay(added, nodes)
    BY DEF InsertLinks
  <1>7. \A n \in N(R) \ N(S) : nodes[n] = [incoming |-> In(R \cup S, n), declaring |-> De(R \cup S, n)]
    <2>1. TAKE n \in N(R) \ N(S)
    <2>2. In(R, n) = In(R \cup S, n) /\ De(R, n) = De(R \cup S, n)
      OBVIOUS
    <2>3. nodes[n] = [incoming |-> In(R, n), declaring |-> De(R, n)]
      BY DEF NodesOf
    <2>4. QED
      BY <2>2, <2>3
  <1>8. N(R \cup S) = N(R) \cup N(S)
    OBVIOUS
  <1>9. NodesOf(mem, R \cup S) = [n \in N(R \cup S) |-> [incoming |-> In(R \cup S, n), declaring |-> De(R \cup S, n)]]
    BY DEF NodesOf
  <1> HIDE DEF added, In, De, N
  <1>10. Overlay(added, nodes) = [n \in N(R) \cup N(S) |-> IF n \in N(S) THEN added[n] ELSE nodes[n]]
    BY <1>1, <1>5 DEF Overlay
  <1>11. Overlay(added, nodes) = [n \in N(R) \cup N(S) |-> [incoming |-> In(R \cup S, n), declaring |-> De(R \cup S, n)]]
    BY <1>5, <1>7, <1>10
  <1>12. QED
    BY <1>2, <1>6, <1>8, <1>9, <1>11

LEMMA LinksDeleted ==
  ASSUME NEW R, NEW S \in SUBSET R, nodes = NodesOf(mem, R),
         \A s \in S : s \in DOMAIN rows /\ (IsDeclarer(s) <=> Declares(mem, s))
  PROVE  CanDeleteLinks(S) /\ DeleteLinks(S) = NodesOf(mem, R \ S)
  <1> DEFINE at(s) == mem.at[s]
             N(T) == {at(s) : s \in T}
             In(T, n) == {s \in T : at(s) = n}
             De(T, n) == {s \in T : at(s) = n /\ Declares(mem, s)}
             left == {n \in DOMAIN nodes : ~(nodes[n].incoming \subseteq S)}
  <1>1. DOMAIN nodes = N(R) /\ \A n \in N(R) : nodes[n].incoming = In(R, n) /\ nodes[n].declaring = De(R, n)
    BY DEF NodesOf
  <1>2. CanDeleteLinks(S)
    <2>1. SUFFICES ASSUME NEW s \in S
                   PROVE  /\ mem.at[s] \in DOMAIN nodes /\ s \in nodes[mem.at[s]].incoming
                          /\ Declares(mem, s) => s \in nodes[mem.at[s]].declaring
      BY DEF CanDeleteLinks
    <2>2. mem.at[s] \in N(R)
      OBVIOUS
    <2>3. nodes[mem.at[s]].incoming = In(R, mem.at[s]) /\ nodes[mem.at[s]].declaring = De(R, mem.at[s])
      BY <2>2, <1>1
    <2>4. QED
      BY <2>2, <2>3, <1>1
  <1>3. left = N(R \ S)
    <2>1. \A n \in N(R) : nodes[n].incoming = In(R, n)
      BY <1>1
    <2>2. \A n \in N(R) : ~(In(R, n) \subseteq S) <=> n \in N(R \ S)
      OBVIOUS
    <2>3. N(R \ S) \subseteq N(R)
      OBVIOUS
    <2>4. QED
      BY <2>1, <2>2, <2>3, <1>1
  <1>4. \A n \in left : nodes[n].incoming \ S = In(R \ S, n) /\ nodes[n].declaring \ S = De(R \ S, n)
    <2>1. TAKE n \in left
    <2>2. nodes[n].incoming = In(R, n) /\ nodes[n].declaring = De(R, n)
      BY <1>1
    <2>3. In(R, n) \ S = In(R \ S, n) /\ De(R, n) \ S = De(R \ S, n)
      OBVIOUS
    <2>4. QED
      BY <2>2, <2>3
  <1>5. DeleteLinks(S) = [n \in left |-> [incoming |-> nodes[n].incoming \ S, declaring |-> nodes[n].declaring \ S]]
    BY DEF DeleteLinks
  <1>6. NodesOf(mem, R \ S) = [n \in N(R \ S) |-> [incoming |-> In(R \ S, n), declaring |-> De(R \ S, n)]]
    BY DEF NodesOf
  <1> HIDE DEF left, In, De, N
  <1>7. QED
    BY <1>2, <1>3, <1>4, <1>5, <1>6

\* The tables for links that a change of memory does not concern are the same.
LEMMA SameTables ==
  ASSUME NEW m, NEW n, SlotsPlaced(m), NEW S \in SUBSET DOMAIN m.at,
         \A s \in S : n.at[s] = m.at[s],
         \A k \in 1..Len(m.label) : n.label[k] = m.label[k] /\ n.slots[k] = m.slots[k]
  PROVE  RowsOf(n, S) = RowsOf(m, S) /\ NodesOf(n, S) = NodesOf(m, S)
  <1>1. \A s \in S : s[1] # 0 => s[1] \in 1..Len(m.label)
    BY DEF SlotsPlaced
  <1>2. \A s \in S : RowOf(n, s) = RowOf(m, s) /\ (Declares(n, s) <=> Declares(m, s))
    BY <1>1 DEF RowOf, Declares
  <1>3. RowsOf(n, S) = RowsOf(m, S)
    BY <1>2 DEF RowsOf
  <1>4. {n.at[s] : s \in S} = {m.at[s] : s \in S}
    OBVIOUS
  <1>5. \A k : /\ {s \in S : n.at[s] = k} = {s \in S : m.at[s] = k}
              /\ {s \in S : n.at[s] = k /\ Declares(n, s)} = {s \in S : m.at[s] = k /\ Declares(m, s)}
    BY <1>2
  <1>6. NodesOf(n, S) = NodesOf(m, S)
    BY <1>4, <1>5 DEF NodesOf
  <1>7. QED
    BY <1>3, <1>6

-----------------------------------------------------------------------------
(* A tree is built. *)

IdentifiersFirst(m) ==
  Len(Identifiers) <= Len(m.label) /\ \A n \in DOMAIN Identifiers : m.slots[n] = <<>>

\* Memory n is m with a tree t of the given shape.
Grown(m, shape, t, n) ==
  LET a == Len(m.label)
      b == Len(shape.label)
  IN /\ DOMAIN n = {"label", "slots", "at", "type", "freed"}
     /\ n.label \in Seq(Nat) /\ Len(n.label) = a + b /\ \A k \in 1..a : n.label[k] = m.label[k]
     /\ n.slots \in [1..(a + b) -> Seq(Slots)] /\ \A k \in 1..a : n.slots[k] = m.slots[k]
     /\ \A k \in 1..b : /\ DOMAIN n.slots[a + k] = DOMAIN shape.kids[k]
                        /\ \A i \in DOMAIN shape.kids[k] : n.slots[a + k][i] = <<a + k, i>>
     /\ DOMAIN n.at = DOMAIN m.at \cup (UNION {ToSet(n.slots[a + k]) : k \in 1..b}) \cup {<<0, t>>}
     /\ \A s \in DOMAIN m.at : n.at[s] = m.at[s]
     /\ \A k \in 1..b : \A i \in DOMAIN shape.kids[k] : n.at[<<a + k, i>>] = Place(m, shape.kids[k][i])
     /\ n.at[<<0, t>>] = Place(m, shape.root)
     /\ DOMAIN n.type = DOMAIN m.type \cup {t} /\ n.at = [s \in DOMAIN n.at |-> n.at[s]]

LEMMA RootsCounted ==
  ASSUME NEW m, NEW T \in Nat, RootSlots(m) = {<<0, t>> : t \in 1..T}
  PROVE  NewestTree(m) = T
  <1> DEFINE f == [t \in 1..T |-> <<0, t>>]
  <1>1. f \in Surjection(1..T, RootSlots(m)) /\ f \in Injection(1..T, RootSlots(m))
    BY DEF Surjection, Injection, IsInjective
  <1>2. IsFiniteSet(1..T) /\ Cardinality(1..T) = T
    BY FS_Interval
  <1>3. Cardinality(RootSlots(m)) = T
    BY <1>1, <1>2, FS_Surjection
  <1>4. QED
    BY <1>3 DEF NewestTree, RootSlots

LEMMA NewSlot ==
  ASSUME NEW m, Wooded(m), NEW shape, NEW k \in 1..Len(shape.label), NEW i
  PROVE  <<Len(m.label) + k, i>> \notin DOMAIN m.at
  <1>1. Len(m.label) \in Nat
    BY DEF Wooded, SlotsPlaced
  <1>2. SUFFICES ASSUME <<Len(m.label) + k, i>> \in DOMAIN m.at PROVE FALSE
    OBVIOUS
  <1>3. Len(m.label) + k # 0 /\ Len(m.label) + k \notin 1..Len(m.label)
    BY <1>1
  <1>4. QED
    BY <1>2, <1>3 DEF Wooded, SlotsPlaced

LEMMA ShapeParts ==
  ASSUME ShapesAssumption, NEW shape \in Shapes
  PROVE  /\ Len(Identifiers) \in Nat /\ Len(shape.label) \in Nat /\ shape.label \in Seq(Nat)
         /\ DOMAIN Identifiers = 1..Len(Identifiers)
         /\ DOMAIN shape.kids = 1..Len(shape.label)
         /\ \A k \in 1..Len(shape.label) :
              /\ shape.kids[k] \in Seq(1..(Len(Identifiers) + Len(shape.label)))
              /\ \A i \in DOMAIN shape.kids[k] : shape.kids[k][i] \in 1..(Len(Identifiers) + Len(shape.label))
         /\ \/ Len(shape.label) > 0 /\ shape.root = Len(Identifiers) + 1
            \/ Len(shape.label) = 0 /\ shape.root \in DOMAIN Identifiers
         /\ IsShape(shape)
  <1> DEFINE K == 1..(Len(Identifiers) + Len(shape.label))
  <1>1. IsShape(shape) /\ Identifiers \in Seq(Nat)
    BY DEF ShapesAssumption
  <1>2. Len(Identifiers) \in Nat /\ DOMAIN Identifiers = 1..Len(Identifiers)
    BY <1>1
  <1>3. shape.label \in Seq(Nat) /\ Len(shape.label) \in Nat
    BY <1>1 DEF IsShape
  <1>4. shape.kids \in Seq(Seq(K)) /\ Len(shape.kids) = Len(shape.label)
    BY <1>1 DEF IsShape
  <1>5. DOMAIN shape.kids = 1..Len(shape.label)
    BY <1>4
  <1>6. ASSUME NEW k \in 1..Len(shape.label)
        PROVE  shape.kids[k] \in Seq(K) /\ \A i \in DOMAIN shape.kids[k] : shape.kids[k][i] \in K
    <2> HIDE DEF K
    <2>1. shape.kids[k] \in Seq(K)
      BY <1>4, <1>5
    <2> DEFINE row == shape.kids[k]
    <2>2. row \in Seq(K)
      BY <2>1
    <2> HIDE DEF row
    <2>3. \A i \in DOMAIN row : row[i] \in K
      BY <2>2
    <2>4. QED
      BY <2>1, <2>3 DEF row
  <1>7. \/ Len(shape.label) > 0 /\ shape.root = Len(Identifiers) + 1
        \/ Len(shape.label) = 0 /\ shape.root \in DOMAIN Identifiers
    <2>1. shape.label # <<>> => Len(shape.label) > 0
      BY <1>3
    <2>2. shape.label = <<>> => Len(shape.label) = 0
      BY <1>3
    <2>3. QED
      BY <1>1, <2>1, <2>2 DEF IsShape
  <1>8. QED
    BY <1>1, <1>2, <1>3, <1>5, <1>6, <1>7

LEMMA Lists ==
  ASSUME NEW S, NEW n \in Nat, NEW f
  PROVE  f \in [1..n -> S] <=> f \in Seq(S) /\ Len(f) = n
  OBVIOUS

LEMMA Joined ==
  ASSUME NEW S, NEW p \in Seq(S), NEW q \in Seq(S)
  PROVE  /\ p \o q \in Seq(S) /\ Len(p \o q) = Len(p) + Len(q)
         /\ \A k \in 1..Len(p) : (p \o q)[k] = p[k]
         /\ \A k \in 1..Len(q) : (p \o q)[Len(p) + k] = q[k]
  OBVIOUS

\* The child slots of the new nodes.
LEMMA NewRows ==
  ASSUME ShapesAssumption, NEW shape \in Shapes, NEW a \in Nat, NEW rws,
         rws = [k \in DOMAIN shape.kids |-> [i \in DOMAIN shape.kids[k] |-> <<a + k, i>>]]
  PROVE  /\ rws \in Seq(Seq(Slots)) /\ Len(rws) = Len(shape.label)
         /\ \A k \in 1..Len(shape.label) :
              /\ DOMAIN rws[k] = DOMAIN shape.kids[k]
              /\ \A i \in DOMAIN shape.kids[k] : rws[k][i] = <<a + k, i>>
  <1> DEFINE b == Len(shape.label)
             row(k) == [i \in DOMAIN shape.kids[k] |-> <<a + k, i>>]
  <1>1. b \in Nat /\ DOMAIN shape.kids = 1..b
    BY ShapeParts
  <1>2. rws = [k \in 1..b |-> row(k)]
    BY <1>1
  <1>3. ASSUME NEW k \in 1..b PROVE row(k) \in Seq(Slots)
    <2>1. shape.kids[k] \in Seq(1..(Len(Identifiers) + b))
      BY ShapeParts
    <2>2. PICK l \in Nat : DOMAIN shape.kids[k] = 1..l
      BY <2>1
    <2>3. \A i \in 1..l : <<a + k, i>> \in Slots
      BY <1>1 DEF Slots
    <2>4. row(k) = [i \in 1..l |-> <<a + k, i>>]
      BY <2>2
    <2>5. row(k) \in [1..l -> Slots]
      BY <2>3, <2>4
    <2> HIDE DEF row
    <2>6. QED
      BY <2>5
  <1>4. \A k \in 1..b : rws[k] = row(k)
    BY <1>2
  <1>5. rws \in [1..b -> Seq(Slots)]
    <2> HIDE DEF row
    <2>1. QED
      BY <1>2, <1>3
  <1>6. rws \in Seq(Seq(Slots)) /\ Len(rws) = b
    <2> HIDE DEF row, b
    <2>1. QED
      BY <1>1, <1>5
  <1>7. QED
    BY <1>4, <1>6

\* Memory g is m with the nodes of the shape.
NodesAdded(m, shape, g) ==
  LET a == Len(m.label)
      b == Len(shape.label)
  IN /\ DOMAIN g = {"label", "slots", "at", "type", "freed"} /\ g.type = m.type
     /\ g.label \in Seq(Nat) /\ Len(g.label) = a + b /\ \A k \in 1..a : g.label[k] = m.label[k]
     /\ g.slots \in [1..(a + b) -> Seq(Slots)] /\ \A k \in 1..a : g.slots[k] = m.slots[k]
     /\ \A k \in 1..b : /\ DOMAIN g.slots[a + k] = DOMAIN shape.kids[k]
                        /\ \A i \in DOMAIN shape.kids[k] : g.slots[a + k][i] = <<a + k, i>>
     /\ DOMAIN g.at = DOMAIN m.at \cup UNION {ToSet(g.slots[a + k]) : k \in 1..b}
     /\ \A s \in DOMAIN m.at : g.at[s] = m.at[s]
     /\ \A k \in 1..b : \A i \in DOMAIN shape.kids[k] :
          g.at[<<a + k, i>>] = Place(m, shape.kids[k][i])

LEMMA Grew ==
  ASSUME ShapesAssumption, NEW m, SlotsPlaced(m), NEW shape \in Shapes,
         \A k \in 1..Len(shape.label) : \A i : <<Len(m.label) + k, i>> \notin DOMAIN m.at
  PROVE  NodesAdded(m, shape, Grow(m, shape))
  <1> DEFINE a == Len(m.label)
             b == Len(shape.label)
             row(k) == [i \in DOMAIN shape.kids[k] |-> <<a + k, i>>]
             rws == [k \in DOMAIN shape.kids |-> row(k)]
             below == [s \in UNION {ToSet(row(k)) : k \in DOMAIN shape.kids} |->
                         Place(m, shape.kids[s[1] - a][s[2]])]
             g == Grow(m, shape)
  <1>1. a \in Nat /\ b \in Nat /\ m.label \in Seq(Nat) /\ shape.label \in Seq(Nat)
        /\ DOMAIN shape.kids = 1..b
    BY ShapeParts DEF SlotsPlaced
  <1>2. g = [m EXCEPT !.label = @ \o shape.label, !.slots = @ \o rws, !.at = Overlay(@, below)]
    BY Zenon DEF Grow
  <1>3. /\ DOMAIN g = {"label", "slots", "at", "type", "freed"} /\ g.label = m.label \o shape.label
        /\ g.slots = m.slots \o rws /\ g.at = Overlay(m.at, below) /\ g.type = m.type
    <2>1. DOMAIN m = {"label", "slots", "at", "type", "freed"}
      BY DEF SlotsPlaced
    <2> HIDE DEF g, rws, below
    <2>2. QED
      BY <1>2, <2>1
  <1>4. /\ rws \in Seq(Seq(Slots)) /\ Len(rws) = b
        /\ \A k \in 1..b : /\ DOMAIN rws[k] = DOMAIN shape.kids[k]
                           /\ \A i \in DOMAIN shape.kids[k] : rws[k][i] = <<a + k, i>>
    BY <1>1, NewRows
  <1>5. \A k \in 1..b : row(k) = rws[k]
    BY <1>1
  <1>6. DOMAIN below = UNION {ToSet(rws[k]) : k \in 1..b}
    <2>1. DOMAIN below = UNION {ToSet(row(k)) : k \in 1..b}
      BY <1>1
    <2> HIDE DEF row, rws, below
    <2>2. QED
      BY <2>1, <1>5
  <1>7. ASSUME NEW k \in 1..b, NEW i \in DOMAIN shape.kids[k]
        PROVE  <<a + k, i>> \in DOMAIN below /\ below[<<a + k, i>>] = Place(m, shape.kids[k][i])
    <2> DEFINE s == <<a + k, i>>
    <2>1. s \in ToSet(row(k))
      <3>1. i \in DOMAIN row(k) /\ row(k)[i] = s
        OBVIOUS
      <3> HIDE DEF row, s
      <3>2. QED
        BY <3>1 DEF ToSet
    <2>2. s \in DOMAIN below
      BY <2>1, <1>1
    <2>3. s[1] - a = k /\ s[2] = i
      BY <1>1
    <2>4. below[s] = Place(m, shape.kids[s[1] - a][s[2]])
      <3> HIDE DEF s
      <3>1. QED
        BY <2>2
    <2>5. QED
      <3> HIDE DEF below, s
      <3>1. below[s] = Place(m, shape.kids[k][i])
        BY <2>3, <2>4
      <3>2. QED
        BY <2>2, <3>1 DEF s
  <1> HIDE DEF rws, row, below, g
  <1>8. DOMAIN g.at = DOMAIN m.at \cup DOMAIN below
        /\ \A s \in DOMAIN g.at : g.at[s] = IF s \in DOMAIN m.at THEN m.at[s] ELSE below[s]
    BY <1>3 DEF Overlay
  <1>9. m.slots \in Seq(Seq(Slots)) /\ Len(m.slots) = a
    <2> DEFINE V == Seq(Slots)
    <2>1. m.slots \in [1..a -> V]
      BY DEF SlotsPlaced
    <2> HIDE DEF V
    <2>2. m.slots \in Seq(V) /\ Len(m.slots) = a
      BY <2>1, <1>1, Lists
    <2>3. QED
      BY <2>2 DEF V
  <1>10. /\ g.slots \in Seq(Seq(Slots)) /\ Len(g.slots) = a + b
         /\ \A k \in 1..a : g.slots[k] = m.slots[k]
         /\ \A k \in 1..b : g.slots[a + k] = rws[k]
    <2> DEFINE V == Seq(Slots)
    <2>1. m.slots \in Seq(V) /\ rws \in Seq(V)
      BY <1>4, <1>9
    <2> HIDE DEF V
    <2>2. /\ g.slots \in Seq(V) /\ Len(g.slots) = Len(m.slots) + Len(rws)
          /\ \A k \in 1..Len(m.slots) : g.slots[k] = m.slots[k]
          /\ \A k \in 1..Len(rws) : g.slots[Len(m.slots) + k] = rws[k]
      BY <2>1, <1>3, Joined
    <2>3. QED
      BY <2>2, <1>4, <1>9 DEF V
  <1>11. g.slots \in [1..(a + b) -> Seq(Slots)]
    <2> DEFINE V == Seq(Slots)
    <2>1. g.slots \in Seq(V)
      BY <1>10
    <2> HIDE DEF V
    <2>2. Len(g.slots) = a + b
      BY <1>10
    <2>3. g.slots \in [1..(a + b) -> V]
      <3>1. a \in Nat /\ b \in Nat
        BY <1>1
      <3> HIDE DEF a, b, g
      <3>2. a + b \in Nat
        BY <3>1
      <3>3. QED
        BY <2>1, <2>2, <3>2, Lists
    <2>4. QED
      BY <2>3 DEF V
  <1>12. g.label \in Seq(Nat) /\ Len(g.label) = a + b /\ \A k \in 1..a : g.label[k] = m.label[k]
    <2>1. /\ m.label \o shape.label \in Seq(Nat) /\ Len(m.label \o shape.label) = a + b
          /\ \A k \in 1..a : (m.label \o shape.label)[k] = m.label[k]
      <3> DEFINE p == m.label
                 q == shape.label
      <3>1. p \in Seq(Nat) /\ q \in Seq(Nat)
        BY <1>1
      <3> HIDE DEF p, q, g
      <3>2. p \o q \in Seq(Nat) /\ Len(p \o q) = Len(p) + Len(q) /\ \A k \in 1..Len(p) : (p \o q)[k] = p[k]
        BY <3>1, Joined
      <3>3. QED
        BY <3>2 DEF p, q
    <2>2. QED
      BY <1>3, <2>1
  <1>13. \A k \in 1..b : /\ DOMAIN g.slots[a + k] = DOMAIN shape.kids[k]
                        /\ \A i \in DOMAIN shape.kids[k] : g.slots[a + k][i] = <<a + k, i>>
    BY <1>4, <1>10
  <1>14. DOMAIN g.at = DOMAIN m.at \cup UNION {ToSet(g.slots[a + k]) : k \in 1..b}
    <2>1. \A k \in 1..b : g.slots[a + k] = rws[k]
      BY <1>10
    <2>2. UNION {ToSet(g.slots[a + k]) : k \in 1..b} = UNION {ToSet(rws[k]) : k \in 1..b}
      BY <2>1
    <2>3. QED
      BY <2>2, <1>6, <1>8
  <1>15. \A s \in DOMAIN m.at : g.at[s] = m.at[s]
    BY <1>8
  <1>16. \A k \in 1..b : \A i \in DOMAIN shape.kids[k] : g.at[<<a + k, i>>] = Place(m, shape.kids[k][i])
    BY <1>7, <1>8
  <1>17. QED
    <2>1. NodesAdded(m, shape, g)
      BY <1>3, <1>10, <1>11, <1>12, <1>13, <1>14, <1>15, <1>16 DEF NodesAdded
    <2>2. QED
      BY <2>1 DEF g

LEMMA BuiltIsGrown ==
  ASSUME ShapesAssumption, NEW m, Wooded(m), NEW shape \in Shapes, NEW n,
         n = NewTree(Grow(m, shape), "UPDATE", Place(m, shape.root))
  PROVE  /\ Grown(m, shape, NewestTree(m) + 1, n) /\ NewestTree(n) = NewestTree(m) + 1
         /\ NewestTree(m) \in Nat /\ RootSlots(m) = {<<0, u>> : u \in 1..NewestTree(m)}
         /\ RootSlots(n) = RootSlots(m) \cup {<<0, NewestTree(n)>>}
  <1> DEFINE a == Len(m.label)
             b == Len(shape.label)
             g == Grow(m, shape)
             T == NewestTree(m)
  <1>1. T \in Nat /\ RootSlots(m) = {<<0, u>> : u \in 1..T}
    <2>1. PICK U \in Nat : RootSlots(m) = {<<0, u>> : u \in 1..U}
      BY DEF Wooded, TreesNumbered
    <2>2. T = U
      BY <2>1, RootsCounted
    <2>3. QED
      BY <2>1, <2>2
  <1>2. a \in Nat /\ b \in Nat /\ SlotsPlaced(m)
    BY ShapeParts DEF Wooded, SlotsPlaced
  <1>3. \A k \in 1..b : \A i : <<a + k, i>> \notin DOMAIN m.at
    BY NewSlot
  <1>4. /\ DOMAIN g = {"label", "slots", "at", "type", "freed"} /\ g.type = m.type
        /\ g.label \in Seq(Nat) /\ Len(g.label) = a + b /\ \A k \in 1..a : g.label[k] = m.label[k]
        /\ g.slots \in [1..(a + b) -> Seq(Slots)] /\ \A k \in 1..a : g.slots[k] = m.slots[k]
        /\ \A k \in 1..b : /\ DOMAIN g.slots[a + k] = DOMAIN shape.kids[k]
                           /\ \A i \in DOMAIN shape.kids[k] : g.slots[a + k][i] = <<a + k, i>>
        /\ DOMAIN g.at = DOMAIN m.at \cup UNION {ToSet(g.slots[a + k]) : k \in 1..b}
        /\ \A s \in DOMAIN m.at : g.at[s] = m.at[s]
        /\ \A k \in 1..b : \A i \in DOMAIN shape.kids[k] :
             g.at[<<a + k, i>>] = Place(m, shape.kids[k][i])
    <2>1. NodesAdded(m, shape, g)
      BY <1>2, <1>3, Grew
    <2> HIDE DEF g
    <2>2. QED
      BY <2>1 DEF NodesAdded
  <1> DEFINE kinds == [u \in {T + 1} |-> "UPDATE"]
             top == [s \in {<<0, T + 1>>} |-> Place(m, shape.root)]
  <1>5. \A s \in UNION {ToSet(g.slots[a + k]) : k \in 1..b} : s[1] # 0
    <2>1. TAKE s \in UNION {ToSet(g.slots[a + k]) : k \in 1..b}
    <2>2. PICK k \in 1..b : s \in ToSet(g.slots[a + k])
      OBVIOUS
    <2>3. PICK i \in DOMAIN g.slots[a + k] : s = g.slots[a + k][i]
      BY <2>2 DEF ToSet
    <2>4. s = <<a + k, i>> /\ a + k # 0
      <3>1. DOMAIN g.slots[a + k] = DOMAIN shape.kids[k]
            /\ \A j \in DOMAIN shape.kids[k] : g.slots[a + k][j] = <<a + k, j>>
        BY <1>4
      <3> HIDE DEF g
      <3>2. QED
        BY <3>1, <2>3, <1>2
    <2>5. QED
      BY <2>4
  <1> HIDE DEF g
  <1>6. {s \in DOMAIN g.at : s[1] = 0} = RootSlots(m)
    BY <1>4, <1>5 DEF RootSlots
  <1>7. Cardinality({s \in DOMAIN g.at : s[1] = 0}) = T
    BY <1>6 DEF NewestTree, RootSlots
  <1>8. n = [g EXCEPT !.at = Overlay(@, top), !.type = Overlay(@, kinds)]
    <2>1. n = NewTree(g, "UPDATE", Place(m, shape.root))
      BY DEF g
    <2> HIDE DEF T
    <2>2. QED
      BY <1>7, <2>1 DEF NewTree
  <1> HIDE DEF top, kinds
  <1>9. /\ DOMAIN n = DOMAIN g /\ n.label = g.label /\ n.slots = g.slots
        /\ n.at = Overlay(g.at, top) /\ n.type = Overlay(g.type, kinds)
    BY <1>8, <1>4
  <1>10. DOMAIN n.type = DOMAIN m.type \cup {T + 1}
    BY <1>4, <1>9 DEF Overlay, kinds
  <1>11. <<0, T + 1>> \notin DOMAIN g.at
    <2>1. <<0, T + 1>> \notin RootSlots(m)
      BY <1>1
    <2>2. QED
      BY <2>1, <1>6
  <1>12. /\ DOMAIN n.at = DOMAIN g.at \cup {<<0, T + 1>>}
         /\ \A s \in DOMAIN g.at : n.at[s] = g.at[s]
         /\ n.at[<<0, T + 1>>] = Place(m, shape.root)
    <2>1. DOMAIN top = {<<0, T + 1>>} /\ top[<<0, T + 1>>] = Place(m, shape.root)
      BY DEF top
    <2> HIDE DEF T
    <2>2. QED
      BY <1>9, <1>11, <2>1 DEF Overlay
  <1>13. RootSlots(n) = RootSlots(m) \cup {<<0, T + 1>>}
    BY <1>6, <1>12 DEF RootSlots
  <1>14. NewestTree(n) = T + 1
    <2>1. 1..(T + 1) = (1..T) \cup {T + 1} /\ T + 1 \in Nat
      BY <1>1
    <2>2. RootSlots(n) = {<<0, u>> : u \in 1..(T + 1)}
      BY <1>13, <1>1, <2>1
    <2> HIDE DEF T
    <2>3. QED
      BY <2>1, <2>2, RootsCounted
  <1>15. \A k \in 1..b : \A i \in DOMAIN shape.kids[k] : <<a + k, i>> \in DOMAIN g.at
    <2>1. TAKE k \in 1..b
    <2>2. TAKE i \in DOMAIN shape.kids[k]
    <2>3. <<a + k, i>> \in ToSet(g.slots[a + k])
      BY <1>4 DEF ToSet
    <2>4. QED
      BY <2>3, <1>4
  <1>16. Grown(m, shape, T + 1, n)
    <2>1. /\ DOMAIN n = {"label", "slots", "at", "type", "freed"}
          /\ n.label \in Seq(Nat) /\ Len(n.label) = a + b /\ \A k \in 1..a : n.label[k] = m.label[k]
          /\ n.slots \in [1..(a + b) -> Seq(Slots)] /\ \A k \in 1..a : n.slots[k] = m.slots[k]
          /\ \A k \in 1..b : /\ DOMAIN n.slots[a + k] = DOMAIN shape.kids[k]
                             /\ \A i \in DOMAIN shape.kids[k] : n.slots[a + k][i] = <<a + k, i>>
      BY <1>4, <1>9
    <2>2. DOMAIN n.at = DOMAIN m.at \cup (UNION {ToSet(n.slots[a + k]) : k \in 1..b}) \cup {<<0, T + 1>>}
      <3>1. DOMAIN g.at = DOMAIN m.at \cup UNION {ToSet(g.slots[a + k]) : k \in 1..b}
        BY <1>4
      <3>2. n.slots = g.slots
        BY <1>9
      <3> DEFINE U == UNION {ToSet(n.slots[a + k]) : k \in 1..b}
      <3>3. DOMAIN g.at = DOMAIN m.at \cup U
        BY <3>1, <3>2
      <3>4. DOMAIN n.at = DOMAIN g.at \cup {<<0, T + 1>>}
        BY <1>12
      <3> HIDE DEF T, U
      <3>5. DOMAIN n.at = DOMAIN m.at \cup U \cup {<<0, T + 1>>}
        BY <3>3, <3>4
      <3>6. QED
        BY <3>5 DEF U
    <2>3. \A s \in DOMAIN m.at : n.at[s] = m.at[s]
      BY <1>4, <1>12
    <2>4. \A k \in 1..b : \A i \in DOMAIN shape.kids[k] : n.at[<<a + k, i>>] = Place(m, shape.kids[k][i])
      BY <1>4, <1>12, <1>15
    <2>5. n.at = [s \in DOMAIN n.at |-> n.at[s]]
      BY <1>9 DEF Overlay
    <2> HIDE DEF T
    <2>6. QED
      BY <2>1, <2>2, <2>3, <2>4, <2>5, <1>10, <1>12 DEF Grown
  <1>17. QED
    BY <1>1, <1>13, <1>14, <1>16

LEMMA Counting ==
  ASSUME NEW a \in Nat, NEW b \in Nat
  PROVE  /\ a + b \in Nat /\ 1..a \subseteq 1..(a + b)
         /\ \A k \in 1..b : a + k \in 1..(a + b) /\ a + k # 0 /\ a + k \notin 1..a
         /\ \A N \in 1..(a + b) : N \in 1..a \/ \E k \in 1..b : N = a + k
  <1>1. ASSUME NEW N \in 1..(a + b), N \notin 1..a PROVE \E k \in 1..b : N = a + k
    <2>1. N - a \in 1..b /\ N = a + (N - a)
      BY <1>1
    <2>2. QED
      BY <2>1
  <1>2. QED
    BY <1>1

\* Where Place() puts the nodes of a shape.
LEMMA Placed ==
  ASSUME ShapesAssumption, NEW m, Len(m.label) \in Nat, IdentifiersFirst(m), NEW shape \in Shapes,
         NEW c \in 1..(Len(Identifiers) + Len(shape.label))
  PROVE  /\ Place(m, c) \in 1..(Len(m.label) + Len(shape.label))
         /\ c > Len(Identifiers) => /\ c - Len(Identifiers) \in 1..Len(shape.label)
                                    /\ Place(m, c) = Len(m.label) + (c - Len(Identifiers))
         /\ ~(c > Len(Identifiers)) => Place(m, c) \in DOMAIN Identifiers /\ Place(m, c) \in 1..Len(m.label)
  <1> DEFINE a == Len(m.label)
             b == Len(shape.label)
             d == Len(Identifiers)
             C == Place(m, c)
  <1>1. d \in Nat /\ b \in Nat /\ a \in Nat /\ DOMAIN Identifiers = 1..d /\ d <= a
    BY ShapeParts DEF IdentifiersFirst
  <1>2. C = IF c \in 1..d THEN c ELSE a + (c - d)
    BY <1>1 DEF Place
  <1>3. c \in 1..(d + b)
    OBVIOUS
  <1> HIDE DEF a, b, d, C
  <1>4. c \notin 1..d => c > d /\ c - d \in 1..b
    BY <1>1, <1>3
  <1>5. c \in 1..d => ~(c > d) /\ c \in 1..a /\ c \in 1..(a + b)
    BY <1>1, <1>3
  <1>6. /\ C \in 1..(a + b)
        /\ c > d => c - d \in 1..b /\ C = a + (c - d)
        /\ ~(c > d) => C \in 1..d /\ C \in 1..a
    <2>1. CASE c \in 1..d
      BY <2>1, <1>2, <1>5
    <2>2. CASE c \notin 1..d
      <3>1. c > d /\ c - d \in 1..b /\ C = a + (c - d)
        BY <2>2, <1>2, <1>4
      <3>2. a + (c - d) \in 1..(a + b)
        BY <3>1, <1>1, Counting
      <3>3. QED
        BY <3>1, <3>2
    <2>3. QED
      BY <2>1, <2>2
  <1>7. QED
    BY <1>1, <1>6 DEF a, b, d, C

RootPlaced(m, shape) ==
  /\ Place(m, shape.root) \in 1..(Len(m.label) + Len(shape.label))
  /\ Len(shape.label) > 0 => Place(m, shape.root) = Len(m.label) + 1
  /\ Len(shape.label) = 0 => Place(m, shape.root) \in DOMAIN Identifiers /\ Place(m, shape.root) \in 1..Len(m.label)

LEMMA RootIsPlaced ==
  ASSUME ShapesAssumption, NEW m, Len(m.label) \in Nat, IdentifiersFirst(m), NEW shape \in Shapes
  PROVE  RootPlaced(m, shape)
  <1> DEFINE a == Len(m.label)
             b == Len(shape.label)
             d == Len(Identifiers)
             c == shape.root
             C == Place(m, shape.root)
  <1>1. /\ d \in Nat /\ b \in Nat /\ a \in Nat /\ DOMAIN Identifiers = 1..d
        /\ (b > 0 /\ c = d + 1) \/ (b = 0 /\ c \in 1..d)
    BY ShapeParts
  <1>2. c \in 1..(d + b)
    <2> HIDE DEF a, b, c, d, C
    <2>1. QED
      BY <1>1
  <1>3. /\ C \in 1..(a + b)
        /\ c > d => C = a + (c - d)
        /\ ~(c > d) => C \in DOMAIN Identifiers /\ C \in 1..a
    BY <1>1, <1>2, Placed
  <1> HIDE DEF a, b, c, d, C
  <1>4. /\ C \in 1..(a + b) /\ b > 0 => C = a + 1
        /\ b = 0 => C \in DOMAIN Identifiers /\ C \in 1..a
    BY <1>1, <1>3
  <1>5. QED
    BY <1>3, <1>4 DEF RootPlaced, a, b, C

\* The slots that are not new, those of new nodes, and the root.
SlotKinds(m, shape, t, n) ==
  LET a == Len(m.label)
      b == Len(shape.label)
  IN \A s \in DOMAIN n.at :
       \/ s \in DOMAIN m.at /\ n.at[s] = m.at[s] /\ m.at[s] \in 1..a
       \/ \E k \in 1..b : \E i \in DOMAIN shape.kids[k] :
            s = <<a + k, i>> /\ n.at[s] = Place(m, shape.kids[k][i])
       \/ s = <<0, t>> /\ n.at[s] = Place(m, shape.root)

LEMMA KindsOfSlots ==
  ASSUME NEW m, SlotsPlaced(m), NEW shape, NEW t, NEW n, Grown(m, shape, t, n)
  PROVE  SlotKinds(m, shape, t, n)
  <1> DEFINE a == Len(m.label)
             b == Len(shape.label)
  <1>1. SUFFICES ASSUME NEW s \in DOMAIN n.at
                 PROVE  \/ s \in DOMAIN m.at /\ n.at[s] = m.at[s] /\ m.at[s] \in 1..a
                        \/ \E k \in 1..b : \E i \in DOMAIN shape.kids[k] :
                             s = <<a + k, i>> /\ n.at[s] = Place(m, shape.kids[k][i])
                        \/ s = <<0, t>> /\ n.at[s] = Place(m, shape.root)
    BY DEF SlotKinds
  <1>2. CASE s \in DOMAIN m.at
    BY <1>2 DEF Grown, SlotsPlaced
  <1>3. CASE s = <<0, t>>
    BY <1>3 DEF Grown
  <1>4. CASE s \in UNION {ToSet(n.slots[a + k]) : k \in 1..b}
    <2>1. PICK k \in 1..b : s \in ToSet(n.slots[a + k])
      BY <1>4
    <2>2. PICK i \in DOMAIN n.slots[a + k] : s = n.slots[a + k][i]
      BY <2>1 DEF ToSet
    <2>3. i \in DOMAIN shape.kids[k] /\ n.slots[a + k][i] = <<a + k, i>>
          /\ n.at[<<a + k, i>>] = Place(m, shape.kids[k][i])
      BY <2>2 DEF Grown
    <2>4. QED
      BY <2>2, <2>3
  <1>5. QED
    BY <1>2, <1>3, <1>4 DEF Grown

LEMMA NewSlotsFinite ==
  ASSUME ShapesAssumption, NEW shape \in Shapes, NEW a \in Nat, NEW slots,
         \A k \in 1..Len(shape.label) : DOMAIN slots[a + k] = DOMAIN shape.kids[k]
  PROVE  IsFiniteSet(UNION {ToSet(slots[a + k]) : k \in 1..Len(shape.label)})
  <1> DEFINE b == Len(shape.label)
             rws == {ToSet(slots[a + k]) : k \in 1..b}
             f == [k \in 1..b |-> ToSet(slots[a + k])]
  <1>1. b \in Nat
    BY ShapeParts
  <1>2. ASSUME NEW k \in 1..b PROVE IsFiniteSet(ToSet(slots[a + k]))
    <2>1. shape.kids[k] \in Seq(1..(Len(Identifiers) + b))
      BY ShapeParts
    <2>2. PICK l \in Nat : DOMAIN shape.kids[k] = 1..l
      BY <2>1
    <2> DEFINE h == [i \in 1..l |-> slots[a + k][i]]
               S == ToSet(slots[a + k])
    <2>3. S = {slots[a + k][i] : i \in 1..l}
      BY <2>2 DEF ToSet
    <2>4. h \in Surjection(1..l, S)
      BY <2>3 DEF Surjection
    <2>5. IsFiniteSet(1..l)
      BY FS_Interval
    <2> HIDE DEF h, S
    <2>6. IsFiniteSet(S)
      BY <2>4, <2>5, FS_Surjection
    <2>7. QED
      BY <2>6 DEF S
  <1>3. f \in Surjection(1..b, rws)
    BY DEF Surjection
  <1>4. IsFiniteSet(1..b)
    BY <1>1, FS_Interval
  <1>5. \A X \in rws : IsFiniteSet(X)
    BY <1>2
  <1> HIDE DEF f, rws
  <1>6. IsFiniteSet(rws)
    BY <1>3, <1>4, FS_Surjection
  <1>7. IsFiniteSet(UNION rws)
    BY <1>5, <1>6, FS_UNION
  <1>8. QED
    BY <1>7 DEF rws

LEMMA BuildKeepsSlots ==
  ASSUME ShapesAssumption, NEW m, SlotsPlaced(m), IdentifiersFirst(m), NEW shape \in Shapes,
         NEW t \in Nat, NEW n, Grown(m, shape, t, n)
  PROVE  SlotsPlaced(n) /\ IdentifiersFirst(n)
  <1> DEFINE a == Len(m.label)
             b == Len(shape.label)
             new == UNION {ToSet(n.slots[a + k]) : k \in 1..b}
  <1>1. a \in Nat /\ b \in Nat /\ Len(Identifiers) \in Nat /\ DOMAIN Identifiers = 1..Len(Identifiers)
    BY ShapeParts DEF SlotsPlaced
  <1>2. /\ DOMAIN n = {"label", "slots", "at", "type", "freed"}
        /\ n.label \in Seq(Nat) /\ Len(n.label) = a + b
        /\ n.slots \in [1..(a + b) -> Seq(Slots)] /\ \A k \in 1..a : n.slots[k] = m.slots[k]
        /\ \A k \in 1..b : /\ DOMAIN n.slots[a + k] = DOMAIN shape.kids[k]
                           /\ \A i \in DOMAIN shape.kids[k] : n.slots[a + k][i] = <<a + k, i>>
        /\ DOMAIN n.at = DOMAIN m.at \cup new \cup {<<0, t>>}
    BY DEF Grown
  <1>3. /\ a + b \in Nat /\ 1..a \subseteq 1..(a + b)
        /\ \A k \in 1..b : a + k \in 1..(a + b) /\ a + k # 0 /\ a + k \notin 1..a
        /\ \A N \in 1..(a + b) : N \in 1..a \/ \E k \in 1..b : N = a + k
    <2> HIDE DEF a, b
    <2>1. QED
      BY <1>1, Counting
  <1>4. \A N \in 1..(a + b) : \A i \in DOMAIN n.slots[N] : n.slots[N][i] = <<N, i>>
    <2>1. TAKE N \in 1..(a + b)
    <2>2. CASE N \in 1..a
      BY <1>2, <2>2 DEF SlotsPlaced
    <2>3. CASE \E k \in 1..b : N = a + k
      BY <1>2, <2>3
    <2>4. QED
      BY <1>3, <2>2, <2>3
  <1>5. \A s \in new : s[1] \in 1..(a + b) /\ s[2] \in DOMAIN n.slots[s[1]] /\ s \in Slots
    <2>1. TAKE s \in new
    <2>2. PICK k \in 1..b : s \in ToSet(n.slots[a + k])
      OBVIOUS
    <2>3. PICK i \in DOMAIN n.slots[a + k] : s = n.slots[a + k][i]
      BY <2>2 DEF ToSet
    <2>4. a + k \in 1..(a + b)
      BY <1>3
    <2>5. s = <<a + k, i>>
      BY <2>3, <2>4, <1>4
    <2>6. n.slots[a + k] \in Seq(Slots)
      BY <2>4, <1>2
    <2>7. s \in Slots
      BY <2>3, <2>6
    <2>8. QED
      <3>1. s[1] = a + k /\ s[2] = i
        BY <2>5
      <3> HIDE DEF a, b, new
      <3>2. QED
        BY <2>3, <2>4, <2>7, <3>1
  <1>6. IsFiniteSet(new)
    <2>1. \A k \in 1..b : DOMAIN n.slots[a + k] = DOMAIN shape.kids[k]
      BY <1>2
    <2>2. QED
      BY <1>1, <2>1, NewSlotsFinite
  <1>7. \A N \in 1..(a + b) : ToSet(n.slots[N]) \subseteq DOMAIN n.at
    <2>1. TAKE N \in 1..(a + b)
    <2>2. CASE N \in 1..a
      <3>1. ToSet(m.slots[N]) \subseteq DOMAIN m.at /\ n.slots[N] = m.slots[N]
        BY <1>2, <2>2 DEF SlotsPlaced
      <3>2. QED
        BY <3>1, <1>2
    <2>3. CASE \E k \in 1..b : N = a + k
      <3>1. ToSet(n.slots[N]) \subseteq new
        BY <2>3
      <3>2. QED
        BY <3>1, <1>2
    <2>4. QED
      BY <1>3, <2>2, <2>3
  <1>8. n.at \in [DOMAIN n.at -> 1..(a + b)]
    <2>1. \A s \in DOMAIN n.at : n.at[s] \in 1..(a + b)
      <3>1. TAKE s \in DOMAIN n.at
      <3>2. SlotKinds(m, shape, t, n)
        BY KindsOfSlots
      <3>3. CASE n.at[s] \in 1..a
        BY <3>3, <1>3
      <3>4. ASSUME NEW k \in 1..b, NEW i \in DOMAIN shape.kids[k], n.at[s] = Place(m, shape.kids[k][i])
            PROVE  n.at[s] \in 1..(a + b)
        <4>1. shape.kids[k][i] \in 1..(Len(Identifiers) + b)
          BY ShapeParts
        <4>2. QED
          <5>1. Place(m, shape.kids[k][i]) \in 1..(a + b)
            BY <4>1, <1>1, Placed
          <5>2. QED
            BY <5>1, <3>4
      <3>5. CASE n.at[s] = Place(m, shape.root)
        BY <3>5, <1>1, RootIsPlaced DEF RootPlaced
      <3>6. QED
        BY <3>2, <3>3, <3>4, <3>5 DEF SlotKinds
    <2>2. n.at = [s \in DOMAIN n.at |-> n.at[s]]
      BY DEF Grown
    <2>3. QED
      BY <2>1, <2>2
  <1>9. DOMAIN n.at \subseteq Slots
    <2>1. <<0, t>> \in Slots
      BY DEF Slots
    <2> HIDE DEF new
    <2>2. QED
      BY <1>2, <1>5, <2>1 DEF SlotsPlaced
  <1>10. IsFiniteSet(DOMAIN n.at)
    <2>1. IsFiniteSet(DOMAIN m.at) /\ IsFiniteSet({<<0, t>>})
      BY FS_Singleton DEF SlotsPlaced
    <2> HIDE DEF new
    <2>2. IsFiniteSet(DOMAIN m.at \cup new)
      BY <2>1, <1>6, FS_Union
    <2>3. IsFiniteSet((DOMAIN m.at \cup new) \cup {<<0, t>>})
      BY <2>1, <2>2, FS_Union
    <2>4. QED
      BY <1>2, <2>3
  <1>11. \A s \in DOMAIN n.at : s[1] # 0 => s[1] \in 1..(a + b) /\ s[2] \in DOMAIN n.slots[s[1]]
    <2>1. TAKE s \in DOMAIN n.at
    <2>2. CASE s \in DOMAIN m.at
      <3>1. s[1] # 0 => s[1] \in 1..a /\ s[2] \in DOMAIN m.slots[s[1]]
        BY <2>2 DEF SlotsPlaced
      <3>2. QED
        BY <3>1, <1>2, <1>3
    <2>3. CASE s \in new
      BY <2>3, <1>5
    <2>4. CASE s = <<0, t>>
      BY <2>4
    <2>5. QED
      BY <1>2, <2>2, <2>3, <2>4
  <1>12. IdentifiersFirst(n)
    <2>1. Len(Identifiers) <= a + b /\ DOMAIN Identifiers \subseteq 1..a
      <3> DEFINE d == Len(Identifiers)
      <3>1. d <= a /\ DOMAIN Identifiers = 1..d /\ d \in Nat
        BY <1>1 DEF IdentifiersFirst
      <3> HIDE DEF a, b, d
      <3>2. d <= a + b /\ 1..d \subseteq 1..a
        BY <1>1, <3>1
      <3>3. QED
        BY <3>1, <3>2 DEF d
    <2>2. \A N \in DOMAIN Identifiers : n.slots[N] = <<>>
      BY <2>1, <1>2 DEF IdentifiersFirst
    <2>3. QED
      BY <2>1, <2>2, <1>2 DEF IdentifiersFirst
  <1> HIDE DEF new, a, b
  <1>13. SlotsPlaced(n)
    BY <1>2, <1>4, <1>7, <1>8, <1>9, <1>10, <1>11 DEF SlotsPlaced
  <1>14. QED
    BY <1>12, <1>13

\* What points to a node that has children points to no other's slot.
LEMMA BuildIsUnique ==
  ASSUME ShapesAssumption, NEW m, Wooded(m), IdentifiersFirst(m), NEW shape \in Shapes,
         NEW t \in Nat, NEW n, Grown(m, shape, t, n), SlotsPlaced(n),
         NEW p \in DOMAIN n.at, NEW q \in DOMAIN n.at, NEW s \in DOMAIN n.at,
         s[1] # 0, n.at[p] = s[1], n.at[q] = s[1]
  PROVE  p = q
  <1> DEFINE a == Len(m.label)
             b == Len(shape.label)
             d == Len(Identifiers)
             N == s[1]
  <1>1. a \in Nat /\ b \in Nat /\ d \in Nat /\ DOMAIN Identifiers = 1..d /\ SlotsPlaced(m)
    <2>1. SlotsPlaced(m)
      BY DEF Wooded
    <2>2. m.label \in Seq(Nat)
      BY <2>1 DEF SlotsPlaced
    <2>3. a \in Nat
      BY <2>2
    <2>4. QED
      BY <2>1, <2>3, ShapeParts
  <1>2. SlotKinds(m, shape, t, n)
    BY <1>1, KindsOfSlots
  <1>3. ~(N \in DOMAIN Identifiers)
    <2>1. s[2] \in DOMAIN n.slots[N] /\ s = n.slots[N][s[2]]
      BY SlotBelow DEF SlotsPlaced
    <2>2. \A i \in DOMAIN Identifiers : n.slots[i] = m.slots[i] /\ m.slots[i] = <<>>
      <3>1. d <= a
        BY DEF IdentifiersFirst
      <3>2. \A i \in 1..d : i \in 1..a
        <4> HIDE DEF a, d
        <4>1. QED
          BY <1>1, <3>1
      <3>3. QED
        BY <1>1, <3>2 DEF Grown, IdentifiersFirst
    <2>3. QED
      BY <2>1, <2>2
  <1> DEFINE New(r) == \E k \in 1..b : \E i \in DOMAIN shape.kids[k] :
                         /\ r = <<a + k, i>> /\ shape.kids[k][i] > d
                         /\ N = a + (shape.kids[k][i] - d)
             Top(r) == r = <<0, t>> /\ b > 0 /\ N = a + 1
  <1>4. ASSUME NEW r \in DOMAIN n.at, n.at[r] = N
        PROVE  \/ r \in DOMAIN m.at /\ m.at[r] = N /\ N \in 1..a
               \/ N \notin 1..a /\ (New(r) \/ Top(r))
    <2>1. CASE r \in DOMAIN m.at /\ n.at[r] = m.at[r] /\ m.at[r] \in 1..a
      BY <1>4, <2>1
    <2>2. ASSUME NEW k \in 1..b, NEW i \in DOMAIN shape.kids[k],
                 r = <<a + k, i>>, n.at[r] = Place(m, shape.kids[k][i])
          PROVE  N \notin 1..a /\ New(r)
      <3> DEFINE c == shape.kids[k][i]
      <3>1. c \in 1..(d + b) /\ N = Place(m, c)
        BY <2>2, <1>4, ShapeParts
      <3>2. c > d /\ c - d \in 1..b /\ N = a + (c - d)
        <4> HIDE DEF c
        <4>1. QED
          BY <3>1, <1>1, <1>3, Placed
      <3>3. N \notin 1..a
        <4> HIDE DEF a, b, c, d, N
        <4>1. QED
          BY <3>2, <1>1, Counting
      <3>4. QED
        BY <3>2, <3>3, <2>2
    <2>3. CASE r = <<0, t>> /\ n.at[r] = Place(m, shape.root)
      <3>1. RootPlaced(m, shape)
        BY <1>1, RootIsPlaced
      <3>2. b > 0 /\ N = a + 1
        <4>1. N = Place(m, shape.root)
          BY <1>4, <2>3
        <4>2. ~(b = 0)
          BY <3>1, <4>1, <1>3 DEF RootPlaced
        <4>3. b > 0
          <5> HIDE DEF b
          <5>1. QED
            BY <4>2, <1>1
        <4>4. QED
          BY <3>1, <4>1, <4>3 DEF RootPlaced
      <3>3. N \notin 1..a
        <4> HIDE DEF a, N
        <4>1. QED
          BY <3>2, <1>1
      <3>4. QED
        BY <2>3, <3>2, <3>3
    <2>4. QED
      BY <1>2, <2>1, <2>2, <2>3 DEF SlotKinds
  <1>5. CASE N \in 1..a
    <2>1. p \in DOMAIN m.at /\ m.at[p] = N /\ q \in DOMAIN m.at /\ m.at[q] = N
      BY <1>4, <1>5
    <2>2. s \in DOMAIN m.at
      <3>1. n.slots[N] = m.slots[N] /\ ToSet(m.slots[N]) \subseteq DOMAIN m.at
        BY <1>1, <1>5 DEF Grown, SlotsPlaced
      <3>2. s[2] \in DOMAIN n.slots[N] /\ s = n.slots[N][s[2]]
        BY SlotBelow DEF SlotsPlaced
      <3>3. s \in ToSet(m.slots[N])
        BY <3>1, <3>2 DEF ToSet
      <3>4. QED
        BY <3>1, <3>3
    <2>3. s \in SlotsBelow(m)[p] /\ s \in SlotsBelow(m)[q] /\ DOMAIN SlotsBelow(m) = DOMAIN m.at
      BY <1>1, <2>1, <2>2, SlotBelow
    <2>4. QED
      BY <2>1, <2>3 DEF Wooded, Forest
  <1>6. CASE N \notin 1..a
    <2>1. (New(p) \/ Top(p)) /\ (New(q) \/ Top(q))
      BY <1>4, <1>6
    <2>2. ASSUME NEW k \in 1..b, NEW i \in DOMAIN shape.kids[k], shape.kids[k][i] > d
          PROVE  /\ shape.kids[k][i] > d + k
                 /\ \A l \in 1..b : \A j \in DOMAIN shape.kids[l] :
                      shape.kids[l][j] = shape.kids[k][i] => l = k /\ j = i
      BY <2>2, ShapeParts DEF IsShape
    <2>3. ASSUME New(p), New(q) PROVE p = q
      <3>1. PICK k \in 1..b : \E i \in DOMAIN shape.kids[k] :
              p = <<a + k, i>> /\ shape.kids[k][i] > d /\ N = a + (shape.kids[k][i] - d)
        BY <2>3
      <3>2. PICK i \in DOMAIN shape.kids[k] :
              p = <<a + k, i>> /\ shape.kids[k][i] > d /\ N = a + (shape.kids[k][i] - d)
        BY <3>1
      <3>3. PICK l \in 1..b : \E j \in DOMAIN shape.kids[l] :
              q = <<a + l, j>> /\ shape.kids[l][j] > d /\ N = a + (shape.kids[l][j] - d)
        BY <2>3
      <3>4. PICK j \in DOMAIN shape.kids[l] :
              q = <<a + l, j>> /\ shape.kids[l][j] > d /\ N = a + (shape.kids[l][j] - d)
        BY <3>3
      <3>5. shape.kids[l][j] = shape.kids[k][i]
        <4> DEFINE c == shape.kids[k][i]
                   e == shape.kids[l][j]
        <4>1. c \in 1..(d + b) /\ e \in 1..(d + b) /\ N = a + (c - d) /\ N = a + (e - d)
          BY <3>2, <3>4, ShapeParts
        <4> HIDE DEF a, b, c, d, e, N
        <4>2. c = e
          BY <4>1, <1>1
        <4>3. QED
          BY <4>2 DEF c, e
      <3>6. l = k /\ j = i
        BY <2>2, <3>2, <3>5
      <3>7. QED
        BY <3>2, <3>4, <3>6
    <2>4. ASSUME NEW r, New(r), N = a + 1 PROVE FALSE
      <3>1. PICK k \in 1..b : \E i \in DOMAIN shape.kids[k] :
              shape.kids[k][i] > d /\ N = a + (shape.kids[k][i] - d)
        BY <2>4
      <3>2. PICK i \in DOMAIN shape.kids[k] :
              shape.kids[k][i] > d /\ N = a + (shape.kids[k][i] - d)
        BY <3>1
      <3> DEFINE c == shape.kids[k][i]
      <3>3. c \in 1..(d + b) /\ c > d + k /\ N = a + (c - d)
        BY <2>2, <3>2, ShapeParts
      <3> HIDE DEF a, b, c, d, N
      <3>4. QED
        BY <3>3, <2>4, <1>1
    <2>5. QED
      BY <2>1, <2>3, <2>4
  <1>7. QED
    BY <1>5, <1>6

\* Whatever is built can be reached from its root.
LEMMA BuildIsReached ==
  ASSUME ShapesAssumption, NEW m, Wooded(m), IdentifiersFirst(m), NEW shape \in Shapes,
         NEW t \in Nat, NEW n, Grown(m, shape, t, n), SlotsPlaced(n),
         RootSlots(n) = RootSlots(m) \cup {<<0, t>>}
  PROVE  Reach(SlotsBelow(n), RootSlots(n)) = DOMAIN n.at
  <1> DEFINE a == Len(m.label)
             b == Len(shape.label)
             d == Len(Identifiers)
             old == SlotsBelow(m)
             kids == SlotsBelow(n)
             R == Reach(kids, RootSlots(n))
  <1>1. a \in Nat /\ b \in Nat /\ d \in Nat /\ SlotsPlaced(m)
    BY ShapeParts DEF Wooded, SlotsPlaced
  <1>2. /\ IsKids(old) /\ DOMAIN old = DOMAIN m.at /\ IsKids(kids) /\ DOMAIN kids = DOMAIN n.at
        /\ \A p, s \in DOMAIN n.at : s[1] # 0 /\ n.at[p] = s[1] => s \in kids[p]
    BY <1>1, SlotBelow
  <1>3. RootSlots(n) \subseteq DOMAIN n.at /\ DOMAIN m.at \subseteq DOMAIN n.at
    BY DEF RootSlots, Grown
  <1>4. R \subseteq DOMAIN n.at /\ RootSlots(n) \subseteq R /\ Closed(kids, R)
    <2> HIDE DEF kids
    <2>1. QED
      BY <1>2, <1>3, ReachIsLeast
  <1>5. \A s \in DOMAIN m.at : kids[s] = old[s]
    <2>1. \A s \in DOMAIN m.at : n.at[s] = m.at[s] /\ m.at[s] \in 1..a
      BY <1>1 DEF SlotsPlaced, Grown
    <2>2. \A s \in DOMAIN m.at : n.slots[n.at[s]] = m.slots[m.at[s]]
      BY <2>1 DEF Grown
    <2>3. QED
      BY <2>2, <1>3 DEF SlotsBelow
  <1>6. DOMAIN m.at \subseteq R
    <2> DEFINE C == R \cap DOMAIN m.at
    <2>1. RootSlots(m) \subseteq C /\ C \in SUBSET DOMAIN old
      <3> HIDE DEF R
      <3>1. RootSlots(m) \subseteq R
        BY <1>4
      <3>2. QED
        BY <1>2, <3>1 DEF RootSlots
    <2>2. Closed(old, C)
      <3> HIDE DEF R, kids, old
      <3>1. \A s \in C : kids[s] \subseteq R /\ kids[s] = old[s] /\ old[s] \subseteq DOMAIN m.at
        BY <1>2, <1>4, <1>5 DEF Closed, IsKids
      <3>2. QED
        BY <3>1 DEF Closed
    <2>3. Reach(old, RootSlots(m)) = DOMAIN m.at
      BY <1>2 DEF Wooded, Forest
    <2>4. RootSlots(m) \in SUBSET DOMAIN old
      BY <1>2 DEF RootSlots
    <2> HIDE DEF C, old
    <2>5. Reach(old, RootSlots(m)) \subseteq C
      BY <1>2, <2>1, <2>2, <2>4, ReachIsLeast
    <2>6. QED
      BY <2>3, <2>5 DEF C
  <1>7. \A k \in 1..b : \A i \in DOMAIN shape.kids[k] : <<a + k, i>> \in R
    <2> DEFINE Bad == {k \in 1..b : ~ \A i \in DOMAIN shape.kids[k] : <<a + k, i>> \in R}
    <2>1. SUFFICES ASSUME Bad # {} PROVE FALSE
      OBVIOUS
    <2>2. Bad \subseteq Nat
      BY <1>1
    <2>3. PICK k \in Bad : \A l \in Bad : ~(<<l, k>> \in OpToRel(<, Nat))
      <3> HIDE DEF Bad
      <3>1. QED
        BY <2>1, <2>2, WFMin, NatLessThanWellFounded
    <2>4. \A l \in Bad : ~(l < k)
      BY <2>2, <2>3 DEF OpToRel
    <2>5. k \in 1..b
      OBVIOUS
    <2>6. ASSUME NEW p \in R, n.at[p] = a + k PROVE FALSE
      <3>1. ASSUME NEW i \in DOMAIN shape.kids[k] PROVE <<a + k, i>> \in R
        <4> DEFINE s == <<a + k, i>>
        <4>1. s \in DOMAIN n.at
          <5>1. DOMAIN n.slots[a + k] = DOMAIN shape.kids[k] /\ n.slots[a + k][i] = s
            BY <2>5 DEF Grown
          <5>2. s \in ToSet(n.slots[a + k])
            BY <5>1 DEF ToSet
          <5>3. s \in UNION {ToSet(n.slots[a + l]) : l \in 1..b}
            BY <5>2, <2>5
          <5>4. QED
            BY <5>3 DEF Grown
        <4>2. s[1] = a + k /\ s[1] # 0
          <5>1. a + k # 0
            <6> HIDE DEF a, b, Bad
            <6>1. QED
              BY <2>5, <1>1
          <5>2. QED
            BY <5>1
        <4> HIDE DEF s, kids, R
        <4>3. s \in kids[p]
          BY <1>2, <1>4, <2>6, <4>1, <4>2
        <4>4. s \in R
          BY <1>4, <2>6, <4>3 DEF Closed
        <4>5. QED
          BY <4>4 DEF s
      <3>2. QED
        BY <3>1
    <2>7. CASE k = 1
      <3>1. b > 0
        <4> HIDE DEF b, Bad
        <4>1. QED
          BY <2>5, <2>7, <1>1
      <3>2. n.at[<<0, t>>] = a + 1
        BY <3>1, <1>1, RootIsPlaced DEF RootPlaced, Grown
      <3>3. <<0, t>> \in R
        <4> HIDE DEF R
        <4>1. QED
          BY <1>4
      <3>4. QED
        BY <2>6, <2>7, <3>2, <3>3
    <2>8. CASE k # 1
      <3>1. PICK l \in 1..b : \E j \in DOMAIN shape.kids[l] : shape.kids[l][j] = d + k
        BY <2>5, <2>8, ShapeParts DEF IsShape
      <3>2. PICK j \in DOMAIN shape.kids[l] : shape.kids[l][j] = d + k
        BY <3>1
      <3> DEFINE c == shape.kids[l][j]
      <3>3. c \in 1..(d + b) /\ c = d + k
        BY <3>2, ShapeParts
      <3>4. c > d
        <4> HIDE DEF a, b, c, d, Bad, R
        <4>1. QED
          BY <3>3, <2>5, <1>1
      <3>5. c > d + l
        BY <3>4, <3>2, ShapeParts DEF IsShape
      <3>6. l < k
        <4> HIDE DEF a, b, c, d, Bad, R
        <4>1. QED
          BY <3>3, <3>5, <2>5, <1>1
      <3>7. l \notin Bad
        BY <2>4, <3>6
      <3>8. <<a + l, j>> \in R
        BY <3>7
      <3>9. n.at[<<a + l, j>>] = Place(m, c)
        BY DEF Grown
      <3>10. Place(m, c) = a + (c - d)
        <4> HIDE DEF c
        <4>1. QED
          BY <1>1, <3>3, <3>4, Placed
      <3>11. a + (c - d) = a + k
        <4> HIDE DEF a, b, c, d, Bad, R
        <4>1. QED
          BY <3>3, <2>5, <1>1
      <3>12. QED
        <4> HIDE DEF R, Bad, c
        <4>1. QED
          BY <2>6, <3>8, <3>9, <3>10, <3>11
    <2>9. QED
      BY <2>7, <2>8
  <1>8. ASSUME NEW s \in DOMAIN n.at PROVE s \in R
    <2>1. SlotKinds(m, shape, t, n)
      BY <1>1, KindsOfSlots
    <2>2. s \in DOMAIN m.at \/ s = <<0, t>> \/ \E k \in 1..b : \E i \in DOMAIN shape.kids[k] : s = <<a + k, i>>
      BY <2>1 DEF SlotKinds
    <2> HIDE DEF R
    <2>3. QED
      BY <2>2, <1>4, <1>6, <1>7
  <1>9. QED
    <2> HIDE DEF R
    <2>1. R = DOMAIN n.at
      BY <1>4, <1>8
    <2>2. QED
      BY <2>1 DEF R

\* Memory n has one tree t more than m.
TreeMade(m, n, t) ==
  /\ Wooded(n) /\ IdentifiersFirst(n)
  /\ DOMAIN m.at \subseteq DOMAIN n.at /\ DOMAIN n.type = DOMAIN m.type \cup {t}
  /\ \A s \in DOMAIN m.at : n.at[s] = m.at[s]
  /\ \A k \in 1..Len(m.label) : n.label[k] = m.label[k] /\ n.slots[k] = m.slots[k]
  /\ Live(m) \subseteq DOMAIN m.at
  /\ Live(n) = Live(m) \cup Reach(SlotsBelow(n), {<<0, t>>})
  /\ Live(m) \cap Reach(SlotsBelow(n), {<<0, t>>}) = {}

LEMMA BuildKeepsWood ==
  ASSUME ShapesAssumption, NEW m, Wooded(m), IdentifiersFirst(m), NEW shape \in Shapes, NEW n,
         n = NewTree(Grow(m, shape), "UPDATE", Place(m, shape.root))
  PROVE  TreeMade(m, n, NewestTree(n))
  <1> DEFINE t == NewestTree(n)
             old == SlotsBelow(m)
             kids == SlotsBelow(n)
             A == {<<0, u>> : u \in DOMAIN m.type}
             B == {<<0, u>> : u \in DOMAIN n.type}
  <1>1. /\ Grown(m, shape, t, n) /\ t \in Nat /\ t = NewestTree(m) + 1 /\ NewestTree(m) \in Nat
        /\ RootSlots(m) = {<<0, u>> : u \in 1..NewestTree(m)}
        /\ RootSlots(n) = RootSlots(m) \cup {<<0, t>>}
    <2>1. /\ Grown(m, shape, NewestTree(m) + 1, n) /\ NewestTree(n) = NewestTree(m) + 1
          /\ NewestTree(m) \in Nat /\ RootSlots(m) = {<<0, u>> : u \in 1..NewestTree(m)}
          /\ RootSlots(n) = RootSlots(m) \cup {<<0, NewestTree(n)>>}
      BY BuiltIsGrown
    <2>2. QED
      BY <2>1
  <1> HIDE DEF t
  <1>2. SlotsPlaced(m) /\ SlotsPlaced(n) /\ IdentifiersFirst(n)
    <2>1. SlotsPlaced(m)
      BY DEF Wooded
    <2>2. QED
      BY <1>1, <2>1, BuildKeepsSlots
  <1>3. /\ DOMAIN m.at \subseteq DOMAIN n.at /\ DOMAIN n.type = DOMAIN m.type \cup {t}
        /\ \A s \in DOMAIN m.at : n.at[s] = m.at[s]
        /\ \A k \in 1..Len(m.label) : n.label[k] = m.label[k] /\ n.slots[k] = m.slots[k]
        /\ <<0, t>> \in DOMAIN n.at
    BY <1>1 DEF Grown
  <1>4. TreesNumbered(n)
    <2>1. 1..t = (1..NewestTree(m)) \cup {t}
      BY <1>1
    <2>2. RootSlots(n) = {<<0, u>> : u \in 1..t}
      BY <1>1, <2>1
    <2>3. \A u \in DOMAIN n.type : <<0, u>> \in DOMAIN n.at
      BY <1>3 DEF Wooded, TreesNumbered
    <2>4. QED
      BY <1>1, <2>2, <2>3 DEF TreesNumbered
  <1>5. /\ IsKids(kids) /\ DOMAIN kids = DOMAIN n.at /\ IsKids(old) /\ DOMAIN old = DOMAIN m.at
        /\ \A p, s \in DOMAIN n.at : s \in kids[p] <=> s[1] # 0 /\ n.at[p] = s[1]
    BY <1>2, SlotBelow
  <1>6. Forest(kids, RootSlots(n))
    <2>1. ASSUME NEW p \in DOMAIN n.at, NEW q \in DOMAIN n.at, NEW s \in kids[p], s \in kids[q]
          PROVE  p = q
      <3>1. s \in DOMAIN n.at
        BY <1>5 DEF IsKids
      <3>2. s[1] # 0 /\ n.at[p] = s[1] /\ n.at[q] = s[1]
        BY <1>5, <2>1, <3>1
      <3>3. QED
        BY <1>1, <1>2, <3>1, <3>2, BuildIsUnique
    <2>2. \A p \in DOMAIN n.at : kids[p] \cap RootSlots(n) = {}
      BY <1>5 DEF RootSlots
    <2>3. Reach(kids, RootSlots(n)) = DOMAIN n.at
      BY <1>1, <1>2, BuildIsReached
    <2>4. RootSlots(n) \subseteq DOMAIN n.at
      BY DEF RootSlots
    <2> HIDE DEF kids
    <2>5. QED
      BY <1>5, <2>1, <2>2, <2>3, <2>4 DEF Forest
  <1>7. \A s \in DOMAIN m.at : kids[s] = old[s]
    <2>1. \A s \in DOMAIN m.at : n.at[s] = m.at[s] /\ m.at[s] \in 1..Len(m.label)
      BY <1>2, <1>3 DEF SlotsPlaced
    <2>2. \A s \in DOMAIN m.at : n.slots[n.at[s]] = m.slots[m.at[s]]
      BY <2>1, <1>3
    <2>3. QED
      BY <2>2, <1>3 DEF SlotsBelow
  <1>8. A \in SUBSET DOMAIN m.at /\ A \subseteq RootSlots(m) /\ B = A \cup {<<0, t>>}
    <2>1. A \in SUBSET DOMAIN m.at
      BY DEF Wooded, TreesNumbered
    <2>2. \A r \in A : r[1] = 0
      OBVIOUS
    <2>3. A \subseteq RootSlots(m)
      BY <2>1, <2>2 DEF RootSlots
    <2>4. QED
      BY <2>1, <2>3, <1>3
  <1>9. Live(m) = Reach(old, A) /\ Live(n) = Reach(kids, B)
    BY DEF Live
  <1> HIDE DEF A, B, old, kids
  <1>10. Reach(kids, A) = Reach(old, A) /\ Reach(old, A) \subseteq DOMAIN m.at
    <2>1. A \in SUBSET DOMAIN old /\ DOMAIN old \subseteq DOMAIN kids /\ \A s \in DOMAIN old : kids[s] = old[s]
      BY <1>3, <1>5, <1>7, <1>8
    <2>2. Reach(kids, A) = Reach(old, A)
      BY <2>1, <1>5, ReachExtends
    <2>3. QED
      BY <2>2, <1>5 DEF Reach
  <1>11. A \in SUBSET DOMAIN kids /\ B \in SUBSET DOMAIN kids
    BY <1>3, <1>5, <1>8
  <1>12. /\ Reach(kids, A) = UNION {Reach(kids, {a}) : a \in A}
         /\ Reach(kids, B) = UNION {Reach(kids, {a}) : a \in B}
    <2>1. IsKids(kids) /\ A \in SUBSET DOMAIN kids
      BY <1>5, <1>11
    <2>2. IsKids(kids) /\ B \in SUBSET DOMAIN kids
      BY <1>5, <1>11
    <2>3. Reach(kids, A) = UNION {Reach(kids, {a}) : a \in A}
      BY <2>1, ReachIsUnion
    <2>4. Reach(kids, B) = UNION {Reach(kids, {a}) : a \in B}
      BY <2>2, ReachIsUnion
    <2>5. QED
      BY <2>3, <2>4
  <1>13. Reach(kids, B) = Reach(kids, A) \cup Reach(kids, {<<0, t>>})
    BY <1>8, <1>12
  <1>14. <<0, t>> \notin RootSlots(m)
    BY <1>1
  <1>15. \A a \in A : Reach(kids, {a}) \cap Reach(kids, {<<0, t>>}) = {}
    <2>1. TAKE a \in A
    <2>2. a \in RootSlots(n) /\ <<0, t>> \in RootSlots(n) /\ a # <<0, t>>
      BY <1>1, <1>8, <1>14
    <2>3. QED
      BY <1>6, <2>2, RootsApart
  <1>16. Reach(kids, A) \cap Reach(kids, {<<0, t>>}) = {}
    BY <1>12, <1>15
  <1>17. Wooded(n)
    BY <1>2, <1>4, <1>6 DEF Wooded, kids
  <1>18. QED
    <2>1. TreeMade(m, n, t)
      BY <1>2, <1>3, <1>9, <1>10, <1>13, <1>16, <1>17 DEF kids, TreeMade
    <2>2. QED
      BY <2>1 DEF t

-----------------------------------------------------------------------------
(* The zones of a swap. *)

\* A root is reached from nowhere but itself.
LEMMA RootsOnTop ==
  ASSUME NEW m, Wooded(m), NEW s \in DOMAIN m.at, NEW r \in Reach(SlotsBelow(m), {s}), r[1] = 0
  PROVE  r = s
  <1> DEFINE kids == SlotsBelow(m)
  <1>1. IsKids(kids) /\ DOMAIN kids = DOMAIN m.at /\ Forest(kids, RootSlots(m))
    BY SlotBelow DEF Wooded
  <1>2. r \in RootSlots(m) /\ {s} \in SUBSET DOMAIN kids
    BY <1>1 DEF Reach, RootSlots
  <1> HIDE DEF kids
  <1>3. SUFFICES ASSUME r # s PROVE FALSE
    OBVIOUS
  <1>4. PICK p \in Reach(kids, {s}) : r \in kids[p]
    BY <1>1, <1>2, <1>3, ReachedFrom DEF kids
  <1>5. QED
    BY <1>1, <1>2, <1>4 DEF Forest, Reach

IsZone(z) == z = [base |-> z.base, term |-> z.term, ord |-> z.ord]

\* A root on the boundary of a zone is that of the zone's tree.
RootOfZone(z) == \A s \in ToSet(Boundary(z)) : s[1] = 0 => s[2] = z.ord /\ s = z.base

LEMMA ZonesAreIn ==
  ASSUME ShapesAssumption, Wooded(mem), NEW t, <<0, t>> \in DOMAIN mem.at, NEW z \in ZonesOf(t)
  PROVE  /\ IsZone(z) /\ z.ord = t /\ ValidZone(mem, z) /\ ZoneIn(mem, z, t) /\ RootOfZone(z)
  <1> DEFINE kids == SlotsBelow(mem)
             zone(s, q) == [base |-> s, term |-> q, ord |-> t]
             below(s) == Links(zone(s, <<>>)) \ {s}
             at(s) == {zone(s, q) : q \in UNION {[1..k -> below(s)] : k \in 0..MaxTerminii}}
  <1>1. /\ IsKids(kids) /\ DOMAIN kids = DOMAIN mem.at
    BY SlotBelow DEF Wooded
  <1>2. z \in UNION {at(s) : s \in Links(WholeTree(t))} /\ ValidZone(mem, z)
    BY DEF ZonesOf
  <1>3. Links(WholeTree(t)) = Reach(kids, {<<0, t>>}) /\ Reach(kids, {<<0, t>>}) \subseteq DOMAIN mem.at
    BY LinksOfTrees DEF Reach, SlotsBelow
  <1>4. PICK s \in Reach(kids, {<<0, t>>}) : z \in at(s)
    BY <1>2, <1>3
  <1>5. PICK k \in 0..MaxTerminii : \E q \in [1..k -> below(s)] : z = zone(s, q)
    BY <1>4
  <1>6. PICK q \in [1..k -> below(s)] : z = zone(s, q)
    BY <1>5
  <1>7. z.base = s /\ z.term = q /\ z.ord = t /\ IsZone(z)
    BY <1>6 DEF IsZone
  <1>8. below(s) = Reach(kids, {s}) \ {s} /\ s \in DOMAIN mem.at
    <2>1. zone(s, <<>>).base = s /\ zone(s, <<>>).term = <<>>
      OBVIOUS
    <2>2. s \in DOMAIN mem.at
      BY <1>3
    <2> HIDE DEF zone, kids
    <2>3. Links(zone(s, <<>>)) = Reach(kids, {s})
      BY <2>1, <2>2, LinksOfTrees DEF kids
    <2>4. QED
      BY <2>2, <2>3
  <1> HIDE DEF below, at, zone
  <1>9. k \in Nat /\ q \in Seq(below(s)) /\ DOMAIN q = 1..k
    BY <1>6 DEF ShapesAssumption
  <1>10. below(s) \subseteq DOMAIN mem.at
    BY <1>1, <1>8 DEF Reach
  <1>11. z.term \in Seq(DOMAIN mem.at)
    <2>1. q \in [1..k -> DOMAIN mem.at]
      BY <1>6, <1>10
    <2>2. q \in Seq(DOMAIN mem.at)
      BY <2>1, <1>9, Lists
    <2>3. QED
      BY <2>2, <1>7
  <1>12. \A i \in DOMAIN z.term : z.term[i] \in Reach(kids, {z.base}) \ {z.base}
    BY <1>6, <1>7, <1>8, <1>9
  <1>13. ~IsEmptyZone(z)
    <2>1. SUFFICES ASSUME z.term = <<z.base>> PROVE FALSE
      BY DEF IsEmptyZone
    <2>2. 1 \in DOMAIN z.term /\ z.term[1] = z.base
      BY <2>1
    <2>3. QED
      BY <2>2, <1>12
  <1>14. ZoneIn(mem, z, t)
    <2>1. \A i, j \in DOMAIN z.term : i # j => z.term[i] \notin Reach(kids, {z.term[j]})
      BY <1>2, <1>11, <1>13, TerminiiApart
    <2>2. QED
      BY <2>1, <1>7, <1>11, <1>12 DEF ZoneIn
  <1>15. RootOfZone(z)
    <2>1. SUFFICES ASSUME NEW r \in ToSet(Boundary(z)), r[1] = 0
                   PROVE  r[2] = z.ord /\ r = z.base
      BY DEF RootOfZone
    <2>2. r = z.base \/ r \in ToSet(z.term)
      BY <1>7, <1>8, <1>11, BoundaryParts
    <2>3. r = z.base
      <3>1. SUFFICES ASSUME r \in ToSet(z.term) PROVE FALSE
        BY <2>2
      <3>2. r \in Reach(kids, {s}) \ {s}
        BY <3>1, <1>7, <1>12 DEF ToSet
      <3>3. QED
        BY <3>2, <2>1, <1>8, RootsOnTop
    <2>4. r = <<0, t>>
      BY <2>1, <2>3, <1>7, RootsOnTop
    <2>5. QED
      BY <2>3, <2>4, <1>7
  <1>16. QED
    BY <1>2, <1>7, <1>14, <1>15

-----------------------------------------------------------------------------
(* What is left to do, and what the tables have meanwhile. *)

Left(steps, i) == SubSeq(steps, i, Len(steps))

LEMMA LeftOver ==
  ASSUME NEW S, NEW steps \in Seq(S), NEW i \in 1..Len(steps)
  PROVE  /\ Left(steps, i) # <<>> /\ Head(Left(steps, i)) = steps[i]
         /\ Tail(Left(steps, i)) = Left(steps, i + 1)
         /\ Left(steps, Len(steps) + 1) = <<>> /\ Left(steps, 1) = steps
  <1> DEFINE n == Len(steps)
             L == Left(steps, i)
             M == Left(steps, i + 1)
  <1>1. n \in Nat /\ i \in 1..n
    OBVIOUS
  <1>2. L \in Seq(S) /\ Len(L) = (n - i) + 1 /\ \A k \in 1..((n - i) + 1) : L[k] = steps[(k + i) - 1]
    BY DEF Left
  <1>3. M \in Seq(S) /\ Len(M) = n - i /\ \A k \in 1..(n - i) : M[k] = steps[k + i]
    BY DEF Left
  <1>4. Left(steps, n + 1) = <<>>
    BY DEF Left
  <1>5. Left(steps, 1) = steps
    BY DEF Left
  <1> HIDE DEF L, M
  <1>6. L # <<>> /\ Head(L) = steps[i]
    BY <1>1, <1>2
  <1>7. Tail(L) = M
    <2>1. Tail(L) \in Seq(S) /\ Len(Tail(L)) = n - i /\ \A k \in 1..(n - i) : Tail(L)[k] = L[k + 1]
      BY <1>1, <1>2, <1>6
    <2>2. \A k \in 1..(n - i) : L[k + 1] = steps[k + i]
      <3>1. TAKE k \in 1..(n - i)
      <3>2. k + 1 \in 1..((n - i) + 1) /\ ((k + 1) + i) - 1 = k + i
        BY <1>1
      <3>3. QED
        BY <3>2, <1>2
    <2> HIDE DEF n
    <2>3. Len(Tail(L)) = Len(M) /\ \A k \in 1..Len(M) : Tail(L)[k] = M[k]
      BY <2>1, <2>2, <1>3
    <2>4. QED
      BY <2>1, <2>3, <1>3
  <1>8. QED
    BY <1>4, <1>5, <1>6, <1>7 DEF L, M

Tree(t) == Reach(SlotsBelow(mem), {<<0, t>>})

Tables(D, R, N) == domain = D /\ rows = RowsOf(mem, R) /\ nodes = NodesOf(mem, N)

Idling == todo = <<>> /\ Tables(Live(mem), Live(mem), Live(mem))

\* Before step i of the building of tree t: the tree is in the tables of the
\* steps before it.
Building(i, t) ==
  LET L == Live(mem)
      old == L \ Tree(t)
  IN /\ todo = Left(BuildSteps, i)
     /\ t \in DOMAIN mem.type /\ zones = <<WholeTree(t)>>
     /\ Tables(IF i > 1 THEN L ELSE old, IF i > 2 THEN L ELSE old, IF i > 3 THEN L ELSE old)

TearingDown(i, t) ==
  LET L == Live(mem)
      rest == L \ Tree(t)
  IN /\ todo = Left(TeardownSteps, i)
     /\ t \in DOMAIN mem.type /\ zones = <<WholeTree(t)>>
     /\ Tables(IF i > 4 THEN rest ELSE L, IF i > 3 THEN rest ELSE L, IF i > 2 THEN rest ELSE L)

\* The rows of the boundary of zone z.
BoundaryRows(m, z) == [k \in DOMAIN Boundary(z) |-> RowOf(m, Boundary(z)[k])]

Bounds(x, y) == ToSet(Boundary(x)) \cup ToSet(Boundary(y))

\* Before step i of a swap of zones x and y, as they are then.
Swapping(i, x, y) ==
  LET L == Live(mem)
      off == L \ Bounds(x, y)
  IN /\ todo = Left(SwapSteps, i)
     /\ zones = <<x, y>> /\ IsZone(x) /\ IsZone(y)
     /\ Bounds(x, y) \subseteq L /\ RootOfZone(x) /\ RootOfZone(y)
     /\ Tables(L, IF i \in 4..5 THEN off ELSE L, IF i \in 3..6 THEN off ELSE L)
     /\ i <= 4 => Swappable(mem, x, y) /\ SwapAsserts(mem, x, y)
     /\ i = 4 => info[1] = BoundaryRows(mem, x) /\ info[2] = BoundaryRows(mem, y)
     /\ i = 5 => RowInfo(1) = BoundaryRows(mem, x) /\ RowInfo(2) = BoundaryRows(mem, y)

Stage ==
  \/ Idling
  \/ \E i \in 1..4 : \E t \in DOMAIN mem.type : Building(i, t)
  \/ \E i \in 1..5 : \E t \in DOMAIN mem.type : TearingDown(i, t)
  \/ \E i \in 1..7 : \E x, y : Swapping(i, x, y)

StepNames ==
  {"insert domain", "insert rows", "insert nodes", "insert orderings",
   "delete orderings", "delete nodes", "delete rows", "delete domain", "free tree",
   "suspend orderings", "suspend nodes", "suspend rows", "swap",
   "resume rows", "resume nodes", "resume orderings"}

LEMMA StepLists ==
  /\ BuildSteps \in Seq(StepNames) /\ Len(BuildSteps) = 4
  /\ TeardownSteps \in Seq(StepNames) /\ Len(TeardownSteps) = 5
  /\ SwapSteps \in Seq(StepNames) /\ Len(SwapSteps) = 7
  <1>1. BuildSteps \in [1..4 -> StepNames]
    <2>1. BuildSteps = [i \in 1..4 |-> BuildSteps[i]]
      BY DEF BuildSteps
    <2>2. \A i \in 1..4 : BuildSteps[i] \in StepNames
      <3>1. BuildSteps[1] = "insert domain" /\ BuildSteps[2] = "insert rows"
            /\ BuildSteps[3] = "insert nodes" /\ BuildSteps[4] = "insert orderings"
        BY DEF BuildSteps
      <3>2. \A i \in 1..4 : i = 1 \/ i = 2 \/ i = 3 \/ i = 4
        OBVIOUS
      <3>3. {"insert domain", "insert rows", "insert nodes", "insert orderings"} \subseteq StepNames
        BY Zenon DEF StepNames
      <3>4. QED
        BY <3>1, <3>2, <3>3
    <2>3. QED
      BY <2>1, <2>2
  <1>2. TeardownSteps \in [1..5 -> StepNames]
    <2>1. TeardownSteps = [i \in 1..5 |-> TeardownSteps[i]]
      BY DEF TeardownSteps
    <2>2. \A i \in 1..5 : TeardownSteps[i] \in StepNames
      <3>1. TeardownSteps[1] = "delete orderings" /\ TeardownSteps[2] = "delete nodes"
            /\ TeardownSteps[3] = "delete rows" /\ TeardownSteps[4] = "delete domain"
            /\ TeardownSteps[5] = "free tree"
        BY DEF TeardownSteps
      <3>2. \A i \in 1..5 : i = 1 \/ i = 2 \/ i = 3 \/ i = 4 \/ i = 5
        OBVIOUS
      <3>3. {"delete orderings", "delete nodes", "delete rows", "delete domain", "free tree"} \subseteq StepNames
        BY Zenon DEF StepNames
      <3>4. QED
        BY <3>1, <3>2, <3>3
    <2>3. QED
      BY <2>1, <2>2
  <1>3. SwapSteps \in [1..7 -> StepNames]
    <2>1. SwapSteps = [i \in 1..7 |-> SwapSteps[i]]
      BY DEF SwapSteps
    <2>2. \A i \in 1..7 : SwapSteps[i] \in StepNames
      <3>1. SwapSteps[1] = "suspend orderings" /\ SwapSteps[2] = "suspend nodes"
            /\ SwapSteps[3] = "suspend rows" /\ SwapSteps[4] = "swap"
            /\ SwapSteps[5] = "resume rows" /\ SwapSteps[6] = "resume nodes"
            /\ SwapSteps[7] = "resume orderings"
        BY DEF SwapSteps
      <3>2. \A i \in 1..7 : i = 1 \/ i = 2 \/ i = 3 \/ i = 4 \/ i = 5 \/ i = 6 \/ i = 7
        OBVIOUS
      <3>3. {"suspend orderings", "suspend nodes", "suspend rows", "swap", "resume rows", "resume nodes", "resume orderings"} \subseteq StepNames
        BY Zenon DEF StepNames
      <3>4. QED
        BY <3>1, <3>2, <3>3
    <2>3. QED
      BY <2>1, <2>2
  <1>4. BuildSteps \in Seq(StepNames) /\ Len(BuildSteps) = 4
    BY <1>1, Lists
  <1>5. TeardownSteps \in Seq(StepNames) /\ Len(TeardownSteps) = 5
    BY <1>2, Lists
  <1>6. SwapSteps \in Seq(StepNames) /\ Len(SwapSteps) = 7
    BY <1>3, Lists
  <1>7. QED
    BY <1>4, <1>5, <1>6

LEMMA StepsDiffer ==
  /\ \A i, j \in 1..4 : BuildSteps[i] = BuildSteps[j] => i = j
  /\ \A i, j \in 1..5 : TeardownSteps[i] = TeardownSteps[j] => i = j
  /\ \A i, j \in 1..7 : SwapSteps[i] = SwapSteps[j] => i = j
  /\ \A i \in 1..4 : \A j \in 1..5 : BuildSteps[i] # TeardownSteps[j]
  /\ \A i \in 1..4 : \A j \in 1..7 : BuildSteps[i] # SwapSteps[j]
  /\ \A i \in 1..5 : \A j \in 1..7 : TeardownSteps[i] # SwapSteps[j]
  <1>1. /\ BuildSteps[1] = "insert domain" /\ BuildSteps[2] = "insert rows"
        /\ BuildSteps[3] = "insert nodes" /\ BuildSteps[4] = "insert orderings"
    BY DEF BuildSteps
  <1>2. /\ TeardownSteps[1] = "delete orderings" /\ TeardownSteps[2] = "delete nodes"
        /\ TeardownSteps[3] = "delete rows" /\ TeardownSteps[4] = "delete domain"
        /\ TeardownSteps[5] = "free tree"
    BY DEF TeardownSteps
  <1>3. /\ SwapSteps[1] = "suspend orderings" /\ SwapSteps[2] = "suspend nodes"
        /\ SwapSteps[3] = "suspend rows" /\ SwapSteps[4] = "swap" /\ SwapSteps[5] = "resume rows"
        /\ SwapSteps[6] = "resume nodes" /\ SwapSteps[7] = "resume orderings"
    BY DEF SwapSteps
  <1>4. \A i \in 1..4 : i = 1 \/ i = 2 \/ i = 3 \/ i = 4
    OBVIOUS
  <1>5. \A i \in 1..5 : i = 1 \/ i = 2 \/ i = 3 \/ i = 4 \/ i = 5
    OBVIOUS
  <1>6. \A i \in 1..7 : i = 1 \/ i = 2 \/ i = 3 \/ i = 4 \/ i = 5 \/ i = 6 \/ i = 7
    OBVIOUS
  <1>7. \A i, j \in 1..4 : BuildSteps[i] = BuildSteps[j] => i = j
    BY <1>1, <1>4
  <1>8. \A i, j \in 1..5 : TeardownSteps[i] = TeardownSteps[j] => i = j
    BY <1>2, <1>5
  <1>9. \A i, j \in 1..7 : SwapSteps[i] = SwapSteps[j] => i = j
    BY <1>3, <1>6
  <1>10. \A i \in 1..4 : \A j \in 1..5 : BuildSteps[i] # TeardownSteps[j]
    BY <1>1, <1>2, <1>4, <1>5
  <1>11. \A i \in 1..4 : \A j \in 1..7 : BuildSteps[i] # SwapSteps[j]
    BY <1>1, <1>3, <1>4, <1>6
  <1>12. \A i \in 1..5 : \A j \in 1..7 : TeardownSteps[i] # SwapSteps[j]
    BY <1>2, <1>3, <1>5, <1>6
  <1>13. QED
    BY <1>7, <1>8, <1>9, <1>10, <1>11, <1>12

\* The next step tells what goes on.
LEMMA StageOfStep ==
  ASSUME Stage, todo # <<>>
  PROVE  /\ \A i \in 1..4 : Head(todo) = BuildSteps[i] =>
              Tail(todo) = Left(BuildSteps, i + 1) /\ \E t \in DOMAIN mem.type : Building(i, t)
         /\ \A i \in 1..5 : Head(todo) = TeardownSteps[i] =>
              Tail(todo) = Left(TeardownSteps, i + 1) /\ \E t \in DOMAIN mem.type : TearingDown(i, t)
         /\ \A i \in 1..7 : Head(todo) = SwapSteps[i] =>
              Tail(todo) = Left(SwapSteps, i + 1) /\ \E x, y : Swapping(i, x, y)
  <1>1. CASE Idling
    BY <1>1 DEF Idling
  <1>2. ASSUME NEW j \in 1..4, NEW t \in DOMAIN mem.type, Building(j, t)
        PROVE  Head(todo) = BuildSteps[j] /\ Tail(todo) = Left(BuildSteps, j + 1)
    <2>1. todo = Left(BuildSteps, j)
      BY <1>2 DEF Building
    <2>2. BuildSteps \in Seq(StepNames) /\ j \in 1..Len(BuildSteps)
      BY StepLists
    <2>3. QED
      BY <2>1, <2>2, LeftOver
  <1>3. ASSUME NEW j \in 1..5, NEW t \in DOMAIN mem.type, TearingDown(j, t)
        PROVE  Head(todo) = TeardownSteps[j] /\ Tail(todo) = Left(TeardownSteps, j + 1)
    <2>1. todo = Left(TeardownSteps, j)
      BY <1>3 DEF TearingDown
    <2>2. TeardownSteps \in Seq(StepNames) /\ j \in 1..Len(TeardownSteps)
      BY StepLists
    <2>3. QED
      BY <2>1, <2>2, LeftOver
  <1>4. ASSUME NEW j \in 1..7, NEW x, NEW y, Swapping(j, x, y)
        PROVE  Head(todo) = SwapSteps[j] /\ Tail(todo) = Left(SwapSteps, j + 1)
    <2>1. todo = Left(SwapSteps, j)
      BY <1>4 DEF Swapping
    <2>2. SwapSteps \in Seq(StepNames) /\ j \in 1..Len(SwapSteps)
      BY StepLists
    <2>3. QED
      BY <2>1, <2>2, LeftOver
  <1>5. ASSUME NEW j \in 1..4, NEW t \in DOMAIN mem.type, Building(j, t)
        PROVE  /\ \A i \in 1..4 : Head(todo) = BuildSteps[i] => i = j
               /\ \A i \in 1..5 : Head(todo) # TeardownSteps[i]
               /\ \A i \in 1..7 : Head(todo) # SwapSteps[i]
    BY <1>2, <1>5, StepsDiffer
  <1>6. ASSUME NEW j \in 1..5, NEW t \in DOMAIN mem.type, TearingDown(j, t)
        PROVE  /\ \A i \in 1..4 : Head(todo) # BuildSteps[i]
               /\ \A i \in 1..5 : Head(todo) = TeardownSteps[i] => i = j
               /\ \A i \in 1..7 : Head(todo) # SwapSteps[i]
    BY <1>3, <1>6, StepsDiffer
  <1>7. ASSUME NEW j \in 1..7, NEW x, NEW y, Swapping(j, x, y)
        PROVE  /\ \A i \in 1..4 : Head(todo) # BuildSteps[i]
               /\ \A i \in 1..5 : Head(todo) # TeardownSteps[i]
               /\ \A i \in 1..7 : Head(todo) = SwapSteps[i] => i = j
    BY <1>4, <1>7, StepsDiffer
  <1>8. QED
    BY <1>1, <1>2, <1>3, <1>4, <1>5, <1>6, <1>7 DEF Stage

LEMMA NothingLeft ==
  ASSUME Stage, todo = <<>>
  PROVE  Idling
  <1>1. ASSUME NEW j \in 1..4, NEW t \in DOMAIN mem.type, Building(j, t) PROVE FALSE
    <2>1. todo = Left(BuildSteps, j)
      BY <1>1 DEF Building
    <2>2. BuildSteps \in Seq(StepNames) /\ j \in 1..Len(BuildSteps)
      BY StepLists
    <2>3. QED
      BY <2>1, <2>2, LeftOver
  <1>2. ASSUME NEW j \in 1..5, NEW t \in DOMAIN mem.type, TearingDown(j, t) PROVE FALSE
    <2>1. todo = Left(TeardownSteps, j)
      BY <1>2 DEF TearingDown
    <2>2. TeardownSteps \in Seq(StepNames) /\ j \in 1..Len(TeardownSteps)
      BY StepLists
    <2>3. QED
      BY <2>1, <2>2, LeftOver
  <1>3. ASSUME NEW j \in 1..7, NEW x, NEW y, Swapping(j, x, y) PROVE FALSE
    <2>1. todo = Left(SwapSteps, j)
      BY <1>3 DEF Swapping
    <2>2. SwapSteps \in Seq(StepNames) /\ j \in 1..Len(SwapSteps)
      BY StepLists
    <2>3. QED
      BY <2>1, <2>2, LeftOver
  <1>4. QED
    BY <1>1, <1>2, <1>3 DEF Stage

LEMMA EndsOfSteps ==
  /\ Left(BuildSteps, 5) = <<>> /\ Left(TeardownSteps, 6) = <<>> /\ Left(SwapSteps, 8) = <<>>
  /\ Left(BuildSteps, 1) = BuildSteps /\ Left(TeardownSteps, 1) = TeardownSteps
  /\ Left(SwapSteps, 1) = SwapSteps
  <1>1. Left(BuildSteps, 5) = <<>> /\ Left(BuildSteps, 1) = BuildSteps
    <2>1. BuildSteps \in Seq(StepNames) /\ 1 \in 1..Len(BuildSteps) /\ Len(BuildSteps) + 1 = 5
      BY StepLists
    <2>2. Left(BuildSteps, Len(BuildSteps) + 1) = <<>> /\ Left(BuildSteps, 1) = BuildSteps
      BY <2>1, LeftOver
    <2>3. QED
      BY <2>1, <2>2
  <1>2. Left(TeardownSteps, 6) = <<>> /\ Left(TeardownSteps, 1) = TeardownSteps
    <2>1. TeardownSteps \in Seq(StepNames) /\ 1 \in 1..Len(TeardownSteps) /\ Len(TeardownSteps) + 1 = 6
      BY StepLists
    <2>2. Left(TeardownSteps, Len(TeardownSteps) + 1) = <<>> /\ Left(TeardownSteps, 1) = TeardownSteps
      BY <2>1, LeftOver
    <2>3. QED
      BY <2>1, <2>2
  <1>3. Left(SwapSteps, 8) = <<>> /\ Left(SwapSteps, 1) = SwapSteps
    <2>1. SwapSteps \in Seq(StepNames) /\ 1 \in 1..Len(SwapSteps) /\ Len(SwapSteps) + 1 = 8
      BY StepLists
    <2>2. Left(SwapSteps, Len(SwapSteps) + 1) = <<>> /\ Left(SwapSteps, 1) = SwapSteps
      BY <2>1, LeftOver
    <2>3. QED
      BY <2>1, <2>2
  <1>4. QED
    BY <1>1, <1>2, <1>3

LEMMA WholeTreeLinks ==
  ASSUME Wooded(mem), NEW t \in DOMAIN mem.type, zones = <<WholeTree(t)>>
  PROVE  AllLinks = Tree(t) /\ Tree(t) \subseteq Live(mem) /\ Live(mem) \subseteq DOMAIN mem.at
  <1>1. ToSet(zones) = {WholeTree(t)}
    BY DEF ToSet
  <1>2. AllLinks = Links(WholeTree(t))
    BY <1>1 DEF AllLinks
  <1>3. <<0, t>> \in DOMAIN mem.at /\ Tree(t) \subseteq Live(mem) /\ Live(mem) \subseteq DOMAIN mem.at
    BY LiveParts DEF Tree
  <1>4. QED
    BY <1>2, <1>3, LinksOfTrees DEF Tree

LEMMA BoundariesOfZones ==
  ASSUME NEW x, NEW y, zones = <<x, y>>
  PROVE  AllBoundaries = Bounds(x, y)
  <1>1. ToSet(zones) = {x, y}
    BY DEF ToSet
  <1>2. QED
    BY <1>1 DEF AllBoundaries, Bounds

LEMMA RowsInserted ==
  ASSUME NEW R, NEW S
  PROVE  /\ Overlay([s \in S |-> RowOf(mem, s)], RowsOf(mem, R)) = RowsOf(mem, R \cup S)
         /\ Without(RowsOf(mem, R), S) = RowsOf(mem, R \ S)
         /\ DOMAIN RowsOf(mem, R) = R
  BY DEF Overlay, Without, RowsOf

LEMMA RowedLinks ==
  ASSUME NEW R, rows = RowsOf(mem, R), NEW S \in SUBSET R, Wooded(mem), R \subseteq DOMAIN mem.at
  PROVE  \A s \in S : s \in DOMAIN rows /\ (IsDeclarer(s) <=> Declares(mem, s))
  <1>1. Rowed(S)
    BY DEF Rowed, RowsOf
  <1>2. \A s \in S : IsDeclarer(s) <=> Declares(mem, s)
    BY <1>1, DeclaresByRow DEF Wooded
  <1>3. QED
    BY <1>2 DEF RowsOf

-----------------------------------------------------------------------------
(* The inductive invariant. *)

OrderingSteps == {"insert orderings", "delete orderings", "suspend orderings", "resume orderings"}

IInv ==
  /\ fault \in {NoFault} \cup OrderingSteps
  /\ fault = NoFault => Wooded(mem) /\ IdentifiersFirst(mem) /\ Stage

LEMMA InsertDomainKeeps ==
  ASSUME IInv, InsertDomain
  PROVE  IInv'
  <1>1. /\ Wooded(mem) /\ IdentifiersFirst(mem) /\ Stage /\ todo # <<>> /\ Head(todo) = BuildSteps[1]
        /\ todo' = Tail(todo) /\ mem' = mem /\ rows' = rows /\ nodes' = nodes /\ zones' = zones
        /\ domain' = domain \cup AllLinks /\ (AllLinks \cap domain = {} => fault' = NoFault)
    <2>1. BuildSteps[1] = "insert domain"
      BY DEF BuildSteps
    <2>2. QED
      BY <2>1 DEF IInv, InsertDomain, Step
  <1>2. PICK t \in DOMAIN mem.type : Building(1, t) /\ todo' = Left(BuildSteps, 2)
    BY <1>1, StageOfStep
  <1>3. zones = <<WholeTree(t)>> /\ Tables(Live(mem) \ Tree(t), Live(mem) \ Tree(t), Live(mem) \ Tree(t))
    BY <1>2 DEF Building
  <1>4. AllLinks = Tree(t) /\ Tree(t) \subseteq Live(mem)
    BY <1>1, <1>3, WholeTreeLinks
  <1>5. fault' = NoFault /\ domain' = Live(mem)
    BY <1>1, <1>3, <1>4 DEF Tables
  <1>6. Building(2, t)'
    <2>1. Tables(Live(mem), Live(mem) \ Tree(t), Live(mem) \ Tree(t))'
      BY <1>1, <1>3, <1>5 DEF Tables, Tree
    <2>2. QED
      BY <1>1, <1>2, <1>3, <2>1 DEF Building
  <1>7. Stage' /\ Wooded(mem)' /\ IdentifiersFirst(mem)'
    BY <1>1, <1>2, <1>6 DEF Stage
  <1>8. QED
    BY <1>5, <1>7 DEF IInv

LEMMA InsertRowsKeeps ==
  ASSUME IInv, InsertRows
  PROVE  IInv'
  <1>1. /\ Wooded(mem) /\ IdentifiersFirst(mem) /\ Stage /\ todo # <<>> /\ Head(todo) = BuildSteps[2]
        /\ todo' = Tail(todo) /\ mem' = mem /\ domain' = domain /\ nodes' = nodes /\ zones' = zones
        /\ rows' = Overlay([s \in AllLinks |-> RowOf(mem, s)], rows)
        /\ (AllLinks \cap DOMAIN rows = {} => fault' = NoFault)
    <2>1. BuildSteps[2] = "insert rows"
      BY DEF BuildSteps
    <2>2. QED
      BY <2>1 DEF IInv, InsertRows, Step
  <1>2. PICK t \in DOMAIN mem.type : Building(2, t) /\ todo' = Left(BuildSteps, 3)
    BY <1>1, StageOfStep
  <1>3. zones = <<WholeTree(t)>> /\ Tables(Live(mem), Live(mem) \ Tree(t), Live(mem) \ Tree(t))
    BY <1>2 DEF Building
  <1>4. AllLinks = Tree(t) /\ Tree(t) \subseteq Live(mem)
    BY <1>1, <1>3, WholeTreeLinks
  <1>5. fault' = NoFault /\ rows' = RowsOf(mem, Live(mem))
    <2>1. rows = RowsOf(mem, Live(mem) \ AllLinks)
      BY <1>3, <1>4 DEF Tables
    <2>2. DOMAIN rows = Live(mem) \ AllLinks
      BY <2>1, RowsInserted
    <2>3. rows' = RowsOf(mem, (Live(mem) \ AllLinks) \cup AllLinks)
      BY <1>1, <2>1, RowsInserted
    <2>4. (Live(mem) \ AllLinks) \cup AllLinks = Live(mem)
      BY <1>4
    <2>5. QED
      BY <1>1, <2>2, <2>3, <2>4
  <1>6. Building(3, t)'
    BY <1>1, <1>2, <1>3, <1>5 DEF Building, Tables, Tree
  <1>7. Stage' /\ Wooded(mem)' /\ IdentifiersFirst(mem)'
    BY <1>1, <1>2, <1>6 DEF Stage
  <1>8. QED
    BY <1>5, <1>7 DEF IInv

LEMMA InsertNodesKeeps ==
  ASSUME IInv, InsertNodes
  PROVE  IInv'
  <1>1. /\ Wooded(mem) /\ IdentifiersFirst(mem) /\ Stage /\ todo # <<>> /\ Head(todo) = BuildSteps[3]
        /\ todo' = Tail(todo) /\ mem' = mem /\ domain' = domain /\ rows' = rows /\ zones' = zones
        /\ (CanInsertLinks(AllLinks) => nodes' = InsertLinks(AllLinks) /\ fault' = NoFault)
    <2>1. BuildSteps[3] = "insert nodes"
      BY DEF BuildSteps
    <2>2. QED
      BY <2>1 DEF IInv, InsertNodes, Step
  <1>2. PICK t \in DOMAIN mem.type : Building(3, t) /\ todo' = Left(BuildSteps, 4)
    BY <1>1, StageOfStep
  <1>3. zones = <<WholeTree(t)>> /\ Tables(Live(mem), Live(mem), Live(mem) \ Tree(t))
    BY <1>2 DEF Building
  <1>4. AllLinks = Tree(t) /\ Tree(t) \subseteq Live(mem) /\ Live(mem) \subseteq DOMAIN mem.at
    BY <1>1, <1>3, WholeTreeLinks
  <1>5. fault' = NoFault /\ nodes' = NodesOf(mem, Live(mem))
    <2> DEFINE R == Live(mem) \ AllLinks
               S == AllLinks
    <2>1. nodes = NodesOf(mem, R) /\ rows = RowsOf(mem, Live(mem)) /\ S \in SUBSET Live(mem)
      BY <1>3, <1>4 DEF Tables
    <2>2. R \cap S = {} /\ R \cup S = Live(mem)
      BY <1>4
    <2>3. \A s \in S : s \in DOMAIN rows /\ (IsDeclarer(s) <=> Declares(mem, s))
      BY <1>1, <1>4, <2>1, RowedLinks
    <2> HIDE DEF R
    <2>4. CanInsertLinks(S) /\ InsertLinks(S) = NodesOf(mem, R \cup S)
      BY <2>1, <2>2, <2>3, LinksInserted
    <2>5. QED
      BY <1>1, <2>2, <2>4
  <1>6. Building(4, t)'
    BY <1>1, <1>2, <1>3, <1>5 DEF Building, Tables, Tree
  <1>7. Stage' /\ Wooded(mem)' /\ IdentifiersFirst(mem)'
    BY <1>1, <1>2, <1>6 DEF Stage
  <1>8. QED
    BY <1>5, <1>7 DEF IInv

LEMMA InsertOrderingsKeeps ==
  ASSUME IInv, InsertOrderings
  PROVE  IInv'
  <1>1. /\ Wooded(mem) /\ IdentifiersFirst(mem) /\ Stage /\ todo # <<>> /\ Head(todo) = BuildSteps[4]
        /\ todo' = Tail(todo) /\ mem' = mem /\ domain' = domain /\ rows' = rows /\ nodes' = nodes
        /\ fault' \in {NoFault, "insert orderings"}
    <2>1. BuildSteps[4] = "insert orderings"
      BY DEF BuildSteps
    <2>2. QED
      BY <2>1 DEF IInv, InsertOrderings, Step
  <1>2. PICK t \in DOMAIN mem.type : Building(4, t) /\ todo' = Left(BuildSteps, 5)
    <2>1. 4 \in 1..4 /\ 4 + 1 = 5
      OBVIOUS
    <2>2. Tail(todo) = Left(BuildSteps, 4 + 1) /\ \E t \in DOMAIN mem.type : Building(4, t)
      BY <1>1, <2>1, StageOfStep
    <2>3. QED
      BY <1>1, <2>1, <2>2
  <1>3. Tables(Live(mem), Live(mem), Live(mem))
    BY <1>2 DEF Building
  <1>4. Idling'
    BY <1>1, <1>2, <1>3, EndsOfSteps DEF Idling, Tables
  <1>5. Stage' /\ Wooded(mem)' /\ IdentifiersFirst(mem)'
    BY <1>1, <1>4 DEF Stage
  <1>6. QED
    BY <1>1, <1>5 DEF IInv, OrderingSteps

LEMMA DeleteOrderingsKeeps ==
  ASSUME IInv, DeleteOrderings
  PROVE  IInv'
  <1>1. /\ Wooded(mem) /\ IdentifiersFirst(mem) /\ Stage /\ todo # <<>> /\ Head(todo) = TeardownSteps[1]
        /\ todo' = Tail(todo) /\ mem' = mem /\ domain' = domain /\ rows' = rows /\ nodes' = nodes
        /\ zones' = zones
    <2>1. TeardownSteps[1] = "delete orderings"
      BY DEF TeardownSteps
    <2>2. QED
      BY <2>1 DEF IInv, DeleteOrderings, Step
  <1>2. PICK t \in DOMAIN mem.type : TearingDown(1, t) /\ todo' = Left(TeardownSteps, 2)
    <2>1. 1 \in 1..5 /\ 1 + 1 = 2
      OBVIOUS
    <2>2. Tail(todo) = Left(TeardownSteps, 1 + 1) /\ \E t \in DOMAIN mem.type : TearingDown(1, t)
      BY <1>1, <2>1, StageOfStep
    <2>3. QED
      BY <1>1, <2>1, <2>2
  <1>3. zones = <<WholeTree(t)>> /\ Tables(Live(mem), Live(mem), Live(mem))
    BY <1>2 DEF TearingDown
  <1>4. TearingDown(2, t)'
    <2>1. Tables(Live(mem), Live(mem), Live(mem))'
      BY <1>1, <1>3 DEF Tables
    <2>2. QED
      BY <1>1, <1>2, <1>3, <2>1 DEF TearingDown
  <1>5. Stage' /\ Wooded(mem)' /\ IdentifiersFirst(mem)'
    BY <1>1, <1>2, <1>4 DEF Stage
  <1>6. fault' \in {NoFault} \cup OrderingSteps
    BY DEF DeleteOrderings, Step, OrderingSteps
  <1>7. QED
    BY <1>5, <1>6 DEF IInv

LEMMA DeleteNodesKeeps ==
  ASSUME IInv, DeleteNodes
  PROVE  IInv'
  <1>1. /\ Wooded(mem) /\ IdentifiersFirst(mem) /\ Stage /\ todo # <<>> /\ Head(todo) = TeardownSteps[2]
        /\ todo' = Tail(todo) /\ mem' = mem /\ domain' = domain /\ rows' = rows /\ zones' = zones
        /\ nodes' = DeleteLinks(AllLinks) /\ (CanDeleteLinks(AllLinks) => fault' = NoFault)
    <2>1. TeardownSteps[2] = "delete nodes"
      BY DEF TeardownSteps
    <2>2. QED
      BY <2>1 DEF IInv, DeleteNodes, Step
  <1>2. PICK t \in DOMAIN mem.type : TearingDown(2, t) /\ todo' = Left(TeardownSteps, 3)
    BY <1>1, StageOfStep
  <1>3. zones = <<WholeTree(t)>> /\ Tables(Live(mem), Live(mem), Live(mem))
    BY <1>2 DEF TearingDown
  <1>4. AllLinks = Tree(t) /\ Tree(t) \subseteq Live(mem) /\ Live(mem) \subseteq DOMAIN mem.at
    BY <1>1, <1>3, WholeTreeLinks
  <1>5. fault' = NoFault /\ nodes' = NodesOf(mem, Live(mem) \ Tree(t))
    <2> DEFINE R == Live(mem)
               S == AllLinks
    <2>1. nodes = NodesOf(mem, R) /\ rows = RowsOf(mem, R) /\ S \in SUBSET R
      BY <1>3, <1>4 DEF Tables
    <2>2. \A s \in S : s \in DOMAIN rows /\ (IsDeclarer(s) <=> Declares(mem, s))
      BY <1>1, <1>4, <2>1, RowedLinks
    <2> HIDE DEF R
    <2>3. CanDeleteLinks(S) /\ DeleteLinks(S) = NodesOf(mem, R \ S)
      BY <2>1, <2>2, LinksDeleted
    <2>4. QED
      BY <1>1, <1>4, <2>3 DEF R
  <1>6. TearingDown(3, t)'
    <2>1. Tables(Live(mem), Live(mem), Live(mem) \ Tree(t))'
      BY <1>1, <1>3, <1>5 DEF Tables, Tree
    <2>2. QED
      BY <1>1, <1>2, <1>3, <2>1 DEF TearingDown
  <1>7. Stage' /\ Wooded(mem)' /\ IdentifiersFirst(mem)'
    BY <1>1, <1>2, <1>6 DEF Stage
  <1>8. QED
    BY <1>5, <1>7 DEF IInv

LEMMA DeleteRowsKeeps ==
  ASSUME IInv, DeleteRows
  PROVE  IInv'
  <1>1. /\ Wooded(mem) /\ IdentifiersFirst(mem) /\ Stage /\ todo # <<>> /\ Head(todo) = TeardownSteps[3]
        /\ todo' = Tail(todo) /\ mem' = mem /\ domain' = domain /\ nodes' = nodes /\ zones' = zones
        /\ rows' = Without(rows, AllLinks) /\ (AllLinks \subseteq DOMAIN rows => fault' = NoFault)
    <2>1. TeardownSteps[3] = "delete rows"
      BY DEF TeardownSteps
    <2>2. QED
      BY <2>1 DEF IInv, DeleteRows, Step
  <1>2. PICK t \in DOMAIN mem.type : TearingDown(3, t) /\ todo' = Left(TeardownSteps, 4)
    BY <1>1, StageOfStep
  <1>3. zones = <<WholeTree(t)>> /\ Tables(Live(mem), Live(mem), Live(mem) \ Tree(t))
    BY <1>2 DEF TearingDown
  <1>4. AllLinks = Tree(t) /\ Tree(t) \subseteq Live(mem)
    BY <1>1, <1>3, WholeTreeLinks
  <1>5. fault' = NoFault /\ rows' = RowsOf(mem, Live(mem) \ Tree(t))
    <2>1. rows = RowsOf(mem, Live(mem))
      BY <1>3 DEF Tables
    <2>2. DOMAIN rows = Live(mem) /\ Without(rows, AllLinks) = RowsOf(mem, Live(mem) \ AllLinks)
      BY <2>1, RowsInserted
    <2>3. QED
      BY <1>1, <1>4, <2>2
  <1>6. TearingDown(4, t)'
    <2>1. Tables(Live(mem), Live(mem) \ Tree(t), Live(mem) \ Tree(t))'
      BY <1>1, <1>3, <1>5 DEF Tables, Tree
    <2>2. QED
      BY <1>1, <1>2, <1>3, <2>1 DEF TearingDown
  <1>7. Stage' /\ Wooded(mem)' /\ IdentifiersFirst(mem)'
    BY <1>1, <1>2, <1>6 DEF Stage
  <1>8. QED
    BY <1>5, <1>7 DEF IInv

LEMMA DeleteDomainKeeps ==
  ASSUME IInv, DeleteDomain
  PROVE  IInv'
  <1>1. /\ Wooded(mem) /\ IdentifiersFirst(mem) /\ Stage /\ todo # <<>> /\ Head(todo) = TeardownSteps[4]
        /\ todo' = Tail(todo) /\ mem' = mem /\ rows' = rows /\ nodes' = nodes /\ zones' = zones
        /\ domain' = domain \ AllLinks /\ (AllLinks \subseteq domain => fault' = NoFault)
    <2>1. TeardownSteps[4] = "delete domain"
      BY DEF TeardownSteps
    <2>2. QED
      BY <2>1 DEF IInv, DeleteDomain, Step
  <1>2. PICK t \in DOMAIN mem.type : TearingDown(4, t) /\ todo' = Left(TeardownSteps, 5)
    BY <1>1, StageOfStep
  <1>3. zones = <<WholeTree(t)>> /\ Tables(Live(mem), Live(mem) \ Tree(t), Live(mem) \ Tree(t))
    BY <1>2 DEF TearingDown
  <1>4. AllLinks = Tree(t) /\ Tree(t) \subseteq Live(mem)
    BY <1>1, <1>3, WholeTreeLinks
  <1>5. fault' = NoFault /\ domain' = Live(mem) \ Tree(t)
    BY <1>1, <1>3, <1>4 DEF Tables
  <1>6. TearingDown(5, t)'
    <2>1. Tables(Live(mem) \ Tree(t), Live(mem) \ Tree(t), Live(mem) \ Tree(t))'
      BY <1>1, <1>3, <1>5 DEF Tables, Tree
    <2>2. QED
      BY <1>1, <1>2, <1>3, <2>1 DEF TearingDown
  <1>7. Stage' /\ Wooded(mem)' /\ IdentifiersFirst(mem)'
    BY <1>1, <1>2, <1>6 DEF Stage
  <1>8. QED
    BY <1>5, <1>7 DEF IInv

\* A tree that is freed takes its own links, and no others, out of the trees.
LEMMA FreedTree ==
  ASSUME NEW m, Wooded(m), IdentifiersFirst(m), NEW t \in DOMAIN m.type, NEW n,
         n = [m EXCEPT !.type = Without(@, {t})]
  PROVE  /\ Wooded(n) /\ IdentifiersFirst(n)
         /\ n.label = m.label /\ n.slots = m.slots /\ n.at = m.at
         /\ Live(n) = Live(m) \ Reach(SlotsBelow(m), {<<0, t>>})
  <1> DEFINE kids == SlotsBelow(m)
             A == {<<0, u>> : u \in DOMAIN m.type}
             B == {<<0, u>> : u \in DOMAIN n.type}
  <1>1. SlotsPlaced(m) /\ DOMAIN m = {"label", "slots", "at", "type", "freed"} /\ TreesNumbered(m)
    BY DEF Wooded, SlotsPlaced
  <1>2. /\ DOMAIN n = DOMAIN m /\ n.label = m.label /\ n.slots = m.slots /\ n.at = m.at
        /\ DOMAIN n.type = DOMAIN m.type \ {t}
    BY <1>1 DEF Without
  <1>3. SlotsPlaced(n)
    BY <1>1, <1>2 DEF SlotsPlaced
  <1>4. SlotsBelow(n) = kids /\ RootSlots(n) = RootSlots(m)
    BY <1>2 DEF SlotsBelow, RootSlots
  <1>5. TreesNumbered(n)
    BY <1>1, <1>2, <1>4 DEF TreesNumbered
  <1>6. Wooded(n)
    BY <1>3, <1>4, <1>5 DEF Wooded
  <1>7. IdentifiersFirst(n)
    BY <1>2 DEF IdentifiersFirst
  <1>8. IsKids(kids) /\ DOMAIN kids = DOMAIN m.at /\ Forest(kids, RootSlots(m))
    BY SlotBelow DEF Wooded
  <1>9. A \in SUBSET DOMAIN kids /\ B \in SUBSET DOMAIN kids /\ A \subseteq RootSlots(m)
        /\ <<0, t>> \in A /\ B = A \ {<<0, t>>}
    <2>1. \A u \in DOMAIN m.type : <<0, u>> \in DOMAIN m.at
      BY <1>1 DEF TreesNumbered
    <2>2. A \in SUBSET DOMAIN m.at /\ \A r \in A : r[1] = 0
      BY <2>1
    <2>3. A \subseteq RootSlots(m)
      BY <2>2 DEF RootSlots
    <2>4. B = A \ {<<0, t>>}
      BY <1>2
    <2>5. <<0, t>> \in A
      OBVIOUS
    <2> HIDE DEF A, B, kids
    <2>6. QED
      BY <1>8, <2>2, <2>3, <2>4, <2>5
  <1>10. Live(m) = Reach(kids, A) /\ Live(n) = Reach(kids, B)
    BY <1>4 DEF Live
  <1> HIDE DEF A, B, kids
  <1>11. Reach(kids, A) = UNION {Reach(kids, {a}) : a \in A}
    <2>1. IsKids(kids) /\ A \in SUBSET DOMAIN kids
      BY <1>8, <1>9
    <2>2. QED
      BY <2>1, ReachIsUnion
  <1>12. Reach(kids, B) = UNION {Reach(kids, {a}) : a \in B}
    <2>1. IsKids(kids) /\ B \in SUBSET DOMAIN kids
      BY <1>8, <1>9
    <2>2. QED
      BY <2>1, ReachIsUnion
  <1>13. \A a \in B : Reach(kids, {a}) \cap Reach(kids, {<<0, t>>}) = {}
    <2>1. TAKE a \in B
    <2>2. a \in RootSlots(m) /\ <<0, t>> \in RootSlots(m) /\ a # <<0, t>>
      BY <1>9
    <2>3. QED
      BY <1>8, <2>2, RootsApart
  <1>14. Reach(kids, B) = Reach(kids, A) \ Reach(kids, {<<0, t>>})
    BY <1>9, <1>11, <1>12, <1>13
  <1>15. QED
    BY <1>2, <1>6, <1>7, <1>10, <1>14 DEF kids

\* Memories with the same links and nodes have the same rows of them.
LEMMA SameMemory ==
  ASSUME NEW m, NEW n, n.label = m.label, n.slots = m.slots, n.at = m.at, NEW S
  PROVE  RowsOf(n, S) = RowsOf(m, S) /\ NodesOf(n, S) = NodesOf(m, S)
  BY DEF RowsOf, NodesOf, RowOf, Declares

LEMMA FreeTreeKeeps ==
  ASSUME IInv, FreeTree
  PROVE  IInv'
  <1>1. /\ Wooded(mem) /\ IdentifiersFirst(mem) /\ Stage /\ todo # <<>> /\ Head(todo) = TeardownSteps[5]
        /\ todo' = Tail(todo) /\ domain' = domain /\ rows' = rows /\ nodes' = nodes
        /\ mem' = [mem EXCEPT !.type = Without(@, {z.ord : z \in ToSet(zones)})] /\ fault' = NoFault
    <2>1. TeardownSteps[5] = "free tree"
      BY DEF TeardownSteps
    <2>2. QED
      BY <2>1 DEF IInv, FreeTree, Step
  <1>2. PICK t \in DOMAIN mem.type : TearingDown(5, t) /\ todo' = Left(TeardownSteps, 6)
    <2>1. 5 \in 1..5 /\ 5 + 1 = 6
      OBVIOUS
    <2>2. Tail(todo) = Left(TeardownSteps, 5 + 1) /\ \E t \in DOMAIN mem.type : TearingDown(5, t)
      BY <1>1, <2>1, StageOfStep
    <2>3. QED
      BY <1>1, <2>1, <2>2
  <1> DEFINE L == Live(mem) \ Tree(t)
  <1>3. zones = <<WholeTree(t)>> /\ Tables(L, L, L)
    BY <1>2 DEF TearingDown
  <1>4. {z.ord : z \in ToSet(zones)} = {t}
    <2>1. ToSet(zones) = {WholeTree(t)}
      BY <1>3 DEF ToSet
    <2>2. QED
      BY <2>1 DEF WholeTree
  <1>5. mem' = [mem EXCEPT !.type = Without(@, {t})]
    BY <1>1, <1>4
  <1>6. /\ Wooded(mem') /\ IdentifiersFirst(mem')
        /\ mem'.label = mem.label /\ mem'.slots = mem.slots /\ mem'.at = mem.at
        /\ Live(mem') = L
    BY <1>1, <1>5, FreedTree DEF Tree
  <1> HIDE DEF L
  <1>7. RowsOf(mem', L) = RowsOf(mem, L) /\ NodesOf(mem', L) = NodesOf(mem, L)
    BY <1>6, SameMemory
  <1>8. Idling'
    BY <1>1, <1>2, <1>3, <1>6, <1>7, EndsOfSteps DEF Idling, Tables
  <1>9. QED
    BY <1>1, <1>6, <1>8 DEF IInv, Stage

LEMMA BuildTreeKeeps ==
  ASSUME ShapesAssumption, IInv, NEW shape \in Shapes, BuildTree(shape)
  PROVE  IInv'
  <1>1. /\ Wooded(mem) /\ IdentifiersFirst(mem) /\ Stage /\ todo = <<>> /\ fault = NoFault /\ fault' = fault
        /\ todo' = BuildSteps /\ domain' = domain /\ rows' = rows /\ nodes' = nodes
        /\ mem' = NewTree(Grow(mem, shape), "UPDATE", Place(mem, shape.root))
        /\ zones' = <<WholeTree(NewestTree(mem'))>>
    BY DEF IInv, BuildTree, Idle
  <1>2. PICK m : m = mem'
    OBVIOUS
  <1>3. PICK t : t = NewestTree(m)
    OBVIOUS
  <1> DEFINE L == Live(mem)
             X == Reach(SlotsBelow(m), {<<0, t>>})
  <1>4. /\ Wooded(m) /\ IdentifiersFirst(m)
        /\ DOMAIN mem.at \subseteq DOMAIN m.at /\ DOMAIN m.type = DOMAIN mem.type \cup {t}
        /\ \A s \in DOMAIN mem.at : m.at[s] = mem.at[s]
        /\ \A k \in 1..Len(mem.label) : m.label[k] = mem.label[k] /\ m.slots[k] = mem.slots[k]
        /\ L \subseteq DOMAIN mem.at
        /\ Live(m) = L \cup X
        /\ L \cap X = {}
    <2>1. m = NewTree(Grow(mem, shape), "UPDATE", Place(mem, shape.root))
      BY <1>1, <1>2
    <2>2. TreeMade(mem, m, t)
      BY <1>1, <1>3, <2>1, BuildKeepsWood
    <2>3. QED
      BY <2>2 DEF TreeMade
  <1>5. Tables(L, L, L)
    BY <1>1, NothingLeft DEF Idling
  <1> HIDE DEF X
  <1>6. RowsOf(m, L) = RowsOf(mem, L) /\ NodesOf(m, L) = NodesOf(mem, L)
    <2>1. SlotsPlaced(mem) /\ L \in SUBSET DOMAIN mem.at /\ \A s \in L : m.at[s] = mem.at[s]
      BY <1>1, <1>4 DEF Wooded
    <2> HIDE DEF L
    <2>2. QED
      BY <1>4, <2>1, SameTables
  <1>7. t \in DOMAIN mem'.type /\ zones' = <<WholeTree(t)>> /\ todo' = Left(BuildSteps, 1)
    BY <1>1, <1>2, <1>3, <1>4, EndsOfSteps
  <1>8. Live(m) \ X = L
    BY <1>4
  <1>9. Building(1, t)'
    <2>1. domain' = L /\ rows' = RowsOf(m, L) /\ nodes' = NodesOf(m, L)
      BY <1>1, <1>5, <1>6 DEF Tables
    <2>2. Tree(t)' = X
      BY <1>2 DEF Tree, X
    <2>3. Live(mem)' = Live(m)
      BY <1>2
    <2> HIDE DEF L
    <2>4. domain' = Live(mem)' \ Tree(t)'
      BY <2>1, <2>2, <2>3, <1>8
    <2>5. rows' = RowsOf(mem', Live(mem)' \ Tree(t)')
      BY <2>1, <2>2, <2>3, <1>2, <1>8
    <2>6. nodes' = NodesOf(mem', Live(mem)' \ Tree(t)')
      BY <2>1, <2>2, <2>3, <1>2, <1>8
    <2>7. QED
      BY <1>7, <2>4, <2>5, <2>6 DEF Building, Tables
  <1>10. Stage'
    BY <1>7, <1>9 DEF Stage
  <1>11. QED
    BY <1>1, <1>2, <1>4, <1>10 DEF IInv

LEMMA TeardownTreeKeeps ==
  ASSUME IInv, NEW t \in DOMAIN mem.type, TeardownTree(t)
  PROVE  IInv'
  <1>1. /\ Wooded(mem) /\ IdentifiersFirst(mem) /\ Stage /\ todo = <<>> /\ fault = NoFault /\ fault' = fault
        /\ todo' = TeardownSteps /\ mem' = mem /\ domain' = domain /\ rows' = rows /\ nodes' = nodes
        /\ zones' = <<WholeTree(t)>>
    BY DEF IInv, TeardownTree, Idle
  <1>2. Tables(Live(mem), Live(mem), Live(mem))
    BY <1>1, NothingLeft DEF Idling
  <1>3. TearingDown(1, t)'
    <2>1. Tables(Live(mem), Live(mem), Live(mem))'
      BY <1>1, <1>2 DEF Tables
    <2>2. todo' = Left(TeardownSteps, 1)
      BY <1>1, EndsOfSteps
    <2>3. QED
      BY <1>1, <2>1, <2>2 DEF TearingDown
  <1>4. Stage' /\ Wooded(mem)' /\ IdentifiersFirst(mem)'
    BY <1>1, <1>3 DEF Stage
  <1>5. QED
    BY <1>1, <1>4 DEF IInv

LEMMA SwapTreeToTreeKeeps ==
  ASSUME ShapesAssumption, IInv, NEW t \in DOMAIN mem.type, NEW u \in DOMAIN mem.type, t < u,
         NEW x \in ZonesOf(t), NEW y \in ZonesOf(u), SwapTreeToTree(x, y)
  PROVE  IInv'
  <1>1. /\ Wooded(mem) /\ IdentifiersFirst(mem) /\ Stage /\ todo = <<>> /\ fault = NoFault /\ fault' = fault
        /\ todo' = SwapSteps /\ mem' = mem /\ domain' = domain /\ rows' = rows /\ nodes' = nodes
        /\ zones' = <<x, y>> /\ Len(x.term) = Len(y.term)
    BY DEF IInv, SwapTreeToTree, Idle
  <1>2. Tables(Live(mem), Live(mem), Live(mem))
    BY <1>1, NothingLeft DEF Idling
  <1>3. /\ <<0, t>> \in DOMAIN mem.at /\ <<0, u>> \in DOMAIN mem.at /\ t \in Nat /\ u \in Nat
        /\ Tree(t) \subseteq Live(mem) /\ Tree(u) \subseteq Live(mem)
    BY <1>1, LiveParts DEF Tree
  <1>4. t # u
    BY <1>3
  <1>5. IsZone(x) /\ x.ord = t /\ ValidZone(mem, x) /\ ZoneIn(mem, x, t) /\ RootOfZone(x)
    BY <1>1, <1>3, ZonesAreIn
  <1>6. IsZone(y) /\ y.ord = u /\ ValidZone(mem, y) /\ ZoneIn(mem, y, u) /\ RootOfZone(y)
    BY <1>1, <1>3, ZonesAreIn
  <1>7. Swappable(mem, x, y)
    BY <1>1, <1>4, <1>5, <1>6 DEF Swappable
  <1>8. SwapAsserts(mem, x, y)
    BY <1>1, <1>4, <1>5, <1>6 DEF SwapAsserts
  <1>9. Bounds(x, y) \subseteq Live(mem)
    <2>1. ToSet(Boundary(x)) \subseteq Tree(t)
      BY <1>1, <1>5, ZoneParts DEF Tree
    <2>2. ToSet(Boundary(y)) \subseteq Tree(u)
      BY <1>1, <1>6, ZoneParts DEF Tree
    <2>3. QED
      BY <2>1, <2>2, <1>3 DEF Bounds
  <1>10. Swapping(1, x, y)'
    <2>1. Tables(Live(mem), Live(mem), Live(mem))'
      BY <1>1, <1>2 DEF Tables
    <2>2. todo' = Left(SwapSteps, 1)
      BY <1>1, EndsOfSteps
    <2>3. Swappable(mem, x, y)' /\ SwapAsserts(mem, x, y)' /\ (Bounds(x, y) \subseteq Live(mem))'
      BY <1>1, <1>7, <1>8, <1>9
    <2>4. 1 \notin 4..5 /\ 1 \notin 3..6 /\ 1 # 4 /\ 1 # 5
      OBVIOUS
    <2>5. QED
      BY <1>1, <1>5, <1>6, <2>1, <2>2, <2>3, <2>4 DEF Swapping
  <1>11. Stage' /\ Wooded(mem)' /\ IdentifiersFirst(mem)'
    BY <1>1, <1>10 DEF Stage
  <1>12. QED
    BY <1>1, <1>11 DEF IInv

LEMMA SuspendOrderingsKeeps ==
  ASSUME IInv, SuspendOrderings
  PROVE  IInv'
  <1>1. /\ Wooded(mem) /\ IdentifiersFirst(mem) /\ Stage /\ todo # <<>> /\ Head(todo) = SwapSteps[1]
        /\ todo' = Tail(todo) /\ mem' = mem /\ domain' = domain /\ rows' = rows /\ nodes' = nodes
        /\ zones' = zones
    <2>1. SwapSteps[1] = "suspend orderings"
      BY DEF SwapSteps
    <2>2. QED
      BY <2>1 DEF IInv, SuspendOrderings, Step
  <1>2. todo' = Left(SwapSteps, 2) /\ \E x, y : Swapping(1, x, y)
    <2>1. 1 \in 1..7 /\ 1 + 1 = 2
      OBVIOUS
    <2>2. Tail(todo) = Left(SwapSteps, 1 + 1) /\ \E x, y : Swapping(1, x, y)
      BY <1>1, <2>1, StageOfStep
    <2>3. QED
      BY <1>1, <2>1, <2>2
  <1>3. PICK x, y : Swapping(1, x, y)
    BY <1>2
  <1>4. /\ zones = <<x, y>> /\ IsZone(x) /\ IsZone(y)
        /\ Bounds(x, y) \subseteq Live(mem) /\ RootOfZone(x) /\ RootOfZone(y)
        /\ Tables(Live(mem), Live(mem), Live(mem))
        /\ Swappable(mem, x, y) /\ SwapAsserts(mem, x, y)
    BY <1>3 DEF Swapping
  <1>5. Swapping(2, x, y)'
    <2>1. Tables(Live(mem), Live(mem), Live(mem))'
      BY <1>1, <1>4 DEF Tables
    <2>2. Swappable(mem, x, y)' /\ SwapAsserts(mem, x, y)' /\ (Bounds(x, y) \subseteq Live(mem))'
      BY <1>1, <1>4
    <2>3. 2 \notin 4..5 /\ 2 \notin 3..6 /\ 2 # 4 /\ 2 # 5
      OBVIOUS
    <2>4. QED
      BY <1>1, <1>2, <1>4, <2>1, <2>2, <2>3 DEF Swapping
  <1>6. Stage' /\ Wooded(mem)' /\ IdentifiersFirst(mem)'
    BY <1>1, <1>5 DEF Stage
  <1>7. fault' \in {NoFault} \cup OrderingSteps
    BY DEF SuspendOrderings, Step, OrderingSteps
  <1>8. QED
    BY <1>6, <1>7 DEF IInv

LEMMA SuspendNodesKeeps ==
  ASSUME IInv, SuspendNodes
  PROVE  IInv'
  <1>1. /\ Wooded(mem) /\ IdentifiersFirst(mem) /\ Stage /\ todo # <<>> /\ Head(todo) = SwapSteps[2]
        /\ todo' = Tail(todo) /\ mem' = mem /\ domain' = domain /\ rows' = rows /\ zones' = zones
        /\ nodes' = DeleteLinks(AllBoundaries) /\ (CanDeleteLinks(AllBoundaries) => fault' = NoFault)
    <2>1. SwapSteps[2] = "suspend nodes"
      BY DEF SwapSteps
    <2>2. QED
      BY <2>1 DEF IInv, SuspendNodes, Step
  <1>2. todo' = Left(SwapSteps, 3) /\ \E x, y : Swapping(2, x, y)
    <2>1. 2 \in 1..7 /\ 2 + 1 = 3
      OBVIOUS
    <2>2. Tail(todo) = Left(SwapSteps, 2 + 1) /\ \E x, y : Swapping(2, x, y)
      BY <1>1, <2>1, StageOfStep
    <2>3. QED
      BY <1>1, <2>1, <2>2
  <1>3. PICK x, y : Swapping(2, x, y)
    BY <1>2
  <1> DEFINE L == Live(mem)
             S == Bounds(x, y)
  <1>4. /\ zones = <<x, y>> /\ IsZone(x) /\ IsZone(y)
        /\ S \subseteq L /\ RootOfZone(x) /\ RootOfZone(y)
        /\ Tables(L, L, L)
        /\ Swappable(mem, x, y) /\ SwapAsserts(mem, x, y)
    BY <1>3 DEF Swapping
  <1>5. AllBoundaries = S /\ L \subseteq DOMAIN mem.at
    BY <1>1, <1>4, BoundariesOfZones, LiveParts
  <1>6. fault' = NoFault /\ nodes' = NodesOf(mem, L \ S)
    <2>1. nodes = NodesOf(mem, L) /\ rows = RowsOf(mem, L) /\ S \in SUBSET L
      BY <1>4 DEF Tables
    <2> HIDE DEF L, S
    <2>2. \A s \in S : s \in DOMAIN rows /\ (IsDeclarer(s) <=> Declares(mem, s))
      BY <1>1, <1>5, <2>1, RowedLinks
    <2>3. CanDeleteLinks(S) /\ DeleteLinks(S) = NodesOf(mem, L \ S)
      BY <2>1, <2>2, LinksDeleted
    <2>4. QED
      BY <1>1, <1>5, <2>3
  <1>7. Swapping(3, x, y)'
    <2>1. Tables(L, L, L \ S)'
      BY <1>1, <1>4, <1>6 DEF Tables
    <2>2. Swappable(mem, x, y)' /\ SwapAsserts(mem, x, y)' /\ (Bounds(x, y) \subseteq Live(mem))'
      BY <1>1, <1>4
    <2>3. 3 \notin 4..5 /\ 3 \in 3..6 /\ 3 # 4 /\ 3 # 5
      OBVIOUS
    <2>4. QED
      BY <1>1, <1>2, <1>4, <2>1, <2>2, <2>3 DEF Swapping
  <1>8. Stage' /\ Wooded(mem)' /\ IdentifiersFirst(mem)'
    BY <1>1, <1>7 DEF Stage
  <1>9. QED
    BY <1>6, <1>8 DEF IInv

LEMMA SuspendRowsKeeps ==
  ASSUME IInv, SuspendRows
  PROVE  IInv'
  <1>1. /\ Wooded(mem) /\ IdentifiersFirst(mem) /\ Stage /\ todo # <<>> /\ Head(todo) = SwapSteps[3]
        /\ todo' = Tail(todo) /\ mem' = mem /\ domain' = domain /\ nodes' = nodes /\ zones' = zones
        /\ rows' = Without(rows, AllBoundaries) /\ (AllBoundaries \subseteq DOMAIN rows => fault' = NoFault)
        /\ info' = [i \in DOMAIN zones |-> [k \in DOMAIN Boundary(zones[i]) |-> rows[Boundary(zones[i])[k]]]]
    <2>1. SwapSteps[3] = "suspend rows"
      BY DEF SwapSteps
    <2>2. QED
      BY <2>1 DEF IInv, SuspendRows, Step
  <1>2. todo' = Left(SwapSteps, 4) /\ \E x, y : Swapping(3, x, y)
    <2>1. 3 \in 1..7 /\ 3 + 1 = 4
      OBVIOUS
    <2>2. Tail(todo) = Left(SwapSteps, 3 + 1) /\ \E x, y : Swapping(3, x, y)
      BY <1>1, <2>1, StageOfStep
    <2>3. QED
      BY <1>1, <2>1, <2>2
  <1>3. PICK x, y : Swapping(3, x, y)
    BY <1>2
  <1> DEFINE L == Live(mem)
             S == Bounds(x, y)
  <1>4. /\ zones = <<x, y>> /\ IsZone(x) /\ IsZone(y)
        /\ S \subseteq L /\ RootOfZone(x) /\ RootOfZone(y)
        /\ Tables(L, L, L \ S)
        /\ Swappable(mem, x, y) /\ SwapAsserts(mem, x, y)
    BY <1>3 DEF Swapping
  <1>5. AllBoundaries = S
    BY <1>4, BoundariesOfZones
  <1>6. fault' = NoFault /\ rows' = RowsOf(mem, L \ S)
    <2>1. rows = RowsOf(mem, L)
      BY <1>4 DEF Tables
    <2>2. DOMAIN rows = L /\ Without(rows, S) = RowsOf(mem, L \ S)
      BY <2>1, RowsInserted
    <2>3. QED
      BY <1>1, <1>4, <1>5, <2>2
  <1>7. info'[1] = BoundaryRows(mem, x) /\ info'[2] = BoundaryRows(mem, y)
    <2>1. \A s \in L : rows[s] = RowOf(mem, s)
      BY <1>4 DEF Tables, RowsOf
    <2>2. DOMAIN zones = 1..2 /\ zones[1] = x /\ zones[2] = y /\ 1 \in 1..2 /\ 2 \in 1..2
      BY <1>4
    <2>3. /\ \A k \in DOMAIN Boundary(x) : Boundary(x)[k] \in L
          /\ \A k \in DOMAIN Boundary(y) : Boundary(y)[k] \in L
      BY <1>4 DEF Bounds, ToSet
    <2>4. /\ info'[1] = [k \in DOMAIN Boundary(x) |-> rows[Boundary(x)[k]]]
          /\ info'[2] = [k \in DOMAIN Boundary(y) |-> rows[Boundary(y)[k]]]
      BY <1>1, <2>2
    <2>5. /\ [k \in DOMAIN Boundary(x) |-> rows[Boundary(x)[k]]] = BoundaryRows(mem, x)
          /\ [k \in DOMAIN Boundary(y) |-> rows[Boundary(y)[k]]] = BoundaryRows(mem, y)
      BY <2>1, <2>3 DEF BoundaryRows
    <2>6. QED
      BY <2>4, <2>5
  <1>8. Swapping(4, x, y)'
    <2>1. Tables(L, L \ S, L \ S)'
      BY <1>1, <1>4, <1>6 DEF Tables
    <2>2. Swappable(mem, x, y)' /\ SwapAsserts(mem, x, y)' /\ (Bounds(x, y) \subseteq Live(mem))'
      BY <1>1, <1>4
    <2>3. (info[1] = BoundaryRows(mem, x) /\ info[2] = BoundaryRows(mem, y))'
      BY <1>1, <1>7
    <2>4. 4 \in 4..5 /\ 4 \in 3..6 /\ 4 # 5
      OBVIOUS
    <2>5. QED
      BY <1>1, <1>2, <1>4, <2>1, <2>2, <2>3, <2>4 DEF Swapping
  <1>9. Stage' /\ Wooded(mem)' /\ IdentifiersFirst(mem)'
    BY <1>1, <1>8 DEF Stage
  <1>10. QED
    BY <1>6, <1>9 DEF IInv

\* The zones as they are after the swap.
Swapped(x, y) == [x EXCEPT !.term = y.term]

\* Zone z has the base of x and the terminii of y.
Mixed(x, y, z) ==
  /\ IsZone(z) /\ z.base = x.base /\ z.term = y.term /\ z.ord = x.ord
  /\ ToSet(Boundary(z)) = {x.base} \cup ToSet(y.term)
  /\ \A m : <<BoundaryRows(m, x)[1]>> \o Tail(BoundaryRows(m, y)) = BoundaryRows(m, z)

LEMMA SwappedZone ==
  ASSUME NEW D, NEW x, NEW y, IsZone(x), x.base \in D, y.base \in D,
         x.term \in Seq(D), y.term \in Seq(D), Len(x.term) = Len(y.term)
  PROVE  Mixed(x, y, Swapped(x, y))
  <1> DEFINE z == Swapped(x, y)
             n == Len(x.term)
  <1>1. IsZone(z) /\ z.base = x.base /\ z.term = y.term /\ z.ord = x.ord
    BY DEF Swapped, IsZone
  <1>2. z.base \in D /\ z.term \in Seq(D) /\ Len(z.term) = n /\ n \in Nat
    BY <1>1
  <1> HIDE DEF z
  <1>3. /\ Boundary(z) \in Seq(D) /\ Len(Boundary(z)) = n + 1 /\ Boundary(z)[1] = x.base
        /\ \A i \in 1..n : Boundary(z)[i + 1] = y.term[i]
        /\ ToSet(Boundary(z)) = {x.base} \cup ToSet(y.term)
    BY <1>1, <1>2, BoundaryParts
  <1>4. Boundary(x) \in Seq(D) /\ Len(Boundary(x)) = n + 1 /\ Boundary(x)[1] = x.base
    BY BoundaryParts
  <1>5. /\ Boundary(y) \in Seq(D) /\ Len(Boundary(y)) = n + 1
        /\ \A i \in 1..n : Boundary(y)[i + 1] = y.term[i]
    BY BoundaryParts
  <1>6. ASSUME NEW m
        PROVE  <<BoundaryRows(m, x)[1]>> \o Tail(BoundaryRows(m, y)) = BoundaryRows(m, z)
    <2> DEFINE R == {RowOf(m, s) : s \in D}
               p == BoundaryRows(m, x)
               q == BoundaryRows(m, y)
               r == BoundaryRows(m, z)
    <2> HIDE DEF n
    <2>1. DOMAIN Boundary(x) = 1..(n + 1) /\ DOMAIN Boundary(y) = 1..(n + 1) /\ DOMAIN Boundary(z) = 1..(n + 1)
      BY <1>2, <1>3, <1>4, <1>5
    <2>2. \A i \in 1..(n + 1) : Boundary(x)[i] \in D /\ Boundary(y)[i] \in D /\ Boundary(z)[i] \in D
      BY <2>1, <1>3, <1>4, <1>5
    <2>3. p \in [1..(n + 1) -> R] /\ q \in [1..(n + 1) -> R] /\ r \in [1..(n + 1) -> R]
      BY <2>1, <2>2 DEF BoundaryRows
    <2>4. \A i \in 1..(n + 1) : p[i] = RowOf(m, Boundary(x)[i]) /\ q[i] = RowOf(m, Boundary(y)[i]) /\ r[i] = RowOf(m, Boundary(z)[i])
      BY <2>1 DEF BoundaryRows
    <2>5. \A i \in 1..n : i + 1 \in 1..(n + 1)
      BY <1>2
    <2>6. 1 \in 1..(n + 1) /\ n + 1 \in Nat
      BY <1>2
    <2>7. p[1] = r[1] /\ \A i \in 1..n : q[i + 1] = r[i + 1]
      BY <2>4, <2>5, <2>6, <1>3, <1>4, <1>5
    <2> HIDE DEF p, q, r, R
    <2>8. /\ q \in Seq(R) /\ Len(q) = n + 1 /\ r \in Seq(R) /\ Len(r) = n + 1 /\ p[1] \in R
      BY <2>3, <2>6, Lists
    <2>9. QED
      <3>1. Tail(q) \in Seq(R) /\ Len(Tail(q)) = n /\ \A i \in 1..n : Tail(q)[i] = q[i + 1]
        BY <2>8, <1>2
      <3> DEFINE h == <<p[1]>>
                   t == Tail(q)
      <3>3. h \in Seq(R) /\ Len(h) = 1 /\ h[1] = p[1]
        BY <2>8
      <3> HIDE DEF h, t
      <3>4. /\ h \o t \in Seq(R) /\ Len(h \o t) = 1 + n /\ (h \o t)[1] = p[1]
            /\ \A k \in 1..n : (h \o t)[1 + k] = t[k]
        <4>1. t \in Seq(R) /\ Len(t) = n
          BY <3>1 DEF t
        <4>2. /\ h \o t \in Seq(R) /\ Len(h \o t) = Len(h) + Len(t)
              /\ \A k \in 1..Len(h) : (h \o t)[k] = h[k]
              /\ \A k \in 1..Len(t) : (h \o t)[Len(h) + k] = t[k]
          <5>1. h \in Seq(R) /\ t \in Seq(R)
            BY <3>3, <4>1
          <5>2. QED
            BY <5>1, Joined
        <4>3. QED
          BY <3>3, <4>1, <4>2
      <3>5. \A i \in 1..n : (h \o t)[1 + i] = r[1 + i]
        BY <3>1, <3>4, <2>7, <1>2 DEF t
      <3>6. \A i \in 1..(n + 1) : i = 1 \/ (i - 1 \in 1..n /\ i = 1 + (i - 1))
        BY <1>2
      <3>7. \A i \in 1..(n + 1) : (h \o t)[i] = r[i]
        BY <3>4, <3>5, <3>6, <2>7
      <3>8. 1 + n = n + 1
        BY <1>2
      <3>9. h \o t = r
        BY <3>4, <3>7, <3>8, <2>8
      <3>10. QED
        BY <3>9 DEF h, t, p, q, r
  <1>7. QED
    BY <1>1, <1>3, <1>6 DEF z, Mixed

LEMMA SwappedRoots ==
  ASSUME NEW D, NEW x, NEW y, IsZone(x), x.base \in D, y.base \in D,
         x.term \in Seq(D), y.term \in Seq(D), Len(x.term) = Len(y.term),
         RootOfZone(x), RootOfZone(y), \A i \in DOMAIN y.term : y.term[i] # y.base
  PROVE  RootOfZone(Swapped(x, y))
  <1>1. /\ ToSet(Boundary(Swapped(x, y))) = {x.base} \cup ToSet(y.term)
        /\ Swapped(x, y).base = x.base /\ Swapped(x, y).ord = x.ord
    <2>1. Mixed(x, y, Swapped(x, y))
      BY SwappedZone
    <2>2. QED
      BY <2>1 DEF Mixed
  <1>2. ToSet(Boundary(x)) = {x.base} \cup ToSet(x.term) /\ ToSet(Boundary(y)) = {y.base} \cup ToSet(y.term)
    BY BoundaryParts
  <1>3. \A s \in ToSet(y.term) : s # y.base
    BY DEF ToSet
  <1>4. \A s \in ToSet(y.term) : s[1] # 0
    BY <1>2, <1>3 DEF RootOfZone
  <1>5. x.base[1] = 0 => x.base[2] = x.ord
    BY <1>2 DEF RootOfZone
  <1>6. QED
    BY <1>1, <1>4, <1>5 DEF RootOfZone

LEMMA SwapZonesKeeps ==
  ASSUME IInv, SwapZones
  PROVE  IInv'
  <1>1. /\ Wooded(mem) /\ IdentifiersFirst(mem) /\ Stage /\ todo # <<>> /\ Head(todo) = SwapSteps[4]
        /\ todo' = Tail(todo) /\ domain' = domain /\ rows' = rows /\ nodes' = nodes /\ info' = info
        /\ mem' = Swap(mem, zones[1], zones[2])
        /\ zones' = <<Swapped(zones[1], zones[2]), Swapped(zones[2], zones[1])>>
        /\ SwapAsserts(mem, zones[1], zones[2]) => fault' = NoFault
    <2>1. SwapSteps[4] = "swap"
      BY DEF SwapSteps
    <2>2. QED
      BY <2>1 DEF IInv, SwapZones, Step, Swapped
  <1>2. todo' = Left(SwapSteps, 5) /\ \E x, y : Swapping(4, x, y)
    <2>1. 4 \in 1..7 /\ 4 + 1 = 5
      OBVIOUS
    <2>2. Tail(todo) = Left(SwapSteps, 4 + 1) /\ \E x, y : Swapping(4, x, y)
      BY <1>1, <2>1, StageOfStep
    <2>3. QED
      BY <1>1, <2>1, <2>2
  <1>3. PICK x, y : Swapping(4, x, y)
    BY <1>2
  <1> DEFINE L == Live(mem)
             S == Bounds(x, y)
             D == DOMAIN mem.at
  <1>4. /\ zones = <<x, y>> /\ IsZone(x) /\ IsZone(y)
        /\ S \subseteq L /\ RootOfZone(x) /\ RootOfZone(y)
        /\ Tables(L, L \ S, L \ S)
        /\ Swappable(mem, x, y) /\ SwapAsserts(mem, x, y)
        /\ info[1] = BoundaryRows(mem, x) /\ info[2] = BoundaryRows(mem, y)
    <2>1. 4 \in 4..5 /\ 4 \in 3..6 /\ 4 <= 4
      OBVIOUS
    <2>2. QED
      BY <1>3, <2>1 DEF Swapping
  <1>5. PICK v, w : v = Swapped(x, y) /\ w = Swapped(y, x)
    OBVIOUS
  <1>6. mem' = Swap(mem, x, y) /\ zones' = <<v, w>> /\ fault' = NoFault
    BY <1>1, <1>4, <1>5
  <1>7. PICK n : n = mem'
    OBVIOUS
  <1>8. /\ Wooded(n) /\ DOMAIN n.at = D /\ RootSlots(n) = RootSlots(mem)
        /\ n.label = mem.label /\ n.slots = mem.slots /\ n.type = mem.type
        /\ \A s \in D \ (ToSet(Boundary(x)) \cup ToSet(Boundary(y))) : n.at[s] = mem.at[s]
        /\ \A A \in SUBSET D :
             {x.base, y.base} \subseteq Reach(SlotsBelow(mem), A) =>
               Reach(SlotsBelow(n), A) = Reach(SlotsBelow(mem), A)
    <2>1. n = Swap(mem, x, y)
      BY <1>6, <1>7
    <2>2. QED
      BY <1>1, <1>4, <2>1, SwapKeepsWood
  <1>9. /\ x.base \in D /\ y.base \in D /\ x.term \in Seq(D) /\ y.term \in Seq(D)
        /\ Len(x.term) = Len(y.term) /\ Len(y.term) = Len(x.term)
    BY <1>1, <1>4, SwappablePairs DEF Swappable
  <1>10. /\ \A i \in DOMAIN x.term : x.term[i] # x.base
        /\ \A i \in DOMAIN y.term : y.term[i] # y.base
    BY <1>4 DEF Swappable, ZoneIn
  <1>11. /\ ToSet(Boundary(x)) = {x.base} \cup ToSet(x.term)
         /\ ToSet(Boundary(y)) = {y.base} \cup ToSet(y.term)
    BY <1>9, BoundaryParts
  <1>12. IsZone(v) /\ ToSet(Boundary(v)) = {x.base} \cup ToSet(y.term)
         /\ \A m : <<BoundaryRows(m, x)[1]>> \o Tail(BoundaryRows(m, y)) = BoundaryRows(m, v)
    <2>1. x.base \in D /\ y.base \in D /\ x.term \in Seq(D) /\ y.term \in Seq(D) /\ Len(x.term) = Len(y.term) /\ IsZone(x)
      BY <1>4, <1>9
    <2> HIDE DEF D
    <2>2. Mixed(x, y, Swapped(x, y))
      BY <2>1, SwappedZone
    <2>3. QED
      BY <2>2, <1>5 DEF Mixed
  <1>13. IsZone(w) /\ ToSet(Boundary(w)) = {y.base} \cup ToSet(x.term)
         /\ \A m : <<BoundaryRows(m, y)[1]>> \o Tail(BoundaryRows(m, x)) = BoundaryRows(m, w)
    <2>1. y.base \in D /\ x.base \in D /\ y.term \in Seq(D) /\ x.term \in Seq(D) /\ Len(y.term) = Len(x.term) /\ IsZone(y)
      BY <1>4, <1>9
    <2> HIDE DEF D
    <2>2. Mixed(y, x, Swapped(y, x))
      BY <2>1, SwappedZone
    <2>3. QED
      BY <2>2, <1>5 DEF Mixed
  <1>14. RootOfZone(v) /\ RootOfZone(w)
    BY <1>4, <1>9, <1>10, <1>5, SwappedRoots
  <1>15. Bounds(v, w) = S
    BY <1>11, <1>12, <1>13 DEF Bounds
  <1>16. Live(n) = L /\ L \subseteq D
    <2> DEFINE A == {<<0, t>> : t \in DOMAIN mem.type}
    <2>1. A \in SUBSET D /\ L \subseteq D
      BY <1>1, LiveParts
    <2>2. {x.base, y.base} \subseteq L
      BY <1>4, <1>11 DEF Bounds
    <2>3. L = Reach(SlotsBelow(mem), A) /\ Live(n) = Reach(SlotsBelow(n), A)
      BY <1>8 DEF Live
    <2> HIDE DEF A, L
    <2>4. QED
      BY <1>8, <2>1, <2>2, <2>3
  <1>17. RowsOf(n, L \ S) = RowsOf(mem, L \ S) /\ NodesOf(n, L \ S) = NodesOf(mem, L \ S)
    <2>1. SlotsPlaced(mem) /\ (L \ S) \in SUBSET DOMAIN mem.at
      BY <1>1, <1>16 DEF Wooded
    <2>2. \A s \in L \ S : n.at[s] = mem.at[s]
      BY <1>8, <1>16 DEF Bounds
    <2>3. \A k \in 1..Len(mem.label) : n.label[k] = mem.label[k] /\ n.slots[k] = mem.slots[k]
      BY <1>8
    <2> HIDE DEF L, S
    <2>4. QED
      BY <2>1, <2>2, <2>3, SameTables
  <1>18. \A z : BoundaryRows(n, z) = BoundaryRows(mem, z)
    <2>1. \A s : RowOf(n, s) = RowOf(mem, s)
      BY <1>8 DEF RowOf
    <2>2. QED
      BY <2>1 DEF BoundaryRows
  <1>19. RowInfo(1)' = BoundaryRows(n, v) /\ RowInfo(2)' = BoundaryRows(n, w)
    <2>1. 3 - 1 = 2 /\ 3 - 2 = 1
      OBVIOUS
    <2>2. RowInfo(1)' = <<info[1][1]>> \o Tail(info[2]) /\ RowInfo(2)' = <<info[2][1]>> \o Tail(info[1])
      BY <1>1, <2>1 DEF RowInfo
    <2>3. QED
      BY <2>2, <1>4, <1>12, <1>13, <1>18
  <1> HIDE DEF L, S
  <1>20. Swapping(5, v, w)'
    <2>1. domain' = Live(n) /\ rows' = RowsOf(n, Live(n) \ Bounds(v, w)) /\ nodes' = NodesOf(n, Live(n) \ Bounds(v, w))
      BY <1>1, <1>4, <1>15, <1>16, <1>17 DEF Tables
    <2>2. Tables(Live(mem), Live(mem) \ Bounds(v, w), Live(mem) \ Bounds(v, w))'
      BY <2>1, <1>7 DEF Tables
    <2>3. (Bounds(v, w) \subseteq Live(mem))'
      BY <1>4, <1>7, <1>15, <1>16
    <2>4. (RowInfo(1) = BoundaryRows(mem, v) /\ RowInfo(2) = BoundaryRows(mem, w))'
      BY <1>7, <1>19
    <2>5. 5 \in 4..5 /\ 5 \in 3..6 /\ ~(5 <= 4) /\ 5 # 4
      OBVIOUS
    <2>6. QED
      BY <1>2, <1>6, <1>12, <1>13, <1>14, <2>2, <2>3, <2>4, <2>5 DEF Swapping
  <1>21. Stage' /\ Wooded(mem)' /\ IdentifiersFirst(mem)'
    <2>1. IdentifiersFirst(n)
      BY <1>1, <1>8 DEF IdentifiersFirst
    <2>2. QED
      BY <2>1, <1>7, <1>8, <1>20 DEF Stage
  <1>22. QED
    BY <1>6, <1>21 DEF IInv

\* The row that LinkTable puts back for a link is the one the link should have.
LEMMA RowPutBack ==
  ASSUME NEW x, NEW y, RootOfZone(x), RootOfZone(y), NEW s \in Bounds(x, y), NEW i \in {1, 2},
         NEW z, z = <<x, y>>[i], s \in ToSet(Boundary(z)), NEW rowOf, rowOf = BoundaryRows(mem, z),
         NEW core, core = rowOf[Position(s, Boundary(z))]
  PROVE  [core EXCEPT !.ord = IF core.parent = Null THEN z.ord ELSE Null] = RowOf(mem, s)
  <1>1. Position(s, Boundary(z)) \in DOMAIN Boundary(z) /\ Boundary(z)[Position(s, Boundary(z))] = s
    BY DEF ToSet, Position
  <1>2. core = RowOf(mem, s)
    BY <1>1 DEF BoundaryRows
  <1>3. z = x \/ z = y
    OBVIOUS
  <1>4. s[1] = 0 => s[2] = z.ord
    BY <1>3 DEF RootOfZone
  <1>5. CASE s[1] = 0
    <2>1. core = [parent |-> Null, pos |-> 0, ord |-> s[2]]
      BY <1>2, <1>5 DEF RowOf
    <2>2. core.parent = Null /\ s[2] = z.ord
      BY <2>1, <1>4, <1>5
    <2>3. [core EXCEPT !.ord = z.ord] = [parent |-> Null, pos |-> 0, ord |-> s[2]]
      BY <2>1, <2>2
    <2>4. QED
      BY <1>2, <2>1, <2>2, <2>3
  <1>6. CASE s[1] # 0
    <2>1. core = [parent |-> s[1], pos |-> Position(s, mem.slots[s[1]]), ord |-> Null]
      BY <1>2, <1>6 DEF RowOf
    <2>2. core.parent # Null
      BY <2>1, <1>6 DEF Null
    <2>3. [core EXCEPT !.ord = Null] = [parent |-> s[1], pos |-> Position(s, mem.slots[s[1]]), ord |-> Null]
      BY <2>1
    <2>4. QED
      BY <1>2, <2>1, <2>2, <2>3
  <1>7. QED
    BY <1>5, <1>6

LEMMA ResumeRowsKeeps ==
  ASSUME IInv, ResumeRows
  PROVE  IInv'
  <1> DEFINE which(s) == CHOOSE i \in {1, 2} : s \in ToSet(Boundary(zones[i]))
             core(s) == RowInfo(which(s))[Position(s, Boundary(zones[which(s)]))]
             row(s) == [core(s) EXCEPT !.ord = IF core(s).parent = Null THEN zones[which(s)].ord ELSE Null]
  <1>1. /\ Wooded(mem) /\ IdentifiersFirst(mem) /\ Stage /\ todo # <<>> /\ Head(todo) = SwapSteps[5]
        /\ todo' = Tail(todo) /\ mem' = mem /\ domain' = domain /\ nodes' = nodes /\ zones' = zones
        /\ rows' = Overlay([s \in AllBoundaries |-> row(s)], rows)
        /\ AllBoundaries \cap DOMAIN rows = {} => fault' = NoFault
    <2>1. SwapSteps[5] = "resume rows"
      BY DEF SwapSteps
    <2>2. QED
      BY <2>1 DEF IInv, ResumeRows, Step
  <1>2. todo' = Left(SwapSteps, 6) /\ \E x, y : Swapping(5, x, y)
    <2>1. 5 \in 1..7 /\ 5 + 1 = 6
      OBVIOUS
    <2>2. Tail(todo) = Left(SwapSteps, 5 + 1) /\ \E x, y : Swapping(5, x, y)
      BY <1>1, <2>1, StageOfStep
    <2>3. QED
      BY <1>1, <2>1, <2>2
  <1>3. PICK x, y : Swapping(5, x, y)
    BY <1>2
  <1> DEFINE L == Live(mem)
             S == Bounds(x, y)
  <1>4. /\ zones = <<x, y>> /\ IsZone(x) /\ IsZone(y)
        /\ S \subseteq L /\ RootOfZone(x) /\ RootOfZone(y)
        /\ Tables(L, L \ S, L \ S)
        /\ RowInfo(1) = BoundaryRows(mem, x) /\ RowInfo(2) = BoundaryRows(mem, y)
    <2>1. 5 \in 4..5 /\ 5 \in 3..6
      OBVIOUS
    <2>2. QED
      BY <1>3, <2>1 DEF Swapping
  <1>5. AllBoundaries = S
    BY <1>4, BoundariesOfZones
  <1>6. \A s \in S : row(s) = RowOf(mem, s)
    <2>1. TAKE s \in S
    <2>2. \E i \in {1, 2} : s \in ToSet(Boundary(zones[i]))
      BY <1>4 DEF Bounds
    <2>3. PICK i : i = which(s)
      OBVIOUS
    <2>4. i \in {1, 2} /\ s \in ToSet(Boundary(zones[i]))
      BY <2>2, <2>3
    <2>5. PICK z, info1, c : /\ z = zones[i] /\ info1 = RowInfo(i)
                             /\ c = info1[Position(s, Boundary(z))]
      OBVIOUS
    <2>6. z = <<x, y>>[i] /\ s \in ToSet(Boundary(z)) /\ info1 = BoundaryRows(mem, z)
      BY <1>4, <2>4, <2>5
    <2>7. [c EXCEPT !.ord = IF c.parent = Null THEN z.ord ELSE Null] = RowOf(mem, s)
      <3> HIDE DEF which, core, row
      <3>1. s \in Bounds(x, y)
        BY <2>1
      <3>2. QED
        BY <3>1, <1>4, <2>4, <2>5, <2>6, RowPutBack
    <2>8. c = core(s) /\ z = zones[which(s)]
      BY <2>3, <2>5
    <2>9. QED
      BY <2>7, <2>8
  <1>7. fault' = NoFault /\ rows' = RowsOf(mem, L)
    <2>1. rows = RowsOf(mem, L \ S)
      BY <1>4 DEF Tables
    <2>2. [s \in S |-> row(s)] = [s \in S |-> RowOf(mem, s)]
      BY <1>6
    <2> HIDE DEF row, S
    <2>3. DOMAIN rows = L \ S /\ Overlay([s \in S |-> RowOf(mem, s)], rows) = RowsOf(mem, (L \ S) \cup S)
      BY <2>1, RowsInserted
    <2>4. (L \ S) \cup S = L
      BY <1>4
    <2>5. QED
      BY <1>1, <1>5, <2>2, <2>3, <2>4
  <1>8. Swapping(6, x, y)'
    <2>1. Tables(L, L, L \ S)'
      BY <1>1, <1>4, <1>7 DEF Tables
    <2>2. (Bounds(x, y) \subseteq Live(mem))'
      BY <1>1, <1>4
    <2>3. 6 \notin 4..5 /\ 6 \in 3..6 /\ ~(6 <= 4) /\ 6 # 4 /\ 6 # 5
      OBVIOUS
    <2>4. QED
      BY <1>1, <1>2, <1>4, <2>1, <2>2, <2>3 DEF Swapping
  <1>9. Stage' /\ Wooded(mem)' /\ IdentifiersFirst(mem)'
    BY <1>1, <1>8 DEF Stage
  <1>10. QED
    BY <1>7, <1>9 DEF IInv

LEMMA ResumeNodesKeeps ==
  ASSUME IInv, ResumeNodes
  PROVE  IInv'
  <1>1. /\ Wooded(mem) /\ IdentifiersFirst(mem) /\ Stage /\ todo # <<>> /\ Head(todo) = SwapSteps[6]
        /\ todo' = Tail(todo) /\ mem' = mem /\ domain' = domain /\ rows' = rows /\ zones' = zones
        /\ CanInsertLinks(AllBoundaries) => nodes' = InsertLinks(AllBoundaries) /\ fault' = NoFault
    <2>1. SwapSteps[6] = "resume nodes"
      BY DEF SwapSteps
    <2>2. QED
      BY <2>1 DEF IInv, ResumeNodes, Step
  <1>2. todo' = Left(SwapSteps, 7) /\ \E x, y : Swapping(6, x, y)
    <2>1. 6 \in 1..7 /\ 6 + 1 = 7
      OBVIOUS
    <2>2. Tail(todo) = Left(SwapSteps, 6 + 1) /\ \E x, y : Swapping(6, x, y)
      BY <1>1, <2>1, StageOfStep
    <2>3. QED
      BY <1>1, <2>1, <2>2
  <1>3. PICK x, y : Swapping(6, x, y)
    BY <1>2
  <1> DEFINE L == Live(mem)
             S == Bounds(x, y)
  <1>4. /\ zones = <<x, y>> /\ IsZone(x) /\ IsZone(y)
        /\ S \subseteq L /\ RootOfZone(x) /\ RootOfZone(y)
        /\ Tables(L, L, L \ S)
    <2>1. 6 \notin 4..5 /\ 6 \in 3..6
      OBVIOUS
    <2>2. QED
      BY <1>3, <2>1 DEF Swapping
  <1>5. AllBoundaries = S /\ L \subseteq DOMAIN mem.at
    BY <1>1, <1>4, BoundariesOfZones, LiveParts
  <1>6. fault' = NoFault /\ nodes' = NodesOf(mem, L)
    <2>1. nodes = NodesOf(mem, L \ S) /\ rows = RowsOf(mem, L) /\ S \in SUBSET L
      BY <1>4 DEF Tables
    <2> HIDE DEF L, S
    <2>2. \A s \in S : s \in DOMAIN rows /\ (IsDeclarer(s) <=> Declares(mem, s))
      BY <1>1, <1>5, <2>1, RowedLinks
    <2>3. (L \ S) \cap S = {} /\ (L \ S) \cup S = L
      BY <2>1
    <2>4. CanInsertLinks(S) /\ InsertLinks(S) = NodesOf(mem, (L \ S) \cup S)
      BY <2>1, <2>2, <2>3, LinksInserted
    <2>5. QED
      BY <1>1, <1>5, <2>3, <2>4
  <1>7. Swapping(7, x, y)'
    <2>1. Tables(L, L, L)'
      BY <1>1, <1>4, <1>6 DEF Tables
    <2>2. (Bounds(x, y) \subseteq Live(mem))'
      BY <1>1, <1>4
    <2>3. 7 \notin 4..5 /\ 7 \notin 3..6 /\ ~(7 <= 4) /\ 7 # 4 /\ 7 # 5
      OBVIOUS
    <2>4. QED
      BY <1>1, <1>2, <1>4, <2>1, <2>2, <2>3 DEF Swapping
  <1>8. Stage' /\ Wooded(mem)' /\ IdentifiersFirst(mem)'
    BY <1>1, <1>7 DEF Stage
  <1>9. QED
    BY <1>6, <1>8 DEF IInv

LEMMA ResumeOrderingsKeeps ==
  ASSUME IInv, ResumeOrderings
  PROVE  IInv'
  <1>1. /\ Wooded(mem) /\ IdentifiersFirst(mem) /\ Stage /\ todo # <<>> /\ Head(todo) = SwapSteps[7]
        /\ todo' = Tail(todo) /\ mem' = mem /\ domain' = domain /\ rows' = rows /\ nodes' = nodes
    <2>1. SwapSteps[7] = "resume orderings"
      BY DEF SwapSteps
    <2>2. QED
      BY <2>1 DEF IInv, ResumeOrderings, Step
  <1>2. todo' = <<>> /\ \E x, y : Swapping(7, x, y)
    <2>1. 7 \in 1..7 /\ 7 + 1 = 8
      OBVIOUS
    <2>2. Tail(todo) = Left(SwapSteps, 7 + 1) /\ \E x, y : Swapping(7, x, y)
      BY <1>1, <2>1, StageOfStep
    <2>3. QED
      BY <1>1, <2>1, <2>2, EndsOfSteps
  <1>3. PICK x, y : Swapping(7, x, y)
    BY <1>2
  <1>4. Tables(Live(mem), Live(mem), Live(mem))
    <2>1. 7 \notin 4..5 /\ 7 \notin 3..6
      OBVIOUS
    <2>2. QED
      BY <1>3, <2>1 DEF Swapping
  <1>5. Idling'
    <2>1. Tables(Live(mem), Live(mem), Live(mem))'
      BY <1>1, <1>4 DEF Tables
    <2>2. QED
      BY <1>2, <2>1 DEF Idling
  <1>6. Stage' /\ Wooded(mem)' /\ IdentifiersFirst(mem)'
    BY <1>1, <1>5 DEF Stage
  <1>7. fault' \in {NoFault} \cup OrderingSteps
    BY DEF ResumeOrderings, Step, OrderingSteps
  <1>8. QED
    BY <1>6, <1>7 DEF IInv

-----------------------------------------------------------------------------
(* The theorems. *)

LEMMA InitHolds ==
  ASSUME ShapesAssumption, Init
  PROVE  IInv
  <1> DEFINE kids == SlotsBelow(mem)
  <1>1. /\ mem.label = Identifiers /\ mem.slots = [n \in DOMAIN Identifiers |-> <<>>]
        /\ mem.at = <<>> /\ mem.type = <<>> /\ DOMAIN mem = {"label", "slots", "at", "type", "freed"}
        /\ domain = {} /\ rows = <<>> /\ nodes = <<>> /\ todo = <<>> /\ fault = NoFault
    BY DEF Init
  <1>2. Identifiers \in Seq(Nat) /\ DOMAIN Identifiers = 1..Len(Identifiers) /\ Len(Identifiers) \in Nat
    BY DEF ShapesAssumption
  <1>3. DOMAIN mem.at = {} /\ DOMAIN mem.type = {} /\ mem.at \in [{} -> 1..Len(mem.label)]
    BY <1>1
  <1>4. SlotsPlaced(mem)
    <2>1. mem.slots \in [1..Len(mem.label) -> Seq(Slots)]
      BY <1>1, <1>2
    <2>2. \A n \in 1..Len(mem.label) : DOMAIN mem.slots[n] = {} /\ ToSet(mem.slots[n]) = {}
      BY <1>1, <1>2 DEF ToSet
    <2>3. IsFiniteSet(DOMAIN mem.at)
      BY <1>3, FS_EmptySet
    <2>4. QED
      BY <1>1, <1>2, <1>3, <2>1, <2>2, <2>3 DEF SlotsPlaced
  <1>5. TreesNumbered(mem)
    <2>1. RootSlots(mem) = {<<0, t>> : t \in 1..0}
      BY <1>3 DEF RootSlots
    <2>2. QED
      BY <1>3, <2>1 DEF TreesNumbered
  <1>6. DOMAIN kids = {} /\ IsKids(kids)
    BY <1>3 DEF IsKids, SlotsBelow
  <1>7. \A A : Reach(kids, A) = {}
    BY <1>6 DEF Reach
  <1>8. Forest(kids, RootSlots(mem))
    BY <1>3, <1>6, <1>7 DEF Forest, RootSlots
  <1>9. IdentifiersFirst(mem)
    BY <1>1, <1>2 DEF IdentifiersFirst
  <1>10. Live(mem) = {}
    BY <1>7 DEF Live
  <1>11. RowsOf(mem, {}) = <<>> /\ NodesOf(mem, {}) = <<>>
    <2>1. \A f : f = [e \in {} |-> f[e]] => f = <<>>
      OBVIOUS
    <2>2. {mem.at[s] : s \in {}} = {}
      OBVIOUS
    <2>3. QED
      BY <2>1, <2>2 DEF RowsOf, NodesOf
  <1>12. Idling
    BY <1>1, <1>10, <1>11 DEF Idling, Tables
  <1>13. QED
    BY <1>1, <1>4, <1>5, <1>8, <1>9, <1>12 DEF IInv, Stage, Wooded

LEMMA NextKeeps ==
  ASSUME ShapesAssumption, IInv, [Next]_vars
  PROVE  IInv'
  <1>1. CASE Operation
    <2>1. CASE \E shape \in Shapes : BuildTree(shape)
      BY <2>1, BuildTreeKeeps
    <2>2. CASE \E t \in DOMAIN mem.type : TeardownTree(t)
      BY <2>2, TeardownTreeKeeps
    <2>3. ASSUME NEW t \in DOMAIN mem.type, NEW u \in DOMAIN mem.type, t < u,
                 NEW x \in ZonesOf(t), NEW y \in ZonesOf(u), SwapTreeToTree(x, y)
          PROVE  IInv'
      BY <2>3, SwapTreeToTreeKeeps
    <2>4. QED
      BY <1>1, <2>1, <2>2, <2>3 DEF Operation
  <1>2. CASE InsertDomain \/ InsertRows \/ InsertNodes \/ InsertOrderings
    BY <1>2, InsertDomainKeeps, InsertRowsKeeps, InsertNodesKeeps, InsertOrderingsKeeps
  <1>3. CASE DeleteOrderings \/ DeleteNodes \/ DeleteRows \/ DeleteDomain \/ FreeTree
    BY <1>3, DeleteOrderingsKeeps, DeleteNodesKeeps, DeleteRowsKeeps, DeleteDomainKeeps, FreeTreeKeeps
  <1>4. CASE SuspendOrderings \/ SuspendNodes \/ SuspendRows \/ SwapZones
    BY <1>4, SuspendOrderingsKeeps, SuspendNodesKeeps, SuspendRowsKeeps, SwapZonesKeeps
  <1>5. CASE ResumeRows \/ ResumeNodes \/ ResumeOrderings
    BY <1>5, ResumeRowsKeeps, ResumeNodesKeeps, ResumeOrderingsKeeps
  <1>6. CASE UNCHANGED vars
    <2>1. /\ mem' = mem /\ domain' = domain /\ rows' = rows /\ nodes' = nodes /\ todo' = todo
          /\ zones' = zones /\ info' = info /\ fault' = fault
      BY <1>6 DEF vars
    <2>2. Stage' = Stage
      BY <2>1 DEF Stage, Idling, Building, TearingDown, Swapping, Tables, Tree, RowInfo
    <2>3. QED
      BY <2>1, <2>2 DEF IInv
  <1>7. CASE Destroyed
    BY <1>6, <1>7 DEF Destroyed
  <1>8. QED
    BY <1>1, <1>2, <1>3, <1>4, <1>5, <1>6, <1>7 DEF Next

LEMMA InvariantMatches ==
  ASSUME IInv
  PROVE  TablesMatchTrees
  <1>1. SUFFICES ASSUME Idle
                 PROVE  /\ domain = LiveLinks
                        /\ rows = [s \in LiveLinks |-> RowOf(mem, s)]
                        /\ nodes = [n \in {mem.at[s] : s \in LiveLinks} |->
                                      LET to == {s \in LiveLinks : mem.at[s] = n} IN
                                      [incoming |-> to,
                                       declaring |-> {s \in to : s[1] # 0 /\ mem.label[s[1]] = Declarer
                                                               /\ Position(s, mem.slots[s[1]]) = 1}]]
    BY DEF TablesMatchTrees
  <1>2. Wooded(mem) /\ Idling
    BY <1>1, NothingLeft DEF IInv, Idle
  <1>3. LiveLinks = Live(mem)
    BY <1>2, LinksOfTrees
  <1>4. domain = LiveLinks /\ rows = RowsOf(mem, LiveLinks) /\ nodes = NodesOf(mem, LiveLinks)
    BY <1>2, <1>3 DEF Idling, Tables
  <1>5. \A n : {s \in LiveLinks : mem.at[s] = n /\ Declares(mem, s)}
                 = {s \in {s \in LiveLinks : mem.at[s] = n} :
                      s[1] # 0 /\ mem.label[s[1]] = Declarer /\ Position(s, mem.slots[s[1]]) = 1}
    BY DEF Declares
  <1>6. QED
    BY <1>4, <1>5 DEF RowsOf, NodesOf

LEMMA InvariantHolds == Spec => []IInv
  <1>1. ASSUME ShapesAssumption, Init PROVE IInv
    BY <1>1, InitHolds
  <1>2. ASSUME ShapesAssumption, IInv, [Next]_vars PROVE IInv'
    BY <1>2, NextKeeps
  <1>3. QED
    BY <1>1, <1>2, ShapesAssumption, PTL DEF Spec

\* After any operations - trees built of any shapes, leaves with several
\* parents among them, torn down, and any zones of two trees swapped - the
\* domain, the link table and the node table are what building them from the
\* trees would give: an incremental change of the tables (vn/db: link_table,
\* node_table, domain) is as good as building them again, as CheckAssets() has it.
THEOREM TablesAlwaysMatch == Spec => []TablesMatchTrees
  <1>1. IInv => TablesMatchTrees
    BY InvariantMatches
  <1>2. QED
    BY <1>1, InvariantHolds, PTL

-----------------------------------------------------------------------------
(* Nodes are compared downwards. *)

\* Some node of X has none of X right below it.
LEMMA NodesGrounded ==
  ASSUME NEW m, Wooded(m), NEW X \in SUBSET (1..Len(m.label)), X # {}
  PROVE  \E k \in X : \A i \in DOMAIN m.slots[k] : m.at[m.slots[k][i]] \notin X
  <1> DEFINE kids == SlotsBelow(m)
             Y == {s \in DOMAIN m.at : m.at[s] \in X}
  <1>1. \A k \in X : \A i \in DOMAIN m.slots[k] : m.slots[k][i] \in DOMAIN m.at /\ m.slots[k][i] \in ToSet(m.slots[k])
    <2>1. TAKE k \in X
    <2>2. ToSet(m.slots[k]) \subseteq DOMAIN m.at /\ m.slots[k] \in Seq(Slots)
      BY DEF Wooded, SlotsPlaced
    <2>3. QED
      BY <2>2 DEF ToSet
  <1>2. CASE Y = {}
    BY <1>1, <1>2
  <1>3. CASE Y # {}
    <2>1. /\ DOMAIN kids = DOMAIN m.at /\ Forest(kids, RootSlots(m)) /\ IsFiniteSet(DOMAIN m.at)
      BY SlotBelow DEF Wooded, SlotsPlaced
    <2>2. Y \in SUBSET DOMAIN kids
      BY <2>1
    <2>3. PICK q \in Y : \A s \in kids[q] : s \notin Y
      <3> HIDE DEF Y, kids
      <3>1. QED
        BY <2>1, <2>2, <1>3, Lowest
    <2>4. q \in DOMAIN m.at /\ m.at[q] \in X /\ kids[q] = ToSet(m.slots[m.at[q]])
      BY <2>3 DEF SlotsBelow
    <2>5. ASSUME NEW i \in DOMAIN m.slots[m.at[q]] PROVE m.at[m.slots[m.at[q]][i]] \notin X
      <3>1. m.slots[m.at[q]][i] \in DOMAIN m.at /\ m.slots[m.at[q]][i] \in kids[q]
        BY <1>1, <2>4
      <3>2. m.slots[m.at[q]][i] \notin Y
        BY <2>3, <3>1
      <3>3. QED
        BY <3>1, <3>2
    <2>6. QED
      BY <2>4, <2>5
  <1>4. QED
    BY <1>2, <1>3

Pairs(m) == (1..Len(m.label)) \X (1..Len(m.label))

\* Whether two nodes are compared by their children, and the i-th of these.
ByChildren(m, p) ==
  p[1] # p[2] /\ m.label[p[1]] = m.label[p[2]] /\ Len(m.slots[p[1]]) = Len(m.slots[p[2]])

ChildPair(m, p, i) == <<m.at[m.slots[p[1]][i]], m.at[m.slots[p[2]][i]]>>

PairsBelow(m) ==
  [p \in Pairs(m) |-> IF ByChildren(m, p) THEN {ChildPair(m, p, i) : i \in DOMAIN m.slots[p[1]]} ELSE {}]

LEMMA ChildPairs ==
  ASSUME NEW m, Wooded(m), NEW p \in Pairs(m), ByChildren(m, p)
  PROVE  /\ DOMAIN m.slots[p[1]] = 1..Len(m.slots[p[1]]) /\ DOMAIN m.slots[p[2]] = DOMAIN m.slots[p[1]]
         /\ \A i \in DOMAIN m.slots[p[1]] : ChildPair(m, p, i) \in Pairs(m)
  <1>1. /\ p[1] \in 1..Len(m.label) /\ p[2] \in 1..Len(m.label)
    BY DEF Pairs
  <1>2. \A k \in 1..Len(m.label) : m.slots[k] \in Seq(Slots) /\ ToSet(m.slots[k]) \subseteq DOMAIN m.at
    BY DEF Wooded, SlotsPlaced
  <1>3. m.at \in [DOMAIN m.at -> 1..Len(m.label)]
    BY DEF Wooded, SlotsPlaced
  <1>4. \A k \in 1..Len(m.label) : \A i \in DOMAIN m.slots[k] : m.at[m.slots[k][i]] \in 1..Len(m.label)
    <2>1. TAKE k \in 1..Len(m.label)
    <2>2. TAKE i \in DOMAIN m.slots[k]
    <2>3. m.slots[k][i] \in ToSet(m.slots[k])
      BY <1>2 DEF ToSet
    <2>4. QED
      BY <2>3, <1>2, <1>3
  <1>5. DOMAIN m.slots[p[1]] = 1..Len(m.slots[p[1]]) /\ DOMAIN m.slots[p[2]] = 1..Len(m.slots[p[2]])
    BY <1>1, <1>2
  <1>6. DOMAIN m.slots[p[2]] = DOMAIN m.slots[p[1]]
    BY <1>5 DEF ByChildren
  <1>7. QED
    BY <1>1, <1>4, <1>5, <1>6 DEF ChildPair, Pairs

LEMMA PairsGrounded ==
  ASSUME NEW m, Wooded(m)
  PROVE  IsKids(PairsBelow(m)) /\ DOMAIN PairsBelow(m) = Pairs(m) /\ Grounded(PairsBelow(m))
  <1> DEFINE kids == PairsBelow(m)
  <1>1. \A p \in Pairs(m) : /\ kids[p] \subseteq Pairs(m)
                            /\ \A q \in kids[p] : \E i \in DOMAIN m.slots[p[1]] : q[1] = m.at[m.slots[p[1]][i]]
    <2>1. TAKE p \in Pairs(m)
    <2>2. CASE ~ByChildren(m, p)
      BY <2>2 DEF PairsBelow
    <2>3. CASE ByChildren(m, p)
      <3>1. kids[p] = {ChildPair(m, p, i) : i \in DOMAIN m.slots[p[1]]}
        BY <2>3 DEF PairsBelow
      <3>2. \A i \in DOMAIN m.slots[p[1]] : ChildPair(m, p, i) \in Pairs(m)
        BY <2>3, ChildPairs
      <3>3. \A i : ChildPair(m, p, i)[1] = m.at[m.slots[p[1]][i]]
        BY DEF ChildPair
      <3>4. QED
        BY <3>1, <3>2, <3>3
    <2>4. QED
      BY <2>2, <2>3
  <1>2. DOMAIN kids = Pairs(m) /\ kids = [p \in Pairs(m) |-> kids[p]]
    BY DEF PairsBelow
  <1>3. IsKids(kids)
    BY <1>1, <1>2 DEF IsKids
  <1>4. Grounded(kids)
    <2>1. SUFFICES ASSUME NEW X \in SUBSET Pairs(m), X # {} PROVE \E q \in X : kids[q] \cap X = {}
      BY <1>2 DEF Grounded
    <2> DEFINE A == {p[1] : p \in X}
    <2>2. A \in SUBSET (1..Len(m.label)) /\ A # {}
      BY <2>1 DEF Pairs
    <2>3. PICK k \in A : \A i \in DOMAIN m.slots[k] : m.at[m.slots[k][i]] \notin A
      <3> HIDE DEF A
      <3>1. QED
        BY <2>2, NodesGrounded
    <2>4. PICK p \in X : p[1] = k
      BY <2>3
    <2>5. \A q \in kids[p] : q[1] \notin A
      BY <2>1, <2>3, <2>4, <1>1
    <2>6. QED
      BY <2>4, <2>5
  <1>5. QED
    BY <1>2, <1>3, <1>4

-----------------------------------------------------------------------------
(* The first difference. *)

\* The answers d are 0 before the i-th.
LeadsWith(d, i) == i \in DOMAIN d /\ d[i] # 0 /\ \A k \in DOMAIN d : k < i => d[k] = 0

LEMMA FirstDifferenceIs ==
  ASSUME NEW n \in Nat, NEW d \in [1..n -> Int]
  PROVE  \/ FirstDifference(d) = 0 /\ \A i \in 1..n : d[i] = 0
         \/ \E i \in 1..n : LeadsWith(d, i) /\ FirstDifference(d) = d[i]
  <1> DEFINE X == {i \in DOMAIN d : d[i] # 0}
  <1>1. CASE X = {}
    BY <1>1 DEF FirstDifference
  <1>2. CASE X # {}
    <2>1. X \subseteq Nat /\ DOMAIN d = 1..n
      OBVIOUS
    <2>2. PICK j \in X : \A l \in X : ~(<<l, j>> \in OpToRel(<, Nat))
      <3> HIDE DEF X
      <3>1. QED
        BY <1>2, <2>1, WFMin, NatLessThanWellFounded
    <2>3. \A l \in X : j <= l
      <3>1. TAKE l \in X
      <3>2. j \in Nat /\ l \in Nat
        BY <2>1
      <3>3. ~(l < j)
        BY <2>2, <3>2 DEF OpToRel
      <3>4. QED
        BY <3>2, <3>3
    <2>4. PICK i : i = CHOOSE o \in X : \A k \in X : o <= k
      OBVIOUS
    <2>5. i \in X /\ \A k \in X : i <= k
      BY <2>3, <2>4
    <2>6. FirstDifference(d) = d[i]
      BY <1>2, <2>4 DEF FirstDifference
    <2>7. LeadsWith(d, i)
      BY <2>1, <2>5 DEF LeadsWith
    <2>8. QED
      BY <2>1, <2>5, <2>6, <2>7
  <1>3. QED
    BY <1>1, <1>2

\* Where answers lead with d[i] this is the first difference.
LEMMA FirstDifferenceAt ==
  ASSUME NEW n \in Nat, NEW d \in [1..n -> Int], NEW i, LeadsWith(d, i)
  PROVE  FirstDifference(d) = d[i]
  <1>1. i \in 1..n /\ d[i] # 0
    BY DEF LeadsWith
  <1>2. PICK j \in 1..n : LeadsWith(d, j) /\ FirstDifference(d) = d[j]
    BY <1>1, FirstDifferenceIs
  <1>3. ~(i < j) /\ ~(j < i)
    BY <1>1, <1>2 DEF LeadsWith
  <1>4. QED
    BY <1>1, <1>2, <1>3

LEMMA FirstDifferenceType ==
  ASSUME NEW n \in Nat, NEW d \in [1..n -> Int]
  PROVE  FirstDifference(d) \in Int
  BY FirstDifferenceIs

-----------------------------------------------------------------------------
(* SimpleCompare is what its recursion says. *)

\* What f has to be for the nodes p.
CompareBy(m, p, f) ==
  LET a == p[1]
      b == p[2]
  IN IF a = b THEN 0
     ELSE IF m.label[a] # m.label[b] THEN m.label[a] - m.label[b]
     ELSE IF Len(m.slots[a]) # Len(m.slots[b]) THEN Len(m.slots[a]) - Len(m.slots[b])
     ELSE FirstDifference([i \in DOMAIN m.slots[a] |-> f[<<m.at[m.slots[a][i]], m.at[m.slots[b][i]]>>]])

CompareStep(m) ==
  [p \in Pairs(m) |-> [g \in [PairsBelow(m)[p] -> Int] |-> CompareBy(m, p, g)]]

LEMMA CompareCases ==
  ASSUME NEW m, NEW p, NEW f
  PROVE  /\ p[1] = p[2] => CompareBy(m, p, f) = 0
         /\ p[1] # p[2] /\ m.label[p[1]] # m.label[p[2]] => CompareBy(m, p, f) = m.label[p[1]] - m.label[p[2]]
         /\ p[1] # p[2] /\ m.label[p[1]] = m.label[p[2]] /\ Len(m.slots[p[1]]) # Len(m.slots[p[2]]) =>
              CompareBy(m, p, f) = Len(m.slots[p[1]]) - Len(m.slots[p[2]])
         /\ ByChildren(m, p) =>
              CompareBy(m, p, f) = FirstDifference([i \in DOMAIN m.slots[p[1]] |-> f[ChildPair(m, p, i)]])
  BY DEF CompareBy, ByChildren, ChildPair

LEMMA NodeParts ==
  ASSUME NEW m, Wooded(m)
  PROVE  /\ DOMAIN m.label = 1..Len(m.label)
         /\ \A k \in 1..Len(m.label) : m.label[k] \in Int /\ m.slots[k] \in Seq(Slots) /\ Len(m.slots[k]) \in Nat
  BY DEF Wooded, SlotsPlaced

\* Only the answers for the children matter.
LEMMA CompareLocal ==
  ASSUME NEW m, Wooded(m), NEW p \in Pairs(m), NEW f, NEW g,
         \A q \in PairsBelow(m)[p] : f[q] = g[q]
  PROVE  CompareBy(m, p, f) = CompareBy(m, p, g)
  <1>1. CASE ByChildren(m, p)
    <2>1. \A i \in DOMAIN m.slots[p[1]] : ChildPair(m, p, i) \in PairsBelow(m)[p]
      BY <1>1 DEF PairsBelow
    <2>2. [i \in DOMAIN m.slots[p[1]] |-> f[ChildPair(m, p, i)]] = [i \in DOMAIN m.slots[p[1]] |-> g[ChildPair(m, p, i)]]
      BY <2>1
    <2>3. QED
      BY <1>1, <2>2, CompareCases
  <1>2. CASE ~ByChildren(m, p)
    BY <1>2 DEF ByChildren, CompareBy
  <1>3. QED
    BY <1>1, <1>2

LEMMA CompareType ==
  ASSUME NEW m, Wooded(m), NEW p \in Pairs(m), NEW f, \A q \in PairsBelow(m)[p] : f[q] \in Int
  PROVE  CompareBy(m, p, f) \in Int
  <1>1. p[1] \in 1..Len(m.label) /\ p[2] \in 1..Len(m.label)
    BY DEF Pairs
  <1>2. m.label[p[1]] \in Int /\ m.label[p[2]] \in Int /\ Len(m.slots[p[1]]) \in Int /\ Len(m.slots[p[2]]) \in Int
        /\ Len(m.slots[p[1]]) \in Nat
    <2>1. PICK a, b : a = p[1] /\ b = p[2]
      OBVIOUS
    <2>2. a \in 1..Len(m.label) /\ b \in 1..Len(m.label)
      BY <2>1, <1>1
    <2>3. /\ m.label[a] \in Int /\ Len(m.slots[a]) \in Nat
          /\ m.label[b] \in Int /\ Len(m.slots[b]) \in Nat
      BY <2>2, NodeParts
    <2>4. \A n \in Nat : n \in Int
      OBVIOUS
    <2>5. QED
      BY <2>1, <2>3, <2>4
  <1>3. CASE ByChildren(m, p)
    <2>1. \A i \in DOMAIN m.slots[p[1]] : ChildPair(m, p, i) \in PairsBelow(m)[p]
      BY <1>3 DEF PairsBelow
    <2>2. PICK d : d = [i \in DOMAIN m.slots[p[1]] |-> f[ChildPair(m, p, i)]]
      OBVIOUS
    <2>3. DOMAIN m.slots[p[1]] = 1..Len(m.slots[p[1]])
      BY <1>3, ChildPairs
    <2>4. d \in [1..Len(m.slots[p[1]]) -> Int]
      BY <2>1, <2>2, <2>3
    <2>5. FirstDifference(d) \in Int
      BY <1>2, <2>4, FirstDifferenceType
    <2>6. QED
      BY <1>3, <2>2, <2>5, CompareCases
  <1>4. CASE ~ByChildren(m, p)
    <2>1. \/ CompareBy(m, p, f) = 0
          \/ CompareBy(m, p, f) = m.label[p[1]] - m.label[p[2]]
          \/ CompareBy(m, p, f) = Len(m.slots[p[1]]) - Len(m.slots[p[2]])
      BY <1>4, CompareCases DEF ByChildren
    <2>2. \A v, w \in Int : v - w \in Int
      OBVIOUS
    <2>3. 0 \in Int
      OBVIOUS
    <2>4. QED
      BY <2>1, <2>2, <2>3, <1>2
  <1>5. QED
    BY <1>3, <1>4

LEMMA CompareExists ==
  ASSUME NEW m, Wooded(m)
  PROVE  \E f \in [Pairs(m) -> Int] : \A p \in Pairs(m) : f[p] = CompareBy(m, p, f)
  <1> DEFINE kids == PairsBelow(m)
             step == CompareStep(m)
  <1>1. IsKids(kids) /\ DOMAIN kids = Pairs(m) /\ Grounded(kids)
    BY PairsGrounded
  <1>2. \A p \in Pairs(m) : step[p] = [g \in [kids[p] -> Int] |-> CompareBy(m, p, g)]
    BY DEF CompareStep
  <1>3. \A p \in Pairs(m) : step[p] \in [[kids[p] -> Int] -> Int]
    <2>1. TAKE p \in Pairs(m)
    <2>2. \A g \in [kids[p] -> Int] : CompareBy(m, p, g) \in Int
      BY CompareType
    <2>3. QED
      BY <2>2, <1>2
  <1> HIDE DEF kids, step
  <1>4. PICK f \in [Pairs(m) -> Int] : Recursive(kids, step, Pairs(m), f)
    <2>1. \A p \in DOMAIN kids : step[p] \in [[kids[p] -> Int] -> Int]
      BY <1>1, <1>3
    <2>2. IsKids(kids) /\ Grounded(kids)
      BY <1>1
    <2>3. \E f \in [DOMAIN kids -> Int] : Recursive(kids, step, DOMAIN kids, f)
      BY <2>1, <2>2, RecursionExists
    <2>4. QED
      BY <2>3, <1>1
  <1>5. ASSUME NEW p \in Pairs(m) PROVE f[p] = CompareBy(m, p, f)
    <2>1. PICK g : g = [k \in kids[p] |-> f[k]]
      OBVIOUS
    <2>2. kids[p] \subseteq Pairs(m)
      BY <1>1 DEF IsKids
    <2>3. g \in [kids[p] -> Int]
      BY <2>1, <2>2
    <2>4. f[p] = step[p][g]
      BY <1>4, <2>1 DEF Recursive
    <2>5. step[p][g] = CompareBy(m, p, g)
      BY <1>2, <2>3
    <2>6. CompareBy(m, p, g) = CompareBy(m, p, f)
      <3>1. \A q \in PairsBelow(m)[p] : g[q] = f[q]
        BY <2>1 DEF kids
      <3>2. QED
        BY <3>1, CompareLocal
    <2>7. QED
      BY <2>4, <2>5, <2>6
  <1>6. QED
    BY <1>5

\* All answers of SimpleCompare are those of one function.
LEMMA CompareIs ==
  ASSUME NEW m, Wooded(m)
  PROVE  \E f : /\ \A p \in Pairs(m) : f[p] = CompareBy(m, p, f)
                /\ \A a, b : SimpleCompare(m, a, b) = f[<<a, b>>]
  <1> DEFINE Is(f) == f = [p \in (DOMAIN m.label) \X (DOMAIN m.label) |->
        LET a == p[1]
            b == p[2]
        IN IF a = b THEN 0
           ELSE IF m.label[a] # m.label[b] THEN m.label[a] - m.label[b]
           ELSE IF Len(m.slots[a]) # Len(m.slots[b]) THEN Len(m.slots[a]) - Len(m.slots[b])
           ELSE FirstDifference([i \in DOMAIN m.slots[a] |->
                                   f[<<m.at[m.slots[a][i]], m.at[m.slots[b][i]]>>]])]
  <1>1. \A f : Is(f) <=> f = [p \in Pairs(m) |-> CompareBy(m, p, f)]
    <2>1. (DOMAIN m.label) \X (DOMAIN m.label) = Pairs(m)
      BY NodeParts DEF Pairs
    <2>2. QED
      BY <2>1 DEF CompareBy
  <1>2. \E f : Is(f)
    <2>1. PICK f \in [Pairs(m) -> Int] : \A p \in Pairs(m) : f[p] = CompareBy(m, p, f)
      BY CompareExists
    <2>2. f = [p \in Pairs(m) |-> CompareBy(m, p, f)]
      BY <2>1
    <2>3. QED
      BY <2>2, <1>1
  <1>3. PICK f : f = CHOOSE g : Is(g)
    OBVIOUS
  <1>4. Is(f)
    <2> HIDE DEF Is
    <2>1. QED
      BY <1>2, <1>3
  <1>5. \A a, b : SimpleCompare(m, a, b) = f[<<a, b>>]
    BY <1>3 DEF SimpleCompare
  <1>6. f = [p \in Pairs(m) |-> CompareBy(m, p, f)]
    BY <1>1, <1>4
  <1>7. \A p \in Pairs(m) : f[p] = CompareBy(m, p, f)
    BY <1>6
  <1>8. QED
    BY <1>5, <1>7

-----------------------------------------------------------------------------
(* The order by content. *)

LEMMA Opposite ==
  ASSUME NEW n \in Nat, NEW d \in [1..n -> Int], NEW e \in [1..n -> Int], \A i \in 1..n : e[i] + d[i] = 0
  PROVE  FirstDifference(e) + FirstDifference(d) = 0
  <1>1. CASE FirstDifference(d) = 0 /\ \A i \in 1..n : d[i] = 0
    <2>1. \A i \in 1..n : e[i] = 0
      BY <1>1
    <2>2. FirstDifference(e) = 0
      BY <2>1, FirstDifferenceIs DEF LeadsWith
    <2>3. FirstDifference(d) = 0
      BY <1>1
    <2>4. QED
      BY <2>2, <2>3
  <1>2. CASE \E i \in 1..n : LeadsWith(d, i) /\ FirstDifference(d) = d[i]
    <2>1. PICK i \in 1..n : LeadsWith(d, i) /\ FirstDifference(d) = d[i]
      BY <1>2
    <2>2. LeadsWith(e, i)
      BY <2>1 DEF LeadsWith
    <2>3. FirstDifference(e) = e[i]
      BY <2>2, FirstDifferenceAt
    <2>4. QED
      BY <2>1, <2>3
  <1>3. QED
    BY <1>1, <1>2, FirstDifferenceIs

\* z is the answer for the first and the third of three nodes, as far as the
\* answers x for the first and second and y for the second and third tell.
Follows(x, y, z) ==
  /\ x <= 0 /\ y <= 0 => z <= 0 /\ (x < 0 \/ y < 0 => z < 0)
  /\ x >= 0 /\ y >= 0 => z >= 0 /\ (x > 0 \/ y > 0 => z > 0)

LEMMA FollowsFirst ==
  ASSUME NEW n \in Nat, NEW d \in [1..n -> Int], NEW e \in [1..n -> Int], NEW h \in [1..n -> Int],
         \A i \in 1..n : Follows(d[i], e[i], h[i])
  PROVE  Follows(FirstDifference(d), FirstDifference(e), FirstDifference(h))
  <1> DEFINE X == {i \in 1..n : d[i] # 0 \/ e[i] # 0}
  <1>1. CASE X = {}
    <2>1. \A i \in 1..n : d[i] = 0 /\ e[i] = 0
      BY <1>1
    <2>2. \A i \in 1..n : h[i] = 0
      BY <2>1 DEF Follows
    <2>3. FirstDifference(d) = 0
      BY <2>1, FirstDifferenceIs DEF LeadsWith
    <2>4. FirstDifference(e) = 0
      BY <2>1, FirstDifferenceIs DEF LeadsWith
    <2>5. FirstDifference(h) = 0
      BY <2>2, FirstDifferenceIs DEF LeadsWith
    <2>6. QED
      BY <2>3, <2>4, <2>5 DEF Follows
  <1>2. CASE X # {}
    <2>1. X \subseteq Nat /\ X \subseteq 1..n
      OBVIOUS
    <2>2. PICK i \in X : \A l \in X : ~(<<l, i>> \in OpToRel(<, Nat))
      <3> HIDE DEF X
      <3>1. QED
        BY <1>2, <2>1, WFMin, NatLessThanWellFounded
    <2>3. \A l \in X : ~(l < i)
      BY <2>1, <2>2 DEF OpToRel
    <2>4. i \in 1..n /\ (d[i] # 0 \/ e[i] # 0)
      BY <2>2
    <2>5. \A k \in 1..n : k < i => d[k] = 0 /\ e[k] = 0 /\ h[k] = 0
      <3>1. TAKE k \in 1..n
      <3>2. HAVE k < i
      <3>3. d[k] = 0 /\ e[k] = 0
        BY <2>3, <3>2
      <3>4. Follows(d[k], e[k], h[k]) /\ h[k] \in Int
        OBVIOUS
      <3>5. QED
        BY <3>3, <3>4 DEF Follows
    <2>6. ASSUME NEW c \in [1..n -> Int], \A k \in 1..n : k < i => c[k] = 0, c[i] # 0
          PROVE  FirstDifference(c) = c[i]
      <3>1. LeadsWith(c, i)
        BY <2>4, <2>6 DEF LeadsWith
      <3>2. QED
        BY <3>1, FirstDifferenceAt
    <2>7. d[i] # 0 => FirstDifference(d) = d[i]
      BY <2>5, <2>6
    <2>8. e[i] # 0 => FirstDifference(e) = e[i]
      BY <2>5, <2>6
    <2>9. h[i] # 0 => FirstDifference(h) = h[i]
      BY <2>5, <2>6
    <2>10. Follows(d[i], e[i], h[i]) /\ d[i] \in Int /\ e[i] \in Int /\ h[i] \in Int
      BY <2>4
    <2>11. FirstDifference(d) \in Int /\ FirstDifference(e) \in Int
      BY FirstDifferenceType
    <2>12. PICK x, y, z, u, v, w : /\ x = d[i] /\ y = e[i] /\ z = h[i]
                                   /\ u = FirstDifference(d) /\ v = FirstDifference(e) /\ w = FirstDifference(h)
      OBVIOUS
    <2>13. Follows(u, v, w)
      <3>1. /\ x \in Int /\ y \in Int /\ z \in Int /\ u \in Int /\ v \in Int
            /\ (x # 0 \/ y # 0) /\ (x # 0 => u = x) /\ (y # 0 => v = y) /\ (z # 0 => w = z) /\ Follows(x, y, z)
        BY <2>4, <2>7, <2>8, <2>9, <2>10, <2>11, <2>12
      <3>2. QED
        BY <3>1 DEF Follows
    <2>14. QED
      BY <2>12, <2>13
  <1>3. QED
    BY <1>1, <1>2

\* The answers of SimpleCompare.
Answers(m, f) ==
  /\ \A p \in Pairs(m) : f[p] \in Int /\ f[p] = CompareBy(m, p, f)
  /\ \A a, b : SimpleCompare(m, a, b) = f[<<a, b>>]

LEMMA AnswersExist ==
  ASSUME NEW m, Wooded(m)
  PROVE  \E f : Answers(m, f)
  <1>1. PICK f : /\ \A p \in Pairs(m) : f[p] = CompareBy(m, p, f)
                 /\ \A a, b : SimpleCompare(m, a, b) = f[<<a, b>>]
    BY CompareIs
  <1> DEFINE X == {p \in Pairs(m) : f[p] \notin Int}
  <1>2. X = {}
    <2>1. SUFFICES ASSUME X # {} PROVE FALSE
      OBVIOUS
    <2>2. Grounded(PairsBelow(m)) /\ DOMAIN PairsBelow(m) = Pairs(m) /\ IsKids(PairsBelow(m))
      BY PairsGrounded
    <2>3. PICK p \in X : PairsBelow(m)[p] \cap X = {}
      BY <2>1, <2>2 DEF Grounded
    <2>4. p \in Pairs(m) /\ f[p] \notin Int
      BY <2>3
    <2>5. \A q \in PairsBelow(m)[p] : f[q] \in Int
      BY <2>2, <2>3, <2>4 DEF IsKids
    <2>6. CompareBy(m, p, f) \in Int
      BY <2>4, <2>5, CompareType
    <2>7. QED
      BY <2>4, <2>6, <1>1
  <1>3. QED
    BY <1>1, <1>2 DEF Answers

\* The answers about the children, one after the other.
Children(m, f, a, b) == [i \in DOMAIN m.slots[a] |-> f[<<m.at[m.slots[a][i]], m.at[m.slots[b][i]]>>]]

\* What answer x about nodes a and b is, by their labels, numbers of children,
\* and the first difference d of these.
CasesOf(a, b, la, lb, na, nb, d, x) ==
  /\ x \in Int /\ la \in Int /\ lb \in Int /\ na \in Nat /\ nb \in Nat
  /\ a = b => x = 0
  /\ a # b /\ la # lb => x = la - lb
  /\ a # b /\ la = lb /\ na # nb => x = na - nb
  /\ a # b /\ la = lb /\ na = nb => x = d

LEMMA AnswerCases ==
  ASSUME NEW m, Wooded(m), NEW f, Answers(m, f), NEW a \in 1..Len(m.label), NEW b \in 1..Len(m.label)
  PROVE  CasesOf(a, b, m.label[a], m.label[b], Len(m.slots[a]), Len(m.slots[b]),
                 FirstDifference(Children(m, f, a, b)), f[<<a, b>>])
  <1>1. <<a, b>> \in Pairs(m) /\ <<a, b>>[1] = a /\ <<a, b>>[2] = b
    BY DEF Pairs
  <1>2. f[<<a, b>>] \in Int /\ f[<<a, b>>] = CompareBy(m, <<a, b>>, f)
    BY <1>1 DEF Answers
  <1>3. /\ m.label[a] \in Int /\ Len(m.slots[a]) \in Nat /\ m.label[b] \in Int /\ Len(m.slots[b]) \in Nat
    BY NodeParts
  <1>4. QED
    BY <1>2, <1>3 DEF CompareBy, Children, CasesOf

\* The answers d about n children, one after the other.
ChildrenOf(m, f, a, b, n, d) ==
  /\ n \in Nat /\ DOMAIN m.slots[a] = 1..n /\ d \in [1..n -> Int]
  /\ \A i \in 1..n :
       /\ m.at[m.slots[a][i]] \in 1..Len(m.label) /\ m.at[m.slots[b][i]] \in 1..Len(m.label)
       /\ d[i] = f[<<m.at[m.slots[a][i]], m.at[m.slots[b][i]]>>]

LEMMA ChildrenType ==
  ASSUME NEW m, Wooded(m), NEW f, Answers(m, f), NEW a \in 1..Len(m.label), NEW b \in 1..Len(m.label),
         Len(m.slots[a]) = Len(m.slots[b])
  PROVE  ChildrenOf(m, f, a, b, Len(m.slots[a]), Children(m, f, a, b))
  <1>1. /\ m.slots[a] \in Seq(Slots) /\ Len(m.slots[a]) \in Nat /\ m.slots[b] \in Seq(Slots)
    BY NodeParts
  <1>2. DOMAIN m.slots[a] = 1..Len(m.slots[a]) /\ DOMAIN m.slots[b] = 1..Len(m.slots[a])
    BY <1>1
  <1>3. \A k \in 1..Len(m.label) : \A i \in DOMAIN m.slots[k] : m.at[m.slots[k][i]] \in 1..Len(m.label)
    <2>1. TAKE k \in 1..Len(m.label)
    <2>2. TAKE i \in DOMAIN m.slots[k]
    <2>3. m.slots[k] \in Seq(Slots) /\ ToSet(m.slots[k]) \subseteq DOMAIN m.at /\ m.at \in [DOMAIN m.at -> 1..Len(m.label)]
      BY DEF Wooded, SlotsPlaced
    <2>4. m.slots[k][i] \in ToSet(m.slots[k])
      BY <2>3 DEF ToSet
    <2>5. QED
      BY <2>3, <2>4
  <1>4. \A i \in 1..Len(m.slots[a]) : m.at[m.slots[a][i]] \in 1..Len(m.label) /\ m.at[m.slots[b][i]] \in 1..Len(m.label)
    BY <1>2, <1>3
  <1>5. \A i \in 1..Len(m.slots[a]) : f[<<m.at[m.slots[a][i]], m.at[m.slots[b][i]]>>] \in Int
    BY <1>4 DEF Answers, Pairs
  <1>6. QED
    BY <1>1, <1>2, <1>4, <1>5 DEF Children, ChildrenOf

LEMMA AnswersOpposite ==
  ASSUME NEW m, Wooded(m), NEW f, Answers(m, f)
  PROVE  \A a, b \in 1..Len(m.label) : f[<<b, a>>] + f[<<a, b>>] = 0
  <1> DEFINE N == 1..Len(m.label)
             X == {a \in N : \E b \in N : f[<<b, a>>] + f[<<a, b>>] # 0}
  <1>1. SUFFICES ASSUME X # {} PROVE FALSE
    OBVIOUS
  <1>2. PICK a \in X : \A i \in DOMAIN m.slots[a] : m.at[m.slots[a][i]] \notin X
    <2>1. X \in SUBSET N
      OBVIOUS
    <2> HIDE DEF X
    <2>2. QED
      BY <1>1, <2>1, NodesGrounded
  <1>3. PICK b \in N : f[<<b, a>>] + f[<<a, b>>] # 0
    BY <1>2
  <1>4. a \in N
    BY <1>2
  <1>5. PICK p, q, la, lb, na, nb, d, e : /\ p = f[<<a, b>>] /\ q = f[<<b, a>>] /\ la = m.label[a] /\ lb = m.label[b]
                     /\ na = Len(m.slots[a]) /\ nb = Len(m.slots[b])
                     /\ d = FirstDifference(Children(m, f, a, b)) /\ e = FirstDifference(Children(m, f, b, a))
    OBVIOUS
  <1>6. CasesOf(a, b, la, lb, na, nb, d, p) /\ CasesOf(b, a, lb, la, nb, na, e, q)
    <2>1. CasesOf(a, b, m.label[a], m.label[b], Len(m.slots[a]), Len(m.slots[b]),
                  FirstDifference(Children(m, f, a, b)), f[<<a, b>>])
      BY <1>3, <1>4, AnswerCases
    <2>2. CasesOf(b, a, m.label[b], m.label[a], Len(m.slots[b]), Len(m.slots[a]),
                  FirstDifference(Children(m, f, b, a)), f[<<b, a>>])
      BY <1>3, <1>4, AnswerCases
    <2>3. QED
      BY <2>1, <2>2, <1>5
  <1>7. ASSUME Len(m.slots[a]) = Len(m.slots[b])
        PROVE  FirstDifference(Children(m, f, b, a)) + FirstDifference(Children(m, f, a, b)) = 0
    <2>1. PICK n, g, h : n = Len(m.slots[a]) /\ g = Children(m, f, a, b) /\ h = Children(m, f, b, a)
      OBVIOUS
    <2>2. ChildrenOf(m, f, a, b, n, g)
      <3>1. ChildrenOf(m, f, a, b, Len(m.slots[a]), Children(m, f, a, b))
        BY <1>3, <1>4, <1>7, ChildrenType
      <3>2. QED
        BY <3>1, <2>1
    <2>3. ChildrenOf(m, f, b, a, n, h)
      <3>1. ChildrenOf(m, f, b, a, Len(m.slots[b]), Children(m, f, b, a))
        BY <1>3, <1>4, <1>7, ChildrenType
      <3>2. QED
        BY <3>1, <2>1, <1>7
    <2>4. \A i \in 1..n : h[i] + g[i] = 0
      <3>1. TAKE i \in 1..n
      <3>2. PICK u, v : u = m.at[m.slots[a][i]] /\ v = m.at[m.slots[b][i]]
        OBVIOUS
      <3>3. i \in DOMAIN m.slots[a] /\ u \in N /\ v \in N /\ g[i] = f[<<u, v>>] /\ h[i] = f[<<v, u>>]
        BY <2>2, <2>3, <3>2 DEF ChildrenOf
      <3>4. u \notin X
        BY <3>2, <3>3, <1>2
      <3>5. f[<<v, u>>] + f[<<u, v>>] = 0
        BY <3>3, <3>4
      <3>6. QED
        BY <3>3, <3>5
    <2>5. n \in Nat /\ g \in [1..n -> Int] /\ h \in [1..n -> Int]
      BY <2>2, <2>3 DEF ChildrenOf
    <2>6. FirstDifference(h) + FirstDifference(g) = 0
      BY <2>4, <2>5, Opposite
    <2>7. QED
      BY <2>1, <2>6
  <1>8. na = nb => e + d = 0
    BY <1>5, <1>7
  <1>9. q + p = 0
    <2>1. a # b \/ (p = 0 /\ q = 0)
      BY <1>6 DEF CasesOf
    <2>2. CASE p = 0 /\ q = 0
      BY <2>2
    <2>3. CASE a # b
      BY <2>3, <1>6, <1>8 DEF CasesOf
    <2>4. QED
      BY <2>1, <2>2, <2>3
  <1>10. QED
    BY <1>3, <1>5, <1>9

LEMMA AnswersFollow ==
  ASSUME NEW m, Wooded(m), NEW f, Answers(m, f)
  PROVE  \A a, b, c \in 1..Len(m.label) : Follows(f[<<a, b>>], f[<<b, c>>], f[<<a, c>>])
  <1> DEFINE N == 1..Len(m.label)
             X == {a \in N : \E b, c \in N : ~Follows(f[<<a, b>>], f[<<b, c>>], f[<<a, c>>])}
  <1>1. SUFFICES ASSUME X # {} PROVE FALSE
    OBVIOUS
  <1>2. PICK a \in X : \A i \in DOMAIN m.slots[a] : m.at[m.slots[a][i]] \notin X
    <2>1. X \in SUBSET N
      OBVIOUS
    <2> HIDE DEF X
    <2>2. QED
      BY <1>1, <2>1, NodesGrounded
  <1>3. PICK b \in N, c \in N : ~Follows(f[<<a, b>>], f[<<b, c>>], f[<<a, c>>])
    BY <1>2
  <1>4. a \in N
    BY <1>2
  <1>5. PICK la, lb, lc, na, nb, nc : /\ la = m.label[a] /\ lb = m.label[b] /\ lc = m.label[c]
          /\ na = Len(m.slots[a]) /\ nb = Len(m.slots[b]) /\ nc = Len(m.slots[c])
    OBVIOUS
  <1>6. PICK x, y, z, u, v, w : /\ x = f[<<a, b>>] /\ y = f[<<b, c>>] /\ z = f[<<a, c>>]
          /\ u = FirstDifference(Children(m, f, a, b)) /\ v = FirstDifference(Children(m, f, b, c))
          /\ w = FirstDifference(Children(m, f, a, c))
    OBVIOUS
  <1>7. CasesOf(a, b, la, lb, na, nb, u, x)
    <2>1. CasesOf(a, b, m.label[a], m.label[b], Len(m.slots[a]), Len(m.slots[b]),
                  FirstDifference(Children(m, f, a, b)), f[<<a, b>>])
      BY <1>3, <1>4, AnswerCases
    <2>2. QED
      BY <2>1, <1>5, <1>6
  <1>8. CasesOf(b, c, lb, lc, nb, nc, v, y)
    <2>1. CasesOf(b, c, m.label[b], m.label[c], Len(m.slots[b]), Len(m.slots[c]),
                  FirstDifference(Children(m, f, b, c)), f[<<b, c>>])
      BY <1>3, <1>4, AnswerCases
    <2>2. QED
      BY <2>1, <1>5, <1>6
  <1>9. CasesOf(a, c, la, lc, na, nc, w, z)
    <2>1. CasesOf(a, c, m.label[a], m.label[c], Len(m.slots[a]), Len(m.slots[c]),
                  FirstDifference(Children(m, f, a, c)), f[<<a, c>>])
      BY <1>3, <1>4, AnswerCases
    <2>2. QED
      BY <2>1, <1>5, <1>6
  <1>10. ~Follows(x, y, z)
    BY <1>3, <1>6
  <1>11. CASE a = b
    <2>1. x = 0 /\ y = z
      BY <1>6, <1>7, <1>11 DEF CasesOf
    <2>2. QED
      BY <2>1, <1>8, <1>10 DEF Follows, CasesOf
  <1>12. CASE b = c
    <2>1. y = 0 /\ x = z
      BY <1>6, <1>8, <1>12 DEF CasesOf
    <2>2. QED
      BY <2>1, <1>7, <1>10 DEF Follows, CasesOf
  <1>13. CASE a = c
    <2>1. z = 0 /\ y + x = 0
      BY <1>3, <1>4, <1>6, <1>9, <1>13, AnswersOpposite DEF CasesOf
    <2>2. x \in Int /\ y \in Int
      BY <1>7, <1>8 DEF CasesOf
    <2>3. Follows(x, y, z)
      BY <2>1, <2>2 DEF Follows
    <2>4. QED
      BY <2>3, <1>10
  <1>14. CASE a # b /\ b # c /\ a # c /\ ~(la = lb /\ lb = lc /\ na = nb /\ nb = nc)
    BY <1>7, <1>8, <1>9, <1>10, <1>14 DEF Follows, CasesOf
  <1>15. CASE a # b /\ b # c /\ a # c /\ la = lb /\ lb = lc /\ na = nb /\ nb = nc
    <2>1. PICK d, e, h : d = Children(m, f, a, b) /\ e = Children(m, f, b, c) /\ h = Children(m, f, a, c)
      OBVIOUS
    <2>2. Len(m.slots[a]) = Len(m.slots[b]) /\ Len(m.slots[b]) = Len(m.slots[c]) /\ Len(m.slots[a]) = Len(m.slots[c])
      BY <1>5, <1>15
    <2>3. ChildrenOf(m, f, a, b, na, d)
      <3>1. ChildrenOf(m, f, a, b, Len(m.slots[a]), Children(m, f, a, b))
        BY <1>3, <1>4, <2>2, ChildrenType
      <3>2. QED
        BY <3>1, <1>5, <2>1, <2>2
    <2>4. ChildrenOf(m, f, b, c, na, e)
      <3>1. ChildrenOf(m, f, b, c, Len(m.slots[b]), Children(m, f, b, c))
        BY <1>3, <1>4, <2>2, ChildrenType
      <3>2. QED
        BY <3>1, <1>5, <2>1, <2>2
    <2>5. ChildrenOf(m, f, a, c, na, h)
      <3>1. ChildrenOf(m, f, a, c, Len(m.slots[a]), Children(m, f, a, c))
        BY <1>3, <1>4, <2>2, ChildrenType
      <3>2. QED
        BY <3>1, <1>5, <2>1, <2>2
    <2>6. \A i \in 1..na : Follows(d[i], e[i], h[i])
      <3>1. TAKE i \in 1..na
      <3>2. PICK p, q, r : p = m.at[m.slots[a][i]] /\ q = m.at[m.slots[b][i]] /\ r = m.at[m.slots[c][i]]
        OBVIOUS
      <3>3. i \in DOMAIN m.slots[a] /\ p \in N /\ q \in N /\ d[i] = f[<<p, q>>]
        BY <2>3, <3>2 DEF ChildrenOf
      <3>4. r \in N /\ e[i] = f[<<q, r>>] /\ h[i] = f[<<p, r>>]
        BY <2>4, <2>5, <3>2 DEF ChildrenOf
      <3>5. p \notin X
        BY <3>2, <3>3, <1>2
      <3>6. Follows(f[<<p, q>>], f[<<q, r>>], f[<<p, r>>])
        BY <3>3, <3>4, <3>5
      <3>7. QED
        BY <3>3, <3>4, <3>6
    <2>7. Follows(u, v, w)
      <3>1. na \in Nat /\ d \in [1..na -> Int] /\ e \in [1..na -> Int] /\ h \in [1..na -> Int]
        BY <2>3, <2>4, <2>5 DEF ChildrenOf
      <3>2. Follows(FirstDifference(d), FirstDifference(e), FirstDifference(h))
        BY <2>6, <3>1, FollowsFirst
      <3>3. QED
        BY <1>6, <2>1, <3>2
    <2>8. QED
      BY <2>7, <1>7, <1>8, <1>9, <1>10, <1>15 DEF CasesOf
  <1>16. QED
    BY <1>11, <1>12, <1>13, <1>14, <1>15

\* By content and then by address, nodes are in one order.
LEMMA SCLessOrders ==
  ASSUME NEW m, Wooded(m)
  PROVE  /\ \A a, b \in 1..Len(m.label) : a # b <=> SCLess(m, a, b) \/ SCLess(m, b, a)
         /\ \A a, b, c \in 1..Len(m.label) : SCLess(m, a, b) /\ SCLess(m, b, c) => SCLess(m, a, c)
  <1> DEFINE N == 1..Len(m.label)
  <1>1. PICK f : Answers(m, f)
    BY AnswersExist
  <1>2. \A a, b : SCLess(m, a, b) <=> IF f[<<a, b>>] = 0 THEN a < b ELSE f[<<a, b>>] < 0
    BY <1>1 DEF Answers, SCLess
  <1>3. \A a, b \in N : f[<<a, b>>] \in Int /\ f[<<b, a>>] + f[<<a, b>>] = 0 /\ (a = b => f[<<a, b>>] = 0)
    <2>1. TAKE a \in N, b \in N
    <2>2. f[<<b, a>>] + f[<<a, b>>] = 0
      BY <1>1, AnswersOpposite
    <2>3. CasesOf(a, b, m.label[a], m.label[b], Len(m.slots[a]), Len(m.slots[b]),
                  FirstDifference(Children(m, f, a, b)), f[<<a, b>>])
      BY <1>1, AnswerCases
    <2>4. QED
      BY <2>2, <2>3 DEF CasesOf
  <1>4. ASSUME NEW a \in N, NEW b \in N PROVE a # b <=> SCLess(m, a, b) \/ SCLess(m, b, a)
    <2>1. PICK x, y : x = f[<<a, b>>] /\ y = f[<<b, a>>]
      OBVIOUS
    <2>2. x \in Int /\ y + x = 0 /\ y \in Int /\ (a = b => x = 0) /\ a \in Int /\ b \in Int
      BY <1>3, <2>1
    <2>3. /\ SCLess(m, a, b) <=> IF x = 0 THEN a < b ELSE x < 0
          /\ SCLess(m, b, a) <=> IF y = 0 THEN b < a ELSE y < 0
      BY <1>2, <2>1
    <2>4. QED
      BY <2>2, <2>3
  <1>5. ASSUME NEW a \in N, NEW b \in N, NEW c \in N, SCLess(m, a, b), SCLess(m, b, c) PROVE SCLess(m, a, c)
    <2>1. PICK x, y, z : x = f[<<a, b>>] /\ y = f[<<b, c>>] /\ z = f[<<a, c>>]
      OBVIOUS
    <2>2. x \in Int /\ y \in Int /\ z \in Int /\ a \in Int /\ b \in Int /\ c \in Int
      <3>1. f[<<a, b>>] \in Int /\ f[<<b, c>>] \in Int /\ f[<<a, c>>] \in Int
        BY <1>3
      <3>2. a \in Int /\ b \in Int /\ c \in Int
        OBVIOUS
      <3>3. QED
        BY <2>1, <3>1, <3>2
    <2>3. Follows(x, y, z)
      BY <1>1, <2>1, AnswersFollow
    <2>4. /\ SCLess(m, a, b) <=> IF x = 0 THEN a < b ELSE x < 0
          /\ SCLess(m, b, c) <=> IF y = 0 THEN b < c ELSE y < 0
          /\ SCLess(m, a, c) <=> IF z = 0 THEN a < c ELSE z < 0
      BY <1>2, <2>1
    <2>5. QED
      BY <1>5, <2>2, <2>3, <2>4 DEF Follows
  <1>6. QED
    BY <1>4, <1>5

-----------------------------------------------------------------------------
(* What the relations read in full tables. *)

FullTables == Wooded(mem) /\ Tables(Live(mem), Live(mem), Live(mem))

\* What the tables say of the way up from link k.
RowUp(k) ==
  /\ k \in DOMAIN rows
  /\ k[1] = 0 => rows[k].parent = Null /\ ParentLinks(k) = {} /\ rows[k].ord = k[2]
  /\ k[1] # 0 =>
       /\ rows[k].parent # Null /\ rows[k].parent \in DOMAIN nodes /\ rows[k].pos = k[2]
       /\ \E p \in Live(mem) : /\ p \in DOMAIN mem.at /\ k \in SlotsBelow(mem)[p]
                               /\ ParentLinks(k) = {p} /\ Cardinality(ParentLinks(k)) = 1

\* A live slot that is not a root has a live slot right above it.
LEMMA LiveAbove ==
  ASSUME NEW m, Wooded(m), NEW k \in Live(m), k[1] # 0
  PROVE  \E p \in Live(m) : k \in SlotsBelow(m)[p] /\ {q \in Live(m) : m.at[q] = k[1]} = {p}
  <1> DEFINE roots == {<<0, t>> : t \in DOMAIN m.type}
  <1>1. IsKids(SlotsBelow(m)) /\ DOMAIN SlotsBelow(m) = DOMAIN m.at
    BY SlotBelow DEF Wooded
  <1>2. roots \in SUBSET DOMAIN SlotsBelow(m) /\ k \notin roots /\ k \in Reach(SlotsBelow(m), roots)
    <2>1. \A t \in DOMAIN m.type : <<0, t>> \in DOMAIN m.at
      BY LiveParts
    <2>2. k \notin roots
      OBVIOUS
    <2>3. QED
      BY <1>1, <2>1, <2>2 DEF Live
  <1>3. PICK p \in Reach(SlotsBelow(m), roots) : k \in SlotsBelow(m)[p]
    <2> HIDE DEF roots
    <2>1. QED
      BY <1>1, <1>2, ReachedFrom
  <1>4. p \in Live(m) /\ p \in DOMAIN m.at /\ k \in DOMAIN m.at
    BY <1>3, LiveParts DEF Live
  <1>5. m.at[p] = k[1]
    BY <1>3, <1>4, SlotBelow DEF Wooded
  <1>6. PICK q \in DOMAIN m.at : {r \in DOMAIN m.at : m.at[r] = k[1]} = {q}
    BY <1>4, OneWayUp
  <1>7. {r \in Live(m) : m.at[r] = k[1]} = {p}
    <2>1. p = q
      BY <1>4, <1>5, <1>6
    <2>2. \A r \in Live(m) : r \in DOMAIN m.at
      BY LiveParts
    <2>3. \A r : r \in {r1 \in Live(m) : m.at[r1] = k[1]} <=> r = p
      BY <1>4, <1>5, <1>6, <2>1, <2>2
    <2>4. QED
      BY <2>3
  <1>8. QED
    BY <1>3, <1>4, <1>7

LEMMA RowsUp ==
  ASSUME FullTables
  PROVE  \A k \in Live(mem) : RowUp(k)
  <1>1. TAKE k \in Live(mem)
  <1>2. Wooded(mem) /\ k \in DOMAIN mem.at /\ k \in Slots
    BY LiveParts DEF FullTables, Wooded, SlotsPlaced
  <1>3. DOMAIN rows = Live(mem) /\ rows[k] = RowOf(mem, k)
    BY DEF FullTables, Tables, RowsOf
  <1>4. CASE k[1] = 0
    <2>1. rows[k].parent = Null /\ rows[k].ord = k[2]
      BY <1>3, <1>4 DEF RowOf
    <2>2. QED
      BY <1>3, <1>4, <2>1 DEF RowUp, ParentLinks
  <1>5. CASE k[1] # 0
    <2>1. rows[k].parent = k[1] /\ rows[k].pos = k[2] /\ k[1] # Null
      BY <1>2, <1>3, <1>5, SlotBelow DEF RowOf, Wooded, Null
    <2>2. PICK p \in Live(mem) : k \in SlotsBelow(mem)[p] /\ {q \in Live(mem) : mem.at[q] = k[1]} = {p}
      BY <1>2, <1>5, LiveAbove
    <2>3. mem.at[p] = k[1] /\ p \in DOMAIN mem.at
      BY <1>2, <2>2, LiveParts
    <2>4. k[1] \in DOMAIN nodes /\ nodes[k[1]].incoming = {q \in Live(mem) : mem.at[q] = k[1]}
      BY <2>2, <2>3 DEF FullTables, Tables, NodesOf
    <2>5. ParentLinks(k) = {p}
      BY <2>1, <2>2, <2>4 DEF ParentLinks
    <2>6. Cardinality(ParentLinks(k)) = 1
      BY <2>5, FS_Singleton
    <2>7. QED
      BY <1>3, <1>5, <2>1, <2>2, <2>3, <2>4, <2>5, <2>6 DEF RowUp
  <1>6. QED
    BY <1>4, <1>5

\* What walks down from the roots of the trees to all their slots.
LEMMA LiveFromRoots ==
  ASSUME NEW m, Wooded(m), NEW C \in SUBSET Live(m),
         \A s \in Live(m) : s[1] = 0 => s \in C,
         \A s \in C : \A k \in SlotsBelow(m)[s] : k \in Live(m) => k \in C
  PROVE  C = Live(m)
  <1> DEFINE roots == {<<0, t>> : t \in DOMAIN m.type}
  <1>1. IsKids(SlotsBelow(m)) /\ DOMAIN SlotsBelow(m) = DOMAIN m.at
    BY SlotBelow DEF Wooded
  <1>2. roots \in SUBSET DOMAIN SlotsBelow(m) /\ Live(m) = Reach(SlotsBelow(m), roots)
    BY <1>1, LiveParts DEF Live
  <1>3. roots \subseteq Live(m) /\ Closed(SlotsBelow(m), Live(m)) /\ Live(m) \subseteq DOMAIN m.at
    <2> HIDE DEF roots
    <2>1. QED
      BY <1>1, <1>2, ReachIsLeast
  <1>4. roots \subseteq C
    BY <1>3
  <1>5. Closed(SlotsBelow(m), C)
    BY <1>3 DEF Closed
  <1>6. C \in SUBSET DOMAIN SlotsBelow(m)
    BY <1>1, <1>3
  <1>7. Live(m) \subseteq C
    <2> HIDE DEF roots
    <2>1. QED
      BY <1>1, <1>2, <1>4, <1>5, <1>6, ReachIsLeast
  <1>8. QED
    BY <1>7

\* The paths that the tables tell are those of the trees.
LEMMA TablePathIs ==
  ASSUME FullTables
  PROVE  \A s \in Live(mem) : TablePath(s) = Path(mem, s) /\ Path(mem, s) # <<>>
  <1> DEFINE L == Live(mem)
             step(q, g) == IF q \notin DOMAIN rows THEN <<>>
                           ELSE IF rows[q].parent = Null THEN <<rows[q].ord>>
                           ELSE IF rows[q].parent \notin DOMAIN nodes \/ Cardinality(ParentLinks(q)) # 1 THEN <<>>
                           ELSE LET up == g[CHOOSE r \in ParentLinks(q) : TRUE] IN
                                IF up = <<>> THEN <<>> ELSE Append(up, rows[q].pos)
             Is(g) == g = [q \in DOMAIN mem.at |-> step(q, g)]
             path == CHOOSE g : Is(g)
             f == [q \in DOMAIN mem.at |-> IF q \in L THEN Path(mem, q) ELSE <<>>]
  <1>1. Wooded(mem) /\ DOMAIN rows = L /\ L \subseteq DOMAIN mem.at
    BY LiveParts DEF FullTables, Tables, RowsOf
  <1>2. ASSUME NEW q \in L, NEW g, q[1] = 0
        PROVE  step(q, g) = <<q[2]>> /\ Path(mem, q) = <<q[2]>> /\ Path(mem, q) # <<>>
    <2>1. step(q, g) = <<q[2]>>
      BY <1>1, <1>2, RowsUp DEF RowUp
    <2>2. Path(mem, q) = <<q[2]>>
      BY <1>1, <1>2, RowOfLive, PathMade
    <2>3. <<q[2]>> # <<>>
      OBVIOUS
    <2>4. QED
      <3> HIDE DEF step
      <3>1. QED
        BY <2>1, <2>2, <2>3
  <1>3. ASSUME NEW q \in L, NEW g, q[1] # 0, NEW p \in L, q \in SlotsBelow(mem)[p]
        PROVE  step(q, g) = Extended(g[p], q[2])
    <2>1. PICK r \in L : r \in DOMAIN mem.at /\ q \in SlotsBelow(mem)[r] /\ ParentLinks(q) = {r}
      BY <1>3, RowsUp DEF RowUp
    <2>2. r = p
      <3>1. q \in DOMAIN mem.at /\ p \in DOMAIN mem.at
        BY <1>1, <1>3
      <3>2. PICK o \in DOMAIN mem.at : {c \in DOMAIN mem.at : mem.at[c] = q[1]} = {o}
        BY <1>1, <1>3, <3>1, OneWayUp
      <3>3. mem.at[r] = q[1] /\ mem.at[p] = q[1]
        BY <1>1, <1>3, <2>1, <3>1, SlotBelow DEF Wooded
      <3>4. QED
        BY <2>1, <3>1, <3>2, <3>3
    <2>3. (CHOOSE c \in ParentLinks(q) : TRUE) = p
      BY <2>1, <2>2
    <2>4. /\ q \in DOMAIN rows /\ rows[q].parent # Null /\ rows[q].parent \in DOMAIN nodes
          /\ rows[q].pos = q[2] /\ Cardinality(ParentLinks(q)) = 1
      BY <1>3, RowsUp DEF RowUp
    <2>5. step(q, g) = Extended(g[CHOOSE c \in ParentLinks(q) : TRUE], rows[q].pos)
      BY <2>4 DEF Extended
    <2>6. QED
      <3> HIDE DEF step
      <3>1. QED
        BY <2>3, <2>4, <2>5
  <1>4. \A q \in DOMAIN mem.at : f[q] = step(q, f)
    <2>1. TAKE q \in DOMAIN mem.at
    <2>2. CASE q \notin L
      BY <1>1, <2>2
    <2>3. CASE q \in L /\ q[1] = 0
      BY <1>2, <2>3
    <2>4. CASE q \in L /\ q[1] # 0
      <3>1. PICK p \in L : q \in SlotsBelow(mem)[p]
        BY <1>1, <2>4, LiveAbove
      <3>2. step(q, f) = Extended(f[p], q[2])
        BY <1>3, <2>4, <3>1
      <3>3. Path(mem, q) = Extended(Path(mem, p), q[2])
        BY <1>1, <3>1, PathStep
      <3>4. f[p] = Path(mem, p) /\ f[q] = Path(mem, q)
        BY <1>1, <2>4, <3>1
      <3>5. QED
        BY <3>2, <3>3, <3>4
    <2>5. QED
      BY <2>2, <2>3, <2>4
  <1>5. Is(f)
    <2> HIDE DEF step
    <2>1. QED
      BY <1>4
  <1>6. Is(path)
    <2> HIDE DEF Is
    <2>1. QED
      BY <1>5
  <1>7. \A s \in DOMAIN mem.at : path[s] = step(s, path)
    <2> HIDE DEF step, path
    <2>1. QED
      BY <1>6
  <1>8. \A s \in DOMAIN mem.at : TablePath(s) = path[s]
    BY Zenon DEF TablePath
  <1> DEFINE C == {s \in L : path[s] = Path(mem, s)}
  <1>9. C = L
    <2>1. \A s \in L : s[1] = 0 => s \in C
      <3> HIDE DEF step, path
      <3>1. QED
        BY <1>1, <1>2, <1>7
    <2>2. ASSUME NEW s \in C, NEW k \in SlotsBelow(mem)[s], k \in L PROVE k \in C
      <3>1. k[1] # 0
        BY <1>1, <2>2, SlotBelow DEF Wooded
      <3>2. step(k, path) = Extended(path[s], k[2])
        <4> HIDE DEF step, path
        <4>1. QED
          BY <1>3, <2>2, <3>1
      <3>3. Path(mem, k) = Extended(Path(mem, s), k[2])
        BY <1>1, <2>2, PathStep
      <3>4. QED
        <4> HIDE DEF step, path
        <4>1. QED
          BY <1>1, <1>7, <2>2, <3>2, <3>3
    <2>3. C \in SUBSET L
      OBVIOUS
    <2> HIDE DEF C
    <2>4. QED
      BY <1>1, <2>1, <2>2, <2>3, LiveFromRoots
  <1>10. \A s \in L : Path(mem, s) # <<>>
    BY <1>1, RowOfLive DEF HasRow
  <1>11. QED
    <2> HIDE DEF path
    <2>1. QED
      BY <1>1, <1>8, <1>9, <1>10

-----------------------------------------------------------------------------
(* The way up. *)

\* The live slots above slot s.
Above(m, s) == {a \in Live(m) : s \in Below(SlotsBelow(m), {a})}

LEMMA AboveStep ==
  ASSUME NEW m, Wooded(m)
  PROVE  /\ \A r \in DOMAIN m.at : r[1] = 0 => Above(m, r) = {}
         /\ \A p \in Live(m) : \A k \in SlotsBelow(m)[p] : Above(m, k) = {p} \cup Above(m, p)
  <1>1. Forest(SlotsBelow(m), RootSlots(m)) /\ DOMAIN SlotsBelow(m) = DOMAIN m.at /\ Live(m) \subseteq DOMAIN m.at
    BY SlotBelow, LiveParts DEF Wooded
  <1>2. ASSUME NEW r \in DOMAIN m.at, r[1] = 0 PROVE Above(m, r) = {}
    <2>1. r \in RootSlots(m)
      BY <1>2 DEF RootSlots
    <2>2. \A a \in Live(m) : r \notin Below(SlotsBelow(m), {a})
      BY <1>1, <2>1, BelowFrom
    <2>3. QED
      BY <2>2 DEF Above
  <1>3. ASSUME NEW p \in Live(m), NEW k \in SlotsBelow(m)[p] PROVE Above(m, k) = {p} \cup Above(m, p)
    <2>1. \A a \in Live(m) : k \in Below(SlotsBelow(m), {a}) <=> a = p \/ p \in Below(SlotsBelow(m), {a})
      <3>1. TAKE a \in Live(m)
      <3>2. /\ SlotsBelow(m)[a] \subseteq Below(SlotsBelow(m), {a}) /\ Closed(SlotsBelow(m), Below(SlotsBelow(m), {a}))
            /\ \A q \in DOMAIN SlotsBelow(m) : \A j \in SlotsBelow(m)[q] :
                  j \in Below(SlotsBelow(m), {a}) => q = a \/ q \in Below(SlotsBelow(m), {a})
        BY <1>1, BelowFrom
      <3>3. k \in Below(SlotsBelow(m), {a}) => a = p \/ p \in Below(SlotsBelow(m), {a})
        BY <1>1, <1>3, <3>2
      <3>4. p \in Below(SlotsBelow(m), {a}) => k \in Below(SlotsBelow(m), {a})
        BY <1>3, <3>2 DEF Closed
      <3>5. QED
        BY <1>3, <3>2, <3>3, <3>4
    <2>2. \A a : a \in Above(m, k) <=> a \in {p} \cup Above(m, p)
      BY <2>1 DEF Above
    <2>3. QED
      BY <2>2
  <1>4. QED
    BY <1>2, <1>3

\* The ancestors that the tables tell are those in the trees.
LEMMA AncestorsAre ==
  ASSUME FullTables
  PROVE  \A s \in Live(mem) : Ancestors(s) = Above(mem, s)
  <1> DEFINE L == Live(mem)
             step(q, g) == IF q \notin DOMAIN rows \/ ParentLinks(q) = {} THEN {}
                           ELSE LET up == CHOOSE r \in ParentLinks(q) : TRUE IN {up} \cup g[up]
             Is(g) == g = [q \in DOMAIN mem.at |-> step(q, g)]
             above == CHOOSE g : Is(g)
             f == [q \in DOMAIN mem.at |-> IF q \in L THEN Above(mem, q) ELSE {}]
  <1>1. Wooded(mem) /\ DOMAIN rows = L /\ L \subseteq DOMAIN mem.at
    BY LiveParts DEF FullTables, Tables, RowsOf
  <1>2. ASSUME NEW q \in L, NEW g, q[1] = 0
        PROVE  step(q, g) = {} /\ Above(mem, q) = {}
    <2>1. step(q, g) = {}
      BY <1>1, <1>2, RowsUp DEF RowUp
    <2>2. Above(mem, q) = {}
      BY <1>1, <1>2, AboveStep
    <2>3. QED
      BY <2>1, <2>2
  <1>3. ASSUME NEW q \in L, NEW g, q[1] # 0, NEW p \in L, q \in SlotsBelow(mem)[p]
        PROVE  step(q, g) = {p} \cup g[p]
    <2>1. PICK r \in L : r \in DOMAIN mem.at /\ q \in SlotsBelow(mem)[r] /\ ParentLinks(q) = {r}
      BY <1>3, RowsUp DEF RowUp
    <2>2. r = p
      <3>1. q \in DOMAIN mem.at /\ p \in DOMAIN mem.at
        BY <1>1, <1>3
      <3>2. PICK o \in DOMAIN mem.at : {c \in DOMAIN mem.at : mem.at[c] = q[1]} = {o}
        BY <1>1, <1>3, <3>1, OneWayUp
      <3>3. mem.at[r] = q[1] /\ mem.at[p] = q[1]
        BY <1>1, <1>3, <2>1, <3>1, SlotBelow DEF Wooded
      <3>4. QED
        BY <2>1, <3>1, <3>2, <3>3
    <2>3. (CHOOSE c \in ParentLinks(q) : TRUE) = p
      BY <2>1, <2>2
    <2>4. q \in DOMAIN rows /\ ParentLinks(q) # {}
      BY <1>1, <2>1
    <2>5. step(q, g) = {CHOOSE c \in ParentLinks(q) : TRUE} \cup g[CHOOSE c \in ParentLinks(q) : TRUE]
      BY <2>4
    <2>6. QED
      <3> HIDE DEF step
      <3>1. QED
        BY <2>3, <2>5
  <1>4. \A q \in DOMAIN mem.at : f[q] = step(q, f)
    <2>1. TAKE q \in DOMAIN mem.at
    <2>2. CASE q \notin L
      BY <1>1, <2>2
    <2>3. CASE q \in L /\ q[1] = 0
      BY <1>2, <2>3
    <2>4. CASE q \in L /\ q[1] # 0
      <3>1. PICK p \in L : q \in SlotsBelow(mem)[p]
        BY <1>1, <2>4, LiveAbove
      <3>2. step(q, f) = {p} \cup f[p]
        BY <1>3, <2>4, <3>1
      <3>3. Above(mem, q) = {p} \cup Above(mem, p)
        BY <1>1, <3>1, AboveStep
      <3>4. f[p] = Above(mem, p) /\ f[q] = Above(mem, q)
        BY <1>1, <2>4, <3>1
      <3>5. QED
        BY <3>2, <3>3, <3>4
    <2>5. QED
      BY <2>2, <2>3, <2>4
  <1>5. Is(f)
    <2> HIDE DEF step
    <2>1. QED
      BY <1>4
  <1>6. Is(above)
    <2> HIDE DEF Is
    <2>1. QED
      BY <1>5
  <1>7. \A s \in DOMAIN mem.at : above[s] = step(s, above)
    <2> HIDE DEF step, above
    <2>1. QED
      BY <1>6
  <1>8. \A s \in DOMAIN mem.at : Ancestors(s) = above[s]
    BY Zenon DEF Ancestors
  <1> DEFINE C == {s \in L : above[s] = Above(mem, s)}
  <1>9. C = L
    <2>1. \A s \in L : s[1] = 0 => s \in C
      <3> HIDE DEF step, above
      <3>1. QED
        BY <1>1, <1>2, <1>7
    <2>2. ASSUME NEW s \in C, NEW k \in SlotsBelow(mem)[s], k \in L PROVE k \in C
      <3>1. k[1] # 0
        BY <1>1, <2>2, SlotBelow DEF Wooded
      <3>2. step(k, above) = {s} \cup above[s]
        <4> HIDE DEF step, above
        <4>1. QED
          BY <1>3, <2>2, <3>1
      <3>3. Above(mem, k) = {s} \cup Above(mem, s)
        BY <1>1, <2>2, AboveStep
      <3>4. QED
        <4> HIDE DEF step, above
        <4>1. QED
          BY <1>1, <1>7, <2>2, <3>2, <3>3
    <2>3. C \in SUBSET L
      OBVIOUS
    <2> HIDE DEF C
    <2>4. QED
      BY <1>1, <2>1, <2>2, <2>3, LiveFromRoots
  <1>10. QED
    <2> HIDE DEF above
    <2>1. QED
      BY <1>1, <1>8, <1>9

-----------------------------------------------------------------------------
(* The order by links, and the nodes a swap disturbs. *)

LinkPairs(m, S) == {p \in S \X S : Before(m, p[1], p[2])}

NodePairs(m, S) == {p \in S \X S : SCLess(m, p[1], p[2])}

OfLinks(m, S) == [has |-> S, before |-> LinkPairs(m, S)]

OfNodes(m, S) == [has |-> S, before |-> NodePairs(m, S)]

LEMMA LinksOrdered ==
  ASSUME FullTables, NEW S \in SUBSET Live(mem)
  PROVE  DFOrder(S) = LinkPairs(mem, S)
  <1>1. \A s \in S : TablePath(s) = Path(mem, s)
    BY TablePathIs
  <1> DEFINE keys == {<<s, TablePath(s)>> : s \in S}
             inorder == {k \in keys \X keys : PathLess(k[1][2], k[2][2])}
  <1>2. DFOrder(S) = {<<k[1][1], k[2][1]>> : k \in inorder}
    BY DEF DFOrder
  <1>3. \A p : p \in DFOrder(S) <=> \E s \in S, t \in S : PathLess(TablePath(s), TablePath(t)) /\ p = <<s, t>>
    <2>1. TAKE p
    <2>2. ASSUME p \in DFOrder(S)
          PROVE  \E s \in S, t \in S : PathLess(TablePath(s), TablePath(t)) /\ p = <<s, t>>
      <3>1. PICK k \in inorder : p = <<k[1][1], k[2][1]>>
        <4> HIDE DEF inorder
        <4>1. QED
          BY <1>2, <2>2
      <3>2. PICK s \in S, t \in S : k = <<<<s, TablePath(s)>>, <<t, TablePath(t)>>>>
        BY <3>1
      <3>3. k[1][1] = s /\ k[2][1] = t /\ k[1][2] = TablePath(s) /\ k[2][2] = TablePath(t)
        BY <3>2
      <3>4. PathLess(k[1][2], k[2][2])
        BY <3>1
      <3>5. QED
        BY <3>1, <3>3, <3>4
    <2>3. ASSUME NEW s \in S, NEW t \in S, PathLess(TablePath(s), TablePath(t)), p = <<s, t>>
          PROVE  p \in DFOrder(S)
      <3>1. PICK k : k = <<<<s, TablePath(s)>>, <<t, TablePath(t)>>>>
        OBVIOUS
      <3>2. k[1][1] = s /\ k[2][1] = t /\ k[1][2] = TablePath(s) /\ k[2][2] = TablePath(t)
        BY <3>1
      <3>3. k \in keys \X keys
        BY <3>1
      <3>4. k \in inorder
        BY <2>3, <3>2, <3>3
      <3>5. QED
        <4> HIDE DEF inorder
        <4>1. QED
          BY <1>2, <2>3, <3>2, <3>4
    <2>4. QED
      BY <2>2, <2>3
  <1>4. \A p : p \in LinkPairs(mem, S) <=> \E s \in S, t \in S : PathLess(TablePath(s), TablePath(t)) /\ p = <<s, t>>
    BY <1>1 DEF LinkPairs, Before
  <1>5. \A p : p \in DFOrder(S) <=> p \in LinkPairs(mem, S)
    BY <1>3, <1>4
  <1>6. QED
    BY <1>5

LEMMA NodesOrdered == \A S : SCOrder(S) = NodePairs(mem, S)
  BY DEF SCOrder, NodePairs

LEMMA LinksUsable ==
  ASSUME FullTables, NEW S \in SUBSET Live(mem), NEW R \in SUBSET Live(mem), dfo = OfLinks(mem, R)
  PROVE  DFOUsable(S)
  <1>1. dfo.has = R /\ dfo.before = LinkPairs(mem, R)
    BY DEF OfLinks
  <1>2. \A s \in S \cup R : TablePath(s) # <<>>
    BY TablePathIs
  <1>3. DFOrder(R) = LinkPairs(mem, R)
    BY LinksOrdered
  <1>4. QED
    BY <1>1, <1>2, <1>3 DEF DFOUsable

LEMMA NodesUsable ==
  ASSUME NEW R, sc = OfNodes(mem, R)
  PROVE  SCUsable
  BY NodesOrdered DEF SCUsable, OfNodes

\* Elements that go in and out leave the others in their order.
LEMMA ElementsErased ==
  ASSUME NEW m, NEW R, NEW S
  PROVE  /\ Erased(OfLinks(m, R), S) = OfLinks(m, R \ S)
         /\ Erased(OfNodes(m, R), S) = OfNodes(m, R \ S)
  <1>1. \A p : p \in {q \in LinkPairs(m, R) : q[1] \notin S /\ q[2] \notin S} <=> p \in LinkPairs(m, R \ S)
    BY DEF LinkPairs
  <1>2. \A p : p \in {q \in NodePairs(m, R) : q[1] \notin S /\ q[2] \notin S} <=> p \in NodePairs(m, R \ S)
    BY DEF NodePairs
  <1>3. {q \in LinkPairs(m, R) : q[1] \notin S /\ q[2] \notin S} = LinkPairs(m, R \ S)
    BY <1>1
  <1>4. {q \in NodePairs(m, R) : q[1] \notin S /\ q[2] \notin S} = NodePairs(m, R \ S)
    BY <1>2
  <1>5. QED
    BY <1>3, <1>4 DEF Erased, OfLinks, OfNodes

LEMMA LinksPutIn ==
  ASSUME FullTables, NEW R \in SUBSET Live(mem), NEW S \in SUBSET Live(mem), dfo = OfLinks(mem, R)
  PROVE  Inserted(dfo, S, DFOrder) = OfLinks(mem, R \cup S)
  <1>1. dfo.has = R /\ dfo.before = LinkPairs(mem, R)
    BY DEF OfLinks
  <1>2. DFOrder(R \cup S) = LinkPairs(mem, R \cup S)
    <2>1. R \cup S \in SUBSET Live(mem)
      OBVIOUS
    <2>2. QED
      BY <2>1, LinksOrdered
  <1>3. \A p : p \in LinkPairs(mem, R) \cup {q \in LinkPairs(mem, R \cup S) : q[1] \in S \/ q[2] \in S}
               <=> p \in LinkPairs(mem, R \cup S)
    BY DEF LinkPairs
  <1>4. LinkPairs(mem, R) \cup {q \in LinkPairs(mem, R \cup S) : q[1] \in S \/ q[2] \in S} = LinkPairs(mem, R \cup S)
    BY <1>3
  <1>5. QED
    BY <1>1, <1>2, <1>4 DEF Inserted, OfLinks

LEMMA NodesPutIn ==
  ASSUME NEW R, NEW S, sc = OfNodes(mem, R)
  PROVE  Inserted(sc, S, SCOrder) = OfNodes(mem, R \cup S)
  <1>1. sc.has = R /\ sc.before = NodePairs(mem, R)
    BY DEF OfNodes
  <1>2. SCOrder(R \cup S) = NodePairs(mem, R \cup S)
    BY NodesOrdered
  <1>3. \A p : p \in NodePairs(mem, R) \cup {q \in NodePairs(mem, R \cup S) : q[1] \in S \/ q[2] \in S}
               <=> p \in NodePairs(mem, R \cup S)
    BY DEF NodePairs
  <1>4. NodePairs(mem, R) \cup {q \in NodePairs(mem, R \cup S) : q[1] \in S \/ q[2] \in S} = NodePairs(mem, R \cup S)
    BY <1>3
  <1>5. QED
    BY <1>1, <1>2, <1>4 DEF Inserted, OfNodes

-----------------------------------------------------------------------------
(* The links of a zone, and the nodes above it. *)

\* The walk of a zone meets what is reached before its terminii.
LEMMA WalkOfZone ==
  ASSUME NEW m, Wooded(m), NEW stop \in SUBSET DOMAIN m.at
  PROVE  \A s \in DOMAIN m.at : ZoneLinks(m, s, stop) = Reach(CutBelow(SlotsBelow(m), stop), {s})
  <1> DEFINE cut == CutBelow(SlotsBelow(m), stop)
             Is(g) == g = [q \in DOMAIN m.at |->
                            IF q \in stop THEN {q}
                            ELSE {q} \cup UNION {g[r] : r \in ToSet(m.slots[m.at[q]])}]
             links == CHOOSE g : Is(g)
             more == RootSlots(m) \cup UNION {SlotsBelow(m)[s] : s \in stop}
  <1>1. IsKids(SlotsBelow(m)) /\ DOMAIN SlotsBelow(m) = DOMAIN m.at /\ Forest(SlotsBelow(m), RootSlots(m))
    BY SlotBelow DEF Wooded
  <1>2. IsKids(cut) /\ DOMAIN cut = DOMAIN m.at /\ \A s \in DOMAIN m.at : cut[s] = IF s \in stop THEN {} ELSE SlotsBelow(m)[s]
    BY <1>1, CutParts
  <1>3. Forest(cut, more)
    BY <1>1, CutForest
  <1>4. \A q \in DOMAIN m.at : SlotsBelow(m)[q] = ToSet(m.slots[m.at[q]])
    BY DEF SlotsBelow
  <1> HIDE DEF cut, more
  <1>5. \A g : Is(g) <=> WalksDown(cut, g)
    <2>1. TAKE g
    <2>2. \A q \in DOMAIN m.at : (IF q \in stop THEN {q} ELSE {q} \cup UNION {g[r] : r \in ToSet(m.slots[m.at[q]])})
                                   = {q} \cup UNION {g[r] : r \in cut[q]}
      <3>1. TAKE q \in DOMAIN m.at
      <3>2. CASE q \in stop
        BY <1>2, <3>2
      <3>3. CASE q \notin stop
        BY <1>2, <1>4, <3>3
      <3>4. QED
        BY <3>2, <3>3
    <2>3. [q \in DOMAIN m.at |-> IF q \in stop THEN {q} ELSE {q} \cup UNION {g[r] : r \in ToSet(m.slots[m.at[q]])}]
            = [q \in DOMAIN m.at |-> {q} \cup UNION {g[r] : r \in cut[q]}]
      BY <2>2
    <2>4. QED
      BY <1>2, <2>3 DEF WalksDown
  <1>6. \E g : Is(g)
    <2> HIDE DEF Is
    <2>1. QED
      BY <1>2, <1>5, WalkExists
  <1>7. Is(links)
    <2> HIDE DEF Is
    <2>1. QED
      BY <1>6
  <1>8. \A s \in DOMAIN m.at : ZoneLinks(m, s, stop) = links[s]
    BY Zenon DEF ZoneLinks
  <1>9. WalksDown(cut, links)
    <2> HIDE DEF Is, links
    <2>1. QED
      BY <1>5, <1>7
  <1> HIDE DEF links
  <1>10. \A s \in DOMAIN cut : links[s] = Reach(cut, {s})
    <2>1. IsFiniteSet(DOMAIN cut)
      BY <1>2 DEF Wooded, SlotsPlaced
    <2>2. QED
      BY <2>1, <1>3, <1>9, WalkIsReach
  <1>11. QED
    BY <1>2, <1>8, <1>10 DEF cut

LEMMA LinksOfZones ==
  ASSUME Wooded(mem), NEW x, NEW y, zones = <<x, y>>,
         x.base \in DOMAIN mem.at, y.base \in DOMAIN mem.at,
         ToSet(x.term) \subseteq DOMAIN mem.at, ToSet(y.term) \subseteq DOMAIN mem.at
  PROVE  AllLinks = Inside(mem, x, y)
  <1>1. Links(x) = ZoneSlots(mem, x)
    BY WalkOfZone DEF Links, ZoneSlots
  <1>2. Links(y) = ZoneSlots(mem, y)
    BY WalkOfZone DEF Links, ZoneSlots
  <1>3. ToSet(zones) = {x, y}
    BY DEF ToSet
  <1>4. AllLinks = Links(x) \cup Links(y)
    BY <1>3 DEF AllLinks
  <1>5. QED
    BY <1>1, <1>2, <1>4 DEF Inside

\* Orderings::GetTerminusAndBaseAncestors() gives the nodes above both
\* boundaries.
LEMMA DisturbedAre ==
  ASSUME FullTables, NEW x, NEW y, zones = <<x, y>>, Bounds(x, y) \subseteq Live(mem)
  PROVE  Disturbed = Disturbs(mem, Bounds(x, y))
  <1> DEFINE B == Bounds(x, y)
  <1>1. ToSet(zones) = {x, y}
    BY DEF ToSet
  <1>2. \A k : k \in Disturbed <=> \E z \in {x, y} : \E s \in ToSet(Boundary(z)) : \E a \in Ancestors(s) : k = mem.at[a]
    BY <1>1 DEF Disturbed, TerminusAndBaseAncestors
  <1>3. \A k : k \in Disturbed <=> \E s \in B : \E a \in Ancestors(s) : k = mem.at[a]
    BY <1>2 DEF Bounds
  <1>4. \A s \in B : Ancestors(s) = Above(mem, s)
    BY AncestorsAre
  <1>5. \A k : k \in Disturbed <=> \E s \in B : \E a \in Live(mem) : s \in Below(SlotsBelow(mem), {a}) /\ k = mem.at[a]
    BY <1>3, <1>4 DEF Above
  <1>6. \A k : k \in Disturbs(mem, B) <=> \E a \in Live(mem) : Below(SlotsBelow(mem), {a}) \cap B # {} /\ k = mem.at[a]
    BY DEF Disturbs, PointedTo
  <1>7. \A k : k \in Disturbed <=> k \in Disturbs(mem, B)
    BY <1>5, <1>6
  <1>8. QED
    BY <1>7

-----------------------------------------------------------------------------
(* The nodes that go with a tree. *)

\* DeleteActionSCAndCAT() finds the nodes no other tree has.
LEMMA LastReachedAre ==
  ASSUME FullTables, NEW S \in SUBSET Live(mem)
  PROVE  LastReached(S) = PointedTo(mem, Live(mem)) \ PointedTo(mem, Live(mem) \ S)
  <1> DEFINE L == Live(mem)
  <1>1. Wooded(mem) /\ L \subseteq DOMAIN mem.at /\ IsFiniteSet(DOMAIN mem.at)
    BY LiveParts DEF FullTables, Wooded, SlotsPlaced
  <1>2. \A s \in L : nodes[mem.at[s]].incoming = {q \in L : mem.at[q] = mem.at[s]}
    BY DEF FullTables, Tables, NodesOf
  <1>3. ASSUME NEW s \in S
        PROVE  Cardinality({q \in S : mem.at[q] = mem.at[s]}) >= Cardinality(nodes[mem.at[s]].incoming)
                 <=> \A q \in L : mem.at[q] = mem.at[s] => q \in S
    <2> DEFINE some == {q \in S : mem.at[q] = mem.at[s]}
               all == {q \in L : mem.at[q] = mem.at[s]}
    <2>1. nodes[mem.at[s]].incoming = all /\ some \subseteq all
      BY <1>2
    <2>2. IsFiniteSet(all)
      BY <1>1, FS_Subset
    <2>3. IsFiniteSet(some) /\ Cardinality(some) <= Cardinality(all) /\ (Cardinality(some) = Cardinality(all) => some = all)
      <3> HIDE DEF some, all
      <3>1. QED
        BY <2>1, <2>2, FS_Subset
    <2>4. Cardinality(some) \in Nat /\ Cardinality(all) \in Nat
      <3> HIDE DEF some, all
      <3>1. QED
        BY <2>2, <2>3, FS_CardinalityType
    <2>5. Cardinality(some) >= Cardinality(all) <=> some = all
      <3> HIDE DEF some, all
      <3>1. QED
        BY <2>3, <2>4
    <2>6. some = all <=> \A q \in L : mem.at[q] = mem.at[s] => q \in S
      OBVIOUS
    <2>7. QED
      BY <2>1, <2>5, <2>6
  <1>4. \A k : k \in LastReached(S) <=> \E s \in S : k = mem.at[s] /\ \A q \in L : mem.at[q] = mem.at[s] => q \in S
    BY <1>3 DEF LastReached
  <1>5. \A k : k \in PointedTo(mem, L) \ PointedTo(mem, L \ S) <=> \E s \in S : k = mem.at[s] /\ \A q \in L : mem.at[q] = mem.at[s] => q \in S
    BY DEF PointedTo
  <1>6. \A k : k \in LastReached(S) <=> k \in PointedTo(mem, L) \ PointedTo(mem, L \ S)
    BY <1>4, <1>5
  <1>7. QED
    BY <1>6

-----------------------------------------------------------------------------
(* What a change of the trees leaves of the orders. *)

\* The nodes K have the same content in both memories.
SameBelow(m, n, K) ==
  /\ K \subseteq 1..Len(m.label) /\ K \subseteq 1..Len(n.label)
  /\ \A k \in K : /\ n.label[k] = m.label[k] /\ n.slots[k] = m.slots[k]
                  /\ \A i \in DOMAIN m.slots[k] : n.at[m.slots[k][i]] = m.at[m.slots[k][i]] /\ m.at[m.slots[k][i]] \in K

AnswersAgree(K, f, g) == \A a, b \in K : g[<<a, b>>] = f[<<a, b>>]

LEMMA SameAnswers ==
  ASSUME NEW m, Wooded(m), NEW n, Wooded(n), NEW K, SameBelow(m, n, K),
         NEW f, Answers(m, f), NEW g, Answers(n, g)
  PROVE  AnswersAgree(K, f, g)
  <1> DEFINE X == {a \in K : \E b \in K : g[<<a, b>>] # f[<<a, b>>]}
  <1>1. SUFFICES ASSUME X # {} PROVE FALSE
    BY DEF AnswersAgree
  <1>2. PICK a \in X : \A i \in DOMAIN m.slots[a] : m.at[m.slots[a][i]] \notin X
    <2>1. X \in SUBSET (1..Len(m.label))
      BY DEF SameBelow
    <2> HIDE DEF X
    <2>2. QED
      BY <1>1, <2>1, NodesGrounded
  <1>3. PICK b \in K : g[<<a, b>>] # f[<<a, b>>]
    BY <1>2
  <1>4. a \in K
    BY <1>2
  <1>5. /\ a \in 1..Len(m.label) /\ b \in 1..Len(m.label) /\ a \in 1..Len(n.label) /\ b \in 1..Len(n.label)
        /\ n.label[a] = m.label[a] /\ n.label[b] = m.label[b] /\ n.slots[a] = m.slots[a] /\ n.slots[b] = m.slots[b]
    BY <1>3, <1>4 DEF SameBelow
  <1>6. PICK p, q, la, lb, na, nb, d, e : /\ p = f[<<a, b>>] /\ q = g[<<a, b>>] /\ la = m.label[a] /\ lb = m.label[b]
                     /\ na = Len(m.slots[a]) /\ nb = Len(m.slots[b])
                     /\ d = FirstDifference(Children(m, f, a, b)) /\ e = FirstDifference(Children(n, g, a, b))
    OBVIOUS
  <1>7. CasesOf(a, b, la, lb, na, nb, d, p)
    <2>1. CasesOf(a, b, m.label[a], m.label[b], Len(m.slots[a]), Len(m.slots[b]),
                  FirstDifference(Children(m, f, a, b)), f[<<a, b>>])
      BY <1>5, AnswerCases
    <2>2. QED
      BY <2>1, <1>6
  <1>8. CasesOf(a, b, la, lb, na, nb, e, q)
    <2>1. CasesOf(a, b, n.label[a], n.label[b], Len(n.slots[a]), Len(n.slots[b]),
                  FirstDifference(Children(n, g, a, b)), g[<<a, b>>])
      BY <1>5, AnswerCases
    <2>2. QED
      BY <2>1, <1>5, <1>6
  <1>9. na = nb => e = d
    <2>1. HAVE na = nb
    <2>2. ChildrenOf(m, f, a, b, Len(m.slots[a]), Children(m, f, a, b))
      BY <1>5, <1>6, <2>1, ChildrenType
    <2>3. ChildrenOf(n, g, a, b, Len(n.slots[a]), Children(n, g, a, b))
      BY <1>5, <1>6, <2>1, ChildrenType
    <2>4. PICK c, h : c = Children(m, f, a, b) /\ h = Children(n, g, a, b)
      OBVIOUS
    <2>5. ChildrenOf(m, f, a, b, na, c)
      BY <1>6, <2>2, <2>4
    <2>6. ChildrenOf(n, g, a, b, na, h)
      BY <1>5, <1>6, <2>3, <2>4
    <2>6a. ChildrenOf(m, f, b, a, na, Children(m, f, b, a))
      <3>1. ChildrenOf(m, f, b, a, Len(m.slots[b]), Children(m, f, b, a))
        BY <1>5, <1>6, <2>1, ChildrenType
      <3>2. QED
        BY <1>6, <2>1, <3>1
    <2>7. \A i \in 1..na : h[i] = c[i]
      <3>1. TAKE i \in 1..na
      <3>2. PICK u, v : u = m.at[m.slots[a][i]] /\ v = m.at[m.slots[b][i]]
        OBVIOUS
      <3>3. i \in DOMAIN m.slots[a] /\ c[i] = f[<<u, v>>]
        BY <2>5, <3>2 DEF ChildrenOf
      <3>4. i \in DOMAIN m.slots[b]
        BY <2>6a DEF ChildrenOf
      <3>5. u \in K /\ v \in K /\ n.at[n.slots[a][i]] = u /\ n.at[n.slots[b][i]] = v
        BY <1>3, <1>4, <1>5, <3>2, <3>3, <3>4 DEF SameBelow
      <3>6. h[i] = g[<<u, v>>]
        BY <2>6, <3>5 DEF ChildrenOf
      <3>7. u \notin X
        BY <1>2, <3>2, <3>3
      <3>8. QED
        BY <3>3, <3>5, <3>6, <3>7
    <2>8. c \in [1..na -> Int] /\ h \in [1..na -> Int]
      BY <2>5, <2>6 DEF ChildrenOf
    <2>9. h = c
      <3>1. DOMAIN c = 1..na /\ DOMAIN h = 1..na /\ c = [i \in DOMAIN c |-> c[i]] /\ h = [i \in DOMAIN h |-> h[i]]
        BY <2>8
      <3>2. QED
        BY <2>7, <3>1
    <2>10. QED
      BY <1>6, <2>4, <2>9
  <1>10. q = p
    BY <1>7, <1>8, <1>9 DEF CasesOf
  <1>11. QED
    BY <1>3, <1>6, <1>10

LEMMA SameContent ==
  ASSUME NEW m, Wooded(m), NEW n, Wooded(n), NEW K, SameBelow(m, n, K), NEW S \in SUBSET K
  PROVE  OfNodes(n, S) = OfNodes(m, S)
  <1>1. PICK f : Answers(m, f)
    BY AnswersExist
  <1>2. PICK g : Answers(n, g)
    BY AnswersExist
  <1>3. AnswersAgree(K, f, g)
    BY <1>1, <1>2, SameAnswers
  <1>4. \A a, b \in K : SCLess(n, a, b) <=> SCLess(m, a, b)
    <2>1. \A a, b \in K : SimpleCompare(n, a, b) = SimpleCompare(m, a, b)
      <3>1. TAKE a \in K, b \in K
      <3>2. SimpleCompare(m, a, b) = f[<<a, b>>]
        BY <1>1 DEF Answers
      <3>3. SimpleCompare(n, a, b) = g[<<a, b>>]
        BY <1>2 DEF Answers
      <3>4. QED
        BY <1>3, <3>2, <3>3 DEF AnswersAgree
    <2>2. QED
      BY <2>1 DEF SCLess
  <1>5. \A p : p \in NodePairs(n, S) <=> p \in NodePairs(m, S)
    BY <1>4 DEF NodePairs
  <1>6. NodePairs(n, S) = NodePairs(m, S)
    BY <1>5
  <1>7. QED
    BY <1>6 DEF OfNodes

LEMMA SamePaths ==
  ASSUME NEW m, NEW n, NEW S, \A s \in S : Path(n, s) = Path(m, s)
  PROVE  OfLinks(n, S) = OfLinks(m, S)
  <1>1. \A p : p \in LinkPairs(n, S) <=> p \in LinkPairs(m, S)
    BY DEF LinkPairs, Before
  <1>2. LinkPairs(n, S) = LinkPairs(m, S)
    BY <1>1
  <1>3. QED
    BY <1>2 DEF OfLinks

\* All nodes there are keep their content when a tree is built.
LEMMA BuildKeepsOrders ==
  ASSUME NEW m, Wooded(m), NEW n, NEW t, TreeMade(m, n, t), Len(m.label) \in Nat, Len(n.label) \in Nat,
         Len(m.label) <= Len(n.label), t \notin DOMAIN m.type, <<0, t>> \notin DOMAIN m.at
  PROVE  /\ OfLinks(n, Live(m)) = OfLinks(m, Live(m))
         /\ \A S \in SUBSET PointedTo(m, Live(m)) : OfNodes(n, S) = OfNodes(m, S)
         /\ PointedTo(n, Live(m)) = PointedTo(m, Live(m))
  <1>1. /\ Wooded(n) /\ DOMAIN m.at \subseteq DOMAIN n.at /\ DOMAIN n.type = DOMAIN m.type \cup {t}
        /\ \A s \in DOMAIN m.at : n.at[s] = m.at[s]
        /\ \A k \in 1..Len(m.label) : n.label[k] = m.label[k] /\ n.slots[k] = m.slots[k]
        /\ Live(m) \subseteq DOMAIN m.at
    BY DEF TreeMade
  <1>2. /\ m.at \in [DOMAIN m.at -> 1..Len(m.label)]
        /\ \A k \in 1..Len(m.label) : m.slots[k] \in Seq(Slots) /\ ToSet(m.slots[k]) \subseteq DOMAIN m.at
    BY DEF Wooded, SlotsPlaced
  <1>3. SameBelow(m, n, 1..Len(m.label))
    <2>1. \A k \in 1..Len(m.label) : \A i \in DOMAIN m.slots[k] : m.slots[k][i] \in DOMAIN m.at
      BY <1>2 DEF ToSet
    <2>2. 1..Len(m.label) \subseteq 1..Len(n.label)
      OBVIOUS
    <2>3. QED
      BY <1>1, <1>2, <2>1, <2>2 DEF SameBelow
  <1>4. \A s \in Live(m) : Path(n, s) = Path(m, s)
    <2> DEFINE U == DOMAIN m.at
    <2>1. \A r \in RootSlots(m) : r \in U => r \in DOMAIN n.at /\ (r[2] \in DOMAIN m.type <=> r[2] \in DOMAIN n.type)
      <3>1. TAKE r \in RootSlots(m)
      <3>2. r \in DOMAIN m.at /\ r = <<0, r[2]>>
        <4>1. r \in DOMAIN m.at /\ r[1] = 0
          BY DEF RootSlots
        <4>2. r \in Nat \X Nat
          BY <4>1 DEF Wooded, SlotsPlaced, Slots
        <4>3. QED
          BY <4>1, <4>2
      <3>3. r[2] # t
        BY <3>2
      <3>4. QED
        BY <1>1, <3>2, <3>3
    <2>2. \A p \in DOMAIN m.at : \A k \in SlotsBelow(m)[p] : k \in U => p \in U /\ p \in DOMAIN n.at /\ k \in SlotsBelow(n)[p]
      <3>1. TAKE p \in DOMAIN m.at
      <3>2. SlotsBelow(m)[p] = ToSet(m.slots[m.at[p]]) /\ p \in DOMAIN n.at
        BY <1>1 DEF SlotsBelow
      <3>3. SlotsBelow(n)[p] = ToSet(n.slots[n.at[p]])
        BY <3>2 DEF SlotsBelow
      <3>4. n.at[p] = m.at[p] /\ m.at[p] \in 1..Len(m.label)
        BY <1>1, <1>2
      <3>5. SlotsBelow(n)[p] = SlotsBelow(m)[p]
        BY <1>1, <3>2, <3>3, <3>4
      <3>6. QED
        BY <3>2, <3>5
    <2>3. U \in SUBSET DOMAIN m.at
      OBVIOUS
    <2>4. \A s \in U : Path(n, s) = Path(m, s)
      <3> HIDE DEF U
      <3>1. QED
        BY <1>1, <2>1, <2>2, <2>3, PathsAgree
    <2>5. QED
      BY <1>1, <2>4
  <1>5. \A S \in SUBSET PointedTo(m, Live(m)) : OfNodes(n, S) = OfNodes(m, S)
    <2>1. PointedTo(m, Live(m)) \subseteq 1..Len(m.label)
      BY <1>1, <1>2 DEF PointedTo
    <2>2. QED
      BY <1>1, <1>3, <2>1, SameContent
  <1>6. PointedTo(n, Live(m)) = PointedTo(m, Live(m))
    BY <1>1 DEF PointedTo
  <1>7. QED
    BY <1>4, <1>5, <1>6, SamePaths

\* What a swap of x and y leaves as it was, for the zones v and w after it:
\* the links and nodes of the trees, which of them the zones have, and the
\* orders of all those that the swap takes out of the orderings only after it.
OrdersKept(m, n, x, y, v, w) ==
  LET L == Live(m)
      B == Bounds(x, y)
  IN /\ Live(n) = L /\ PointedTo(n, L) = PointedTo(m, L)
     /\ Inside(n, v, w) = Inside(m, x, y) /\ Disturbs(n, B) = Disturbs(m, B)
     /\ OfLinks(n, L \ Inside(m, x, y)) = OfLinks(m, L \ Inside(m, x, y))
     /\ OfNodes(n, PointedTo(m, L) \ Disturbs(m, B)) = OfNodes(m, PointedTo(m, L) \ Disturbs(m, B))

LEMMA SwapKeepsOrders ==
  ASSUME NEW m, Wooded(m), NEW x, NEW y, Swappable(m, x, y), ValidZone(m, x), ValidZone(m, y),
         Bounds(x, y) \subseteq Live(m), NEW n, n = Swap(m, x, y),
         NEW v, TookOver(x, y, v), NEW w, TookOver(y, x, w)
  PROVE  OrdersKept(m, n, x, y, v, w)
  <1> DEFINE L == Live(m)
  <1> DEFINE B == Bounds(x, y)
             K == {k \in 1..Len(m.label) : ToSet(m.slots[k]) \subseteq Clear(SlotsBelow(m), B)}
  <1>1. B = ToSet(Boundary(x)) \cup ToSet(Boundary(y))
    BY DEF Bounds
  <1>2. /\ Wooded(n) /\ DOMAIN n.at = DOMAIN m.at /\ n.label = m.label /\ n.slots = m.slots
        /\ \A s \in DOMAIN m.at \ B : n.at[s] = m.at[s]
    BY <1>1, SwapKeepsWood
  <1>3. x.base \in Live(m) /\ y.base \in Live(m)
    <2>1. x.base \in DOMAIN m.at /\ y.base \in DOMAIN m.at /\ x.term \in Seq(DOMAIN m.at) /\ y.term \in Seq(DOMAIN m.at)
      BY SwappablePairs
    <2>2. x.base \in ToSet(Boundary(x))
      BY <2>1, BoundaryParts
    <2>3. y.base \in ToSet(Boundary(y))
      BY <2>1, BoundaryParts
    <2>4. QED
      BY <1>1, <2>2, <2>3
  <1>4. Crossed(m, n, x, y)
    BY <1>3, SwapIsCrossed
  <1>5. Live(n) = L /\ PointedTo(n, L) = PointedTo(m, L) /\ Disturbs(n, B) = Disturbs(m, B)
    BY <1>1, SwapPointsAlike
  <1>6. Inside(n, v, w) = Inside(m, x, y)
    BY <1>4, InsideKept
  <1>7. OfLinks(n, L \ Inside(m, x, y)) = OfLinks(m, L \ Inside(m, x, y))
    <2>1. Crossed(m, n, y, x)
      BY <1>4, CrossedOtherWay
    <2>2. \A s \in L \ Inside(m, x, y) : Around(m, x, s) /\ Around(m, y, s)
      <3>1. TAKE s \in L \ Inside(m, x, y)
      <3>2. s \notin ZoneSlots(m, x) /\ s \notin ZoneSlots(m, y)
        BY DEF Inside
      <3>3. QED
        BY <1>4, <2>1, <3>2, OutsideIsAround
    <2>3. \A a, b \in L \ Inside(m, x, y) : Before(m, a, b) <=> Before(n, a, b)
      BY <1>4, <2>2, SwapKeepsOrder
    <2>4. \A p : p \in LinkPairs(n, L \ Inside(m, x, y)) <=> p \in LinkPairs(m, L \ Inside(m, x, y))
      BY <2>3 DEF LinkPairs
    <2>5. LinkPairs(n, L \ Inside(m, x, y)) = LinkPairs(m, L \ Inside(m, x, y))
      BY <2>4
    <2>6. QED
      BY <2>5 DEF OfLinks
  <1>8. IsKids(SlotsBelow(m)) /\ DOMAIN SlotsBelow(m) = DOMAIN m.at /\ L \subseteq DOMAIN m.at
    BY SlotBelow, LiveParts DEF Wooded
  <1>9. m.at \in [DOMAIN m.at -> 1..Len(m.label)]
    BY DEF Wooded, SlotsPlaced
  <1>10. SameBelow(m, n, K)
    <2>1. \A k \in K : \A i \in DOMAIN m.slots[k] : n.at[m.slots[k][i]] = m.at[m.slots[k][i]] /\ m.at[m.slots[k][i]] \in K
      <3>1. TAKE k \in K
      <3>2. TAKE i \in DOMAIN m.slots[k]
      <3>3. PICK s : s = m.slots[k][i]
        OBVIOUS
      <3>4. s \in ToSet(m.slots[k])
        BY <3>3 DEF ToSet
      <3>5. s \in Clear(SlotsBelow(m), B)
        BY <3>4
      <3>6. s \in DOMAIN m.at /\ s \notin B /\ SlotsBelow(m)[s] \subseteq Clear(SlotsBelow(m), B)
        BY <1>8, <3>5, ClearParts DEF Closed
      <3>7. SlotsBelow(m)[s] = ToSet(m.slots[m.at[s]])
        BY <3>6 DEF SlotsBelow
      <3>8. n.at[s] = m.at[s] /\ m.at[s] \in K
        BY <1>2, <1>9, <3>6, <3>7
      <3>9. QED
        BY <3>3, <3>8
    <2>2. QED
      BY <1>2, <2>1 DEF SameBelow
  <1>11. PointedTo(m, L) \ Disturbs(m, B) \subseteq K
    <2>1. Disturbs(m, B) = NotAllIn(m, L, Clear(SlotsBelow(m), B))
      BY DisturbedBySlots
    <2>2. PointedTo(m, L) \subseteq 1..Len(m.label)
      BY <1>8, <1>9 DEF PointedTo
    <2>3. QED
      BY <2>1, <2>2 DEF NotAllIn
  <1>12. OfNodes(n, PointedTo(m, L) \ Disturbs(m, B)) = OfNodes(m, PointedTo(m, L) \ Disturbs(m, B))
    <2> HIDE DEF K
    <2>1. PointedTo(m, L) \ Disturbs(m, B) \in SUBSET K
      BY <1>11
    <2>2. QED
      BY <1>2, <1>10, <2>1, SameContent
  <1>13. QED
    BY <1>5, <1>6, <1>7, <1>12 DEF OrdersKept

\* What is left when a tree is freed stays in order.
LEMMA FreedOrders ==
  ASSUME NEW m, Wooded(m), NEW t \in DOMAIN m.type, NEW n, Wooded(n),
         n.label = m.label, n.slots = m.slots, n.at = m.at, DOMAIN n.type = DOMAIN m.type \ {t},
         Live(n) = Live(m) \ Reach(SlotsBelow(m), {<<0, t>>})
  PROVE  /\ OfLinks(n, Live(n)) = OfLinks(m, Live(n))
         /\ OfNodes(n, PointedTo(n, Live(n))) = OfNodes(m, PointedTo(m, Live(n)))
         /\ PointedTo(n, Live(n)) = PointedTo(m, Live(n))
  <1>2. /\ IsKids(SlotsBelow(m)) /\ DOMAIN SlotsBelow(m) = DOMAIN m.at /\ Live(m) \subseteq DOMAIN m.at
        /\ <<0, t>> \in DOMAIN m.at
    BY SlotBelow, LiveParts DEF Wooded
  <1>3. \A s \in Live(n) : Path(n, s) = Path(m, s)
    <2> DEFINE U == Live(n)
               T == Reach(SlotsBelow(m), {<<0, t>>})
    <2>1. <<0, t>> \in T /\ Closed(SlotsBelow(m), T)
      <3>1. {<<0, t>>} \in SUBSET DOMAIN SlotsBelow(m)
        BY <1>2
      <3>2. QED
        BY <1>2, <3>1, ReachIsLeast
    <2>3. \A r \in RootSlots(m) : r \in U => r \in DOMAIN n.at /\ (r[2] \in DOMAIN m.type <=> r[2] \in DOMAIN n.type)
      <3>1. TAKE r \in RootSlots(m)
      <3>2. HAVE r \in U
      <3>3. r \in DOMAIN m.at /\ r = <<0, r[2]>>
        <4>1. r \in DOMAIN m.at /\ r[1] = 0
          BY DEF RootSlots
        <4>2. r \in Nat \X Nat
          BY <4>1 DEF Wooded, SlotsPlaced, Slots
        <4>3. QED
          BY <4>1, <4>2
      <3>4. r[2] # t
        BY <2>1, <3>2, <3>3
      <3>5. QED
        BY <3>3, <3>4
    <2>4. SlotsBelow(n) = SlotsBelow(m)
      BY DEF SlotsBelow
    <2>5. \A p \in DOMAIN m.at : \A k \in SlotsBelow(m)[p] : k \in U => p \in U /\ p \in DOMAIN n.at /\ k \in SlotsBelow(n)[p]
      <3>1. TAKE p \in DOMAIN m.at
      <3>2. TAKE k \in SlotsBelow(m)[p]
      <3>3. HAVE k \in U
      <3>4. k \in Live(m) /\ k \notin T /\ k \in DOMAIN m.at
        BY <1>2, <3>3
      <3>5. k[1] # 0
        BY <3>4, SlotBelow DEF Wooded
      <3>6. PICK q \in Live(m) : k \in SlotsBelow(m)[q]
        BY <3>4, <3>5, LiveAbove
      <3>7. \A i, j \in DOMAIN SlotsBelow(m) : SlotsBelow(m)[i] \cap SlotsBelow(m)[j] # {} => i = j
        BY DEF Wooded, Forest
      <3>8. p = q
        BY <1>2, <3>6, <3>7
      <3>9. p \notin T
        BY <2>1, <3>4 DEF Closed
      <3>10. QED
        BY <2>4, <3>6, <3>8, <3>9
    <2>6. U \in SUBSET DOMAIN m.at
      BY <1>2
    <2>7. QED
      <3> HIDE DEF U
      <3>1. \A s \in U : Path(n, s) = Path(m, s)
        BY <2>3, <2>5, <2>6, PathsAgree
      <3>2. QED
        BY <3>1 DEF U
  <1>4. PointedTo(n, Live(n)) = PointedTo(m, Live(n))
    BY DEF PointedTo
  <1>5. OfNodes(n, PointedTo(n, Live(n))) = OfNodes(m, PointedTo(m, Live(n)))
    <2>1. /\ m.at \in [DOMAIN m.at -> 1..Len(m.label)]
          /\ \A k \in 1..Len(m.label) : m.slots[k] \in Seq(Slots) /\ ToSet(m.slots[k]) \subseteq DOMAIN m.at
      BY DEF Wooded, SlotsPlaced
    <2>2. \A k \in 1..Len(m.label) : \A i \in DOMAIN m.slots[k] : m.slots[k][i] \in DOMAIN m.at
      BY <2>1 DEF ToSet
    <2>3. SameBelow(m, n, 1..Len(m.label))
      BY <2>1, <2>2 DEF SameBelow
    <2>4. PointedTo(m, Live(n)) \in SUBSET (1..Len(m.label))
      BY <1>2, <2>1 DEF PointedTo
    <2>5. PICK K, S : K = 1..Len(m.label) /\ S = PointedTo(m, Live(n))
      OBVIOUS
    <2>6. SameBelow(m, n, K) /\ S \in SUBSET K
      BY <2>3, <2>4, <2>5
    <2>7. OfNodes(n, S) = OfNodes(m, S)
      BY <2>6, SameContent
    <2>8. QED
      BY <1>4, <2>5, <2>7
  <1>6. QED
    BY <1>3, <1>4, <1>5, SamePaths

LEMMA FreeKeepsOrders ==
  ASSUME NEW m, Wooded(m), IdentifiersFirst(m), NEW t \in DOMAIN m.type, NEW n,
         n = [m EXCEPT !.type = Without(@, {t})]
  PROVE  /\ OfLinks(n, Live(n)) = OfLinks(m, Live(n))
         /\ OfNodes(n, PointedTo(n, Live(n))) = OfNodes(m, PointedTo(m, Live(n)))
         /\ PointedTo(n, Live(n)) = PointedTo(m, Live(n))
  <1>1. /\ Wooded(n) /\ n.label = m.label /\ n.slots = m.slots /\ n.at = m.at
        /\ Live(n) = Live(m) \ Reach(SlotsBelow(m), {<<0, t>>})
    BY FreedTree
  <1>2. DOMAIN n.type = DOMAIN m.type \ {t}
    <2>1. DOMAIN m = {"label", "slots", "at", "type", "freed"}
      BY DEF Wooded, SlotsPlaced
    <2>2. QED
      BY <2>1 DEF Without
  <1>3. PICK k : k = n
    OBVIOUS
  <1>4. /\ Wooded(k) /\ k.label = m.label /\ k.slots = m.slots /\ k.at = m.at
        /\ Live(k) = Live(m) \ Reach(SlotsBelow(m), {<<0, t>>}) /\ DOMAIN k.type = DOMAIN m.type \ {t}
    BY <1>1, <1>2, <1>3
  <1>5. /\ OfLinks(k, Live(k)) = OfLinks(m, Live(k))
        /\ OfNodes(k, PointedTo(k, Live(k))) = OfNodes(m, PointedTo(m, Live(k)))
        /\ PointedTo(k, Live(k)) = PointedTo(m, Live(k))
    BY <1>4, FreedOrders
  <1>6. QED
    BY <1>3, <1>5

-----------------------------------------------------------------------------
(* The invariant of the orderings. *)

\* The ordering d has the links L, s the nodes N and c the nodes C.
Ordered(m, L, N, C, d, s, c) == d = OfLinks(m, L) /\ s = OfNodes(m, N) /\ c = C

AllOrdered(m, d, s, c) == Ordered(m, Live(m), PointedTo(m, Live(m)), PointedTo(m, Live(m)), d, s, c)

\* All but what only the tree at root r has.
TreeOut(m, r, d, s, c) ==
  LET rest == Live(m) \ Reach(SlotsBelow(m), {r}) IN
  Ordered(m, rest, PointedTo(m, rest), PointedTo(m, rest), d, s, c)

\* All but the links that zones x and y have, and the nodes above their
\* boundaries.
ZonesOut(m, x, y, d, s, c) ==
  /\ Ordered(m, Live(m) \ Inside(m, x, y), PointedTo(m, Live(m)) \ Disturbs(m, Bounds(x, y)),
             PointedTo(m, Live(m)), d, s, c)
  /\ x.base \in DOMAIN m.at /\ x.term \in Seq(DOMAIN m.at)
  /\ y.base \in DOMAIN m.at /\ y.term \in Seq(DOMAIN m.at)

\* Nothing is out of the orderings before the steps that are left.
Whole(steps) == steps = <<>> \/ Head(steps) \in {"delete orderings", "suspend orderings"}

OInv ==
  /\ fault = NoFault
  /\ Whole(todo) => AllOrdered(mem, dfo, sc, cat)
  /\ ~Whole(todo) => \/ Len(zones) = 1 /\ TreeOut(mem, zones[1].base, dfo, sc, cat)
                     \/ Len(zones) = 2 /\ ZonesOut(mem, zones[1], zones[2], dfo, sc, cat)

LEMMA StepsAre ==
  /\ BuildSteps[1] = "insert domain" /\ BuildSteps[2] = "insert rows" /\ BuildSteps[3] = "insert nodes"
  /\ BuildSteps[4] = "insert orderings"
  /\ TeardownSteps[1] = "delete orderings" /\ TeardownSteps[2] = "delete nodes" /\ TeardownSteps[3] = "delete rows"
  /\ TeardownSteps[4] = "delete domain" /\ TeardownSteps[5] = "free tree"
  /\ SwapSteps[1] = "suspend orderings" /\ SwapSteps[2] = "suspend nodes" /\ SwapSteps[3] = "suspend rows"
  /\ SwapSteps[4] = "swap" /\ SwapSteps[5] = "resume rows" /\ SwapSteps[6] = "resume nodes"
  /\ SwapSteps[7] = "resume orderings"
  BY DEF BuildSteps, TeardownSteps, SwapSteps

\* The steps at which something is out of the orderings.
LEMMA WholeSteps ==
  /\ Whole(<<>>) /\ Whole(Left(BuildSteps, 5)) /\ Whole(Left(TeardownSteps, 6)) /\ Whole(Left(SwapSteps, 8))
  /\ \A i \in 1..4 : ~Whole(Left(BuildSteps, i))
  /\ \A i \in 1..5 : Whole(Left(TeardownSteps, i)) <=> i = 1
  /\ \A i \in 1..7 : Whole(Left(SwapSteps, i)) <=> i = 1
  <1>1. Whole(<<>>) /\ Whole(Left(BuildSteps, 5)) /\ Whole(Left(TeardownSteps, 6)) /\ Whole(Left(SwapSteps, 8))
    BY EndsOfSteps DEF Whole
  <1>2. \A i \in 1..4 : ~Whole(Left(BuildSteps, i))
    <2>1. \A i \in 1..4 : Left(BuildSteps, i) # <<>> /\ Head(Left(BuildSteps, i)) = BuildSteps[i]
      BY StepLists, LeftOver
    <2>2. \A i \in 1..4 : BuildSteps[i] \notin {"delete orderings", "suspend orderings"}
      <3>1. \A i \in 1..4 : i = 1 \/ i = 2 \/ i = 3 \/ i = 4
        OBVIOUS
      <3>2. QED
        BY <3>1, StepsAre
    <2>3. QED
      BY <2>1, <2>2 DEF Whole
  <1>3. \A i \in 1..5 : Whole(Left(TeardownSteps, i)) <=> i = 1
    <2>1. \A i \in 1..5 : Left(TeardownSteps, i) # <<>> /\ Head(Left(TeardownSteps, i)) = TeardownSteps[i]
      BY StepLists, LeftOver
    <2>2. \A i \in 1..5 : TeardownSteps[i] \in {"delete orderings", "suspend orderings"} <=> i = 1
      <3>1. \A i \in 1..5 : i = 1 \/ i = 2 \/ i = 3 \/ i = 4 \/ i = 5
        OBVIOUS
      <3>2. QED
        BY <3>1, StepsAre
    <2>3. QED
      BY <2>1, <2>2 DEF Whole
  <1>4. \A i \in 1..7 : Whole(Left(SwapSteps, i)) <=> i = 1
    <2>1. \A i \in 1..7 : Left(SwapSteps, i) # <<>> /\ Head(Left(SwapSteps, i)) = SwapSteps[i]
      BY StepLists, LeftOver
    <2>2. \A i \in 1..7 : SwapSteps[i] \in {"delete orderings", "suspend orderings"} <=> i = 1
      <3>1. \A i \in 1..7 : i = 1 \/ i = 2 \/ i = 3 \/ i = 4 \/ i = 5 \/ i = 6 \/ i = 7
        OBVIOUS
      <3>2. QED
        BY <3>1, StepsAre
    <2>3. QED
      BY <2>1, <2>2 DEF Whole
  <1>5. QED
    BY <1>1, <1>2, <1>3, <1>4

\* What is ordered stays so in a step that takes another table.
LEMMA OtherStepKeeps ==
  ASSUME IInv', OInv, NEW name, name \notin OrderingSteps, fault' \in {NoFault, name},
         mem' = mem, zones' = zones, dfo' = dfo, sc' = sc, cat' = cat,
         ~Whole(todo), ~Whole(todo')
  PROVE  OInv'
  <1>1. fault' = NoFault
    BY DEF IInv
  <1>2. QED
    BY <1>1 DEF OInv

StepKeeps(name, steps, i) ==
  /\ fault' \in {NoFault, name} /\ steps[i] = name /\ Head(todo) = steps[i] /\ todo # <<>> /\ todo' = Tail(todo)
  /\ mem' = mem /\ zones' = zones /\ dfo' = dfo /\ sc' = sc /\ cat' = cat

LEMMA QuietBuilding ==
  ASSUME IInv, IInv', OInv, NEW i \in 1..3, StepKeeps(BuildSteps[i], BuildSteps, i)
  PROVE  OInv'
  <1>1. i \in 1..4 /\ i + 1 \in 1..4 /\ Stage /\ todo # <<>> /\ Head(todo) = BuildSteps[i] /\ todo' = Tail(todo)
    BY DEF IInv, OInv, StepKeeps
  <1>2. Tail(todo) = Left(BuildSteps, i + 1) /\ \E t \in DOMAIN mem.type : Building(i, t)
    BY <1>1, StageOfStep
  <1>3. todo = Left(BuildSteps, i)
    BY <1>2 DEF Building
  <1>4. ~Whole(todo) /\ ~Whole(todo')
    BY <1>1, <1>2, <1>3, WholeSteps
  <1>5. BuildSteps[i] \notin OrderingSteps
    <2>1. i = 1 \/ i = 2 \/ i = 3
      OBVIOUS
    <2>2. QED
      BY <2>1, StepsAre DEF OrderingSteps
  <1>6. PICK name : name = BuildSteps[i]
    OBVIOUS
  <1>7. /\ name \notin OrderingSteps /\ fault' \in {NoFault, name}
        /\ mem' = mem /\ zones' = zones /\ dfo' = dfo /\ sc' = sc /\ cat' = cat
    BY <1>5, <1>6 DEF StepKeeps
  <1>8. QED
    BY <1>4, <1>7, OtherStepKeeps

LEMMA QuietTearingDown ==
  ASSUME IInv, IInv', OInv, NEW i \in 2..4, StepKeeps(TeardownSteps[i], TeardownSteps, i)
  PROVE  OInv'
  <1>1. i \in 1..5 /\ i + 1 \in 1..5 /\ i # 1 /\ i + 1 # 1 /\ Stage /\ todo # <<>> /\ Head(todo) = TeardownSteps[i] /\ todo' = Tail(todo)
    BY DEF IInv, OInv, StepKeeps
  <1>2. Tail(todo) = Left(TeardownSteps, i + 1) /\ \E t \in DOMAIN mem.type : TearingDown(i, t)
    BY <1>1, StageOfStep
  <1>3. todo = Left(TeardownSteps, i)
    BY <1>2 DEF TearingDown
  <1>4. ~Whole(todo) /\ ~Whole(todo')
    BY <1>1, <1>2, <1>3, WholeSteps
  <1>5. TeardownSteps[i] \notin OrderingSteps
    <2>1. i = 2 \/ i = 3 \/ i = 4
      OBVIOUS
    <2>2. QED
      BY <2>1, StepsAre DEF OrderingSteps
  <1>6. PICK name : name = TeardownSteps[i]
    OBVIOUS
  <1>7. /\ name \notin OrderingSteps /\ fault' \in {NoFault, name}
        /\ mem' = mem /\ zones' = zones /\ dfo' = dfo /\ sc' = sc /\ cat' = cat
    BY <1>5, <1>6 DEF StepKeeps
  <1>8. QED
    BY <1>4, <1>7, OtherStepKeeps

LEMMA QuietSwapping ==
  ASSUME IInv, IInv', OInv, NEW i \in {2, 3, 5, 6}, StepKeeps(SwapSteps[i], SwapSteps, i)
  PROVE  OInv'
  <1>1. i \in 1..7 /\ i + 1 \in 1..7 /\ i # 1 /\ i + 1 # 1 /\ Stage /\ todo # <<>> /\ Head(todo) = SwapSteps[i] /\ todo' = Tail(todo)
    BY DEF IInv, OInv, StepKeeps
  <1>2. Tail(todo) = Left(SwapSteps, i + 1) /\ \E x, y : Swapping(i, x, y)
    BY <1>1, StageOfStep
  <1>3. todo = Left(SwapSteps, i)
    BY <1>2 DEF Swapping
  <1>4. ~Whole(todo) /\ ~Whole(todo')
    BY <1>1, <1>2, <1>3, WholeSteps
  <1>5. SwapSteps[i] \notin OrderingSteps
    BY StepsAre DEF OrderingSteps
  <1>6. PICK name : name = SwapSteps[i]
    OBVIOUS
  <1>7. /\ name \notin OrderingSteps /\ fault' \in {NoFault, name}
        /\ mem' = mem /\ zones' = zones /\ dfo' = dfo /\ sc' = sc /\ cat' = cat
    BY <1>5, <1>6 DEF StepKeeps
  <1>8. QED
    BY <1>4, <1>7, OtherStepKeeps

LEMMA QuietSteps ==
  ASSUME IInv, IInv', OInv,
         \/ InsertDomain \/ InsertRows \/ InsertNodes \/ DeleteNodes \/ DeleteRows \/ DeleteDomain
         \/ SuspendNodes \/ SuspendRows \/ ResumeRows \/ ResumeNodes
  PROVE  OInv'
  <1>1. ASSUME InsertDomain PROVE OInv'
    <2>1. BuildSteps[1] = "insert domain"
      BY StepsAre
    <2>2. StepKeeps(BuildSteps[1], BuildSteps, 1)
      BY <1>1, <2>1 DEF InsertDomain, Step, StepKeeps
    <2>3. QED
      BY <2>2, QuietBuilding
  <1>2. ASSUME InsertRows PROVE OInv'
    <2>1. BuildSteps[2] = "insert rows"
      BY StepsAre
    <2>2. StepKeeps(BuildSteps[2], BuildSteps, 2)
      BY <1>2, <2>1 DEF InsertRows, Step, StepKeeps
    <2>3. QED
      BY <2>2, QuietBuilding
  <1>3. ASSUME InsertNodes PROVE OInv'
    <2>1. BuildSteps[3] = "insert nodes"
      BY StepsAre
    <2>2. StepKeeps(BuildSteps[3], BuildSteps, 3)
      BY <1>3, <2>1 DEF InsertNodes, Step, StepKeeps
    <2>3. QED
      BY <2>2, QuietBuilding
  <1>4. ASSUME DeleteNodes PROVE OInv'
    <2>1. TeardownSteps[2] = "delete nodes"
      BY StepsAre
    <2>2. StepKeeps(TeardownSteps[2], TeardownSteps, 2)
      BY <1>4, <2>1 DEF DeleteNodes, Step, StepKeeps
    <2>3. QED
      BY <2>2, QuietTearingDown
  <1>5. ASSUME DeleteRows PROVE OInv'
    <2>1. TeardownSteps[3] = "delete rows"
      BY StepsAre
    <2>2. StepKeeps(TeardownSteps[3], TeardownSteps, 3)
      BY <1>5, <2>1 DEF DeleteRows, Step, StepKeeps
    <2>3. QED
      BY <2>2, QuietTearingDown
  <1>6. ASSUME DeleteDomain PROVE OInv'
    <2>1. TeardownSteps[4] = "delete domain"
      BY StepsAre
    <2>2. StepKeeps(TeardownSteps[4], TeardownSteps, 4)
      BY <1>6, <2>1 DEF DeleteDomain, Step, StepKeeps
    <2>3. QED
      BY <2>2, QuietTearingDown
  <1>7. ASSUME SuspendNodes PROVE OInv'
    <2>1. SwapSteps[2] = "suspend nodes"
      BY StepsAre
    <2>2. StepKeeps(SwapSteps[2], SwapSteps, 2)
      BY <1>7, <2>1 DEF SuspendNodes, Step, StepKeeps
    <2>3. QED
      BY <2>2, QuietSwapping
  <1>8. ASSUME SuspendRows PROVE OInv'
    <2>1. SwapSteps[3] = "suspend rows"
      BY StepsAre
    <2>2. StepKeeps(SwapSteps[3], SwapSteps, 3)
      BY <1>8, <2>1 DEF SuspendRows, Step, StepKeeps
    <2>3. QED
      BY <2>2, QuietSwapping
  <1>9. ASSUME ResumeRows PROVE OInv'
    <2>1. SwapSteps[5] = "resume rows"
      BY StepsAre
    <2>2. StepKeeps(SwapSteps[5], SwapSteps, 5)
      BY <1>9, <2>1 DEF ResumeRows, Step, StepKeeps
    <2>3. QED
      BY <2>2, QuietSwapping
  <1>10. ASSUME ResumeNodes PROVE OInv'
    <2>1. SwapSteps[6] = "resume nodes"
      BY StepsAre
    <2>2. StepKeeps(SwapSteps[6], SwapSteps, 6)
      BY <1>10, <2>1 DEF ResumeNodes, Step, StepKeeps
    <2>3. QED
      BY <2>2, QuietSwapping
  <1>11. QED
    BY <1>1, <1>2, <1>3, <1>4, <1>5, <1>6, <1>7, <1>8, <1>9, <1>10

-----------------------------------------------------------------------------
(* Trees go in and out of the orderings. *)

LEMMA InsertOrderingsOrders ==
  ASSUME IInv, OInv, InsertOrderings
  PROVE  OInv'
  <1>1. /\ Wooded(mem) /\ Stage /\ todo # <<>> /\ Head(todo) = BuildSteps[4] /\ todo' = Tail(todo)
        /\ mem' = mem /\ zones' = zones
    BY StepsAre DEF IInv, OInv, InsertOrderings, Step
  <1>2. PICK t \in DOMAIN mem.type : Building(4, t) /\ todo' = Left(BuildSteps, 5)
    <2>1. 4 \in 1..4 /\ 4 + 1 = 5
      OBVIOUS
    <2>2. Tail(todo) = Left(BuildSteps, 4 + 1) /\ \E t \in DOMAIN mem.type : Building(4, t)
      BY <1>1, <2>1, StageOfStep
    <2>3. QED
      BY <1>1, <2>1, <2>2
  <1>3. todo = Left(BuildSteps, 4) /\ zones = <<WholeTree(t)>> /\ Tables(Live(mem), Live(mem), Live(mem))
    BY <1>2 DEF Building
  <1>4. FullTables /\ AllLinks = Tree(t) /\ Tree(t) \subseteq Live(mem)
    BY <1>1, <1>3, WholeTreeLinks DEF FullTables
  <1>5. ~Whole(todo) /\ Whole(todo')
    BY <1>2, <1>3, WholeSteps
  <1>6. Len(zones) = 1 /\ zones[1].base = <<0, t>>
    BY <1>3 DEF WholeTree
  <1>7. TreeOut(mem, <<0, t>>, dfo, sc, cat)
    BY <1>5, <1>6 DEF OInv
  <1> DEFINE L == Live(mem)
             T == Tree(t)
             rest == L \ T
             new == {mem.at[s] : s \in AllLinks}
  <1>8. dfo = OfLinks(mem, rest) /\ sc = OfNodes(mem, PointedTo(mem, rest)) /\ cat = PointedTo(mem, rest)
    BY <1>7 DEF TreeOut, Ordered, Tree
  <1>9. new = PointedTo(mem, T) /\ PointedTo(mem, rest) \cup PointedTo(mem, T) = PointedTo(mem, L)
    BY <1>4 DEF PointedTo
  <1>10. rest \in SUBSET Live(mem) /\ T \in SUBSET Live(mem) /\ rest \cup T = L /\ T \cap rest = {}
    BY <1>4
  <1> HIDE DEF L, T, rest, new
  <1>11. DFOUsable(T) /\ SCUsable
    BY <1>4, <1>8, <1>10, LinksUsable, NodesUsable
  <1>12. CanInsertTree
    <2>1. AllLinks = T
      BY <1>4 DEF T
    <2>2. dfo.has = rest
      BY <1>8 DEF OfLinks
    <2>3. QED
      BY <1>10, <1>11, <2>1, <2>2 DEF CanInsertTree
  <1>13. Inserted(dfo, T, DFOrder) = OfLinks(mem, L)
    <2>1. Inserted(dfo, T, DFOrder) = OfLinks(mem, rest \cup T)
      BY <1>4, <1>8, <1>10, LinksPutIn
    <2>2. QED
      BY <1>10, <2>1
  <1>14. Inserted(sc, new \ sc.has, SCOrder) = OfNodes(mem, PointedTo(mem, L))
    <2>1. sc.has = PointedTo(mem, rest)
      BY <1>8 DEF OfNodes
    <2>2. PointedTo(mem, rest) \cup (new \ sc.has) = PointedTo(mem, L)
      BY <1>9, <2>1
    <2>3. Inserted(sc, new \ sc.has, SCOrder) = OfNodes(mem, PointedTo(mem, rest) \cup (new \ sc.has))
      BY <1>8, NodesPutIn
    <2>4. QED
      BY <2>2, <2>3
  <1>15. /\ dfo' = Inserted(dfo, AllLinks, DFOrder) /\ sc' = Inserted(sc, {mem.at[s] : s \in AllLinks} \ sc.has, SCOrder)
         /\ cat' = cat \cup {mem.at[s] : s \in AllLinks} /\ fault' = NoFault
    BY <1>12 DEF InsertOrderings, Step
  <1>16. dfo' = OfLinks(mem, L) /\ sc' = OfNodes(mem, PointedTo(mem, L)) /\ cat' = PointedTo(mem, L)
    <2>1. AllLinks = T /\ {mem.at[s] : s \in AllLinks} = new
      BY <1>4 DEF T, new
    <2>2. QED
      BY <1>8, <1>9, <1>13, <1>14, <1>15, <2>1
  <1>17. AllOrdered(mem', dfo', sc', cat')
    BY <1>1, <1>16 DEF AllOrdered, Ordered, L
  <1>18. QED
    BY <1>5, <1>15, <1>17 DEF OInv

LEMMA DeleteOrderingsOrders ==
  ASSUME IInv, OInv, DeleteOrderings
  PROVE  OInv'
  <1>1. /\ Wooded(mem) /\ Stage /\ todo # <<>> /\ Head(todo) = TeardownSteps[1] /\ todo' = Tail(todo)
        /\ mem' = mem /\ zones' = zones
    BY StepsAre DEF IInv, OInv, DeleteOrderings, Step
  <1>2. PICK t \in DOMAIN mem.type : TearingDown(1, t) /\ todo' = Left(TeardownSteps, 2)
    <2>1. 1 \in 1..5 /\ 1 + 1 = 2
      OBVIOUS
    <2>2. Tail(todo) = Left(TeardownSteps, 1 + 1) /\ \E t \in DOMAIN mem.type : TearingDown(1, t)
      BY <1>1, <2>1, StageOfStep
    <2>3. QED
      BY <1>1, <2>1, <2>2
  <1>3. todo = Left(TeardownSteps, 1) /\ zones = <<WholeTree(t)>> /\ Tables(Live(mem), Live(mem), Live(mem))
    BY <1>2 DEF TearingDown
  <1>4. FullTables /\ AllLinks = Tree(t) /\ Tree(t) \subseteq Live(mem)
    BY <1>1, <1>3, WholeTreeLinks DEF FullTables
  <1>5. Whole(todo) /\ ~Whole(todo')
    BY <1>2, <1>3, WholeSteps
  <1>6. Len(zones) = 1 /\ zones[1].base = <<0, t>>
    BY <1>3 DEF WholeTree
  <1> DEFINE L == Live(mem)
             T == Tree(t)
             rest == L \ T
  <1>7. dfo = OfLinks(mem, L) /\ sc = OfNodes(mem, PointedTo(mem, L)) /\ cat = PointedTo(mem, L)
    BY <1>5 DEF OInv, AllOrdered, Ordered
  <1>8. rest \in SUBSET L /\ T \in SUBSET L /\ PointedTo(mem, rest) \subseteq PointedTo(mem, L)
    BY <1>4 DEF PointedTo
  <1>9. \A s \in T : mem.at[s] \in DOMAIN nodes
    BY <1>3, <1>8 DEF Tables, NodesOf
  <1>10. LastReached(T) = PointedTo(mem, L) \ PointedTo(mem, rest)
    <2> HIDE DEF T
    <2>1. QED
      BY <1>4, <1>8, LastReachedAre
  <1>11. DFOUsable(T) /\ SCUsable
    <2> HIDE DEF T
    <2>1. Live(mem) \in SUBSET Live(mem) /\ T \in SUBSET Live(mem) /\ dfo = OfLinks(mem, Live(mem))
      BY <1>7, <1>8
    <2>2. DFOUsable(T)
      BY <1>4, <2>1, LinksUsable
    <2>3. QED
      BY <1>7, <2>2, NodesUsable
  <1> HIDE DEF L, T, rest
  <1>12. AllLinks = T
    BY <1>4 DEF T
  <1>13. CanDeleteTree
    <2>1. dfo.has = L /\ sc.has = PointedTo(mem, L)
      BY <1>7 DEF OfLinks, OfNodes
    <2>2. QED
      BY <1>7, <1>8, <1>9, <1>10, <1>11, <1>12, <2>1 DEF CanDeleteTree
  <1>14. /\ dfo' = Erased(dfo, T) /\ sc' = Erased(sc, LastReached(T)) /\ cat' = cat \ LastReached(T) /\ fault' = NoFault
    BY <1>12, <1>13 DEF DeleteOrderings, Step
  <1>15. PointedTo(mem, L) \ LastReached(T) = PointedTo(mem, rest)
    BY <1>8, <1>10
  <1>16. dfo' = OfLinks(mem, rest)
    BY <1>7, <1>14, ElementsErased DEF rest
  <1>17. sc' = OfNodes(mem, PointedTo(mem, rest))
    <2>1. Erased(sc, LastReached(T)) = OfNodes(mem, PointedTo(mem, L) \ LastReached(T))
      <3>1. PICK R, S : R = PointedTo(mem, L) /\ S = LastReached(T)
        OBVIOUS
      <3>2. Erased(OfNodes(mem, R), S) = OfNodes(mem, R \ S)
        BY ElementsErased
      <3>3. QED
        BY <1>7, <3>1, <3>2
    <2>2. QED
      BY <1>14, <1>15, <2>1
  <1>18. TreeOut(mem', <<0, t>>, dfo', sc', cat')
    BY <1>1, <1>7, <1>14, <1>15, <1>16, <1>17 DEF TreeOut, Ordered, rest, T, L, Tree
  <1>19. QED
    BY <1>1, <1>5, <1>6, <1>14, <1>18 DEF OInv

LEMMA FreeTreeOrders ==
  ASSUME IInv, OInv, FreeTree
  PROVE  OInv'
  <1>1. /\ Wooded(mem) /\ IdentifiersFirst(mem) /\ Stage /\ todo # <<>> /\ Head(todo) = TeardownSteps[5]
        /\ todo' = Tail(todo) /\ dfo' = dfo /\ sc' = sc /\ cat' = cat
        /\ mem' = [mem EXCEPT !.type = Without(@, {z.ord : z \in ToSet(zones)})] /\ fault' = NoFault
    BY StepsAre DEF IInv, OInv, FreeTree, Step
  <1>2. PICK t \in DOMAIN mem.type : TearingDown(5, t) /\ todo' = Left(TeardownSteps, 6)
    <2>1. 5 \in 1..5 /\ 5 + 1 = 6
      OBVIOUS
    <2>2. Tail(todo) = Left(TeardownSteps, 5 + 1) /\ \E t \in DOMAIN mem.type : TearingDown(5, t)
      BY <1>1, <2>1, StageOfStep
    <2>3. QED
      BY <1>1, <2>1, <2>2
  <1>3. todo = Left(TeardownSteps, 5) /\ zones = <<WholeTree(t)>>
    BY <1>2 DEF TearingDown
  <1>4. {z.ord : z \in ToSet(zones)} = {t}
    <2>1. ToSet(zones) = {WholeTree(t)}
      BY <1>3 DEF ToSet
    <2>2. QED
      BY <2>1 DEF WholeTree
  <1>5. ~Whole(todo) /\ Whole(todo')
    BY <1>2, <1>3, WholeSteps
  <1>6. Len(zones) = 1 /\ zones[1].base = <<0, t>>
    BY <1>3 DEF WholeTree
  <1>7. TreeOut(mem, <<0, t>>, dfo, sc, cat)
    BY <1>5, <1>6 DEF OInv
  <1>8. PICK n : n = mem'
    OBVIOUS
  <1>9. n = [mem EXCEPT !.type = Without(@, {t})]
    BY <1>1, <1>4, <1>8
  <1>10. Live(n) = Live(mem) \ Reach(SlotsBelow(mem), {<<0, t>>})
    BY <1>1, <1>9, FreedTree
  <1>11. /\ OfLinks(n, Live(n)) = OfLinks(mem, Live(n))
         /\ OfNodes(n, PointedTo(n, Live(n))) = OfNodes(mem, PointedTo(mem, Live(n)))
         /\ PointedTo(n, Live(n)) = PointedTo(mem, Live(n))
    BY <1>1, <1>9, FreeKeepsOrders
  <1>12. dfo = OfLinks(mem, Live(n)) /\ sc = OfNodes(mem, PointedTo(mem, Live(n))) /\ cat = PointedTo(mem, Live(n))
    BY <1>7, <1>10 DEF TreeOut, Ordered
  <1>13. AllOrdered(n, dfo', sc', cat')
    BY <1>1, <1>11, <1>12 DEF AllOrdered, Ordered
  <1>14. QED
    BY <1>1, <1>5, <1>8, <1>13 DEF OInv

LEMMA BuildTreeOrders ==
  ASSUME ShapesAssumption, IInv, OInv, NEW shape \in Shapes, BuildTree(shape)
  PROVE  OInv'
  <1>1. /\ Wooded(mem) /\ IdentifiersFirst(mem) /\ todo = <<>> /\ fault' = NoFault
        /\ todo' = BuildSteps /\ dfo' = dfo /\ sc' = sc /\ cat' = cat
        /\ mem' = NewTree(Grow(mem, shape), "UPDATE", Place(mem, shape.root))
        /\ zones' = <<WholeTree(NewestTree(mem'))>>
    BY DEF IInv, OInv, BuildTree, Idle
  <1>2. PICK n : n = mem'
    OBVIOUS
  <1>3. PICK t : t = NewestTree(n)
    OBVIOUS
  <1>4. n = NewTree(Grow(mem, shape), "UPDATE", Place(mem, shape.root))
    BY <1>1, <1>2
  <1>5. TreeMade(mem, n, t)
    BY <1>1, <1>3, <1>4, BuildKeepsWood
  <1>6. /\ Grown(mem, shape, NewestTree(mem) + 1, n) /\ NewestTree(n) = NewestTree(mem) + 1
        /\ NewestTree(mem) \in Nat /\ RootSlots(mem) = {<<0, u>> : u \in 1..NewestTree(mem)}
    BY <1>1, <1>4, BuiltIsGrown
  <1>7. <<0, t>> \notin DOMAIN mem.at
    <2>1. PICK k \in Nat : k = NewestTree(mem)
      BY <1>6
    <2>2. t = k + 1 /\ t \notin 1..k
      BY <1>3, <1>6, <2>1
    <2>3. <<0, t>> \notin RootSlots(mem)
      BY <1>6, <2>1, <2>2
    <2>4. QED
      BY <2>3 DEF RootSlots
  <1>8. t \notin DOMAIN mem.type
    BY <1>1, <1>7, LiveParts
  <1>9. Len(mem.label) \in Nat /\ Len(n.label) \in Nat /\ Len(mem.label) <= Len(n.label)
    <2>1. Len(mem.label) \in Nat
      BY <1>1 DEF Wooded, SlotsPlaced
    <2>2. Len(shape.label) \in Nat
      BY ShapeParts
    <2>3. Len(n.label) = Len(mem.label) + Len(shape.label)
      BY <1>6 DEF Grown
    <2>4. PICK a \in Nat, b \in Nat : a = Len(mem.label) /\ b = Len(shape.label)
      BY <2>1, <2>2
    <2>5. Len(n.label) = a + b
      BY <2>3, <2>4
    <2>6. a + b \in Nat /\ a <= a + b
      OBVIOUS
    <2>7. QED
      BY <2>4, <2>5, <2>6
  <1>10. /\ OfLinks(n, Live(mem)) = OfLinks(mem, Live(mem))
         /\ \A S \in SUBSET PointedTo(mem, Live(mem)) : OfNodes(n, S) = OfNodes(mem, S)
         /\ PointedTo(n, Live(mem)) = PointedTo(mem, Live(mem))
    BY <1>1, <1>5, <1>7, <1>8, <1>9, BuildKeepsOrders
  <1>11. AllOrdered(mem, dfo, sc, cat)
    BY <1>1 DEF OInv, Whole
  <1>12. Live(n) \ Reach(SlotsBelow(n), {<<0, t>>}) = Live(mem)
    BY <1>5 DEF TreeMade
  <1>13. TreeOut(n, <<0, t>>, dfo, sc, cat)
    BY <1>10, <1>11, <1>12 DEF TreeOut, AllOrdered, Ordered
  <1>14. zones' = <<WholeTree(t)>>
    BY <1>1, <1>2, <1>3
  <1>15. Len(zones') = 1 /\ zones'[1].base = <<0, t>>
    BY <1>14 DEF WholeTree
  <1>16. ~Whole(todo')
    <2>1. 1 \in 1..4 /\ todo' = Left(BuildSteps, 1)
      BY <1>1, EndsOfSteps
    <2>2. QED
      BY <2>1, WholeSteps
  <1>17. QED
    BY <1>1, <1>2, <1>13, <1>15, <1>16 DEF OInv

-----------------------------------------------------------------------------
(* Zones go out of the orderings and in again. *)

LEMMA TeardownTreeOrders ==
  ASSUME OInv, NEW t \in DOMAIN mem.type, TeardownTree(t)
  PROVE  OInv'
  <1>1. /\ todo = <<>> /\ fault' = fault /\ fault = NoFault /\ todo' = TeardownSteps
        /\ mem' = mem /\ dfo' = dfo /\ sc' = sc /\ cat' = cat
    BY DEF TeardownTree, Idle
  <1>2. Whole(todo) /\ Whole(todo')
    <2>1. 1 \in 1..5 /\ todo' = Left(TeardownSteps, 1)
      BY <1>1, EndsOfSteps
    <2>2. QED
      BY <1>1, <2>1, WholeSteps
  <1>3. QED
    BY <1>1, <1>2 DEF OInv

LEMMA SwapTreeToTreeOrders ==
  ASSUME OInv, NEW x, NEW y, SwapTreeToTree(x, y)
  PROVE  OInv'
  <1>1. /\ todo = <<>> /\ fault' = fault /\ fault = NoFault /\ todo' = SwapSteps
        /\ mem' = mem /\ dfo' = dfo /\ sc' = sc /\ cat' = cat
    BY DEF SwapTreeToTree, Idle
  <1>2. Whole(todo) /\ Whole(todo')
    <2>1. 1 \in 1..7 /\ todo' = Left(SwapSteps, 1)
      BY <1>1, EndsOfSteps
    <2>2. QED
      BY <1>1, <2>1, WholeSteps
  <1>3. QED
    BY <1>1, <1>2 DEF OInv

\* The links and nodes of zones x and y, as the steps find them.
LEMMA ZonesInTables ==
  ASSUME FullTables, NEW x, NEW y, zones = <<x, y>>, Bounds(x, y) \subseteq Live(mem),
         x.base \in DOMAIN mem.at, x.term \in Seq(DOMAIN mem.at),
         y.base \in DOMAIN mem.at, y.term \in Seq(DOMAIN mem.at)
  PROVE  /\ AllLinks = Inside(mem, x, y) /\ Inside(mem, x, y) \subseteq Live(mem)
         /\ Disturbed = Disturbs(mem, Bounds(x, y))
         /\ Disturbs(mem, Bounds(x, y)) \subseteq PointedTo(mem, Live(mem))
  <1>1. Wooded(mem)
    BY DEF FullTables
  <1>2. /\ ToSet(Boundary(x)) = {x.base} \cup ToSet(x.term)
        /\ ToSet(Boundary(y)) = {y.base} \cup ToSet(y.term)
    BY BoundaryParts
  <1>3. ToSet(x.term) \subseteq DOMAIN mem.at /\ ToSet(y.term) \subseteq DOMAIN mem.at
    BY DEF ToSet
  <1>4. AllLinks = Inside(mem, x, y)
    BY <1>1, <1>3, LinksOfZones
  <1>5. x.base \in Live(mem) /\ y.base \in Live(mem)
    BY <1>2 DEF Bounds
  <1>6. Inside(mem, x, y) \subseteq Live(mem)
    <2>1. ZoneSlots(mem, x) \subseteq Live(mem)
      BY <1>1, <1>5, InsideIsLive
    <2>2. ZoneSlots(mem, y) \subseteq Live(mem)
      BY <1>1, <1>5, InsideIsLive
    <2>3. QED
      BY <2>1, <2>2 DEF Inside
  <1>7. Disturbed = Disturbs(mem, Bounds(x, y))
    BY DisturbedAre
  <1>8. Disturbs(mem, Bounds(x, y)) \subseteq PointedTo(mem, Live(mem))
    BY DEF Disturbs, PointedTo
  <1>9. QED
    BY <1>4, <1>6, <1>7, <1>8

LEMMA SuspendOrderingsOrders ==
  ASSUME IInv, OInv, SuspendOrderings
  PROVE  OInv'
  <1>1. /\ Wooded(mem) /\ Stage /\ todo # <<>> /\ Head(todo) = SwapSteps[1]
        /\ todo' = Tail(todo) /\ mem' = mem /\ zones' = zones /\ cat' = cat
    BY StepsAre DEF IInv, OInv, SuspendOrderings, Step
  <1>2. todo' = Left(SwapSteps, 2) /\ \E x, y : Swapping(1, x, y)
    <2>1. 1 \in 1..7 /\ 1 + 1 = 2
      OBVIOUS
    <2>2. Tail(todo) = Left(SwapSteps, 1 + 1) /\ \E x, y : Swapping(1, x, y)
      BY <1>1, <2>1, StageOfStep
    <2>3. QED
      BY <1>1, <2>1, <2>2
  <1>3. PICK x, y : Swapping(1, x, y)
    BY <1>2
  <1>4. /\ todo = Left(SwapSteps, 1) /\ zones = <<x, y>> /\ Bounds(x, y) \subseteq Live(mem)
        /\ Tables(Live(mem), Live(mem), Live(mem)) /\ Swappable(mem, x, y)
    BY <1>3 DEF Swapping
  <1>5. Whole(todo) /\ ~Whole(todo')
    BY <1>2, <1>4, WholeSteps
  <1>6. /\ x.base \in DOMAIN mem.at /\ x.term \in Seq(DOMAIN mem.at)
        /\ y.base \in DOMAIN mem.at /\ y.term \in Seq(DOMAIN mem.at)
    BY <1>1, <1>4, SwappablePairs
  <1>7. FullTables
    BY <1>1, <1>4 DEF FullTables
  <1> DEFINE L == Live(mem)
             I == Inside(mem, x, y)
             D == Disturbs(mem, Bounds(x, y))
  <1>8. AllLinks = I /\ I \subseteq L /\ Disturbed = D /\ D \subseteq PointedTo(mem, L)
    BY <1>4, <1>6, <1>7, ZonesInTables
  <1>9. dfo = OfLinks(mem, L) /\ sc = OfNodes(mem, PointedTo(mem, L)) /\ cat = PointedTo(mem, L)
    BY <1>5 DEF OInv, AllOrdered, Ordered
  <1>10. DFOUsable(I) /\ SCUsable
    <2> HIDE DEF I
    <2>1. Live(mem) \in SUBSET Live(mem) /\ I \in SUBSET Live(mem) /\ dfo = OfLinks(mem, Live(mem))
      BY <1>8, <1>9
    <2>2. DFOUsable(I)
      BY <1>7, <2>1, LinksUsable
    <2>3. QED
      BY <1>9, <2>2, NodesUsable
  <1> HIDE DEF L, I, D
  <1>11. CanSuspendOrderings
    <2>1. dfo.has = L /\ sc.has = PointedTo(mem, L)
      BY <1>9 DEF OfLinks, OfNodes
    <2>2. QED
      BY <1>8, <1>10, <2>1 DEF CanSuspendOrderings
  <1>12. dfo' = Erased(dfo, I) /\ sc' = Erased(sc, D) /\ fault' = NoFault
    BY <1>8, <1>11 DEF SuspendOrderings, Step
  <1>13. dfo' = OfLinks(mem, L \ I)
    BY <1>9, <1>12, ElementsErased
  <1>14. sc' = OfNodes(mem, PointedTo(mem, L) \ D)
    <2>1. PICK R : R = PointedTo(mem, L)
      OBVIOUS
    <2>2. Erased(OfNodes(mem, R), D) = OfNodes(mem, R \ D)
      BY ElementsErased
    <2>3. QED
      BY <1>9, <1>12, <2>1, <2>2
  <1>15. ZonesOut(mem', x, y, dfo', sc', cat')
    BY <1>1, <1>6, <1>9, <1>13, <1>14 DEF ZonesOut, Ordered, L, I, D
  <1>16. Len(zones') = 2 /\ zones'[1] = x /\ zones'[2] = y
    BY <1>1, <1>4
  <1>17. QED
    BY <1>5, <1>12, <1>15, <1>16 DEF OInv

LEMMA SwapZonesOrders ==
  ASSUME IInv, OInv, SwapZones
  PROVE  OInv'
  <1>1. /\ Wooded(mem) /\ Stage /\ todo # <<>> /\ Head(todo) = SwapSteps[4]
        /\ todo' = Tail(todo) /\ dfo' = dfo /\ sc' = sc /\ cat' = cat
        /\ mem' = Swap(mem, zones[1], zones[2])
        /\ zones' = <<Swapped(zones[1], zones[2]), Swapped(zones[2], zones[1])>>
        /\ SwapAsserts(mem, zones[1], zones[2]) => fault' = NoFault
    BY StepsAre DEF IInv, OInv, SwapZones, Step, Swapped
  <1>2. todo' = Left(SwapSteps, 5) /\ \E x, y : Swapping(4, x, y)
    <2>1. 4 \in 1..7 /\ 4 + 1 = 5
      OBVIOUS
    <2>2. Tail(todo) = Left(SwapSteps, 4 + 1) /\ \E x, y : Swapping(4, x, y)
      BY <1>1, <2>1, StageOfStep
    <2>3. QED
      BY <1>1, <2>1, <2>2
  <1>3. PICK x, y : Swapping(4, x, y)
    BY <1>2
  <1>4. /\ todo = Left(SwapSteps, 4) /\ zones = <<x, y>> /\ IsZone(x) /\ IsZone(y) /\ Bounds(x, y) \subseteq Live(mem)
        /\ Swappable(mem, x, y) /\ SwapAsserts(mem, x, y)
    <2>1. 4 <= 4
      OBVIOUS
    <2>2. QED
      BY <1>3, <2>1 DEF Swapping
  <1>5. ~Whole(todo) /\ ~Whole(todo')
    BY <1>2, <1>4, WholeSteps
  <1>6. Len(zones) = 2 /\ zones[1] = x /\ zones[2] = y
    BY <1>4
  <1>7. ZonesOut(mem, x, y, dfo, sc, cat)
    BY <1>5, <1>6 DEF OInv
  <1>8. PICK v, w : v = Swapped(x, y) /\ w = Swapped(y, x)
    OBVIOUS
  <1>9. mem' = Swap(mem, x, y) /\ zones' = <<v, w>> /\ fault' = NoFault
    BY <1>1, <1>4, <1>8
  <1>10. PICK n : n = mem'
    OBVIOUS
  <1>11. n = Swap(mem, x, y)
    BY <1>9, <1>10
  <1>12. DOMAIN n.at = DOMAIN mem.at
    BY <1>1, <1>4, <1>11, SwapKeepsWood
  <1>13. /\ x.base \in DOMAIN mem.at /\ x.term \in Seq(DOMAIN mem.at)
         /\ y.base \in DOMAIN mem.at /\ y.term \in Seq(DOMAIN mem.at) /\ Len(x.term) = Len(y.term)
    BY <1>4, <1>7 DEF ZonesOut, Swappable
  <1>14. /\ v.base = x.base /\ v.term = y.term /\ ToSet(Boundary(v)) = {x.base} \cup ToSet(y.term)
         /\ w.base = y.base /\ w.term = x.term /\ ToSet(Boundary(w)) = {y.base} \cup ToSet(x.term)
    <2>1. Mixed(x, y, Swapped(x, y))
      BY <1>4, <1>13, SwappedZone
    <2>2. Mixed(y, x, Swapped(y, x))
      BY <1>4, <1>13, SwappedZone
    <2>3. QED
      BY <1>8, <2>1, <2>2 DEF Mixed
  <1>15. Bounds(v, w) = Bounds(x, y)
    <2>1. /\ ToSet(Boundary(x)) = {x.base} \cup ToSet(x.term)
          /\ ToSet(Boundary(y)) = {y.base} \cup ToSet(y.term)
      BY <1>13, BoundaryParts
    <2>2. QED
      BY <1>14, <2>1 DEF Bounds
  <1>16. OrdersKept(mem, n, x, y, v, w)
    <2>1. TookOver(x, y, v) /\ TookOver(y, x, w)
      BY <1>14 DEF TookOver
    <2>2. ValidZone(mem, x) /\ ValidZone(mem, y)
      BY <1>4 DEF SwapAsserts
    <2>3. QED
      BY <1>1, <1>4, <1>11, <2>1, <2>2, SwapKeepsOrders
  <1>17. ZonesOut(n, v, w, dfo, sc, cat)
    <2>1. PICK L, I, D, P : L = Live(mem) /\ I = Inside(mem, x, y) /\ D = Disturbs(mem, Bounds(x, y)) /\ P = PointedTo(mem, L)
      OBVIOUS
    <2>2. /\ Live(n) = L /\ PointedTo(n, L) = P /\ Inside(n, v, w) = I /\ Disturbs(n, Bounds(v, w)) = D
          /\ OfLinks(n, L \ I) = OfLinks(mem, L \ I) /\ OfNodes(n, P \ D) = OfNodes(mem, P \ D)
      BY <1>15, <1>16, <2>1 DEF OrdersKept
    <2>3. dfo = OfLinks(mem, L \ I) /\ sc = OfNodes(mem, P \ D) /\ cat = P
      BY <1>7, <2>1 DEF ZonesOut, Ordered
    <2>4. Ordered(n, Live(n) \ Inside(n, v, w), PointedTo(n, Live(n)) \ Disturbs(n, Bounds(v, w)),
                  PointedTo(n, Live(n)), dfo, sc, cat)
      BY <2>2, <2>3 DEF Ordered
    <2>5. QED
      BY <1>12, <1>13, <1>14, <2>4 DEF ZonesOut
  <1>18. Len(zones') = 2 /\ zones'[1] = v /\ zones'[2] = w
    BY <1>9
  <1>19. QED
    BY <1>1, <1>5, <1>9, <1>10, <1>17, <1>18 DEF OInv

LEMMA ResumeOrderingsOrders ==
  ASSUME IInv, OInv, ResumeOrderings
  PROVE  OInv'
  <1>1. /\ Wooded(mem) /\ Stage /\ todo # <<>> /\ Head(todo) = SwapSteps[7]
        /\ todo' = Tail(todo) /\ mem' = mem /\ cat' = cat
    BY StepsAre DEF IInv, OInv, ResumeOrderings, Step
  <1>2. todo' = Left(SwapSteps, 8) /\ \E x, y : Swapping(7, x, y)
    <2>1. 7 \in 1..7 /\ 7 + 1 = 8
      OBVIOUS
    <2>2. Tail(todo) = Left(SwapSteps, 7 + 1) /\ \E x, y : Swapping(7, x, y)
      BY <1>1, <2>1, StageOfStep
    <2>3. QED
      BY <1>1, <2>1, <2>2
  <1>3. PICK x, y : Swapping(7, x, y)
    BY <1>2
  <1>4. /\ todo = Left(SwapSteps, 7) /\ zones = <<x, y>> /\ Bounds(x, y) \subseteq Live(mem)
        /\ Tables(Live(mem), Live(mem), Live(mem))
    <2>1. 7 \notin 4..5 /\ 7 \notin 3..6
      OBVIOUS
    <2>2. QED
      BY <1>3, <2>1 DEF Swapping
  <1>5. ~Whole(todo) /\ Whole(todo')
    BY <1>2, <1>4, WholeSteps
  <1>6. Len(zones) = 2 /\ zones[1] = x /\ zones[2] = y
    BY <1>4
  <1>7. ZonesOut(mem, x, y, dfo, sc, cat)
    BY <1>5, <1>6 DEF OInv
  <1>8. FullTables
    BY <1>1, <1>4 DEF FullTables
  <1> DEFINE L == Live(mem)
             I == Inside(mem, x, y)
             D == Disturbs(mem, Bounds(x, y))
  <1>9. AllLinks = I /\ I \subseteq L /\ Disturbed = D /\ D \subseteq PointedTo(mem, L)
    BY <1>4, <1>7, <1>8, ZonesInTables DEF ZonesOut
  <1>10. dfo = OfLinks(mem, L \ I) /\ sc = OfNodes(mem, PointedTo(mem, L) \ D) /\ cat = PointedTo(mem, L)
    BY <1>7 DEF ZonesOut, Ordered
  <1> HIDE DEF I, D
  <1>11. L \ I \in SUBSET Live(mem) /\ I \in SUBSET Live(mem) /\ (L \ I) \cup I = L
    BY <1>9
  <1>12. DFOUsable(I) /\ SCUsable
    <2>1. DFOUsable(I)
      <3>1. PICK R : R = L \ I
        OBVIOUS
      <3>2. R \in SUBSET Live(mem) /\ dfo = OfLinks(mem, R)
        BY <1>10, <1>11, <3>1
      <3>3. QED
        BY <1>8, <1>11, <3>2, LinksUsable
    <2>2. QED
      BY <1>10, <2>1, NodesUsable
  <1>13. CanResumeOrderings
    <2>1. dfo.has = L \ I /\ sc.has = PointedTo(mem, L) \ D
      BY <1>10 DEF OfLinks, OfNodes
    <2>2. QED
      BY <1>9, <1>12, <2>1 DEF CanResumeOrderings
  <1>14. dfo' = Inserted(dfo, I, DFOrder) /\ sc' = Inserted(sc, D, SCOrder) /\ fault' = NoFault
    BY <1>9, <1>13 DEF ResumeOrderings, Step
  <1>15. dfo' = OfLinks(mem, L)
    <2>1. PICK R : R = L \ I
      OBVIOUS
    <2>2. Inserted(dfo, I, DFOrder) = OfLinks(mem, R \cup I)
      <3>1. R \in SUBSET Live(mem) /\ dfo = OfLinks(mem, R)
        BY <1>10, <1>11, <2>1
      <3>2. QED
        BY <1>8, <1>11, <3>1, LinksPutIn
    <2>3. QED
      BY <1>11, <1>14, <2>1, <2>2
  <1>16. sc' = OfNodes(mem, PointedTo(mem, L))
    <2>1. PICK R : R = PointedTo(mem, L) \ D
      OBVIOUS
    <2>2. Inserted(sc, D, SCOrder) = OfNodes(mem, R \cup D)
      BY <1>10, <2>1, NodesPutIn
    <2>3. R \cup D = PointedTo(mem, L)
      BY <1>9, <2>1
    <2>4. QED
      BY <1>14, <2>2, <2>3
  <1>17. AllOrdered(mem', dfo', sc', cat')
    BY <1>1, <1>10, <1>15, <1>16 DEF AllOrdered, Ordered
  <1>18. QED
    BY <1>5, <1>14, <1>17 DEF OInv

-----------------------------------------------------------------------------
(* The theorems of the orderings. *)

LEMMA OInitHolds ==
  ASSUME ShapesAssumption, Init
  PROVE  OInv
  <1>1. /\ mem.at = <<>> /\ mem.type = <<>> /\ todo = <<>> /\ fault = NoFault
        /\ dfo = NoElements /\ sc = NoElements /\ cat = {}
    BY DEF Init
  <1>2. Wooded(mem)
    BY <1>1, InitHolds DEF IInv
  <1>3. Live(mem) = {}
    <2>1. Live(mem) \subseteq DOMAIN mem.at
      BY <1>2, LiveParts
    <2>2. QED
      BY <1>1, <2>1
  <1>4. PointedTo(mem, {}) = {}
    BY DEF PointedTo
  <1>5. OfLinks(mem, {}) = NoElements /\ OfNodes(mem, {}) = NoElements
    <2>1. LinkPairs(mem, {}) = {} /\ NodePairs(mem, {}) = {}
      BY DEF LinkPairs, NodePairs
    <2>2. QED
      BY <2>1 DEF OfLinks, OfNodes, NoElements
  <1>6. AllOrdered(mem, dfo, sc, cat)
    BY <1>1, <1>3, <1>4, <1>5 DEF AllOrdered, Ordered
  <1>7. QED
    BY <1>1, <1>6, WholeSteps DEF OInv

LEMMA ONextKeeps ==
  ASSUME ShapesAssumption, IInv, IInv', OInv, [Next]_vars
  PROVE  OInv'
  <1>1. CASE Operation
    <2>1. CASE \E shape \in Shapes : BuildTree(shape)
      BY <2>1, BuildTreeOrders
    <2>2. CASE \E t \in DOMAIN mem.type : TeardownTree(t)
      BY <2>2, TeardownTreeOrders
    <2>3. CASE \E x, y : SwapTreeToTree(x, y)
      BY <2>3, SwapTreeToTreeOrders
    <2>4. QED
      BY <1>1, <2>1, <2>2, <2>3 DEF Operation
  <1>2. CASE \/ InsertDomain \/ InsertRows \/ InsertNodes \/ DeleteNodes \/ DeleteRows \/ DeleteDomain
             \/ SuspendNodes \/ SuspendRows \/ ResumeRows \/ ResumeNodes
    BY <1>2, QuietSteps
  <1>3. CASE InsertOrderings \/ DeleteOrderings \/ FreeTree
    BY <1>3, InsertOrderingsOrders, DeleteOrderingsOrders, FreeTreeOrders
  <1>4. CASE SuspendOrderings \/ SwapZones \/ ResumeOrderings
    BY <1>4, SuspendOrderingsOrders, SwapZonesOrders, ResumeOrderingsOrders
  <1>5. CASE UNCHANGED vars
    <2>1. /\ mem' = mem /\ todo' = todo /\ zones' = zones /\ fault' = fault
          /\ dfo' = dfo /\ sc' = sc /\ cat' = cat
      BY <1>5 DEF vars
    <2>2. QED
      BY <2>1 DEF OInv
  <1>6. CASE Destroyed
    BY <1>5, <1>6 DEF Destroyed
  <1>7. QED
    BY <1>1, <1>2, <1>3, <1>4, <1>5, <1>6 DEF Next

LEMMA OrderingsInvariantHolds == Spec => []OInv
  <1>1. ASSUME ShapesAssumption, Init PROVE OInv
    BY <1>1, OInitHolds
  <1>2. ASSUME ShapesAssumption, IInv, IInv', OInv, [Next]_vars PROVE OInv'
    BY <1>2, ONextKeeps
  <1>3. QED
    BY <1>1, <1>2, InvariantHolds, ShapesAssumption, PTL DEF Spec

\* The links of the trees, by their paths, are in one order.
LEMMA LinksSorted ==
  ASSUME NEW m, Wooded(m)
  PROVE  Sorted(OfLinks(m, Live(m)))
  <1> DEFINE L == Live(m)
             o == OfLinks(m, L)
  <1>1. \A s \in L : s \in DOMAIN m.at /\ HasRow(m, s) /\ Path(m, s) \in Seq(Nat)
    BY LiveParts, RowOfLive, PathType
  <1>2. o.has = L /\ o.before = {p \in L \X L : PathLess(Path(m, p[1]), Path(m, p[2]))}
    BY DEF OfLinks, LinkPairs, Before
  <1>3. ASSUME NEW a \in L, NEW b \in L
        PROVE  a # b <=> <<a, b>> \in o.before \/ <<b, a>> \in o.before
    <2>1. PICK p \in Seq(Nat), q \in Seq(Nat) : p = Path(m, a) /\ q = Path(m, b)
      BY <1>1
    <2>2. a = b <=> p = q
      BY <1>1, <2>1, PathInjective
    <2>3. p # q <=> PathLess(p, q) \/ PathLess(q, p)
      BY PathLessTotal, PathLessOneWay
    <2>4. /\ <<a, b>> \in o.before <=> PathLess(p, q)
          /\ <<b, a>> \in o.before <=> PathLess(q, p)
      BY <1>2, <2>1
    <2>5. QED
      BY <2>2, <2>3, <2>4
  <1>4. ASSUME NEW x \in o.before, NEW y \in o.before, x[2] = y[1]
        PROVE  <<x[1], y[2]>> \in o.before
    <2>1. x[1] \in L /\ x[2] \in L /\ y[2] \in L
      BY <1>2
    <2>2. PICK p \in Seq(Nat), q \in Seq(Nat), r \in Seq(Nat) :
            p = Path(m, x[1]) /\ q = Path(m, x[2]) /\ r = Path(m, y[2])
      BY <1>1, <2>1
    <2>3. PathLess(p, q) /\ PathLess(q, r)
      BY <1>2, <1>4, <2>2
    <2>4. PathLess(p, r)
      BY <2>3, PathLessTransitive
    <2>5. QED
      BY <1>2, <2>1, <2>2, <2>4
  <1>5. QED
    BY <1>2, <1>3, <1>4 DEF Sorted

\* The nodes of the trees, by content and then by address, are in one order.
LEMMA NodesSorted ==
  ASSUME NEW m, Wooded(m), NEW N, N \subseteq 1..Len(m.label)
  PROVE  Sorted(OfNodes(m, N))
  <1> DEFINE o == OfNodes(m, N)
  <1>1. o.has = N /\ o.before = {p \in N \X N : SCLess(m, p[1], p[2])}
    BY DEF OfNodes, NodePairs
  <1>2. ASSUME NEW a \in N, NEW b \in N
        PROVE  a # b <=> <<a, b>> \in o.before \/ <<b, a>> \in o.before
    <2>1. a # b <=> SCLess(m, a, b) \/ SCLess(m, b, a)
      BY SCLessOrders
    <2>2. QED
      BY <1>1, <2>1
  <1>3. ASSUME NEW x \in o.before, NEW y \in o.before, x[2] = y[1]
        PROVE  <<x[1], y[2]>> \in o.before
    <2>1. /\ x[1] \in N /\ x[2] \in N /\ y[2] \in N
          /\ SCLess(m, x[1], x[2]) /\ SCLess(m, x[2], y[2])
      BY <1>1, <1>3
    <2>2. PICK a \in 1..Len(m.label), b \in 1..Len(m.label), c \in 1..Len(m.label) :
            a = x[1] /\ b = x[2] /\ c = y[2]
      BY <2>1
    <2>3. SCLess(m, a, c)
      BY <2>1, <2>2, SCLessOrders
    <2>4. QED
      BY <1>1, <2>1, <2>2, <2>3
  <1>4. QED
    BY <1>1, <1>2, <1>3 DEF Sorted

LEMMA OrderingsMatch ==
  ASSUME IInv, OInv
  PROVE  OrderingsMatchTrees
  <1>1. SUFFICES ASSUME todo = <<>>, fault = NoFault PROVE OrderingsMatchTrees
    BY DEF OrderingsMatchTrees, Idle
  <1>2. Wooded(mem) /\ AllOrdered(mem, dfo, sc, cat)
    BY <1>1 DEF IInv, OInv, Whole
  <1>3. PICK N : N = PointedTo(mem, Live(mem))
    OBVIOUS
  <1>4. LiveLinks = Live(mem) /\ {mem.at[s] : s \in LiveLinks} = N
    BY <1>2, <1>3, LinksOfTrees DEF PointedTo
  <1>5. dfo = OfLinks(mem, LiveLinks) /\ sc = OfNodes(mem, N) /\ cat = N
    BY <1>2, <1>3, <1>4 DEF AllOrdered, Ordered
  <1>6. N \subseteq 1..Len(mem.label)
    BY <1>2, <1>3, LiveParts DEF PointedTo, Wooded, SlotsPlaced
  <1>7. Sorted(dfo) /\ Sorted(sc)
    BY <1>2, <1>4, <1>5, <1>6, LinksSorted, NodesSorted
  <1>8. QED
    BY <1>4, <1>5, <1>7 DEF OrderingsMatchTrees, OfLinks, OfNodes, LinkPairs, NodePairs

\* No step of building, tearing down or swapping meets an ASSERT: what it takes
\* out of a table is in, what it puts in is not, and the rows it reads are
\* there. Nor does one use a std::set whose relation has changed under its
\* elements: while a swap changes what is above and below them, the links and
\* nodes that stay in the orderings keep their places among each other, as
\* SwapTreeToTree() relies on when it suspends only the links inside the zones
\* and the nodes above their boundaries (Orderings::SwapTransaction).
THEOREM OperationsNeverFault == Spec => []NeverFaults
  <1>1. OInv => NeverFaults
    BY DEF OInv, NeverFaults
  <1>2. QED
    BY <1>1, OrderingsInvariantHolds, PTL

\* After any operations the depth first ordering has all the links of the trees
\* in the order of their paths, and the simple compare and category orderings
\* all their nodes, the former by content and then by address, and both
\* relations order everything: what a search for a range (std::set::lower_bound
\* and upper_bound in vn/db) needs to find all that is in it.
THEOREM OrderingsAlwaysMatch == Spec => []OrderingsMatchTrees
  <1>1. IInv /\ OInv => OrderingsMatchTrees
    BY OrderingsMatch
  <1>2. QED
    BY <1>1, InvariantHolds, OrderingsInvariantHolds, PTL

=============================================================================
