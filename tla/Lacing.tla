-------------------------------- MODULE Lacing --------------------------------
(******************************************************************************)
(* Lacing: numbers for the categories (node types) that the patterns of a     *)
(* sequence restrict to, such that each category is a few ranges of numbers   *)
(* (vn/db/lacing.cpp). The category ordering keeps the nodes of the database  *)
(* by these numbers, and a search for the nodes of a category reads off its   *)
(* ranges (cat_relation.cpp; IsInCategoryOperator, CategoryRangeResult).      *)
(*                                                                            *)
(* Build() runs once. Sort() swaps blocks of categories while that brings     *)
(* similar ones closer; its three loops are one step per turn. The number of  *)
(* a node is found by asking it "are you a kind of ...?" down a decision tree.*)
(* A decision node is represented by the set of ordinals possible there.      *)
(******************************************************************************)
EXTENDS Integers, Sequences, FiniteSets, FiniteSetsExt, SequencesExt

CONSTANTS
  Problems,  \* node types and archetypes: [isA, raw] each
  Null       \* the category of what is in none of the others

VARIABLES
  problem,   \* isA[x]: the types x is derived from, and x; raw: the archetypes, by address
  categories,\* the archetypes kept, in the order of the set
  supercats, \* cats_to_nonstrict_supercats
  order,     \* cats_in_lacing_order, from 0
  at,        \* the turn of the loops of Sort(): [bs, i, j]
  swapped,   \* of Sort()
  ranges,    \* cats_to_lacing_range_lists
  sets,      \* cats_to_lacing_sets
  decision,  \* the decision tree: ordinals possible -> category to ask for
  cmp,       \* the comparison of two nodes in progress
  phase

vars == <<problem, categories, supercats, order, at, swapped, ranges, sets, decision, cmp, phase>>

Type == DOMAIN problem.isA

IntMax == 2147483647

\* Every type is a kind of itself, and the number of categories is an int.
ASSUME ProblemsAssumption ==
  \A p \in Problems :
    /\ \A x \in DOMAIN p.isA : x # Null /\ x \in p.isA[x]
    /\ p.raw \in Seq(DOMAIN p.isA) /\ Len(p.raw) < IntMax

NoTurn == [bs |-> 0, i |-> 0, j |-> 0]

\* No decision node: the null pointer that OrdinalCompare() leaves at the end.
NoDecision == {}

NoCompare == [l |-> Null, r |-> Null, lat |-> NoDecision, rat |-> NoDecision,
              lrange |-> <<0, 0>>, rrange |-> <<0, 0>>, turn |-> "left", diff |-> 0]

Init ==
  /\ problem \in Problems
  /\ categories = <<>> /\ supercats = <<>> /\ order = <<>> /\ at = NoTurn /\ swapped = FALSE
  /\ ranges = <<>> /\ sets = <<>> /\ decision = <<>> /\ cmp = NoCompare /\ phase = "fixup"

-----------------------------------------------------------------------------
(* Categories and what is above them. *)

\* Lacing::LocalMatchWithNULL(): a node of type x is a kind of c. The null
\* category matches nothing, itself included.
LocalMatchWithNULL(c, x) == c # Null /\ x # Null /\ c \in problem.isA[x]

IsEquivalentCategory(x, y) == LocalMatchWithNULL(x, y) /\ LocalMatchWithNULL(y, x)

\* Mutant of Uniquified: equivalent archetypes are all kept.
UniquifiedByNode(raw) == <<Null>> \o raw

\* The null pointer has the lowest address.
Uniquified(raw) ==
  LET kept[k \in 0..Len(raw)] ==
        IF k = 0 THEN <<Null>>
        ELSE IF \E y \in ToSet(kept[k - 1]) : IsEquivalentCategory(raw[k], y) THEN kept[k - 1]
        ELSE Append(kept[k - 1], raw[k])
  IN kept[Len(raw)]

Cats == ToSet(categories)

ncats == Len(categories)

Supercats(x) == {c \in Cats : LocalMatchWithNULL(c, x)}

\* cats_to_nonstrict_subcats
Subcats(c) == {x \in Cats : c \in supercats[x]}

\* Where the loops of Sort() begin: no j is low enough for an i below bs.
FirstTurn(bs) == IF bs = 0 THEN NoTurn ELSE [bs |-> bs, i |-> bs, j |-> 0]

NextTurn(t) ==
  IF t.j + 1 + t.bs <= t.i THEN [t EXCEPT !.j = @ + 1]
  ELSE IF t.i + 1 + t.bs <= ncats THEN [t EXCEPT !.i = @ + 1, !.j = 0]
  ELSE FirstTurn(t.bs - 1)

FixupCategories ==
  /\ phase = "fixup"
  /\ categories' = Uniquified(problem.raw)
  /\ order' = [k \in 0..(Len(categories') - 1) |-> categories'[k + 1]]
  /\ supercats' = [x \in ToSet(categories') |->
                     {c \in ToSet(categories') : LocalMatchWithNULL(c, x)}]
  /\ at' = FirstTurn(Len(categories') \div 2)
  /\ phase' = "sort"
  /\ UNCHANGED <<problem, swapped, ranges, sets, decision, cmp>>

-----------------------------------------------------------------------------
(* Lacing::Sort() *)

\* Lacing::GetMetric(): the sum of the sizes of the categories that are above
\* one only, as a number of pairs.
GetMetric(o, p, q) ==
  IF p \notin DOMAIN o \/ q \notin DOMAIN o THEN 0
  ELSE LET diff == SymDiff(supercats[o[p]], supercats[o[q]]) IN
       Cardinality({w \in diff \X Cats : w[2] \in Subcats(w[1])})

TotalMetric(o) ==
  LET tot[k \in 0..ncats] == IF k = 0 THEN 0 ELSE tot[k - 1] + GetMetric(o, k - 1, k) IN tot[ncats]

\* The metrics of the joints that a swap of two blocks breaks, and of those it
\* makes.
CurrMetric(o, t) ==
  LET e == t.i + t.bs
      f == t.j + t.bs
  IN (IF t.i - t.j # ncats - t.bs THEN GetMetric(o, e - 1, e) + GetMetric(o, t.j, t.j - 1) ELSE 0)
     + (IF t.i - t.j # t.bs THEN GetMetric(o, t.i, t.i - 1) + GetMetric(o, f - 1, f)
        ELSE GetMetric(o, f - 1, t.i))

MetricIfSwapped(o, t) ==
  LET e == t.i + t.bs
      f == t.j + t.bs
  IN (IF t.i - t.j # ncats - t.bs THEN GetMetric(o, t.i, t.j - 1) + GetMetric(o, f - 1, e) ELSE 0)
     + (IF t.i - t.j # t.bs THEN GetMetric(o, e - 1, f) + GetMetric(o, t.j, t.i - 1)
        ELSE GetMetric(o, e - 1, t.j))

\* Mutant of Profitable: a swap that changes nothing counts.
NotCostly(o, t) == MetricIfSwapped(o, t) <= CurrMetric(o, t)

Profitable(o, t) == MetricIfSwapped(o, t) < CurrMetric(o, t)

BlocksSwapped(o, t) ==
  [k \in DOMAIN o |-> IF k \in t.i..(t.i + t.bs - 1) THEN o[k - t.i + t.j]
                      ELSE IF k \in t.j..(t.j + t.bs - 1) THEN o[k - t.j + t.i]
                      ELSE o[k]]

\* The swap, with the ASSERT that it gains what was expected.
SwapBlocks ==
  /\ phase = "sort" /\ at # NoTurn /\ Profitable(order, at)
  /\ order' = BlocksSwapped(order, at)
  /\ IF TotalMetric(order) - TotalMetric(order') = CurrMetric(order, at) - MetricIfSwapped(order, at)
     THEN swapped' = TRUE /\ at' = NextTurn(at) /\ phase' = phase
     ELSE phase' = "aborted" /\ UNCHANGED <<at, swapped>>
  /\ UNCHANGED <<problem, categories, supercats, ranges, sets, decision, cmp>>

LeaveBlocks ==
  /\ phase = "sort" /\ at # NoTurn /\ ~Profitable(order, at)
  /\ at' = NextTurn(at)
  /\ UNCHANGED <<problem, categories, supercats, order, swapped, ranges, sets, decision, cmp, phase>>

SortAgain ==
  /\ phase = "sort" /\ at = NoTurn /\ swapped
  /\ at' = FirstTurn(ncats \div 2) /\ swapped' = FALSE
  /\ UNCHANGED <<problem, categories, supercats, order, ranges, sets, decision, cmp, phase>>

-----------------------------------------------------------------------------
(* Ranges and decisions. *)

\* Lacing::BuildRanges(), seen from one category: a range begins and ends where
\* the category begins and ceases to be above the categories in lacing order.
SupersAt(o, i) == IF i \in DOMAIN o THEN supercats[o[i]] ELSE {}

RangeTurn(list, o, c, i) ==
  CASE c \in SupersAt(o, i) \ SupersAt(o, i - 1) -> Append(list, <<i, -1>>)
    [] c \in SupersAt(o, i - 1) \ SupersAt(o, i) -> [list EXCEPT ![Len(list)] = <<@[1], i>>]
    [] OTHER -> list

\* The list after k turns.
RangesAfter(o, c) ==
  LET list[k \in 0..(ncats + 1)] == IF k = 0 THEN <<>> ELSE RangeTurn(list[k - 1], o, c, k - 1)
  IN list

RangeLists(o) == [c \in Cats \ {Null} |-> RangesAfter(o, c)[ncats + 1]]

BuildRanges ==
  /\ phase = "sort" /\ at = NoTurn /\ ~swapped
  /\ ranges' = RangeLists(order)
  /\ phase' = "decide"
  /\ UNCHANGED <<problem, categories, supercats, order, at, swapped, sets, decision, cmp>>

\* Lacing::MakeDecisionSubtree(): the categories that tell some of the
\* ordinals possible at S from the others, and the first of those that come
\* closest to halving S.
Splits(S, ls) == {k \in DOMAIN categories :
                    categories[k] # Null /\ S \cap ls[categories[k]] \notin {{}, S}}

BestCat(S, ls) ==
  LET off == [k \in Splits(S, ls) |->
                LET d == 2 * Cardinality(S \cap ls[categories[k]]) - Cardinality(S)
                IN IF d < 0 THEN -d ELSE d]
  IN categories[Min({k \in DOMAIN off : \A h \in DOMAIN off : off[k] <= off[h]})]

\* The decision nodes that ask something; where no category splits, the
\* ASSERT fails.
NodesBelow(ls) ==
  LET below[S \in SUBSET DOMAIN order] ==
        IF Cardinality(S) = 1 THEN {}
        ELSE {S} \cup IF Splits(S, ls) = {} THEN {}
                      ELSE LET c == BestCat(S, ls) IN
                           below[S \cap ls[c]] \cup below[S \ ls[c]]
  IN below

DecisionNodes(ls) == NodesBelow(ls)[DOMAIN order]

\* Lacing::BuildDecisionTree()
BuildDecisionTree ==
  /\ phase = "decide"
  /\ sets' = [c \in Cats \ {Null} |-> {i \in DOMAIN order : c \in supercats[order[i]]}]
  /\ IF \E S \in DecisionNodes(sets') : Splits(S, sets') = {}
     THEN phase' = "aborted" /\ UNCHANGED decision
     ELSE /\ decision' = [S \in DecisionNodes(sets') |-> BestCat(S, sets')]
          /\ phase' = "test"
  /\ UNCHANGED <<problem, categories, supercats, order, at, swapped, ranges, cmp>>

\* DecisionNodeLocalMatch::GetNextDecisionNode()
NextDecisionNode(S, x) ==
  IF LocalMatchWithNULL(decision[S], x) THEN S \cap sets[decision[S]] ELSE S \ sets[decision[S]]

\* Where a node of type x comes to from each decision node.
OrdinalFrom(x) ==
  LET walk[S \in SUBSET DOMAIN order] ==
        IF Cardinality(S) = 1 THEN Min(S) ELSE walk[NextDecisionNode(S, x)]
  IN walk

GetOrdinalForNode(x) == OrdinalFrom(x)[DOMAIN order]

\* Lacing::TestDecisionTree()
TestDecisionTree ==
  /\ phase = "test"
  /\ phase' = IF \A i \in DOMAIN order : GetOrdinalForNode(order[i]) = i THEN "ready" ELSE "aborted"
  /\ UNCHANGED <<problem, categories, supercats, order, at, swapped, ranges, sets, decision, cmp>>

-----------------------------------------------------------------------------
(* Lacing::OrdinalCompare(): both nodes go down the decision tree in turns,  *)
(* until the ordinals possible for one are all below those for the other.    *)

StartCompare ==
  /\ phase = "ready"
  /\ \E x, y \in Type :
       cmp' = [l |-> x, r |-> y, lat |-> DOMAIN order, rat |-> DOMAIN order,
               lrange |-> <<0, IntMax>>, rrange |-> <<0, IntMax>>, turn |-> "left", diff |-> 0]
  /\ phase' = "compare"
  /\ UNCHANGED <<problem, categories, supercats, order, at, swapped, ranges, sets, decision>>

\* One node goes on from S: the decision node it is at then, if any, and the
\* range of ordinals known for it.
Advanced(S, range, x) ==
  IF S = NoDecision THEN [to |-> S, range |-> range]
  ELSE IF Cardinality(S) = 1 THEN [to |-> NoDecision, range |-> <<Min(S), Min(S)>>]
  ELSE [to |-> NextDecisionNode(S, x), range |-> <<Min(S), Max(S)>>]

\* Mutant of Apart: ranges that meet in one ordinal count as apart.
ApartOrMeeting(a, b) == a[2] <= b[1] \/ a[1] >= b[2]

Apart(a, b) == a[2] < b[1] \/ a[1] > b[2]

Same(a, b) == a[1] = a[2] /\ b[1] = b[2] /\ a[1] = b[1]

Diff(a, b) == IF a[2] < b[1] THEN a[2] - b[1] ELSE IF a[1] > b[2] THEN a[1] - b[2] ELSE 0

\* "Do we have a result yet?"
Known(a, b) == Apart(a, b) \/ Same(a, b)

AdvanceLeft ==
  /\ phase = "compare" /\ cmp.turn = "left"
  /\ LET a == Advanced(cmp.lat, cmp.lrange, cmp.l)
         known == Known(a.range, cmp.rrange)
     IN /\ cmp' = [cmp EXCEPT !.lat = a.to, !.lrange = a.range, !.turn = "right",
                              !.diff = IF known THEN Diff(a.range, cmp.rrange) ELSE 0]
        /\ phase' = IF known THEN "compared" ELSE phase
  /\ UNCHANGED <<problem, categories, supercats, order, at, swapped, ranges, sets, decision>>

AdvanceRight ==
  /\ phase = "compare" /\ cmp.turn = "right"
  /\ LET a == Advanced(cmp.rat, cmp.rrange, cmp.r)
         known == Known(cmp.lrange, a.range)
     IN /\ cmp' = [cmp EXCEPT !.rat = a.to, !.rrange = a.range, !.turn = "left",
                              !.diff = IF known THEN Diff(cmp.lrange, a.range) ELSE 0]
        /\ phase' = IF known THEN "compared" ELSE phase
  /\ UNCHANGED <<problem, categories, supercats, order, at, swapped, ranges, sets, decision>>

ReturnDiff ==
  /\ phase = "compared"
  /\ phase' = "ready" /\ cmp' = NoCompare
  /\ UNCHANGED <<problem, categories, supercats, order, at, swapped, ranges, sets, decision>>

-----------------------------------------------------------------------------

Build == FixupCategories \/ SwapBlocks \/ LeaveBlocks \/ SortAgain \/ BuildRanges
         \/ BuildDecisionTree \/ TestDecisionTree

Compare == AdvanceLeft \/ AdvanceRight \/ ReturnDiff

Next == Build \/ Compare \/ StartCompare

\* One thread, which waits for nothing once it has been called.
Spec == Init /\ [][Next]_vars /\ WF_vars(Build) /\ WF_vars(Compare)

-----------------------------------------------------------------------------
(* What the searches rely on. *)

\* Mutant of LessThanMinimus: the minimus is after the nodes of its ordinal.
NotAboveMinimus(x, i) == GetOrdinalForNode(x) - i <= 0

\* CategoryRelation::Compare3Way() of a node with a MinimusNode, which is
\* before all nodes that have its ordinal.
LessThanMinimus(x, i) == GetOrdinalForNode(x) - i < 0

\* The types of the nodes that CategoryRangeResult::TryExtensionalise() finds
\* in the category ordering for what IsInCategoryOperator::TrySolveFor() makes
\* of the ranges of c: from one lower_bound() up to another.
Selected(c) ==
  {x \in Type : \E k \in DOMAIN ranges[c] :
     ~LessThanMinimus(x, ranges[c][k][1]) /\ LessThanMinimus(x, ranges[c][k][2])}

Built == phase \in {"ready", "compare", "compared"}

\* The categories above x, if any, have a lowest one.
HasLowest(x) ==
  Supercats(x) = {} \/ \E c \in Supercats(x) : Supercats(c) = Supercats(x)

\* Ranges with gaps between them, none of them empty.
InOrder(r) ==
  /\ r # <<>>
  /\ \A k \in DOMAIN r : r[k][1] < r[k][2]
  /\ \A k \in 1..(Len(r) - 1) : r[k][2] < r[k + 1][1]

\* The lacing, the loop variables of Sort() and a comparison have their types.
TypeOK ==
  /\ Cats \subseteq Type \cup {Null}
  /\ order \in [0..(ncats - 1) -> Cats]
  /\ at \in [bs : 0..(ncats \div 2), i : 0..ncats, j : 0..ncats]
  /\ swapped \in BOOLEAN
  /\ \A c \in DOMAIN ranges : ranges[c] \in Seq((0..ncats) \X (0..ncats))
  /\ cmp.turn \in {"left", "right"} /\ cmp.lat \cup cmp.rat \subseteq 0..(ncats - 1)
  /\ phase \in {"fixup", "sort", "decide", "test", "ready", "compare", "compared", "aborted"}

\* "These are the possible values of lacing ordinal that will match the
\* category" (lacing.hpp): for nodes whose type has a lowest category above
\* it, also for types no archetype has, the solver's set for a category has
\* every node that IsInCategoryOperator::Evaluate() accepts and no other. They
\* are "non-overlapping pair(begin, end) ranges in increasing order", none
\* empty and no two of them adjacent.
RangesExact ==
  phase = "ready" =>
    \A c \in Cats \ {Null} :
      /\ \A x \in Type : HasLowest(x) => (x \in Selected(c) <=> LocalMatchWithNULL(c, x))
      /\ InOrder(ranges[c])

\* The same for nodes of any type.
SearchFindsAll ==
  phase = "ready" =>
    \A c \in Cats \ {Null}, x \in Type : LocalMatchWithNULL(c, x) => x \in Selected(c)

\* OrdinalCompare() orders any two nodes as their ordinals are: the category
\* ordering is sorted by ordinal, and lower_bound() in it means something.
CompareAgrees ==
  phase = "compared" =>
    LET d == GetOrdinalForNode(cmp.l) - GetOrdinalForNode(cmp.r) IN
    (cmp.diff < 0 <=> d < 0) /\ (cmp.diff > 0 <=> d > 0)

\* Sort() stops, though a swap that gains in one place may undo an earlier
\* one, and every comparison comes to a result.
LacingEnds == [](phase # "ready" => <>(phase = "ready"))

-----------------------------------------------------------------------------
(* What holds the above together: the inductive invariant. *)

\* Of equivalent archetypes one is kept, and the null category always.
Categorised ==
  phase # "fixup" =>
    /\ categories \in Seq(Type \cup {Null}) /\ ncats \in 1..IntMax /\ Null \in Cats
    /\ \A x, y \in Cats : x = y \/ ~IsEquivalentCategory(x, y)
    /\ supercats = [x \in Cats |-> Supercats(x)]

\* The order has every category once.
Laced ==
  phase # "fixup" =>
    order \in [0..(ncats - 1) -> Cats] /\ IsInjective(order) /\ Range(order) = Cats

\* The blocks that Sort() looks at lie in the order, one before the other.
BlocksInside ==
  at = NoTurn \/ /\ at \in [bs : Nat, i : Nat, j : Nat]
                 /\ at.bs > 0 /\ at.j + at.bs <= at.i /\ at.i + at.bs <= ncats

HasRanges == phase \in {"decide", "test", "ready", "compare", "compared"}
Ranged == HasRanges => ranges = RangeLists(order)

\* Places to come to in the decision tree: its nodes and its leaves.
IsPlace(S) == S \in DOMAIN decision \/ \E i \in DOMAIN order : S = {i}

\* The decision tree has all the ordinals at its root, and each of its nodes
\* splits those it has in two.
HasTree == phase \in {"test", "ready", "compare", "compared"}
TreeSplits ==
  HasTree =>
    /\ sets = [c \in Cats \ {Null} |-> {i \in DOMAIN order : c \in supercats[order[i]]}]
    /\ IsPlace(DOMAIN order)
    /\ \A S \in DOMAIN decision :
         /\ S \subseteq DOMAIN order /\ Cardinality(S) # 1 /\ decision[S] \in Cats \ {Null}
         /\ S \cap sets[decision[S]] \notin {{}, S}
         /\ IsPlace(S \cap sets[decision[S]]) /\ IsPlace(S \ sets[decision[S]])

\* A node is between the bounds known for it, and on the way to its ordinal.
OnItsWay(S, range, x) ==
  LET i == GetOrdinalForNode(x)
  IN /\ x \in Type /\ range \in Int \X Int /\ range[1] <= i /\ i <= range[2]
     /\ IF S = NoDecision THEN range = <<i, i>> ELSE IsPlace(S) /\ OrdinalFrom(x)[S] = i

Comparing ==
  phase \in {"compare", "compared"} =>
    /\ DOMAIN cmp = DOMAIN NoCompare
    /\ OnItsWay(cmp.lat, cmp.lrange, cmp.l) /\ OnItsWay(cmp.rat, cmp.rrange, cmp.r)

LacingInvariant ==
  /\ problem \in Problems
  /\ Categorised /\ Laced /\ BlocksInside /\ Ranged /\ TreeSplits /\ Comparing /\ CompareAgrees

\* No ASSERT of Build() fails: each swap of Sort() gains what its formula for
\* the joints says, MakeDecisionSubtree() finds a category wherever two
\* ordinals are possible, and the decision tree gives back every category.
\* Nor does Sort() lose one: the order is always one of all the categories.
NeverAborts ==
  TypeOK /\ phase # "aborted" /\ Categorised /\ Laced /\ BlocksInside /\ TreeSplits

\* Building and testing the decision tree never fails an ASSERT.
TreeIsBuilt == [][BuildDecisionTree \/ TestDecisionTree => phase' # "aborted"]_vars
=============================================================================
