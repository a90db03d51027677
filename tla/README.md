# A TLA+ verification of Vida Nova

Inferno converts C++ programs; at its core is *Vida Nova* (`src/src/vn`), an
engine that searches a syntax tree for a pattern, replaces what it finds, and
repeats. This directory holds TLA+ models of that engine, the TLC
configurations that check them on small instances, and proofs that TLAPS
checks. Paths below are relative to the repository; `vn/` is `src/src/vn/`.

## 1. The system

### 1.1 What happens in a step

A transformation is a sequence of *steps*; each step has a pattern, a graph of
*agents* joined by *links*. Everything runs on one thread. What makes it hard
is not concurrency but long-lived objects that are re-entered, unwound by
exceptions and used again:

```
VNSequence / VNStep / CompareReplace::Transform
  └─ SCREngine::RepeatingCompareReplace          loop until mismatch, count or limit
       └─ SingleCompareReplace
            ├─ AndRuleEngine::Compare            find a match, or throw Mismatch
            │    ├─ CSP solver  ──report──►  OnSolution ──► AgentRegeneration
            │    │        ▲                       (conjectures, decided queries,
            │    │        └── unwound by SuccessfulMatch    subordinate engines)
            │    └─ constraints ask the X tree database and its domain extension
            ├─ TreeUpdater::UpdateMainTree       edits the tree; the database,
            │    └─ XTreeDatabase, DomainExtension   with its channels, follows
            └─ RunEmbedded ──► SCREngine::RepeatingCompareReplace (recursive)
```

### 1.2 Inventory

| Component | State it keeps | Operations | Hard part | What makes it correct | Module |
|---|---|---|---|---|---|
| CSP solver (`vn/csp`) | assignments, value selectors, success and conflict counts, current variable | Start, Run, Stop; report and rejection callbacks | backjumping; unwinding by the report callback; reuse | exactly the solutions are reported, each once | `CSPSolver`, `SolverSpec` |
| Domain extension (`vn/db/domain_extension.cpp`) with the tree store (`x_tree_database.cpp`) | per channel: stimuli with dependencies, the inverse map, classes with reference counts, recheck and tear-down sets; trees by ordinal | insert, delete and swap of (parts of) trees; end of update; end of step | re-entrance while a set is iterated over; addresses used again; deferral | what a search asks for is known; no dangling links; no leaked tree | `DomainExtension` |
| And-rule engine, conjectures, queries (`and_rule_engine.cpp`, `conjecture.cpp`, `query.cpp`) | choices, decisions and last activity per agent; the solution so far | Compare, OnSolution, AgentRegeneration, Increment, RegisterDecision | iterators kept from one query to the next; partial failure; abandoned searches | a match is a match; a mismatch means there is none; all combinations tried | `AndRuleEngine` |
| SCR engine (`scr_engine.cpp`) | the plan; `stop_after`, `depth`; the shared `universal_assignments` | RepeatingCompareReplace, SingleCompareReplace, RunEmbedded, SetStopAfter | recursion over one shared map; counts that persist | each engine leaves the map as it found it; keys are there; it stops | `SCREngine` |
| Tree update passes (`vn/up`, zones in `vn/db`) | the layout of patches, the moves, assignments, temporary trees | one pass after the other: split, order, copy, move out, merge, invert, move in | edits in place, overlapping zones, links into what has been swapped or freed | the tree and the assignments are those the layout says | `TreeUpdate`, `DepthFirst`, `TreeZones` |
| X tree database tables (`domain`, `link_table`, `node_table`, `orderings`) | domain, rows by link and by node, three orderings | build, tear down and swap, table by table | orderings whose relation reads the other tables and the tree while both change | tables and orderings are what building them afresh would give | `XTreeTables`, `TreeZones` |
| Lacing (`lacing.cpp`, `cat_relation.cpp`) | order of the categories, ranges, decision tree | build once; ordinal of a node; compare two nodes | local search, half-open ranges, lazy comparison | a category's ranges select its nodes | `Lacing` |
| Pattern planning (`and_rule_engine.cpp` planning, `ptrans`) | none after planning | categorise, keyers, residuals | coupled agents met many times | one keyer per agent | in part in `SCREngine` |
| Agents (`vn/agents`), symbolics (`vn/sym`) | none of their own | queries, expressions | breadth | - | taken as arbitrary functions |
| Language, graphs, front end, node library, steps, LLVM | - | conversions, data, inputs | - | - | not modelled |

`PROJECT.json` lists these as `components`, the hazards with their source
lines, and the source lines of every definition.

### 1.3 Interaction of the modules

`SolverSpec` is the contract between solver and client. `CSPSolver` is shown
to implement it (`PromiseKept`; for TLC and by proof); `AndRuleEngine` *uses*
it, as `Solver == INSTANCE SolverSpec`, in place of the solver, so that what it
shows holds with either solver. `SCREngine` sees a call of `Compare()` as one
step that hits or misses, and a call of `UpdateMainTree()` as one step that
assigns the links it places.

`TreeZones` is the trees themselves, as memory: nodes, the pointers ("slots")
in them, the trees that own them, and the zone operations; `DepthFirst` the
comparison of two links by climbing from both. `TreeUpdate` is
`UpdateMainTree()` on that memory; `XTreeTables` carries the same swaps,
builds and teardowns through the database's tables, and relies on
`RelationIsDepthFirst`, which `TreeUpdate`'s run checks, for the relation of
the ordering. `DomainExtension` is told of the same operations. `Lacing` is
where the values come from that a constraint on a category suggests; that
suggestions contain every consistent value is what `CSPSolver` takes for
granted.

## 2. The modules

### 2.1 `SolverSpec` and `CSPSolver`

`CSPSolver` models `ReferenceSolver` and, with `Backjumping = TRUE`,
`BackjumpingSolver`, the one in use. Free variables are their indices in the
plan. `sat` gives for each constraint the assignments of its scope that
satisfy it; it is chosen afresh by `Start`, as trees and forces change between
runs while the object stays. A value selector is the *set of values still to
be offered*: any set that contains all the supported values, which is what
`GetSuggestedValues()` must give, in any order, because the order of
`std::set<XLink>` is that of addresses. `TryInconsistentValue`, `Advance`,
`ReportSolution`, `ReportAndAbort` and `AssignUnsuccessful` are the branches
of the loop in `Solve()`. A backjump is one step to the variable at which its
loop ends (`Landing`). `ReportAndAbort` leaves all of the solver's state as
`SuccessfulMatch`, thrown through it, leaves it.

### 2.2 `DomainExtension`

Nodes are reduced to their *kind*. An extender (`TransformOf`, `PointerIs`) is
a pure function of the kinds of the links it reads, given by `Reads` and
`Induces`. A link is the address of a pointer; addresses are numbers because
the loops over `std::set<XLink>` go by address, and a freed address may be
used again. Trees are sets of links with an ordinal; ordinals are re-used
through the queue `free_tree_ordinals`. The passes of a tree update appear by
the operations they perform on the database (`BuildUpdateTree`,
`SwapTreeToTree`, `TeardownOldContent` and `TeardownMoved`), in any order that
`PlacesHeld` allows: a place-holder in the main tree stands for something that
is still to be moved in. `TeardownMoved` frees a tree at once whatever is in
it, as the code does; that it is scaffold only is a property of the passes
(`NothingLeftBehind` of `TreeUpdate`). The loops of `DeferredActionsEndOfUpdate()` and
`DeferredActionsEndOfStep()` are one step per iteration with the iterator in
`pc.cursor`, since the loop bodies re-enter the code and change the set.

### 2.3 `AndRuleEngine`

An agent's query is a deterministic function of the solution and of the
choices so far: a *tree of choices* whose nodes are ranges, hits or
mismatches (`IsChoiceTree`: a range is not empty, as `RegisterDecision()`
asserts, and each of its choices leads on). A *world* is one such tree for every solution and agent, with the
set of links that subordinate engines accept. Iterators are numbers `0..n`.
`Compare` picks a world, so that the conjectures, which belong to the plan,
meet different trees in succession with whatever the search before left in
them. Conjectures have one agent each, as everywhere in the production code.

### 2.4 `SCREngine`

The first half computes the plan of each engine of a pattern, as
`CategoriseAgents()`, `CreateMyEngines()` and stage three do: which links an
engine sees, which it counts as its own (`MyPlinks`), which are surrounding
for its embedded engines (`SurroundingPlinks`), which embedded patterns it
runs in which order, which links key an agent, and which engines it lies
within. That the engines form a tree (`PlanIsTree`) is assumed of `Patterns`;
TLC evaluates it. The second half is the run: a
stack of calls of `RepeatingCompareReplace()`, the shared
`universal_assignments` (its keys), `stop_after` and `depth` per engine.
Whether a compare hits is left open. A failed `ASSERT` is the outcome
`"aborted"`. Only the last return is remembered (`returned`), for
`StopsAtCount`. `WalkVisible()` meets every conjunct of a conjunction on the
replace path whereas a layout has the first one only; no pattern instantiated
here has one, nor keyers inside a disjunction.

### 2.5 `TreeZones` and `TreeUpdate`

A memory `m` has the label and the slots of each node, what each slot points
to (`at`), the type of each tree, and the nodes that have been freed. A slot
is named by a node and a number, a tree's root slot by `<<0, ordinal>>`, so a
slot keeps its identity when its content is swapped, as a `TreePtr` in memory
does. `CompareHierarchical`, in `DepthFirst`, is the loop of
`DepthFirstRelation`; the operators of `TreeZones` are the zone operations,
each with its ASSERTs (`ValidZone`, `SwapAsserts`).

A layout is a tree of patches in *cells* (`shared_ptr<Patch> &` in the code: a
pass that replaces a patch writes to a cell). `Passes` is the list that
`TreeUpdater` runs through; the visits of a pass, in depth-first order, are
one step each, with what is left in `todo`, or in `stack` for the passes that
recurse. `job` remembers the layout as it was given and `lost` the originators
that a pass has dropped: `Denotes` reads off the tree a layout stands for, and
`BuildsWantedTree` and `AssignmentsRight` compare that with the main tree
afterwards. A failed ASSERT, or a use of something freed, ends the update with
a `fault`. Five kinds are known (section 6); `OnlyKnownFaults` says that there
are no others.

### 2.6 `XTreeTables`

State: the memory, the domain, link rows, node rows, and the orderings. An
ordering is its elements (`has`) and the pairs of them of which one comes
before the other in the `std::set` (`before`); of the category ordering only
the elements are kept: `Lacing` orders it. Inserting adds the pairs that the
relation gives at that time for the new elements (`Inserted`), erasing takes
those of the old ones away (`Erased`); the pairs of elements that stay are
never looked at again, as a `std::set` never moves them. `BuildTree`,
`TeardownTree` and `SwapTreeToTree` put the tables to be taken into `todo`;
there is one action per table and direction, so the tables are seen between
any two of them, where one relies on another. A `std::set` may be used only
while its elements are in order by its relation, *as that relation is at the
time*: `DFOUsable` and `SCUsable` compare `before` with what the relation says
now, and using the ordering otherwise is a `fault`, like a failed ASSERT of `InsertSolo()` or `EraseSolo()`. Leaves, and no other
nodes, may be shared between parents and trees (the code's rule #217): they
are the `Identifiers`, there from the start, and a free zone that is built
into a tree is one of the `Shapes`, whose nodes are numbers that `Place` maps
to identifiers and new nodes (`Grow`).

### 2.7 `Lacing`

`FixupCategories`, the three loops of `Sort()` (`SwapBlocks`, `LeaveBlocks`,
`SortAgain`), `BuildRanges`, `BuildDecisionTree` and `TestDecisionTree` are
the steps of `Build()`. A node of the decision tree is the set of ordinals
still possible there. `OrdinalCompare()` goes down the tree on both sides in
turn and stops early (`StartCompare`, `AdvanceLeft`, `AdvanceRight`,
`ReturnDiff`); `GetOrdinalForNode`, one call that goes all the way down, is
what it should agree with. The recursion of `MakeDecisionSubtree()` and of
that walk, the loop of `BuildRanges()` and the sum of the metrics are recursive
functions (`NodesBelow`, `OrdinalFrom`, `RangesAfter`, `TotalMetric`).
`Selected(c)` is what a search for category `c` finds by `lower_bound()` on the
ranges.

## 3. Runs

| Run | Instance | Shows |
|---|---|---|
| `csp_backjumping` | 7 plans with up to 4 variables and 3 constraints, 2 values, every satisfaction relation | the invariant of the search loop, soundness, completeness, no repeats, that the solver implements `SolverSpec`, and that every run ends |
| `de_tame` (`MCTameExtension`) | 6 addresses, 2 channels, extra trees that stimulate later channels only | the store of trees agrees with the channels, the channels' maps agree, nothing dangles, extra trees have one owner, values are known when a search begins |
| `de_nested`, `de_refused` (violations) | extenders that stimulate their own channel, or that give no value at first; 6 or 7 addresses | section 6 |
| `are_worlds` | two agents, two solutions, two decisions, every small tree of choices, again and again | the invariant of regeneration, iterators valid, every combination tried once and in order, matches and mismatches are what they say, the call ends |
| `scr_tame` (`MCTameEngine`) | three patterns with three engines, 10 settings of the stop counts, 4 of the limit | the invariant of the stack of calls, balance of the shared map, keys present, stop counts, termination |
| `scr_coupled` (violation) | a pattern nested two deep | section 6 |
| `tu_layouts` | 2429 updates: up to three children of a new root, any two zones one over the other on a chain, stars, origins below the root, one or two zones of an extra tree, apart or overlapping | the tree and the assignments come out as the layout asks, or the update ends in a known fault; nodes survive; no tree of the update is left and only scaffold is freed; extra trees are as they were, unless zones of the layout overlap in one; each pass hands the next what it needs; the kept zones are a longest run; the relation is a depth-first order; every step leaves less to do |
| `tu_origin` (violation) | a layout that is one zone below the origin | section 6 |
| `tables` | up to two trees that share a leaf, every two zones with up to two terminii, up to two swaps | no table is asked for what it lacks, no ordering is used out of order, and all agree with the trees after each operation |
| `lac_orders` | every partial order of up to four categories up to renaming, archetypes at any addresses, some doubled, node types under any set of categories | no ASSERT fails and no category is lost, the part of the invariant of section 4 about sorting and the tree, ranges select exactly, comparison agrees with ordinals, sorting and comparing end |
| `lac_diamond` (violation) | a type under two unrelated categories | section 6 |

**Why the bounds suffice.** For the solver, a backjump that skips a variable
needs three variables, and two independent pairs need four; two values give
success and failure at every variable. For the domain extension two updates in
a behaviour let a dependency be made, broken and made again; six addresses let
a tree be torn down and its addresses used again, and `Heap` gives low or high
addresses, on either side of an iterator. For the and-rule engine a second
decision whose range depends on the first is the smallest case in which an
iterator can outlive its range; size 0, 1 and 2, inclusive or not, are the
edges of a range. For the SCR engine three engines are nested side by side and
inside one another, and a limit of up to 3 lets counts lie below, at and
beyond it. For tree update, three zones side by side are the first of which
one can be out of order while the others keep theirs, and two zones on one
chain can meet in every way: equal, nested, overlapping, touching, apart. For
the tables, the second swap meets what the first has left, and a shared leaf
in both trees is the case in which counting links is not counting nodes. For
lacing, four categories give blocks of one and of two, the latter touching
each other and both ends at once. The bounds are the constants `MaxInner`,
`MaxBuilt`, `Reserve`, `Heap` (`DomainExtension`), `MaxBuilt`, `MaxSwaps`,
`MaxTerminii` (`XTreeTables`), `N` (`MCLacing`). Each passing property
has in `PROJECT.json` a mutant of a modelled definition that breaks it.

**Fairness.** Only weak fairness of the steps of a call that is already
running (`Search`, `Running`, `Step`, and `Build` and `Compare` of `Lacing`):
there is one thread and none of these calls waits for anything. No fairness is
assumed of clients beginning a call. `DomainExtension`, `XTreeTables` and
`TreeUpdate` state no fairness; that an update ends follows from
`WorkRunsOut`, a measure that each step of a pass makes smaller, and from the
deadlock check.

**Deadlock** is checked in all runs; `SCREngine` and `TreeUpdate` may stutter
once they have ended, `XTreeTables` once the database is destroyed.

## 4. Proofs

Each theorem holds for every value of the constants that satisfies the named
`ASSUME`s. Each inductive invariant is also an invariant of a run, but for
parts of that of `Lacing` (4.5) and for the two of `XTreeTables`, which speak
of all subsets of the slots (4.6).

### 4.1 The solver (`CSPSolver_proofs`)

For every set of plans that satisfies `PlansAssumption` (every free variable
is in the scope of a constraint, which `DeduceVariables()` asserts), every set
of values and both solvers:

- `TypeCorrect`, `SearchInvariantHolds` (`SearchInvariant`), `Soundness`
  (`OnlySolutions`), `Completeness` (`Exhaustive`), `RejectionSafe`
  (`RejectedIsExhausted`), `NoRepeat` (`ReportedOnce`);
- `KeepsPromise`: the solver implements `SolverSpec`, with `goal` mapped to
  the solutions of the current problem.

*The argument.* That nothing is missed is not inductive by itself. The
invariant `IInv` adds `NoSolutionLost`: during a search every solution has
been reported or is *pending*, that is, some level up to the current one can
still offer the solution's value while all levels before it hold theirs from
the solution. Stepping back one level keeps this, as an empty selector has
nothing pending. A backjump keeps it only because the levels skipped could not
have helped: `RefusedForCause` says that while a variable has had no success,
each value its selector lacks is refused by a constraint on that variable and
earlier ones, and `DeadEnd` concludes that no solution agrees with the
assignments of the possibly conflicted variables; `NothingSkipped` that a
solution pending at a skipped level would have to. `FreshHasNoConflict` shows
that the test of `conflicted_count` never decides by itself.
`NoSolutionRepeats` and `LowerLevelsSucceeded` give `NoRepeat`. `StackShape`
is what the `.at()` and `EraseSolo()` calls rely on. There is one lemma per
action; `csp_backjumping` checks the same invariant with TLC. As both solvers
are covered, TLC runs the backjumping one only.

### 4.2 The domain extension (`DomainExtension_proofs`, `Extenders_proofs`)

For any number of links, kinds and channels, any heap and *any* extenders:

- `StoreKept` (`StoreInvariant`), `MapsStayInSynch` (`MapsInSynch`) and
  `NothingEverDangles` (`NothingDangles`).
- `TreesLostOnlyBehind` (`LostOnlyBehind`): the database loses an extra tree,
  so that nobody will tear it down, in one way only. Tearing down a tree at the
  end of a step drops the last stimulus of a class of the same channel, whose
  tree has an ordinal that the iterator has passed.
- `ValuesStayCurrent` (`ValuesCurrent`): what is recorded of a stimulus is what
  its extender made of links that are all still there, unchanged, and would be
  read again; a link that would be read besides was added later.

Under `InducedStays` (an extender that has found a value finds it again,
whatever kinds of links are added), which TLC evaluates for the extenders of
all three runs:

- `RecordedNeverStale` (`RecordedCurrent`): the recorded value of a stimulus is
  the one that the extender would give now. So of the two ways in which a
  search could be given a wrong extension only one is left, that nothing is
  recorded, and both violation runs show that one.

*The argument.* The maps of a channel are in synch only while the trees they
name are alive, and a tree stays alive only while the maps say who owns it, so
`DatabaseInvariant` has both, with what ties them (`StoreInvariant`): an
ordinal in the queue of free ones has no tree and is there once
(`OrdinalsKept`), the main tree stays, place-holders and the trees of an
update are unknown to the channels (`ScaffoldUntracked`), a link that waits
for its recheck is not recorded (`WaitingUnknown`), and no two classes or
tear-down sets share a tree (`OwnersApart`). The last is what keeps a deferred
teardown from freeing a tree that a class still names. The operations that
re-enter the code (a teardown inside the loop at the end of a step, a build
inside the loop at the end of an update) are the ones for which each conjunct
needs the others. For `TreesLostOnlyBehind` and `ValuesStayCurrent` each step
is sorted by what it does to the channels: most leave or only drop records
(`ExtrasSame`, `HeldSame`), and only `TeardownExtension` has a tree whose owner
changes while its set is iterated over.

None of this excludes extenders that extend their own trees or refuse a value
at first, as `TypeOf` does. That a search always *finds* the extension it asks
for (`ExtensionsKnown`), and that no tree is lost at all
(`ExtraTreeHasOneOwner`), hold only without such extenders and are checked by
TLC for the ones of `MCTameExtension`. In the instance of `de_nested` a tree
does get lost behind the iterator, so `TreesLostOnlyBehind` does not hold for
want of a case.

### 4.3 The and-rule engine (`AndRuleEngine_proofs`)

For any number of agents, decisions and solutions, and any trees of choices:
`RegenerationInvariantHolds`, `IteratorsStayValid` (`IteratorsValid`),
`MatchesAreReal` (`MatchIsReal`), `MismatchesAreReal` (`MismatchIsReal`) and
`AllAreTried` (the action property `TriesAll`).

*The argument.* A conjecture keeps iterators into ranges that exist only while
the query that made them runs. `ChoicesFollow` says that the choices recorded
lead down the tree of choices of the *current* solution by the ranges
recorded, so an iterator is compared with the range it came from;
`TriedSoFar` that the combinations tried are exactly the leaves before the
present position, in lexicographic order. Both must be re-established when
`Increment()` drops the last decisions and advances the one before, for which
`LeavesApart` shows that two leaves first differ at a choice both make.
`GivenUpForCause` carries the result from one solution to the next: a solution
is given up only if, for some agent, every leaf was tried and refused.
`SolverInStep` relates the solver, used through `SolverSpec`, to that.

### 4.4 The SCR engine (`SCREngine_proofs`)

For any patterns whose engines form a tree, and any stop counts and limits:

- `CallsAreNested`: the engines on the stack are exactly those around the last
  one in the plan, each called by the one below it. No condition is needed.
- `MapIsBalanced` (`Balanced`) under `LinksSeparate`: the links that an
  engine takes out of the shared map are assigned by no engine around it, and
  those that it assigns and leaves in are surely assigned by the engines
  around it.
- `CouplingsAlwaysKeyed` (`CouplingsKeyed`) if moreover `KeysAreSure`.
- `StopsAtItsCount` (`StopsAtCount`) under `RunsEachOnce`;
  `EngineInvariantHolds` (`EngineInvariant`) under all three.

*The argument.* `universal_assignments` is one map for all of the calls.
`MapLayered` cuts it into one layer per call on the stack: what was there when
the call's iteration began (`Base`) contains everything that the engines
around are sure to assign and nothing but what they may assign, and the call
has added only what it may. Then erasing `my_plinks` gives `Base` again.
`CountsPlaced` says where a stop count is: with the calls on the path, with
the engines that the last of them will still run, and with no other that can
yet be run; so a count that stays with an embedded engine after its call does
no harm. The pattern of `scr_coupled` breaks `LinksSeparate`, at the engine
nested two deep. `MCTameEngine` assumes the three conditions for TLC.

### 4.5 Lacing (`Lacing_proofs`)

For any hierarchy of types and any archetypes:

- `LacingInvariantHolds` (`LacingInvariant`) and `CompareIsRight`
  (`CompareAgrees`): comparing step by step, stopping as soon as the ranges
  known are apart, gives the sign of the difference of the two ordinals.
- `RangesAreExact` (`RangesExact`): the ranges of a category select exactly
  the nodes of it, for nodes with a lowest category above them.
- `TreeIsAlwaysBuilt` (`TreeIsBuilt`): building the decision tree always finds
  a category that splits what is left, and the tested tree gives back every
  category's own ordinal.
- `BuildNeverAborts` (`NeverAborts`): no ASSERT on the way fails, and
  `SwapsAlwaysGain`: every swap that `Sort()` makes lowers the total metric.

The one assumption is `ProblemsAssumption`: every type is a kind of itself,
none is the null archetype, and there are fewer archetypes than an `int`
counts. That inheritance is transitive is not needed.

*The argument.* After `FixupCategories` no two categories are equivalent
(`Categorised`), so for any two one is outside what the other stands for
(`ToldApart`). Hence two ordinals are always told apart by some category,
`BestCat` finds one, and both halves are smaller: `TreeSplits` says that the
set of nodes made is closed under going to either side. Every walk therefore
ends at a leaf, among the ordinals of every place it passes (`WalkIn`, by
the number of ordinals left); two nodes that answer every question alike end
at one leaf (`WalkSame`), and one that answers as the sets of ordinals do for
`i` ends at `i` (`WalkHome`). `Comparing` says of both sides that the
bounds known contain the ordinal and that the place reached is on the way to
it; then bounds that are apart compare as the ordinals do. A category's own
node goes home to its own ordinal, as each question asked on the way is one
about the category itself (what `TestDecisionTree` asserts). Before that,
`Laced` and `BlocksInside` say that each swap of two blocks permutes the
order. `RangesRight` is the loop invariant of `BuildRanges`: the list made
after some turns covers the ordinals passed that are under the category, and
is open exactly while the loop is within a block. For a node whose lowest
category is `c`, the walk asks the same questions as for `c` itself, so its
ordinal is that of `c`, and `RangesRight` decides. The recursive functions are
reasoned about with the least argument at which a claim would fail, as
induction theorems take an operator.

That `Sort()` gains by a swap what its formula says is an argument about sums
over all joints. `SumsOf` are the partial sums of the metrics along an order.
What a swap moves is described by `Moved`, where each place of the new order
comes from: within a stretch before, between, inside or after the blocks the
order is a shifted copy of the old one, so the partial sums grow alike
(`SameStretch`, `SameSums`), and only the joints at the ends of the blocks
contribute to the difference (`SwapGains`). At the ends of the order, where
the code leaves joints out, the metrics are 0. `Settled` is the rest of the
second invariant: no phase but the regular ones is reached, with the parts of
the state that each phase has.

`lac_orders` checks `Categorised`, `Laced`, `BlocksInside` and `TreeSplits`
within `NeverAborts`; `Ranged` and `Comparing` compute the ranges and both
walks again in every state, which is too slow there, and rest on the proof.

### 4.6 The tables and the trees (`TreeZones_proofs`, `XTreeTables_proofs`)

For any identifiers, shapes and number of terminii, and any number of builds,
teardowns and swaps:

- `TablesAlwaysMatch` (`TablesMatchTrees`): after every operation the domain,
  the link table and the node table are what building them from the trees
  would give.
- `OperationsNeverFault` (`NeverFaults`): between operations and within them,
  no ASSERT fails (what is inserted is not there, what is deleted is, rows that
  are read are there), and no ordering is used while its elements are out of
  order by its relation.
- `OrderingsAlwaysMatch` (`OrderingsMatchTrees`): after every operation the
  depth first ordering is all the links in the order of their paths, the simple
  compare and category orderings are all the nodes, and both relations order
  any two elements, transitively.

The assumption is `ShapesAssumption`: a shape is a tree of new nodes over
shared leaves.

*The argument about trees.* A memory is `Wooded` if the child pointers that it
has below each slot make a forest: every slot that is not a root is below
exactly one node, and everything is reached from the roots. `Reach` is the
least set closed under going down, so neither recursion nor paths are needed;
a walk of a whole tree, which is a recursive function, is shown to be that set
(`WalkIsReach`). A swap exchanges what two bases lead to and what the terminii
lead to, pair by pair. `ExchangeKeepsReach` shows that a slot is still reached:
if a set is closed under going down afterwards, then a set made from it, by
putting back the interiors of the two zones, is closed before. With that
`SwapKeepsWood` says that the trees are trees again and have the same slots,
for any two zones of different trees with any number of terminii.

*The argument about tables.* The invariant `IInv` says what the tables are at
every stage of an operation by the steps that are still to do (`Stage`, with
`Building`, `TearingDown` and `Swapping`): a table that has been taken out
lacks exactly the links of the operation, one that has not is complete. In the
middle of a swap, after the trees have changed, the rows that were not
suspended must be right for the *new* trees: those within the zones and
outside are, as a row depends on the parent and the place in it, and only the
contents of the boundary slots have changed. `RowPutBack` shows that the rows
put back are those of the slots they are put back for: the terminii have gone
from one zone to the other, and with them `info` must be read crosswise.
With `IInv` alone only a step on an ordering could be in fault.

*The argument about orderings.* A second invariant, `OInv`, rests on the first.
It says that no fault was met and what the orderings are by the steps still to
do: everything the trees have (`AllOrdered`), all but what only the tree that
is built or torn down has (`TreeOut`), or, while a swap has its elements out,
all links but those inside the two zones and all nodes but those above their
boundaries (`ZonesOut`); and in each case the pairs are those of the relations
in the trees *as they are now*. What it needs:

- The relations are used only while all tables are in place (`FullTables`, by
  `IInv`): then the paths and ancestors that `TablePath` and `Ancestors` read
  from the tables are those of the trees (`TablePathIs`, `AncestorsAre`).
- The order by paths is strict and total (`PathLessOneWay`, `PathLessTotal`,
  `PathLessTransitive`), and no two links have one path (`PathInjective`).
- A swap changes the paths of links that stay in the depth first ordering,
  those below the terminii, but not their order among each other and with the
  links around (`SwapKeepsOrder`): what is below the i-th terminus of one zone
  takes the place of what was below the i-th of the other, which was alike to
  everything outside both zones, and the terminii of a valid zone follow each
  other. This is why `SwapTransaction` may leave them in.
- The order by content is a recursion over pairs of nodes. `RecursionExists`
  shows once that such a recursion down the trees has a result, `CompareIs`
  that `SimpleCompare` is one; from that it is antisymmetric and transitive
  (`AnswersOpposite`, `AnswersFollow`), and with the addresses total
  (`SCLessOrders`). It is the same in two memories for nodes below which
  nothing differs (`SameAnswers`): that is every node but those from which a
  slot of a boundary can be reached, the ones that
  `GetTerminusAndBaseAncestors()` finds (`DisturbedAre`).
- The zones hold the same links together after the swap as before it
  (`InsideKept`) and the same nodes are above their boundaries
  (`SwapPointsAlike`), so what is put back is what was taken out.
- `DeleteActionSCAndCAT()`, by its count of links met, finds exactly the nodes
  that no other tree has (`LastReachedAre`).

`tables` checks all three properties on the instance; `IInv` and `OInv`
themselves speak of sets that TLC would have to search for among all subsets
of the slots.

### 4.7 Model-checked only

All liveness (`RunEnds`, `CompareEnds`, `TransformEnds`, `LacingEnds`), which
the prover cannot do. `TreeUpdate` uses recursive operators (its own, and
`Climb` of `DepthFirst`), which the prover does not take.

## 5. Not modelled, and why

- Agents' own queries and the symbolic expressions made from them are taken as
  arbitrary deterministic functions: what they compute is a large case
  analysis over syntax without state.
- Parsers, renderers, graphs, the C++ front end and the node library convert
  or hold data. The shipped steps are inputs. LLVM is third-party.
- Planning of and-rule engines and pattern transformation: pure functions of
  the pattern, run once. A replace-only link met twice in planning is listed
  as a hazard without a property.
- How replace layouts are made by the agents, and so which engine's assignment
  wins for a link that several engines reach (the hazard at
  `scr_engine.cpp:427`): `TreeUpdate` begins with the layout.
- In `TreeZones` ordinals of trees are never used again; `DomainExtension` has
  that. `DomainExtension` swaps zones of the main tree and of update trees
  only; that a zone of an extra tree is copied first fails for overlapping ones
  (section 6). All children of a node are in one sequence, so swaps inside
  unordered collections are left out. A container left on its own below a tree
  patch ends the update with fault `"wide"`, as in `mutator.cpp:108`, and one
  that leaves no single link to assign as in `merge_passes.cpp:51`; every
  terminus of a free zone is in a sequence, so the test of
  `merge_passes.cpp:37` holds.
  Leaves are shared in `XTreeTables` only.
- In `XTreeTables` the search inside a `std::set` is abstracted to whether it
  may be used; a link row's pointers to its neighbours in a container follow
  from its place; the minimax nodes of simple compare, which searches put into
  comparisons, are left out. `TreeZoneRelation` has no caller in the passes.
- The cache of subcategory tests in `Lacing`: what it caches never changes.
- The order of stages, command line and progress options.

## 6. What disagrees with the code's own words

With a run, quoted in the findings of `PROJECT.json`:

1. **`de_nested`**: rechecking a stimulus builds trees whose links enter the
   recheck set behind the iterator, and the set is then cleared; they are
   unknown to the search that follows. The same happens to links for a channel
   that is already done (`domain_extension.cpp:54`).
2. **`de_refused`**: an extender that gives no value leaves no dependency, so
   nothing is rechecked when what it had read changes.
3. **`scr_coupled`**: an engine nested two deep counts as its own a link that
   belongs to the middle engine, if that link leads to an agent of the root
   pattern and starts at an agent it is coupled to; the balance `ASSERT` fails.
4. **`tu_origin`**: "everything we need to invert is in a free patch"
   (`tree_update.cpp:169-170`) is not so if the layout as a whole is a zone
   below the origin: the update changes nothing.
5. **`lac_diamond`**: the ranges of a category are not always all "the
   possible values of lacing ordinal that will match" it (`lacing.hpp`).

Observed while modelling, without a run of their own:

- A comment and a test take what is given to the rejection function for a
  no-good set; it is not, once solutions were reported for extensions of it.
  `RejectedIsExhausted` is what holds, and is proved.
- A tree torn down at the end of a step may put another ordinal behind the
  iterator; that tree is never torn down (`domain_extension.cpp:356-358`).
- The known faults of `TreeUpdate`: *gap*, `FreeZone::CreateEmpty()` cannot be
  called without a failed ASSERT (`gap_finding_pass.cpp:47`,
  `free_zone.cpp:42`); *empty*, nothing can be inserted right above a zone
  that stays (`mutable_zone.cpp:44`); *freed*, an assignment is read from a
  layout that names a freed scaffold (`tree_update.cpp:190`); *stale*, the
  queue of `BoundaryPass` holds the address of an element that a split has
  freed (`boundary_pass.cpp:166`); *wide*, a container is to go where one node
  is (`mutator.cpp:108`, `merge_passes.cpp:51`). A split also drops originators.
- Zones of domain extension trees "must be protected from move operations"
  (`misc_passes.hpp:17-18`; "Indicate we won't be moving it",
  `misc_passes.cpp:30`). When two of them overlap, `BoundaryPass` splits one
  (`boundary_pass.cpp:209`), its parts are no longer marked, and `MoveOutPass`
  takes them from the extra tree and leaves scaffold there. Every update over
  overlapping zones of an extra tree that `tu_layouts` completes does so;
  `ExtensionTreesKept` says that nothing else changes such a tree.
- The reference that the database's self-test builds has all of
  `trees_by_ordinal`, also the trees torn down whose freeing is deferred
  (`x_tree_database.cpp:93-99`, `345-380`).
- `Sort()` of the lacing finds a local optimum: with six categories, one that
  could have a single range may be left with two.
- `RepeatingCompareReplace()` "Returns how many hits we got", says its
  comment; after a mismatch (`scr_engine.cpp:499`) it returns one more. Its
  callers discard the value.

## 7. Plan

1. *(done)* `SolverSpec`, `CSPSolver`, the proofs; `DomainExtension`;
   `AndRuleEngine`; `SCREngine`.
2. *(done)* `TreeZones`, `TreeUpdate`; `XTreeTables`; `Lacing`.
3. *(done)* Proofs of the invariants and action properties of
   `DomainExtension`, `AndRuleEngine` and `SCREngine`, with the conditions on
   extenders and plans under which some of them hold.
4. `PatternPlan`: keyers, residuals, boundary and disjunction regions over
   enumerated patterns, with the hazard of replace-only links met twice.
5. `Stages`: the order of stages and steps, progress and stop options.
6. *(done)* Proofs about `Lacing`, the gain of a swap as a sum included.
7. *(done)* Proofs about the zone swap of `TreeZones` and the tables and
   orderings of `XTreeTables`.
