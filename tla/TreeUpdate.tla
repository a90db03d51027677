----------------------------- MODULE TreeUpdate -----------------------------
(****************************************************************************)
(* TreeUpdater: how the layout an engine's replace pattern produced becomes *)
(* the new content of the main tree (vn/up). A layout is a tree of patches; *)
(* a tree patch is a zone that exists in the database already, a free patch *)
(* is new content. UpdateMainTree() runs a fixed list of passes over it:    *)
(* the analysis passes decide which zones can stay where they are and which *)
(* are moved or copied; the others carry that out, with a few swaps of a    *)
(* zone of the main tree against a zone of a temporary tree.                *)
(*                                                                          *)
(* A failing ASSERT ends the program; fault names what was met.             *)
(****************************************************************************)
EXTENDS DepthFirst

CONSTANT
  Updates  \* the updates asked for: memory, layout, origin and mode of each

VARIABLES
  mem,     \* the database's trees and the free nodes (TreeZones)
  patch,   \* the layout: patch[c] is what the shared_ptr cell c refers to
  pass,    \* the pass that is running
  todo,    \* the cells it has still to visit, in order
  stack,   \* what a recursive pass has still to do: [recs, base, ready]
  inOrder, \* OrderingPass::in_order_bases
  moves,   \* MovesMap: "to" scaffold node -> the moved zone, its originators
  extras,  \* ordinals_to_tear_down of MoveInPass
  assign,  \* ReplaceAssignments: originator -> slot
  fault,   \* "" or what ended the program
  job,     \* the update that was asked for (never changes)
  lost     \* history: originators whose patch a pass discarded with them

vars == <<mem, patch, pass, todo, stack, inOrder, moves, extras, assign, fault, job, lost>>

MainRoot == <<0, 1>>
Root == 1      \* the cell that holds the layout
NoSlot == <<0, 0>>

Passes == IF job.mode = "build"
          THEN <<"start", "copy", "merge", "done">>
          ELSE <<"start", "ordinals", "wide", "protect", "empty", "boundary", "ordering",
                 "choose", "gaps", "copy", "out", "merge", "invert", "in", "assign", "done">>

Ended == pass \in {"done", "aborted"}

\* Patch::ForDepthFirstWalk(), wind-out.
RECURSIVE Postorder(_, _)
Postorder(ps, c) ==
  Append(FlattenSeq([i \in DOMAIN ps[c].kids |-> Postorder(ps, ps[c].kids[i])]), c)

IsTree(ps, c) == ps[c].kind = "tree"

TreeCells(ps) == SelectSeq(Postorder(ps, Root), LAMBDA c : IsTree(ps, c))

TreeCellSet == ToSet(TreeCells(patch))

BaseOf(c) == patch[c].base

\* The tree patches next below cell c that nobody has marked yet, passing
\* through everything else: OrderingPass::AppendNextDescendantTreePatches().
RECURSIVE NextDefaults(_, _)
NextDefaults(ps, c) ==
  IF IsTree(ps, c) /\ ps[c].intent = "DEFAULT" THEN <<c>>
  ELSE FlattenSeq([i \in DOMAIN ps[c].kids |-> NextDefaults(ps, ps[c].kids[i])])

Frame(recs, base, ready) == [recs |-> recs, base |-> base, ready |-> ready]

\* A tree patch and a free patch as the agents and the passes make them.
TreePatch(z, kids, orig) ==
  [kind |-> "tree", base |-> z.base, term |-> z.term, ord |-> z.ord, node |-> Null,
   kids |-> kids, intent |-> "DEFAULT", orig |-> orig]

FreePatch(n, term, kids, orig) ==
  [kind |-> "free", base |-> NoSlot, term |-> term, ord |-> 0, node |-> n,
   kids |-> kids, intent |-> "DEFAULT", orig |-> orig]

-----------------------------------------------------------------------------
(* What the layout means, independently of the passes: the tree it denotes, *)
(* which originators belong at which node of it, and which nodes of the     *)
(* main tree it names.                                                      *)

\* The tree at slot s as nested <<label, originators, subtrees>>, with what
\* below gives instead of what is under a terminus. The result is a sequence
\* because a bare container denotes its elements.
RECURSIVE Reading(_, _, _, _)
Reading(m, s, below, marks) ==
  IF s \in DOMAIN below THEN below[s]
  ELSE LET n == m.at[s] IN
       << <<m.label[n], {o \in DOMAIN marks : marks[o] = s},
            FlattenSeq([i \in DOMAIN m.slots[n] |-> Reading(m, m.slots[n][i], below, marks)])>> >>

Marked(trees, orig) == [trees EXCEPT ![1][2] = @ \cup orig]

\* The tree that patch c asks for, with the originators except those left out.
RECURSIVE Denotes(_, _, _, _)
Denotes(m, ps, c, leftOut) ==
  LET p == ps[c]
      below == [s \in ToSet(p.term) |-> Denotes(m, ps, p.kids[Position(s, p.term)], leftOut)]
      inside == FlattenSeq([i \in DOMAIN m.slots[p.node] |->
                              Reading(m, m.slots[p.node][i], below, <<>>)])
  IN IF p.kind = "free" /\ m.label[p.node] = Container THEN inside
     ELSE Marked(IF p.kind = "tree" THEN Reading(m, p.base, below, <<>>)
                 ELSE << <<m.label[p.node], {}, inside>> >>,
                 p.orig \ leftOut)

\* The nodes of the main tree that the layout keeps.
Kept(m, ps) ==
  UNION {IF Path(m, ps[c].base)[1] = 1
         THEN ToSet(NodesFrom(m, ps[c].base, ToSet(ps[c].term))) ELSE {}
         : c \in ToSet(TreeCells(ps))}

-----------------------------------------------------------------------------
(* Starting, and going from one pass to the next. *)

Init ==
  /\ job \in Updates
  /\ mem = job.mem /\ patch = job.patch
  /\ pass = "start" /\ todo = <<>> /\ stack = <<>>
  /\ inOrder = {} /\ moves = <<>> /\ extras = {} /\ assign = <<>>
  /\ fault = "" /\ lost = {}

Idle == todo = <<>> /\ stack = <<>> /\ extras = {} /\ (pass = "in" => DOMAIN moves = {})

Abort(why) ==
  /\ fault' = why /\ pass' = "aborted"
  /\ UNCHANGED <<mem, patch, todo, stack, inOrder, moves, extras, assign, job, lost>>

BeginPass ==
  /\ ~Ended /\ Idle
  /\ LET next == Passes[Position(pass, Passes) + 1] IN
     /\ pass' = next
     /\ todo' = CASE next \in {"ordering", "invert", "in", "done"} -> <<>>
                  [] next = "boundary" -> TreeCells(patch)
                  [] OTHER -> Postorder(patch, Root)
     /\ stack' = CASE next = "ordering" -> <<Frame(NextDefaults(patch, Root), MainRoot, FALSE)>>
                   [] next = "invert" -> <<Frame(<<Root>>, job.origin, FALSE)>>
                   [] OTHER -> <<>>
  /\ UNCHANGED <<mem, patch, inOrder, moves, extras, assign, fault, job, lost>>

\* A pass that only annotates the patches it visits.
Annotate(P, ps) ==
  /\ pass = P /\ todo # <<>>
  /\ patch' = ps /\ todo' = <<>>
  /\ UNCHANGED <<mem, pass, stack, inOrder, moves, extras, assign, fault, job, lost>>

-----------------------------------------------------------------------------
(* Analysis: what is to stay, to move, to be copied. *)

SetTreeOrdinals ==
  Annotate("ordinals",
    [c \in DOMAIN patch |-> IF IsTree(patch, c)
                            THEN [patch[c] EXCEPT !.ord = Path(mem, BaseOf(c))[1]] ELSE patch[c]])

\* Mutant of ProtectDE: no zone is protected.
NoneProtected == Annotate("protect", patch)

ProtectDE ==
  Annotate("protect",
    [c \in DOMAIN patch |-> IF IsTree(patch, c) /\ mem.type[patch[c].ord] = "DE"
                            THEN [patch[c] EXCEPT !.intent = "COPYABLE"] ELSE patch[c]])

\* An empty tree zone is dropped: its only child takes over its cell and its
\* originators.
DropEmptyZone(c) ==
  IF IsTree(patch, c) /\ IsEmptyZone(patch[c])
  THEN [patch[patch[c].kids[1]] EXCEPT !.orig = @ \cup patch[c].orig]
  ELSE patch[c]

EmptyZone ==
  /\ pass = "empty" /\ todo # <<>>
  /\ patch' = [patch EXCEPT ![Head(todo)] = DropEmptyZone(Head(todo))]
  /\ todo' = Tail(todo)
  /\ UNCHANGED <<mem, pass, stack, inOrder, moves, extras, assign, fault, job, lost>>

\* BoundaryPass. GatherBoundaries(); splitting a zone at a boundary adds none.
Boundaries == UNION {{patch[c].base} \cup ToSet(patch[c].term) : c \in TreeCellSet}

\* The boundaries in the interior of zone z: after its base and outside what
\* is at or below a terminus.
BoundariesInside(z) ==
  LET k == Len(z.term)
      lower(i) == IF i = 1 THEN z.base ELSE LastDescendant(mem, z.term[i-1])
      upper == LastDescendant(mem, z.base)
  IN {b \in Boundaries : \E i \in 1..(k+1) :
        /\ Before(mem, lower(i), b)
        /\ IF i <= k THEN Before(mem, b, z.term[i]) ELSE b = upper \/ Before(mem, b, upper)}

FirstInside(z) ==
  CHOOSE b \in BoundariesInside(z) : \A d \in BoundariesInside(z) : d = b \/ Before(mem, b, d)

\* SplitTreeZoneAtXLink(): cell c now holds the part above the split, which
\* has the part below as a child. The children are copied into new lists: a
\* pointer to one of the old cells is left dangling. Neither part inherits the
\* intent or the originators.
SplitZone(c, split) ==
  LET p == patch[c]
      k == Len(patch)
      copies == [i \in DOMAIN p.kids |-> patch[p.kids[i]]]
      is == [i \in DOMAIN p.kids |-> i]
      under == SelectSeq(is, LAMBDA i : IsAncestor(mem, split, p.term[i]))
      above == SelectSeq(is, LAMBDA i : ~IsAncestor(mem, split, p.term[i])
                                         /\ Before(mem, p.term[i], split))
      after == SelectSeq(is, LAMBDA i : ~IsAncestor(mem, split, p.term[i])
                                         /\ Before(mem, split, p.term[i]))
      terms(sel) == [j \in DOMAIN sel |-> p.term[sel[j]]]
      cells(sel) == [j \in DOMAIN sel |-> k + sel[j]]
      new == k + Len(p.kids) + 1
      child == TreePatch([base |-> split, term |-> terms(under), ord |-> p.ord], cells(under), {})
      parent == TreePatch([base |-> p.base, ord |-> p.ord,
                           term |-> terms(above) \o <<split>> \o terms(after)],
                          cells(above) \o <<new>> \o cells(after), {})
  IN [patch EXCEPT ![c] = parent] \o copies \o <<child>>

\* The cells of the layout as it is now.
LiveCells == ToSet(Postorder(patch, Root))

\* Mutant of CheckZone: the zone is queued again whatever came of it.
CheckZoneAgain ==
  /\ pass = "boundary" /\ todo # <<>> /\ Head(todo) \in LiveCells
  /\ todo' = Append(Tail(todo), Head(todo))
  /\ UNCHANGED <<mem, patch, pass, stack, inOrder, moves, extras, assign, fault, job, lost>>

CheckZone ==
  /\ pass = "boundary" /\ todo # <<>>
  /\ LET c == Head(todo) IN
     /\ c \in LiveCells
     /\ IF BoundariesInside(patch[c]) = {}
        THEN /\ todo' = Tail(todo)
             /\ UNCHANGED <<patch, lost>>
        ELSE /\ patch' = SplitZone(c, FirstInside(patch[c]))
             /\ todo' = Tail(todo) \o <<c, Len(patch')>>
             /\ lost' = lost \cup patch[c].orig
  /\ UNCHANGED <<mem, pass, stack, inOrder, moves, extras, assign, fault, job>>

\* The queue can hold the address of a cell that a split has freed. Reading it
\* is undefined: either the program goes down, or the stale pointer is still
\* there and, if its patch needs no split, nothing comes of it.
CheckStaleCell ==
  /\ pass = "boundary" /\ todo # <<>>
  /\ Head(todo) \notin LiveCells
  /\ \/ Abort("stale")
     \/ /\ BoundariesInside(patch[Head(todo)]) = {}
        /\ todo' = Tail(todo)
        /\ UNCHANGED <<mem, patch, pass, stack, inOrder, moves, extras, assign, fault, job, lost>>

-----------------------------------------------------------------------------
(* OrderingPass: the tree patches that can be left where they are. *)

\* Mutant of InDepthFirstOrder: a zone may stay with another of the list below it.
InOrderAtAnyDepth(recs, base) ==
  SetToSortSeq({i \in DOMAIN recs :
                  /\ IsWeakAncestor(mem, base, BaseOf(recs[i])) /\ BaseOf(recs[i]) \notin inOrder
                  /\ \A j \in 1..(i-1) : BaseOf(recs[j]) # BaseOf(recs[i])},
               LAMBDA i, j : Before(mem, BaseOf(recs[i]), BaseOf(recs[j])))

\* The indices into recs that may stay, in depth-first order of their zones:
\* below the given base, not accepted elsewhere, the first of equals, and no
\* zone that has another one of the list below it.
InDepthFirstOrder(recs, base) ==
  LET ok == {i \in DOMAIN recs :
               /\ IsWeakAncestor(mem, base, BaseOf(recs[i]))
               /\ BaseOf(recs[i]) \notin inOrder}
      first == {i \in ok : \A j \in ok : BaseOf(recs[j]) = BaseOf(recs[i]) => i <= j}
      dfo == SetToSortSeq(first, LAMBDA i, j : Before(mem, BaseOf(recs[i]), BaseOf(recs[j])))
      hasBelow(k) == k < Len(dfo) /\ IsAncestor(mem, BaseOf(recs[dfo[k]]), BaseOf(recs[dfo[k+1]]))
      stays == SelectSeq([k \in DOMAIN dfo |-> k], LAMBDA k : ~hasBelow(k))
  IN [k \in DOMAIN stays |-> dfo[stays[k]]]

\* Mutant of LongestRun: every element that is larger than the last one taken.
FirstRun(x) ==
  FoldLeft(LAMBDA run, v : IF run = <<>> \/ v > Last(run) THEN Append(run, v) ELSE run, <<>>, x)

\* MaximalIncreasingSubsequence(): last[l] is where the run of length l with
\* the smallest end stops, prev[i] what comes before i in the best run that
\* ends at i (0: nothing). The binary search is for the place of x[i] in last.
LongestRun(x) ==
  LET step(acc, i) ==
        LET longer == {l \in DOMAIN acc.last : x[acc.last[l]] >= x[i]}
            place == IF longer = {} THEN Len(acc.last) + 1
                     ELSE CHOOSE l \in longer : \A h \in longer : l <= h
        IN [prev |-> Append(acc.prev, IF place = 1 THEN 0 ELSE acc.last[place - 1]),
            last |-> IF place > Len(acc.last) THEN Append(acc.last, i)
                     ELSE [acc.last EXCEPT ![place] = i]]
      found == FoldLeft(step, [prev |-> <<>>, last |-> <<>>], [i \in DOMAIN x |-> i])
      back[l \in DOMAIN found.last] ==   \* the l-th element of the run
        IF l = Len(found.last) THEN found.last[l] ELSE found.prev[back[l + 1]]
  IN [l \in DOMAIN found.last |-> x[back[l]]]

InOrderRecords(recs, base) == ToSet(LongestRun(InDepthFirstOrder(recs, base)))

\* One turn of the settling loop of ConstrainAnyPatchToDescendants(): what is
\* out of order is to be moved, and the patches next below it are tried
\* instead. When there are none, what is in order is accepted.
Settle ==
  /\ pass = "ordering" /\ stack # <<>> /\ ~Head(stack).ready
  /\ LET f == Head(stack)
         in == InOrderRecords(f.recs, f.base)
         out == {f.recs[i] : i \in DOMAIN f.recs \ in}
         marked == [c \in DOMAIN patch |->
                      IF c \in out THEN [patch[c] EXCEPT !.intent = "MOVEABLE"] ELSE patch[c]]
         instead(i) == IF i \in in THEN <<f.recs[i]>>
                       ELSE FlattenSeq([k \in DOMAIN patch[f.recs[i]].kids |->
                                          NextDefaults(patch, patch[f.recs[i]].kids[k])])
         more == \E i \in DOMAIN f.recs \ in : instead(i) # <<>>
         accepted == SelectSeq(f.recs, LAMBDA c : c \notin out)
     IN /\ patch' = marked
        /\ stack' = IF more
                    THEN <<Frame(FlattenSeq([i \in DOMAIN f.recs |-> instead(i)]), f.base, FALSE)>>
                           \o Tail(stack)
                    ELSE [i \in DOMAIN accepted |-> Frame(<<accepted[i]>>, f.base, TRUE)]
                           \o Tail(stack)
  /\ UNCHANGED <<mem, pass, todo, inOrder, moves, extras, assign, fault, job, lost>>

\* An accepted patch: its children are constrained to its terminii.
Accept ==
  /\ pass = "ordering" /\ stack # <<>> /\ Head(stack).ready
  /\ LET c == Head(stack).recs[1] IN
     IF BaseOf(c) \in inOrder THEN Abort("assert")   \* InsertSolo
     ELSE /\ inOrder' = inOrder \cup {BaseOf(c)}
          /\ stack' = [i \in DOMAIN patch[c].kids |->
                         Frame(NextDefaults(patch, patch[c].kids[i]), patch[c].term[i], FALSE)]
                      \o Tail(stack)
          /\ UNCHANGED <<mem, patch, pass, todo, moves, extras, assign, fault, job, lost>>

\* ChooseCopiesPass: of several patches with one zone only one is not a copy,
\* the one that can stay or else the last one in the walk.
WithIntent(what) == {c \in TreeCellSet : patch[c].intent = what}

LaterInWalk(c, d) == Position(c, TreeCells(patch)) < Position(d, TreeCells(patch))

\* Mutant of MustCopy: every patch whose zone is used twice is a copy.
MustCopyAll(c) ==
  /\ c \in WithIntent("MOVEABLE")
  /\ \E d \in TreeCellSet \ {c} : BaseOf(d) = BaseOf(c)

MustCopy(c) ==
  /\ c \in WithIntent("MOVEABLE")
  /\ \/ \E d \in WithIntent("DEFAULT") : BaseOf(d) = BaseOf(c)
     \/ \E d \in WithIntent("MOVEABLE") : BaseOf(d) = BaseOf(c) /\ LaterInWalk(c, d)

ChooseCopies ==
  IF \E c, d \in WithIntent("DEFAULT") : c # d /\ BaseOf(c) = BaseOf(d)
  THEN pass = "choose" /\ todo # <<>> /\ Abort("assert")   \* InsertSolo
  ELSE Annotate("choose",
         [c \in DOMAIN patch |-> IF MustCopy(c)
                                 THEN [patch[c] EXCEPT !.intent = "COPYABLE"] ELSE patch[c]])

\* GapFindingPass: zones that stay, one right below the other in the layout
\* but not in the tree. The empty free zone that should fill the gap cannot be
\* made: FreeZone::CreateEmpty() asks a null Mutator for its child.
HasGap(c) ==
  \E i \in DOMAIN patch[c].kids :
     LET d == patch[c].kids[i] IN
     {c, d} \subseteq WithIntent("DEFAULT") /\ BaseOf(d) # patch[c].term[i]

\* Mutant of GapFinding: gaps are left as they are.
GapIgnored == Annotate("gaps", patch)

GapFinding ==
  IF \E c \in WithIntent("DEFAULT") : HasGap(c)
  THEN pass = "gaps" /\ todo # <<>> /\ Abort("gap")
  ELSE Annotate("gaps", patch)

-----------------------------------------------------------------------------
(* Carrying it out. *)

Zone(p) == [base |-> p.base, term |-> p.term, ord |-> p.ord]

\* CopyingPass, and DuplicateAllPass when building: the zone is duplicated
\* into a free patch. The duplicate of an empty zone cannot be made.
Copy ==
  /\ pass = "copy" /\ todo # <<>>
  /\ LET c == Head(todo)
         p == patch[c]
         dup == Duplicate(mem, Zone(p))
     IN IF ~IsTree(patch, c) \/ (job.mode = "update" /\ p.intent # "COPYABLE")
        THEN /\ todo' = Tail(todo)
             /\ UNCHANGED <<mem, patch, pass, stack, inOrder, moves, extras, assign, fault, job, lost>>
        ELSE IF IsEmptyZone(p) THEN Abort("gap")
        ELSE /\ mem' = dup.m
             /\ patch' = [patch EXCEPT ![c] = FreePatch(dup.node, dup.term, p.kids, p.orig)]
             /\ todo' = Tail(todo)
             /\ UNCHANGED <<pass, stack, inOrder, moves, extras, assign, fault, job, lost>>

\* Mutant of Rebased: no fixups.
NotRebased(ps, cells, term, newTerm) == ps

\* The zones whose base is one of the slots term get the slot of the same
\* index in newTerm: what SwapTreeToTree() does with its fixups.
Rebased(ps, cells, term, newTerm) ==
  [c \in DOMAIN ps |-> IF c \in cells /\ ps[c].base \in ToSet(term)
                       THEN [ps[c] EXCEPT !.base = newTerm[Position(@, term)]] ELSE ps[c]]

\* MoveTreeZoneOut(): scaffold A in an extra tree is swapped against the zone;
\* the patch becomes a free one that holds scaffold B, and the map from B to
\* the zone remembers what B stands for.
MoveOut ==
  /\ pass = "out" /\ todo # <<>>
  /\ LET c == Head(todo)
         p == patch[c]
         k == Len(p.term)
         a == NewNode(mem, Scaffold, k)
         inA == a.slots[Len(a.label)]
         plugged == IntoExtraTree(a, Len(a.label), inA)
         extra == ExtraZone(plugged, inA)
         b == NewNode(Swap(plugged, p, extra), Scaffold, k)
         nodeB == Len(b.label)
         rebased == Rebased(patch, TreeCellSet, p.term, inA)
         layout == [rebased EXCEPT ![c] = FreePatch(nodeB, b.slots[nodeB], p.kids, {})]
         twice == \E d, e \in TreeCellSet : d # e /\ BaseOf(d) = BaseOf(e)
                                            /\ BaseOf(d) \in ToSet(p.term)
     IN IF ~IsTree(patch, c) \/ p.intent # "MOVEABLE"
        THEN /\ todo' = Tail(todo)
             /\ UNCHANGED <<mem, patch, pass, stack, inOrder, moves, extras, assign, fault, job, lost>>
        ELSE IF IsEmptyZone(p) \/ twice \/ ~SwapAsserts(plugged, p, extra)
                \/ \E d \in ToSet(TreeCells(layout)) : ~ValidZone(b, layout[d])
        THEN Abort("assert")
        ELSE /\ mem' = b
             /\ patch' = layout
             /\ moves' = moves @@ (nodeB :> [zone |-> [extra EXCEPT !.term = p.term],
                                             orig |-> p.orig])
             /\ todo' = Tail(todo)
             /\ UNCHANGED <<pass, stack, inOrder, extras, assign, fault, job, lost>>

\* The Policy() of MergeSubcontainerBasePass, which runs early, and of
\* MergeFreesPass: what a free patch takes in of a free child.
Policy(k) == pass = "wide" => mem.label[k.node] = Container

\* FreeZoneMergeImpl::Run() for the free patch c: the children that are free
\* and that the policy wants become part of it. A terminus of a free zone is a
\* place in a sequence, so that it can accept a container. The ASSERTs are on
\* assignments: a bare container leaves no single link to assign, whether or
\* not it has originators, and a link to scaffold is not assigned.
Merged(c) ==
  LET p == patch[c]
      join(acc, i) ==
        LET k == patch[p.kids[i]]
            j == MergeTerminus(acc.m, p.term[i], k)
        IN IF k.kind = "free" /\ Policy(k)
           THEN [m |-> j.m, term |-> acc.term \o j.term, kids |-> acc.kids \o k.kids,
                 got |-> acc.got @@ [o \in k.orig |-> p.term[i]],
                 gone |-> acc.gone \cup k.orig,
                 wide |-> acc.wide \/ mem.label[k.node] = Container,
                 bad |-> acc.bad \/ (k.orig # {} /\ mem.label[k.node] = Scaffold)]
           ELSE [acc EXCEPT !.term = Append(@, p.term[i]), !.kids = Append(@, p.kids[i])]
  IN FoldLeft(join, [m |-> mem, term |-> <<>>, kids |-> <<>>, got |-> assign, gone |-> {},
                     wide |-> FALSE, bad |-> FALSE], [i \in DOMAIN p.kids |-> i])

MergeStep(P, keep) ==
  /\ pass = P /\ todo # <<>>
  /\ LET c == Head(todo)
         j == Merged(c)
     IN IF IsTree(patch, c)
        THEN /\ todo' = Tail(todo)
             /\ UNCHANGED <<mem, patch, pass, stack, inOrder, moves, extras, assign, fault, job, lost>>
        ELSE IF keep /\ (j.wide \/ j.bad) THEN Abort(IF j.wide THEN "wide" ELSE "assert")
        ELSE /\ mem' = j.m
             /\ patch' = [patch EXCEPT ![c].term = j.term, ![c].kids = j.kids]
             /\ assign' = IF keep THEN j.got ELSE assign
             /\ lost' = IF keep THEN lost ELSE lost \cup j.gone
             /\ todo' = Tail(todo)
             /\ UNCHANGED <<pass, stack, inOrder, moves, extras, fault, job>>

\* MergeSubcontainerBasePass gives no assignments: a bare container has no
\* single place. MergeFreesPass does, except when building.
MergeWides == MergeStep("wide", FALSE)

MergeFrees == MergeStep("merge", job.mode = "update")

\* InversionPass::WalkLocatedPatches() at a tree patch: its terminii are the
\* places for the patches below.
Descend ==
  /\ pass = "invert" /\ stack # <<>> /\ IsTree(patch, Head(stack).recs[1])
  /\ LET p == patch[Head(stack).recs[1]] IN
     stack' = [i \in DOMAIN p.kids |-> Frame(<<p.kids[i]>>, p.term[i], FALSE)] \o Tail(stack)
  /\ UNCHANGED <<mem, patch, pass, todo, inOrder, moves, extras, assign, fault, job, lost>>

\* Mutant of DiscardOld: the nodes are freed at once.
DiscardAtOnce(m, t) == Teardown(m, t, FALSE)

\* The tree that now holds the old content leaves the tables; its nodes stay
\* allocated until the end of the step.
DiscardOld(m, t) == Teardown(m, t, TRUE)

\* Invert(): the free patch goes into the main tree between the place given by
\* what is above it and the bases of the zones below it. What was there is
\* swapped out into the extra tree and discarded with it. An empty inverted
\* zone (the patch goes in right above a zone that stays) trips an ASSERT, and
\* so does a bare container, which ExchangeChild() cannot put in one place.
Invert ==
  /\ pass = "invert" /\ stack # <<>> /\ ~IsTree(patch, Head(stack).recs[1])
  /\ LET c == Head(stack).recs[1]
         p == patch[c]
         main == [base |-> Head(stack).base, term |-> [i \in DOMAIN p.kids |-> BaseOf(p.kids[i])],
                  ord |-> 1]
         plugged == IntoExtraTree(mem, p.node, p.term)
         extra == ExtraZone(plugged, p.term)
         rebased == Rebased(patch, ToSet(p.kids), main.term, p.term)
     IN IF \/ main.base = NoSlot
           \/ \E i \in DOMAIN p.kids : ~IsTree(patch, p.kids[i])
           \/ ~IsEmptyZone(main) /\ ~SwapAsserts(plugged, main, extra)
        THEN Abort("assert")
        ELSE IF IsEmptyZone(main) THEN Abort("empty")
        ELSE IF mem.label[p.node] = Container THEN Abort("wide")
        ELSE /\ mem' = DiscardOld(Swap(plugged, main, extra), extra.ord)
             /\ patch' = [rebased EXCEPT ![c] =
                            TreePatch([main EXCEPT !.term = p.term], p.kids, p.orig)]
             /\ stack' = [i \in DOMAIN p.kids |-> Frame(<<p.kids[i]>>, NoSlot, FALSE)] \o Tail(stack)
             /\ UNCHANGED <<pass, todo, inOrder, moves, extras, assign, fault, job, lost>>

\* Mutant of Followed: assignments stay with the scaffold.
NotFollowed(from, to) == assign

\* The assignments, with the ones to a slot in from moved on to the same one in to.
Followed(from, to) ==
  [o \in DOMAIN assign |->
     IF assign[o] \in ToSet(from) THEN to[Position(assign[o], from)] ELSE assign[o]]

\* MoveInPass, one entry of the map: scaffold B is swapped out and the moved
\* zone in. Assignments to a terminus of B follow to the terminus of the zone;
\* zones of the layout that have one as their base do not.
MoveIn(b) ==
  LET zone == moves[b].zone
      incoming == {s \in DOMAIN mem.at : mem.at[s] = b /\ HasRow(mem, s)}
      main == [base |-> CHOOSE s \in incoming : TRUE, term |-> mem.slots[b], ord |-> 1]
  IN /\ pass = "in"
     /\ IF Cardinality(incoming) # 1 \/ ~SwapAsserts(mem, zone, main)
        THEN Abort("assert")
        ELSE /\ mem' = Swap(mem, zone, main)
             /\ assign' = Followed(main.term, zone.term) @@ [o \in moves[b].orig |-> main.base]
             /\ moves' = [d \in DOMAIN moves \ {b} |-> moves[d]]
             /\ extras' = extras \cup {zone.ord}
             /\ UNCHANGED <<patch, pass, todo, stack, inOrder, fault, job, lost>>

\* The end of MoveInPass: the trees the zones came from are freed now, whatever
\* is in them.
TeardownExtras ==
  /\ pass = "in" /\ DOMAIN moves = {} /\ extras # {}
  /\ mem' = FoldLeft(LAMBDA m, t : Teardown(m, t, FALSE), mem, SetToSeq(extras))
  /\ extras' = {}
  /\ UNCHANGED <<patch, pass, todo, stack, inOrder, moves, assign, fault, job, lost>>

\* GetTreePatchAssignmentsPass: the originators of what is a tree patch now.
GetTreePatchAssignments ==
  /\ pass = "assign" /\ todo # <<>>
  /\ LET cells == {c \in TreeCellSet : patch[c].orig # {}}
         at == [o \in UNION {patch[c].orig : c \in cells} |->
                  BaseOf(CHOOSE c \in cells : o \in patch[c].orig)]
     IN IF \E c \in cells : BaseOf(c)[1] \in mem.freed THEN Abort("freed")
        ELSE IF \E c \in cells : mem.label[mem.at[BaseOf(c)]] = Scaffold THEN Abort("assert")
        ELSE /\ assign' = assign @@ at
             /\ todo' = <<>>
             /\ UNCHANGED <<mem, patch, pass, stack, inOrder, moves, extras, fault, job, lost>>

-----------------------------------------------------------------------------
Finished == Ended /\ UNCHANGED vars

Next ==
  \/ BeginPass \/ SetTreeOrdinals \/ MergeWides \/ ProtectDE \/ EmptyZone
  \/ CheckZone \/ CheckStaleCell \/ Settle \/ Accept \/ ChooseCopies \/ GapFinding
  \/ Copy \/ MoveOut \/ MergeFrees \/ Descend \/ Invert
  \/ \E b \in DOMAIN moves : MoveIn(b)
  \/ TeardownExtras \/ GetTreePatchAssignments
  \/ Finished

Spec == Init /\ [][Next]_vars
-----------------------------------------------------------------------------
(* Properties. *)

Slots == DOMAIN mem.at
CellKind == {"tree", "free"}
Intents == {"DEFAULT", "MOVEABLE", "COPYABLE"}
Faults == {"", "assert", "gap", "empty", "wide", "freed", "stale"}

\* The layout is made of patches with one child for each terminus, over slots
\* and nodes that exist, and every pointer leads to a node.
TypeOK ==
  /\ mem.at \in [Slots -> 0..Len(mem.label)]
  /\ \A c \in DOMAIN patch :
       /\ patch[c].kind \in CellKind /\ patch[c].intent \in Intents
       /\ ToSet(patch[c].term) \subseteq Slots
       /\ ToSet(patch[c].kids) \subseteq DOMAIN patch
       /\ c \in LiveCells => Len(patch[c].term) = Len(patch[c].kids)
       /\ IF patch[c].kind = "tree" THEN patch[c].base \in Slots
          ELSE patch[c].node \in 1..Len(mem.label)
  /\ pass \in ToSet(Passes) \cup {"aborted"}
  /\ ToSet(todo) \subseteq DOMAIN patch
  /\ \A f \in ToSet(stack) : ToSet(f.recs) \subseteq DOMAIN patch /\ f.base \in Slots \cup {NoSlot}
  /\ inOrder \subseteq Slots /\ Range(assign) \subseteq Slots
  /\ DOMAIN moves \subseteq 1..Len(mem.label)
  /\ fault \in Faults /\ (fault # "" <=> pass = "aborted")

\* The layout stays well formed, and of all the ASSERTs on the way, from the
\* link table to the passes, an update can only fail the ones listed as known:
\* CreateEmpty() ("gap"), an empty inverted zone ("empty"), a bare container
\* where only one node can go ("wide"), a link to freed scaffold ("freed") and
\* a freed cell in BoundaryPass's queue ("stale").
OnlyKnownFaults == TypeOK /\ fault # "assert"

Result == IF job.mode = "build"
          THEN Denotes(mem, patch, Root, UNION {patch[c].orig : c \in LiveCells})
          ELSE Reading(mem, job.origin, <<>>, <<>>)

Originators == UNION {job.patch[c].orig : c \in DOMAIN job.patch}

\* An update that ends leaves at the origin exactly the tree that the layout
\* denoted, whatever was left alone, moved, copied or split on the way; and
\* building gives a free zone that is that tree.
BuildsWantedTree ==
  pass = "done" => Result = Denotes(job.mem, job.patch, Root, Originators)

\* The replace assignments that go to the engine: every originator is assigned
\* the place in the new tree that its patch asked for, except the ones whose
\* patch was split or was a bare container, which get none.
AssignmentsRight ==
  pass = "done" /\ job.mode = "update" =>
    Reading(mem, job.origin, <<>>, assign) = Denotes(job.mem, job.patch, Root, lost)

\* N-1 of N uses of a zone are duplicated and the other one is moved or left
\* alone: every node of the main tree that the layout uses is itself in the
\* new tree, not only a copy of it.
SurvivorsKept ==
  pass = "done" /\ job.mode = "update" =>
    Kept(job.mem, job.patch) \subseteq ToSet(NodesFrom(mem, job.origin, {}))

\* Two zones are the same or have nothing in common.
Apart(m, y, z) ==
  \/ y.base = z.base /\ y.term = z.term
  \/ ~IsWeakAncestor(m, y.base, z.base) /\ ~IsWeakAncestor(m, z.base, y.base)
  \/ \E t \in ToSet(y.term) : IsWeakAncestor(m, t, z.base)
  \/ \E t \in ToSet(z.term) : IsWeakAncestor(m, t, y.base)

ZonesApart ==
  pass \in {"ordering", "choose", "gaps"} =>
    \A c, d \in TreeCellSet : Apart(mem, patch[c], patch[d])

\* The tree patches below c that are to stay could be terminii of one zone.
InOrderBelow(c, base) ==
  LET next == NextDefaults(patch, c) IN
  /\ \A i \in DOMAIN next : IsWeakAncestor(mem, base, BaseOf(next[i]))
  /\ \A i \in 1..(Len(next) - 1) :
        /\ Before(mem, BaseOf(next[i]), BaseOf(next[i+1]))
        /\ ~IsAncestor(mem, BaseOf(next[i]), BaseOf(next[i+1]))

InversionCanStart ==
  pass = "invert" /\ stack = <<Frame(<<Root>>, job.origin, FALSE)>> =>
    /\ InOrderBelow(Root, job.origin)
    /\ \A c \in TreeCellSet : \A i \in DOMAIN patch[c].kids :
          InOrderBelow(patch[c].kids[i], patch[c].term[i])

\* What the passes leave to one another: after BoundaryPass two tree zones of
\* the layout are the same or apart; and, what AltOrderingChecker checks, what
\* is still a tree patch when inversion starts is below the terminus it hangs
\* from, and the zones below a free patch could be the terminii of one zone.
PassesHandOver == ZonesApart /\ InversionCanStart

\* Of the zones that could stay, OrderingPass keeps as many as fit: what it
\* keeps is in order, and no larger set of them is.
Increasing(S, x) == \A i, j \in DOMAIN x : i < j /\ {x[i], x[j]} \subseteq S => x[i] < x[j]

KeepsLongestRun ==
  pass = "ordering" /\ stack # <<>> /\ ~Head(stack).ready =>
    LET x == InDepthFirstOrder(Head(stack).recs, Head(stack).base)
        kept == ToSet(LongestRun(x))
    IN /\ Increasing(kept, x)
       /\ \A S \in SUBSET ToSet(x) : Increasing(S, x) => Cardinality(S) <= Cardinality(kept)

\* The relation everything here is ordered by: DepthFirstRelation, which climbs
\* from both links until it has seen a common parent from both sides, answers
\* by the order of a depth-first walk, for the trees as they are before and
\* after an update, and tells ancestors apart from siblings.
RelationIsDepthFirst ==
  pass \in {"start", "done"} =>
    LET links == {s \in Slots : HasRow(mem, s)} IN
    \A l, r \in links :
       LET c == CompareHierarchical(mem, l, r) IN
       /\ c[1] < 0 <=> Before(mem, l, r)
       /\ c[1] > 0 <=> Before(mem, r, l)
       /\ c[2] = "LEFT_IS_ANCESTOR" <=> IsAncestor(mem, l, r)
       /\ c[2] = "RIGHT_IS_ANCESTOR" <=> IsAncestor(mem, r, l)

\* Nothing of an update is left behind, and nothing is freed before its time.
\* No extra tree stays in the tables, and no assignment leads out of them or
\* to a freed node. MoveInPass frees the trees that its zones came from at
\* once and unlooked at: by then they hold scaffold only, because every zone
\* that was moved out has been moved in again; and all that is taken out of
\* the main tree for good is freed no sooner than at the end of the step, as
\* the couplings of the engines may still refer to it.
NothingLeftBehind ==
  /\ pass = "done" =>
       /\ \A t \in DOMAIN mem.type : mem.type[t] # "UPDATE"
       /\ \A o \in DOMAIN assign : HasRow(mem, assign[o]) /\ assign[o][1] \notin mem.freed
  /\ \A n \in mem.freed : mem.label[n] = Scaffold

\* The zones of tree t that the layout asked for, two of which overlap.
OverlapIn(t) ==
  LET zones == {c \in ToSet(TreeCells(job.patch)) :
                  Path(job.mem, job.patch[c].base)[1] = t /\ ~IsEmptyZone(job.patch[c])}
  IN \E c, d \in zones : ~Apart(job.mem, job.patch[c], job.patch[d])

\* The trees of the domain extension are only read: an update moves nothing
\* out of one and leaves no scaffold in it, whichever zones of it are wanted,
\* how often and in which order (ProtectDEPass), unless two of these overlap.
\* Then BoundaryPass splits one, the parts are no longer marked COPYABLE,
\* OrderingPass finds them out of order and MoveOutPass takes them.
ExtensionTreesKept ==
  \A t \in DOMAIN job.mem.type :
     \/ job.mem.type[t] # "DE"
     \/ NodesFrom(mem, <<0, t>>, {}) = NodesFrom(job.mem, <<0, t>>, {})
     \/ OverlapIn(t)

\* What a pass has left to do. A zone in BoundaryPass's queue weighs as much
\* as all the parts it can be split into; what a recursive pass has on its
\* stack weighs as much as the part of the layout it stands for.
Below(c) == Len(Postorder(patch, c))

PartsOf(c) == 2 * Len(NodesFrom(mem, BaseOf(c), ToSet(patch[c].term))) - 1

Work ==
  CASE pass = "boundary" -> FoldLeft(LAMBDA n, c : n + PartsOf(c), 0, todo)
    [] stack # <<>> ->
         FoldLeft(LAMBDA n, f : n + (IF f.ready THEN 0 ELSE 1)
                                  + FoldLeft(LAMBDA k, c : k + (Len(patch) + 1) * Below(c), 0, f.recs),
                  0, stack)
    [] pass = "in" -> 2 * Cardinality(DOMAIN moves) + Cardinality(extras)
    [] OTHER -> Len(todo)

\* Every update comes to an end: no step of a pass leaves it with as much to
\* do as before (the queue of BoundaryPass, the settling loop of OrderingPass
\* and the recursions all run out), and no pass is run a second time.
WorkRunsOut ==
  [][\/ pass' = "aborted"
     \/ pass' = pass /\ Work' < Work
     \/ pass' # pass /\ Position(pass', Passes) = Position(pass, Passes) + 1]_vars
=============================================================================
