------------------------------ MODULE SCREngine ------------------------------
(***************************************************************************)
(* VN::SCREngine: the search-compare-replace loop of a step, with the      *)
(* engines of embedded patterns that it runs after each replace, which run *)
(* theirs in turn.  All of them share one map, universal_assignments, from *)
(* pattern links to places in the tree; each engine adds its links to the  *)
(* map and has to take exactly these out again.  Which links these are is  *)
(* settled when the pattern is planned, in the first half of this module.  *)
(*                                                                         *)
(* A pattern is an acyclic graph: a link (plink) leads to an agent, an     *)
(* agent has the links that are visible on the compare and on the replace  *)
(* path.  Whether a compare matches depends on the tree and is left open   *)
(* here (see AndRuleEngine), and so is what a replace makes of the tree;   *)
(* universal_assignments is represented by the set of its keys.            *)
(***************************************************************************)
EXTENDS Integers, Sequences, FiniteSets, SequencesExt

CONSTANTS
    Patterns,      \* child: [Plink -> Agent];  compare, replace: the links each
                   \* agent shows on either path;  unmatched: those that a match
                   \* may leave out;  origin: the link each engine starts from;
                   \* embedded: the engines of embedded agents;  enclosing, root
    StopCounts,    \* the match counts of option -q
    MaxReps        \* the arguments <<n, error>> of SetMaxReps()

VARIABLES
    plan,                  \* per engine: its plan, once and for all
    root,
    repetitions,           \* the limit of a loop, and whether it is an error
    rep_error,
    stop_after,            \* per engine: counts and depth
    universal_assignments, \* the links that are assigned
    stack,                 \* active calls of RepeatingCompareReplace()
    returned,              \* the last call to return
    outcome                \* of Transform()

config == <<plan, root, repetitions, rep_error>>
vars == <<plan, root, repetitions, rep_error, stop_after, universal_assignments, stack, returned, outcome>>

-----------------------------------------------------------------------------
(* Planning                                                                *)

Engines == DOMAIN plan

Targets(p, links) == {p.child[k] : k \in links}

(* The links met from one on, in the order of a walk of the graph, each    *)
(* before (pre) or after those below it.  What is below a coupled agent is *)
(* met once per link to it.                                                *)
Walk(p, kids, pre, from) ==
    LET walk[k \in DOMAIN p.child] ==
            LET below == FlattenSeq([i \in DOMAIN kids[p.child[k]] |-> walk[kids[p.child[k]][i]]])
            IN  IF pre THEN <<k>> \o below ELSE Append(below, k)
    IN  walk[from]

WalkVisible(p, e, kids) == Walk(p, kids, FALSE, p.origin[e])

Visible(p, e) ==
    ToSet(WalkVisible(p, e, p.compare)) \cup ToSet(WalkVisible(p, e, p.replace))

(* The links an engine takes out of universal_assignments at the end. *)
MyPlinks(p, e, enclosing_plinks) == Visible(p, e) \ enclosing_plinks

(* The enclosing_plinks of embedded engines. *)
SurroundingPlinks(p, e, enclosing_plinks) ==
    enclosing_plinks \cup {k \in Visible(p, e) : p.child[k] \notin Targets(p, enclosing_plinks)}

MyEmbeddedPlinks(p, e, enclosing_plinks) ==
    SelectSeq(WalkVisible(p, e, p.replace),
              LAMBDA k : k \notin enclosing_plinks /\ p.child[k] \in DOMAIN p.embedded)

(* Of the AndRuleEngine: the links it solves for, in its order.  It does   *)
(* not look beyond the agents of surrounding engines.                      *)
SolvedPlinks(p, e, enclosing_plinks) ==
    Walk(p, [a \in DOMAIN p.compare |->
                IF a \in Targets(p, enclosing_plinks) THEN <<>> ELSE p.compare[a]],
         TRUE, p.origin[e])

(* An agent is keyed by the first link to it: of those that are compared,  *)
(* or else of those only on the replace path.                              *)
MyKeyers(p, e, enclosing_plinks, enclosing_keyers) ==
    LET replace_only == SelectSeq(WalkVisible(p, e, p.replace),
                            LAMBDA k : k \notin enclosing_plinks \cup ToSet(WalkVisible(p, e, p.compare)))
        links == SelectSeq(SolvedPlinks(p, e, enclosing_plinks) \o replace_only,
                           LAMBDA k : p.child[k] \notin Targets(p, enclosing_keyers))
    IN  {links[SelectInSeq(links, LAMBDA k : p.child[k] = a)] : a \in Targets(p, ToSet(links))}

(* within: the engines around this one. *)
PlanEngine(p, e, within, enclosing_plinks, enclosing_keyers) ==
    LET solved == ToSet(SolvedPlinks(p, e, enclosing_plinks))
        placed == ToSet(WalkVisible(p, e, p.replace))
        embeddeds == MyEmbeddedPlinks(p, e, enclosing_plinks)
    IN  [within |-> within,
         my_plinks |-> MyPlinks(p, e, enclosing_plinks),
         surrounding |-> SurroundingPlinks(p, e, enclosing_plinks),
         solved |-> solved,
         unmatched |-> solved \cap p.unmatched,
         boundary_keyers |-> {k \in enclosing_keyers : p.child[k] \in Targets(p, solved)},
         all_keyers |-> enclosing_keyers \cup MyKeyers(p, e, enclosing_plinks, enclosing_keyers),
         placed |-> placed,
         layout_keyers |-> {k \in enclosing_keyers \cup MyKeyers(p, e, enclosing_plinks, enclosing_keyers) :
                               /\ p.child[k] \in Targets(p, placed)
                               /\ k \in enclosing_plinks \cup solved},
         embeddeds |-> [i \in DOMAIN embeddeds |->
                           [plink |-> embeddeds[i], engine |-> p.embedded[p.child[embeddeds[i]]]]]]

(* Stages one and three, from the root engine into the embedded ones. *)
PlanFor(p) ==
    LET planned[e \in DOMAIN p.origin] ==
            IF e = p.root THEN PlanEngine(p, e, {}, {}, {})
            ELSE LET outer == planned[p.enclosing[e]]
                 IN  PlanEngine(p, e, outer.within \cup {p.enclosing[e]},
                                outer.surrounding, outer.all_keyers)
    IN  [e \in DOMAIN p.origin |-> planned[e]]

Runs(pl, e) == {m.engine : m \in ToSet(pl[e].embeddeds)}

(* An engine is made by the engine around it, for one embedded agent.      *)
PlanIsTree(pl, rt) ==
    /\ rt \in DOMAIN pl /\ pl[rt].within = {}
    /\ \A e \in DOMAIN pl :
        /\ pl[e].within \subseteq DOMAIN pl \ {e}
        /\ \A a \in pl[e].within : pl[a].within \subseteq pl[e].within
        /\ \A a, b \in pl[e].within : a = b \/ a \in pl[b].within \/ b \in pl[a].within
        /\ Len(pl[e].embeddeds) \in Nat /\ DOMAIN pl[e].embeddeds = 1..Len(pl[e].embeddeds)
        /\ \A f \in Runs(pl, e) : f \in DOMAIN pl /\ pl[f].within = pl[e].within \cup {e}

ASSUME PatternsAssumption == \A p \in Patterns : PlanIsTree(PlanFor(p), p.root)
ASSUME OptionsAssumption == StopCounts \subseteq Seq(Nat) /\ MaxReps \subseteq Nat \X BOOLEAN

-----------------------------------------------------------------------------
Frame(e) == [engine |-> e, pc |-> "entered", hits |-> 0, stop |-> FALSE, initial |-> {}, next |-> 1]

Top == stack[Len(stack)]
Plan == plan[Top.engine]

NoCall == [engine |-> "none", level |-> 0, hits |-> 0, stopping |-> FALSE, by |-> "none"]

(* RunStage() sets the counts of the step, and Transform() is called. *)
Init ==
    /\ \E p \in Patterns : plan = PlanFor(p) /\ root = p.root
    /\ \E reps \in MaxReps : repetitions = reps[1] /\ rep_error = reps[2]
    /\ \E counts \in StopCounts :
        stop_after = [e \in Engines |->
            [counts |-> IF e = root THEN counts ELSE <<>>, depth |-> 0]]
    /\ universal_assignments = {}
    /\ stack = <<Frame(root)>>
    /\ returned = NoCall
    /\ outcome = "running"

(* The count that ends the current call's loop: -1 if none does. *)
StopAfter ==
    LET s == stop_after[Top.engine]
    IN  IF s.depth < Len(s.counts) THEN s.counts[s.depth + 1] ELSE -1

(* All of the calls around this one are in the iteration they stop after. *)
OnStoppingPath == \A d \in 1..(Len(stack) - 1) : stack[d].stop

(* A call that ends as f returns, for a reason; its caller goes on.  The  *)
(* value that it returns is discarded.                                     *)
Return(f, by) ==
    /\ stack' = Front(stack)
    /\ returned' = [engine |-> f.engine, level |-> Len(stack), hits |-> f.hits,
                    stopping |-> OnStoppingPath, by |-> by]
    /\ outcome' = IF Len(stack) = 1 THEN "done" ELSE outcome

Continue(f) ==
    /\ stack' = [stack EXCEPT ![Len(stack)] = f]
    /\ UNCHANGED <<returned, outcome>>

(* A failed ASSERT ends the program. *)
Abort ==
    /\ outcome' = "aborted"
    /\ UNCHANGED <<stack, returned>>

Running(pcs) == outcome = "running" /\ Top.pc \in pcs

-----------------------------------------------------------------------------
(* RepeatingCompareReplace()                                               *)

StopBeforeTrying ==
    /\ Running({"entered"}) /\ StopAfter = 0
    /\ Return(Top, "count")
    /\ UNCHANGED <<config, stop_after, universal_assignments>>

(* Mutant of Iterating: one iteration too many. *)
IteratingOnce ==
    /\ Running({"entered", "loop"})
    /\ Top.pc = "entered" => StopAfter # 0
    /\ Top.hits <= repetitions

Iterating ==
    /\ Running({"entered", "loop"})
    /\ Top.pc = "entered" => StopAfter # 0
    /\ Top.hits < repetitions

Stopping == StopAfter = Top.hits + 1

(* Mutant of Propagated: the counts go to embedded engines at once. *)
PropagatedAlways ==
    LET mine == {m.engine : m \in ToSet(Plan.embeddeds)}
        s == stop_after[Top.engine]
    IN  [e \in Engines |-> IF e \in mine
            THEN [counts |-> s.counts, depth |-> s.depth + 1] ELSE stop_after[e]]

(* In the last iteration the remaining counts go to the embedded engines. *)
Propagated ==
    LET mine == {m.engine : m \in ToSet(Plan.embeddeds)}
        s == stop_after[Top.engine]
    IN  [e \in Engines |-> IF Stopping /\ e \in mine
            THEN [counts |-> s.counts, depth |-> s.depth + 1] ELSE stop_after[e]]

(* SingleCompareReplace() begins: the and-rule engine finds a match. *)
CompareHit ==
    /\ Iterating
    /\ stop_after' = Propagated
    /\ \E absent \in SUBSET Plan.unmatched :
        universal_assignments' = universal_assignments \cup (Plan.solved \ absent)
    /\ Continue([Top EXCEPT !.pc = "matched", !.stop = Stopping,
                            !.initial = universal_assignments])
    /\ UNCHANGED config

(* It finds none.  A count that was not reached is an error. *)
CompareMismatch ==
    /\ Iterating
    /\ stop_after' = Propagated
    /\ IF StopAfter >= Top.hits THEN Abort ELSE Return(Top, "mismatch")
    /\ UNCHANGED <<config, universal_assignments>>

(* Mutant of UpdateMainTree: the replace assignments take the place of all. *)
UpdateMainTreeOnly ==
    /\ Running({"matched"})
    /\ universal_assignments' = Plan.placed
    /\ Continue([Top EXCEPT !.pc = "updated", !.next = 1])
    /\ UNCHANGED <<config, stop_after>>

(* The tree is updated, and the places of the links in the layout known.   *)
UpdateMainTree ==
    /\ Running({"matched"})
    /\ universal_assignments' = universal_assignments \cup Plan.placed
    /\ Continue([Top EXCEPT !.pc = "updated", !.next = 1])
    /\ UNCHANGED <<config, stop_after>>

RunEmbedded ==
    /\ Running({"updated"}) /\ Top.next <= Len(Plan.embeddeds)
    /\ stack' = Append([stack EXCEPT ![Len(stack)].next = @ + 1], Frame(Plan.embeddeds[Top.next].engine))
    /\ UNCHANGED <<config, stop_after, universal_assignments, returned, outcome>>

(* Mutants of EndSingle: links only on the replace path stay; a hit is not *)
(* counted.                                                                *)
EndSingleKeepsReplaced ==
    /\ Running({"updated"}) /\ Top.next > Len(Plan.embeddeds)
    /\ universal_assignments' = universal_assignments \ (Plan.my_plinks \cap Plan.solved)
    /\ LET f == [Top EXCEPT !.pc = "loop", !.hits = @ + 1]
       IN  IF f.stop THEN Return(f, "count") ELSE Continue(f)
    /\ UNCHANGED <<config, stop_after>>

EndSingleUncounted ==
    /\ Running({"updated"}) /\ Top.next > Len(Plan.embeddeds)
    /\ universal_assignments' = universal_assignments \ Plan.my_plinks
    /\ LET f == [Top EXCEPT !.pc = "loop"]
       IN  IF f.stop THEN Return(f, "count") ELSE Continue(f)
    /\ UNCHANGED <<config, stop_after>>

(* The end of SingleCompareReplace() and of an iteration. *)
EndSingle ==
    /\ Running({"updated"}) /\ Top.next > Len(Plan.embeddeds)
    /\ universal_assignments' = universal_assignments \ Plan.my_plinks
    /\ LET f == [Top EXCEPT !.pc = "loop", !.hits = @ + 1]
       IN  IF Cardinality(universal_assignments') # Cardinality(Top.initial) THEN Abort
           ELSE IF f.stop THEN Return(f, "count") ELSE Continue(f)
    /\ UNCHANGED <<config, stop_after>>

LimitReached ==
    /\ Running({"entered", "loop"})
    /\ Top.pc = "entered" => StopAfter # 0
    /\ Top.hits >= repetitions
    /\ IF rep_error THEN Abort ELSE Return(Top, "limit")
    /\ UNCHANGED <<config, stop_after, universal_assignments>>

-----------------------------------------------------------------------------
Step ==
    \/ StopBeforeTrying \/ CompareHit \/ CompareMismatch \/ UpdateMainTree
    \/ RunEmbedded \/ EndSingle \/ LimitReached

(* The program ends, or goes on to other steps. *)
Next == Step \/ (outcome # "running" /\ UNCHANGED vars)

(* One thread, which does not wait for anything. *)
Spec == Init /\ [][Next]_vars /\ WF_vars(Step)

-----------------------------------------------------------------------------
(* Properties.                                                             *)

(* What an engine may assign, and what it has assigned for certain when it *)
(* runs the embedded ones; the same for all of some engines.               *)
Touched(pl, e) == pl[e].solved \cup pl[e].placed
Sure(pl, e) == (pl[e].solved \ pl[e].unmatched) \cup pl[e].placed
AllTouched(pl, engines) == UNION {Touched(pl, e) : e \in engines}
AllSure(pl, engines) == UNION {Sure(pl, e) : e \in engines}

Frames == [engine : Engines, pc : {"entered", "loop", "matched", "updated"},
           hits : Nat, stop : BOOLEAN, initial : SUBSET AllTouched(plan, Engines), next : Nat]

(* Calls are of planned engines, within the limit of repetitions and the   *)
(* list of embedded patterns, and only planned links are assigned.         *)
TypeOK ==
    /\ PlanIsTree(plan, root)
    /\ repetitions \in Nat
    /\ outcome \in {"running", "done", "aborted"}
    /\ stack \in Seq(Frames)
    /\ outcome = "running" => stack # <<>>
    /\ \A d \in 1..Len(stack) :
        /\ stack[d].hits <= repetitions
        /\ stack[d].pc \in {"matched", "updated"} => stack[d].hits < repetitions
        /\ stack[d].next \in 1..(Len(plan[stack[d].engine].embeddeds) + 1)
    /\ stop_after \in [Engines -> [counts : Seq(Nat), depth : Nat]]
    /\ universal_assignments \subseteq AllTouched(plan, Engines)

(* SingleCompareReplace() ends with the links in universal_assignments     *)
(* that it began with, embedded engines included.  Its own ASSERT compares *)
(* their numbers only.                                                     *)
Balanced == [][EndSingle => universal_assignments' = Top.initial]_vars

(* Whatever an engine looks up in universal_assignments is there: keyers   *)
(* of couplings to surrounding patterns before each of its compares, those *)
(* of the agents in its layout before a replace, and the origin of an      *)
(* embedded engine before it runs.                                         *)
CouplingsKeyed ==
    outcome = "running" =>
        /\ Iterating => Plan.boundary_keyers \subseteq universal_assignments
        /\ Top.pc = "matched" => Plan.layout_keyers \subseteq universal_assignments
        /\ Top.pc = "updated" /\ Top.next <= Len(Plan.embeddeds) =>
               Plan.embeddeds[Top.next].plink \in universal_assignments

(* Counts c1.c2... given with -q stop the root engine at its match c1, and *)
(* the engines embedded in it, during that match only, at their match c2.  *)
StopsAtCount ==
    LET counts == stop_after[root].counts
        limited == returned.stopping /\ returned.level <= Len(counts)
    IN  returned.level > 0 =>
            /\ returned.by = "count" => limited /\ returned.hits = counts[returned.level]
            /\ limited => returned.by \in {"count", "limit"}

(* Transform() comes to an end, however long the pattern keeps matching. *)
TransformEnds == <>(outcome # "running")

-----------------------------------------------------------------------------
(* What holds the above together: the inductive invariants.                *)

Depths == 1..Len(stack)

(* Each call is made by the one below it, for the embedded pattern that it *)
(* has come to, so the engines around the last one are those called.       *)
CallsNest ==
    \A d \in Depths :
        /\ plan[stack[d].engine].within = {stack[j].engine : j \in 1..(d - 1)}
        /\ d = 1 => stack[d].engine = root
        /\ d < Len(stack) =>
               /\ stack[d].pc = "updated" /\ stack[d].next > 1
               /\ stack[d + 1].engine = plan[stack[d].engine].embeddeds[stack[d].next - 1].engine

(* What is assigned when a call's current iteration begins, and, by now,   *)
(* apart from what embedded engines do.                                    *)
Base(d) == IF stack[d].pc \in {"matched", "updated"} THEN stack[d].initial
                                                    ELSE universal_assignments
Level(d) == IF d = Len(stack) THEN universal_assignments ELSE Base(d + 1)

(* Each call has added some of its links to what the calls below it had.   *)
MapLayered ==
    outcome = "running" =>
        \A d \in Depths :
            LET e == stack[d].engine
            IN  /\ AllSure(plan, plan[e].within) \subseteq Base(d)
                /\ Base(d) \subseteq AllTouched(plan, plan[e].within)
                /\ Base(d) \subseteq Level(d) /\ Level(d) \subseteq Base(d) \cup Touched(plan, e)
                /\ stack[d].pc = "matched" => plan[e].solved \ plan[e].unmatched \subseteq Level(d)
                /\ stack[d].pc = "updated" => Sure(plan, e) \subseteq Level(d)

(* Conditions on a plan.  The links that an engine takes out are its own,  *)
(* and those it leaves in were there.                                      *)
LinksSeparate(pl) ==
    \A e \in DOMAIN pl :
        /\ AllTouched(pl, pl[e].within) \cap pl[e].my_plinks = {}
        /\ Touched(pl, e) \subseteq pl[e].my_plinks \cup AllSure(pl, pl[e].within)

(* What is looked up does not depend on how a match came about. *)
KeysAreSure(pl) ==
    \A e \in DOMAIN pl :
        /\ pl[e].boundary_keyers \subseteq AllSure(pl, pl[e].within)
        /\ pl[e].layout_keyers \subseteq
               AllSure(pl, pl[e].within) \cup (pl[e].solved \ pl[e].unmatched)
        /\ \A m \in ToSet(pl[e].embeddeds) :
               m.plink \in AllSure(pl, pl[e].within) \cup Sure(pl, e)

(* An engine runs each embedded one once after a replace. *)
RunsEachOnce(pl) == \A e \in DOMAIN pl : IsInjective([i \in DOMAIN pl[e].embeddeds |-> pl[e].embeddeds[i].engine])

(* All of the calls below d are in the iteration they stop after. *)
OnPath(d) == \A j \in 1..(d - 1) : stack[j].stop

Counts == stop_after[root].counts
Counted(e, d) == stop_after[e] = [counts |-> Counts, depth |-> d - 1]
Uncounted(e) == stop_after[e] = [counts |-> <<>>, depth |-> 0]
Inside(e) == {g \in Engines : e \in plan[g].within}

(* The embedded engines that a call has yet to run in this iteration. *)
ToRun(f) == LET m == plan[f.engine].embeddeds
            IN  {m[i].engine : i \in (IF f.pc = "updated" THEN f.next ELSE 1)..Len(m)}

(* The stop counts have come to the calls on the path, and to the engines  *)
(* that the last of them will run, and to no other that may yet be run.    *)
CountsPlaced ==
    outcome = "running" =>
        \A d \in Depths :
            LET f == stack[d]
            IN  IF OnPath(d)
                THEN /\ Counted(f.engine, d)
                     /\ f.stop => /\ f.pc \in {"matched", "updated"} /\ d <= Len(Counts)
                                  /\ \A g \in ToRun(f) : Counted(g, d + 1) /\ \A h \in Inside(g) : Uncounted(h)
                     /\ ~ f.stop => \A g \in Inside(f.engine) : Uncounted(g)
                     /\ d <= Len(Counts) =>
                            /\ f.pc = "entered" => f.hits = 0
                            /\ f.pc # "entered" => f.hits < Counts[d]
                            /\ f.pc \in {"matched", "updated"} => (f.stop <=> f.hits + 1 = Counts[d])
                ELSE /\ ~ f.stop /\ Uncounted(f.engine)
                     /\ \A g \in Inside(f.engine) : Uncounted(g)

EngineInvariant == TypeOK /\ CallsNest /\ MapLayered /\ CountsPlaced /\ StopsAtCount
=============================================================================
