------------------------------- MODULE CSPSolver -------------------------------
(***************************************************************************)
(* CSP::ReferenceSolver (chronological backtracking) and the solver the    *)
(* engine really uses, CSP::BackjumpingSolver, which overrides three of    *)
(* its methods (src/vn/csp).  A solver object is built once, for a pattern *)
(* (the plan: how many free variables, in which order, and the scope of    *)
(* each constraint), and is then started, run and stopped again and again  *)
(* on a tree that changes in between, so which assignments satisfy which   *)
(* constraint is known only from Start() on.  Free variables are named by  *)
(* their index in the plan's order.  Forced variables are constant during  *)
(* a run and live inside `sat'.                                            *)
(***************************************************************************)
EXTENDS Integers

CONSTANTS
  Value,        \* the values a variable may be given (links of the x tree)
  Constraint,   \* the constraints of the problem
  Plans,        \* the plans a solver may be constructed with
  Backjumping   \* TRUE: BackjumpingSolver;  FALSE: ReferenceSolver

\* DeduceVariables asserts that every free variable is used by a constraint.
ASSUME PlansAssumption ==
  /\ Backjumping \in BOOLEAN
  /\ \A p \in Plans :
       /\ p.free \in Nat
       /\ p.scope \in [Constraint -> SUBSET (0 .. p.free - 1)]
       /\ \A i \in 0 .. p.free - 1 : \E c \in Constraint : i \in p.scope[c]

VARIABLES
  plan,             \* free: number of free variables; scope: those of each constraint
  sat,              \* for each constraint, the assignments of its scope that satisfy it
  phase,            \* the Start / Run / Stop protocol
  current,          \* current_var_index
  assignments,      \* values of the free variables assigned so far
  selectors,        \* value_selectors: what each live selector has still to offer
  success_count,    \* successes of each variable since its selector was made
  conflicted_count, \* AssignUnsuccessful calls since the last success
  reported,         \* solutions given to the report function in this run
  rejected          \* the last set given to the rejection function ({}: none yet)

vars == <<plan, sat, phase, current, assignments, selectors,
          success_count, conflicted_count, reported, rejected>>

search == <<current, assignments, selectors, success_count, conflicted_count>>

--------------------------------------------------------------------------------
(* The plan *)

FreeVar == 0 .. plan.free - 1

AffectedConstraints(i) == {c \in Constraint : i \in plan.scope[c]}

\* Mutant: constraints are looked for one variable too late.
CompletedOneLate(i) ==
  {c \in Constraint : /\ plan.scope[c] # {}
                      /\ plan.scope[c] \subseteq 0 .. i - 1
                      /\ ~ plan.scope[c] \subseteq 0 .. i - 2}

\* c is completed by the first variable in whose prefix all of its scope lies.
CompletedConstraints(i) ==
  {c \in Constraint : /\ plan.scope[c] # {}
                      /\ plan.scope[c] \subseteq 0 .. i
                      /\ ~ plan.scope[c] \subseteq 0 .. i - 1}

FullyForcedConstraints == {c \in Constraint : plan.scope[c] = {}}

GetAffectedVariableIndices(cs) == UNION {plan.scope[c] : c \in cs}

Restricted(f, S) == [i \in S |-> f[i]]

IsSatisfied(c, a) == Restricted(a, plan.scope[c]) \in sat[c]

ConsistencyCheck(a, to_test) == \A c \in to_test : IsSatisfied(c, a)

\* The meaning of a constraint problem, against which the solver is judged.
Solutions ==
  {s \in [FreeVar -> Value] : \A c \in Constraint : Restricted(s, plan.scope[c]) \in sat[c]}

--------------------------------------------------------------------------------
(* Value selectors *)

\* v, given the values that a gives to variables before i, is one that some
\* satisfying assignment of c gives to i.
Supports(c, a, i, v) ==
  \E e \in sat[c] : /\ e[i] = v
                    /\ \A j \in plan.scope[c] : j < i => e[j] = a[j]

\* Constraint::GetSuggestedValues returns "a set of values that contains all
\* satisfying values" and "is allowed to contain inconsistent values"; a set
\* that cannot be listed stands for the whole domain.  What a selector offers
\* is the intersection over the constraints that affect the variable.
PossibleSelectors(a, i) ==
  {S \in SUBSET Value :
     \A v \in Value : (\A c \in AffectedConstraints(i) : Supports(c, a, i, v)) => v \in S}

--------------------------------------------------------------------------------
(* Operations *)

Unused == [i \in {} |-> 0]    \* an empty map

Unknown == [c \in Constraint |-> {}]   \* no forces: nothing is known to be satisfied

Init ==
  /\ plan \in Plans
  /\ sat = Unknown
  /\ phase = "idle"
  /\ current = 0
  /\ assignments = Unused
  /\ selectors = Unused
  /\ success_count = Unused
  /\ conflicted_count = 0
  /\ reported = {}
  /\ rejected = {}

\* The forces and the tree, and with them what satisfies each constraint, arrive here.
Start ==
  /\ phase = "idle"
  /\ phase' = "started"
  /\ \E R \in SUBSET UNION {{c} \X [plan.scope[c] -> Value] : c \in Constraint} :
       sat' = [c \in Constraint |-> {e \in [plan.scope[c] -> Value] : <<c, e>> \in R}]
  /\ assignments' = Unused
  /\ UNCHANGED <<plan, current, selectors, success_count, conflicted_count,
                 reported, rejected>>

\* Run() when some constraint on forced variables only is false.
RunMismatchedOnForces ==
  /\ phase = "started"
  /\ ~ ConsistencyCheck(assignments, FullyForcedConstraints)
  /\ rejected' = {Unused}
  /\ phase' = "done"
  /\ UNCHANGED <<plan, sat, search, reported>>

\* Run() with no free variables: the empty assignment is the solution.
RunNoFrees ==
  /\ phase = "started"
  /\ ConsistencyCheck(assignments, FullyForcedConstraints)
  /\ plan.free = 0
  /\ reported' = reported \cup {Unused}
  /\ phase' \in {"done", "aborted"}
  /\ UNCHANGED <<plan, sat, search, rejected>>

\* Run() reaches Solve(): make the selector of the first variable.
RunSolve ==
  /\ phase = "started"
  /\ ConsistencyCheck(assignments, FullyForcedConstraints)
  /\ plan.free > 0
  /\ phase' = "solving"
  /\ current' = 0
  /\ \E S \in PossibleSelectors(assignments, 0) : selectors' = [i \in {0} |-> S]
  /\ success_count' = [i \in {0} |-> 0]
  /\ conflicted_count' = 0
  /\ UNCHANGED <<plan, sat, assignments, reported, rejected>>

\* The variable's selector offers v and it is assigned.
Assigned(v) == [i \in 0 .. current |-> IF i = current THEN v ELSE assignments[i]]

\* GetNextValue.  std::set order is pointer order: any order is possible.
Offer(v) ==
  /\ phase = "solving"
  /\ v \in selectors[current]

\* Mutant: the generator's iterator is not stepped.
NothingDropped(v) == selectors

Dropped(v) == [selectors EXCEPT ![current] = @ \ {v}]

\* TryFindNextConsistentValue: v is inconsistent and is erased again.
TryInconsistentValue(v) ==
  /\ Offer(v)
  /\ ~ ConsistencyCheck(Assigned(v), CompletedConstraints(current))
  /\ selectors' = Dropped(v)
  /\ assignments' = Restricted(assignments, 0 .. current - 1)
  /\ UNCHANGED <<plan, sat, phase, current, success_count, conflicted_count,
                 reported, rejected>>

\* TryFindNextConsistentValue finds v and AssignSuccessful counts it.
ConsistentValue(v) ==
  /\ Offer(v)
  /\ ConsistencyCheck(Assigned(v), CompletedConstraints(current))
  /\ assignments' = Assigned(v)
  /\ conflicted_count' = 0
  /\ UNCHANGED <<plan, sat, rejected>>

\* AssignSuccessful, more variables to come: make the next one's selector.
Advance(v) ==
  /\ ConsistentValue(v)
  /\ current + 1 < plan.free
  /\ current' = current + 1
  /\ \E S \in PossibleSelectors(Assigned(v), current + 1) :
       selectors' = [i \in 0 .. current + 1 |->
                       IF i = current + 1 THEN S ELSE Dropped(v)[i]]
  /\ success_count' = [i \in DOMAIN success_count \cup {current + 1} |->
                         CASE i = current + 1 -> 0
                           [] i = current -> success_count[i] + 1
                           [] OTHER -> success_count[i]]
  /\ UNCHANGED <<phase, reported>>

\* Mutant: a success at the last variable is not counted.
ReportUncounted(v) ==
  /\ ConsistentValue(v)
  /\ current + 1 = plan.free
  /\ reported' = reported \cup {Assigned(v)}
  /\ selectors' = Dropped(v)
  /\ UNCHANGED <<phase, current, success_count>>

\* AssignSuccessful at the last variable: report, and stay on that variable.
ReportSolution(v) ==
  /\ ConsistentValue(v)
  /\ current + 1 = plan.free
  /\ reported' = reported \cup {Assigned(v)}
  /\ selectors' = Dropped(v)
  /\ success_count' = [success_count EXCEPT ![current] = @ + 1]
  /\ UNCHANGED <<phase, current>>

\* The same, but the report function throws (AndRuleEngine found its match):
\* the solve is unwound before current_var_index is put back.
ReportAndAbort(v) ==
  /\ ConsistentValue(v)
  /\ current + 1 = plan.free
  /\ reported' = reported \cup {Assigned(v)}
  /\ selectors' = Dropped(v)
  /\ success_count' = [success_count EXCEPT ![current] = @ + 1]
  /\ current' = current + 1
  /\ phase' = "aborted"

\* One or more ReferenceSolver::AssignUnsuccessful calls, leaving variable i
\* current: the levels above i lose their selectors and their assignments.
BackTo(i) ==
  /\ current' = i
  /\ selectors' = Restricted(selectors, 0 .. i)
  /\ assignments' = Restricted(assignments, 0 .. i)
  /\ rejected' = {assignments'}
  /\ UNCHANGED <<plan, sat, phase, success_count, reported>>

\* AssignUnsuccessful got past the first variable: no more solutions.
Cease ==
  /\ phase' = "done"
  /\ current' = 0
  /\ selectors' = Unused
  /\ assignments' = Unused
  /\ rejected' = {Unused}
  /\ UNCHANGED <<plan, sat, success_count, conflicted_count, reported>>

PossiblyConflictedVars == GetAffectedVariableIndices(AffectedConstraints(current))

\* Mutant: backjumps even if the variable has had a success.
LandingDespiteSuccess ==
  IF Backjumping /\ conflicted_count = 0
  THEN {i \in PossiblyConflictedVars : i < current}
  ELSE {i \in FreeVar : i < current}

\* Mutant: the loop decrements once too often.
LandingTooFar ==
  IF Backjumping /\ conflicted_count = 0 /\ success_count[current] = 0
  THEN {i \in PossiblyConflictedVars : i + 1 < current}
  ELSE {i \in FreeVar : i + 1 < current}

\* Where AssignUnsuccessful may stop: BackjumpingSolver, if this variable never
\* had a success, goes on back until it meets a possibly conflicted variable.
Landing ==
  IF Backjumping /\ conflicted_count = 0 /\ success_count[current] = 0
  THEN {i \in PossiblyConflictedVars : i < current}
  ELSE {i \in FreeVar : i < current}

AssignUnsuccessful ==
  /\ phase = "solving"
  /\ selectors[current] = {}
  /\ \/ /\ Landing = {}
        /\ Cease
     \/ \E i \in Landing :
          /\ \A j \in Landing : j <= i
          /\ BackTo(i)
          /\ conflicted_count' = IF Backjumping THEN conflicted_count + 1 ELSE 0

Stop ==
  /\ phase \in {"done", "aborted"}
  /\ phase' = "idle"
  /\ assignments' = Unused
  /\ selectors' = Unused
  /\ success_count' = Unused
  /\ sat' = Unknown
  /\ reported' = {}
  /\ rejected' = {}
  /\ UNCHANGED <<plan, current, conflicted_count>>

Search ==
  \/ \E v \in Value : \/ TryInconsistentValue(v)
                      \/ Advance(v)
                      \/ ReportSolution(v)
                      \/ ReportAndAbort(v)
  \/ AssignUnsuccessful

Next ==
  \/ Start
  \/ RunMismatchedOnForces
  \/ RunNoFrees
  \/ RunSolve
  \/ Search
  \/ Stop

\* Run() is one call on one thread: its loop keeps taking steps.
Fairness == WF_vars(Search)

Spec == Init /\ [][Next]_vars /\ Fairness

--------------------------------------------------------------------------------
(* Properties *)

Phases == {"idle", "started", "solving", "done", "aborted"}

\* The plan, the protocol phase and the counters hold what their C++ types hold.
TypeOK ==
  /\ plan \in Plans
  /\ DOMAIN sat = Constraint
  /\ \A c \in Constraint : sat[c] \subseteq [plan.scope[c] -> Value]
  /\ phase \in Phases
  /\ current \in Nat
  /\ conflicted_count \in Nat
  /\ reported \subseteq [FreeVar -> Value]

\* The maps the search keeps are stacks in step with current_var_index: the
\* EraseSolo and .at() calls of the loop, which assert that the key is there,
\* never fail, however far a backjump went.
StackShape ==
  phase = "solving" =>
    /\ current \in FreeVar
    /\ DOMAIN selectors = 0 .. current
    /\ \A i \in 0 .. current : selectors[i] \subseteq Value
    /\ DOMAIN assignments \in {0 .. current - 1, 0 .. current}
    /\ \A i \in DOMAIN assignments : assignments[i] \in Value
    /\ 0 .. current \subseteq DOMAIN success_count
    /\ \A i \in DOMAIN success_count : success_count[i] \in Nat

\* Every constraint all of whose variables are before the current one holds, so
\* nothing that goes on to be reported can violate it.
PrefixConsistent ==
  phase = "solving" =>
    \A c \in Constraint :
      plan.scope[c] \subseteq 0 .. current - 1 => IsSatisfied(c, assignments)

\* Only solutions of the problem are ever reported.
OnlySolutions == reported \subseteq Solutions

\* s is still to come: some variable, up to the current one, has yet to be
\* offered s's value, and all before it have theirs from s.
Pending(s) ==
  \E i \in 0 .. current : /\ \A j \in 0 .. i - 1 : assignments[j] = s[j]
                         /\ s[i] \in selectors[i]

\* No solution is lost: each one has been reported or is still to come.
NoSolutionLost ==
  phase = "solving" => \A s \in Solutions : s \in reported \/ Pending(s)

\* ... and none is both.
NoSolutionRepeats ==
  phase = "solving" => \A s \in reported : ~ Pending(s)

\* "CSP solver returns when there are no further solutions": when Run()
\* returns normally, every solution has been reported.
Exhaustive == phase = "done" => reported = Solutions

\* What entitles BackjumpingSolver to skip variables: while the current
\* variable has had no success, every value its selector no longer offers is
\* refused by a constraint that affects it, given the variables before it.
RefusedForCause ==
  phase = "solving" /\ success_count[current] = 0 =>
    \A v \in Value \ selectors[current] :
      \E c \in AffectedConstraints(current) : ~ Supports(c, assignments, current, v)

\* A variable that has had no success was reached by an advance, so the
\* conflicted_count test of AssignUnsuccessful never matters by itself.
FreshHasNoConflict ==
  phase = "solving" /\ success_count[current] = 0 => conflicted_count = 0

\* The levels below the current one got there by a success, and hold a value
\* their selector does not offer again.
LowerLevelsSucceeded ==
  phase = "solving" =>
    \A i \in 0 .. current - 1 : success_count[i] > 0 /\ assignments[i] \notin selectors[i]

\* A run starts with nothing left over from the one before.
CleanStart ==
  phase \in {"idle", "started"} => assignments = Unused /\ reported = {} /\ rejected = {}

\* The strengthening under which Exhaustive and OnlySolutions are inductive.
SearchInvariant ==
  /\ CleanStart
  /\ StackShape
  /\ PrefixConsistent
  /\ NoSolutionLost
  /\ NoSolutionRepeats
  /\ RefusedForCause
  /\ FreshHasNoConflict
  /\ LowerLevelsSucceeded

\* Every solution that extends a set given to the rejection function has
\* already been reported: nothing is rejected that is still to be found.
RejectedIsExhausted ==
  \A r \in rejected, s \in Solutions :
    (\A i \in DOMAIN r : s[i] = r[i]) => s \in reported

\* The report function is never called twice with the same solution in a run,
\* which the engine would try to regenerate a second time.
ReportedOnce ==
  [][\A v \in Value : ReportSolution(v) \/ ReportAndAbort(v) => reported' # reported]_vars

\* Run() always ends: it returns, or is unwound by the report function.
RunEnds == phase = "solving" ~> phase \in {"done", "aborted"}

\* The solver does what SolverSpec promises.
Promise == INSTANCE SolverSpec WITH
             Solution <- UNION {[0 .. p.free - 1 -> Value] : p \in Plans},
             goal <- Solutions
PromiseKept == Promise!Spec
===============================================================================
