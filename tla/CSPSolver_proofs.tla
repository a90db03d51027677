---------------------------- MODULE CSPSolver_proofs ----------------------------
(***************************************************************************)
(* Proofs, for every plan, every set of values and both solvers, that the  *)
(* solver reports only solutions and, when Run() returns, all of them.     *)
(***************************************************************************)
EXTENDS CSPSolver, TLAPS

IInv ==
  /\ TypeOK
  /\ SearchInvariant
  /\ OnlySolutions
  /\ Exhaustive
  /\ RejectedIsExhausted

LEMMA SameFunction ==
  ASSUME NEW D, NEW R, NEW f \in [D -> R], NEW g \in [D -> R], \A x \in D : f[x] = g[x]
  PROVE  f = g
  OBVIOUS

\* What the assumption on Plans says of the plan in use.
LEMMA PlanFacts ==
  ASSUME plan \in Plans
  PROVE  /\ plan.free \in Nat
         /\ plan.scope \in [Constraint -> SUBSET FreeVar]
  BY PlansAssumption DEF FreeVar

\* A solution satisfies each constraint on the constraint's own scope, and that
\* restriction is one of the assignments sat lists.
LEMMA SolutionRestricted ==
  ASSUME TypeOK, NEW s \in Solutions, NEW c \in Constraint
  PROVE  /\ s \in [FreeVar -> Value]
         /\ plan.scope[c] \subseteq FreeVar
         /\ Restricted(s, plan.scope[c]) \in sat[c]
         /\ DOMAIN Restricted(s, plan.scope[c]) = plan.scope[c]
         /\ \A j \in plan.scope[c] : Restricted(s, plan.scope[c])[j] = s[j]
  BY PlanFacts DEF TypeOK, Solutions, Restricted

\* A value that a solution gives to variable i is supported by every constraint
\* affecting i, as long as the solution agrees with the assignments before i.
LEMMA SolutionSupported ==
  ASSUME TypeOK, NEW s \in Solutions, NEW a, NEW i \in FreeVar,
         NEW c \in AffectedConstraints(i),
         \A j \in plan.scope[c] : j < i => s[j] = a[j]
  PROVE  Supports(c, a, i, s[i])
  <1> DEFINE e == Restricted(s, plan.scope[c])
  <1>1. c \in Constraint /\ i \in plan.scope[c]
    BY DEF AffectedConstraints
  <1>2. e \in sat[c] /\ \A j \in plan.scope[c] : e[j] = s[j]
    BY <1>1, SolutionRestricted
  <1> HIDE DEF e
  <1>3. QED
    BY <1>1, <1>2 DEF Supports

\* The dead end a backjump starts from: if the current variable never had a
\* success and nothing is left to offer, no solution agrees with the
\* assignments of the possibly conflicted variables before it.
LEMMA DeadEnd ==
  ASSUME TypeOK, SearchInvariant, phase = "solving",
         selectors[current] = {}, success_count[current] = 0,
         NEW s \in Solutions,
         \A j \in PossiblyConflictedVars : j < current => s[j] = assignments[j]
  PROVE  FALSE
  <1>1. current \in FreeVar
    BY DEF SearchInvariant, StackShape
  <1>2. s[current] \in Value
    BY <1>1 DEF Solutions
  <1>3. PICK c \in AffectedConstraints(current) : ~ Supports(c, assignments, current, s[current])
    BY <1>2 DEF SearchInvariant, RefusedForCause
  <1>4. \A j \in plan.scope[c] : j \in PossiblyConflictedVars
    BY <1>3 DEF PossiblyConflictedVars, GetAffectedVariableIndices
  <1>5. QED
    BY <1>1, <1>3, <1>4, SolutionSupported

\* Trying a value keeps the assignment well typed and leaves earlier levels.
LEMMA AssignedFacts ==
  ASSUME TypeOK, StackShape, phase = "solving", NEW v \in Value
  PROVE  /\ Assigned(v) \in [0 .. current -> Value]
         /\ Assigned(v)[current] = v
         /\ \A j \in 0 .. current - 1 : Assigned(v)[j] = assignments[j]
  BY PlanFacts DEF TypeOK, StackShape, Assigned, FreeVar

LEMMA DroppedFacts ==
  ASSUME TypeOK, StackShape, phase = "solving", NEW v \in selectors[current]
  PROVE  /\ v \in Value
         /\ DOMAIN Dropped(v) = 0 .. current
         /\ Dropped(v)[current] = selectors[current] \ {v}
         /\ \A j \in 0 .. current - 1 : Dropped(v)[j] = selectors[j]
         /\ \A j \in 0 .. current : Dropped(v)[j] \subseteq Value
  BY PlanFacts DEF TypeOK, StackShape, Dropped, FreeVar

LEMMA UpToCurrent ==
  ASSUME TypeOK, NEW j \in 0 .. current
  PROVE  j = current \/ (j \in 0 .. current - 1 /\ j < current)
  BY DEF TypeOK

\* IsSatisfied looks only at the scope of the constraint.
LEMMA SameOnScope ==
  ASSUME NEW c \in Constraint, NEW a, NEW b,
         \A j \in plan.scope[c] : a[j] = b[j], IsSatisfied(c, a)
  PROVE  IsSatisfied(c, b)
  BY DEF IsSatisfied, Restricted

\* A consistent value extends the consistent prefix by one variable.
LEMMA PrefixExtended ==
  ASSUME TypeOK, StackShape, PrefixConsistent, phase = "solving", NEW v \in Value,
         ConsistencyCheck(Assigned(v), CompletedConstraints(current)),
         NEW c \in Constraint, plan.scope[c] \subseteq 0 .. current
  PROVE  IsSatisfied(c, Assigned(v))
  <1>1. CASE plan.scope[c] \subseteq 0 .. current - 1
    BY <1>1, AssignedFacts, SameOnScope DEF PrefixConsistent
  <1>2. CASE ~ plan.scope[c] \subseteq 0 .. current - 1
    BY <1>2 DEF CompletedConstraints, ConsistencyCheck
  <1>3. QED
    BY <1>1, <1>2

\* A completed constraint that refuses v lets no solution take v here.
LEMMA RefusedValue ==
  ASSUME TypeOK, StackShape, phase = "solving", NEW v \in Value,
         ~ ConsistencyCheck(Assigned(v), CompletedConstraints(current)),
         NEW s \in Solutions, s[current] = v,
         \A j \in 0 .. current - 1 : assignments[j] = s[j]
  PROVE  FALSE
  <1>1. PICK c \in CompletedConstraints(current) : ~ IsSatisfied(c, Assigned(v))
    BY DEF ConsistencyCheck
  <1>2. c \in Constraint /\ plan.scope[c] \subseteq 0 .. current
    BY DEF CompletedConstraints
  <1>3. IsSatisfied(c, s)
    BY <1>2 DEF Solutions, IsSatisfied
  <1>4. \A j \in plan.scope[c] : s[j] = Assigned(v)[j]
    BY <1>2, UpToCurrent, AssignedFacts
  <1>5. QED
    BY <1>1, <1>2, <1>3, <1>4, SameOnScope

\* ... and it is a constraint that affects the variable and gives v no support.
LEMMA RefusedHasCause ==
  ASSUME TypeOK, StackShape, phase = "solving", NEW v \in Value,
         ~ ConsistencyCheck(Assigned(v), CompletedConstraints(current))
  PROVE  \E c \in AffectedConstraints(current) : ~ Supports(c, assignments, current, v)
  <1>1. PICK c \in CompletedConstraints(current) : ~ IsSatisfied(c, Assigned(v))
    BY DEF ConsistencyCheck
  <1>2. /\ c \in Constraint
        /\ plan.scope[c] \subseteq 0 .. current
        /\ current \in plan.scope[c]
    BY PlanFacts DEF CompletedConstraints, StackShape, TypeOK, FreeVar
  <1>3. SUFFICES ASSUME Supports(c, assignments, current, v) PROVE FALSE
    BY <1>2 DEF AffectedConstraints
  <1>4. PICK e \in sat[c] : /\ e[current] = v
                           /\ \A j \in plan.scope[c] : j < current => e[j] = assignments[j]
    BY <1>3 DEF Supports
  <1>5. e \in [plan.scope[c] -> Value]
    BY <1>2, <1>4 DEF TypeOK
  <1>6. \A j \in plan.scope[c] : e[j] = Assigned(v)[j]
    BY <1>2, <1>4, UpToCurrent, AssignedFacts
  <1>7. Restricted(Assigned(v), plan.scope[c]) = e
    BY <1>5, <1>6 DEF Restricted
  <1>8. QED
    BY <1>1, <1>4, <1>7 DEF IsSatisfied

\* The problem a solver works on changes only in Start and Stop.
LEMMA SameProblem ==
  ASSUME plan' = plan, sat' = sat
  PROVE  /\ FreeVar' = FreeVar
         /\ Solutions' = Solutions
         /\ FullyForcedConstraints' = FullyForcedConstraints
         /\ \A i : AffectedConstraints(i)' = AffectedConstraints(i)
  BY DEF FreeVar, Solutions, Restricted, FullyForcedConstraints, AffectedConstraints

LEMMA InitIInv == Init => IInv
  <1> SUFFICES ASSUME Init PROVE IInv
    OBVIOUS
  <1>1. TypeOK
    BY DEF Init, TypeOK, Unknown, Phases
  <1>2. SearchInvariant
    BY DEF Init, SearchInvariant, CleanStart, StackShape, PrefixConsistent, NoSolutionLost,
           NoSolutionRepeats, RefusedForCause, FreshHasNoConflict, LowerLevelsSucceeded
  <1>3. OnlySolutions /\ Exhaustive /\ RejectedIsExhausted
    BY DEF Init, OnlySolutions, Exhaustive, RejectedIsExhausted
  <1>4. QED
    BY <1>1, <1>2, <1>3 DEF IInv

LEMMA StartStep == IInv /\ Start => IInv'
  <1> SUFFICES ASSUME IInv, Start PROVE IInv'
    OBVIOUS
  <1>1. TypeOK'
    BY DEF IInv, TypeOK, Start, Phases, FreeVar
  <1>2. SearchInvariant'
    BY DEF IInv, Start, SearchInvariant, CleanStart, StackShape, PrefixConsistent, NoSolutionLost,
           NoSolutionRepeats, RefusedForCause, FreshHasNoConflict, LowerLevelsSucceeded
  <1>3. reported' = {} /\ rejected' = {} /\ phase' # "done"
    BY DEF IInv, Start, SearchInvariant, CleanStart
  <1>4. OnlySolutions' /\ Exhaustive' /\ RejectedIsExhausted'
    BY <1>3 DEF OnlySolutions, Exhaustive, RejectedIsExhausted
  <1>5. QED
    BY <1>1, <1>2, <1>4 DEF IInv

LEMMA StopStep == IInv /\ Stop => IInv'
  <1> SUFFICES ASSUME IInv, Stop PROVE IInv'
    OBVIOUS
  <1>1. TypeOK'
    BY DEF IInv, TypeOK, Stop, Unknown, Phases, FreeVar
  <1>2. SearchInvariant'
    BY DEF IInv, Stop, SearchInvariant, CleanStart, StackShape, PrefixConsistent, NoSolutionLost,
           NoSolutionRepeats, RefusedForCause, FreshHasNoConflict, LowerLevelsSucceeded
  <1>3. OnlySolutions' /\ Exhaustive' /\ RejectedIsExhausted'
    BY DEF Stop, OnlySolutions, Exhaustive, RejectedIsExhausted
  <1>4. QED
    BY <1>1, <1>2, <1>3 DEF IInv

\* A false constraint on forced variables only leaves no solutions at all.
LEMMA MismatchedStep == IInv /\ RunMismatchedOnForces => IInv'
  <1> SUFFICES ASSUME IInv, RunMismatchedOnForces PROVE IInv'
    OBVIOUS
  <1>1. PICK c \in FullyForcedConstraints : ~ IsSatisfied(c, assignments)
    BY DEF RunMismatchedOnForces, ConsistencyCheck
  <1>2. ASSUME NEW s \in Solutions PROVE FALSE
    <2>1. c \in Constraint /\ plan.scope[c] = {}
      BY DEF FullyForcedConstraints
    <2>2. IsSatisfied(c, s)
      BY <1>2, <2>1 DEF Solutions, IsSatisfied
    <2>3. QED
      BY <1>1, <2>1, <2>2, SameOnScope
  <1>3. Solutions = {}
    BY <1>2
  <1>4. reported = {}
    BY DEF IInv, RunMismatchedOnForces, SearchInvariant, CleanStart
  <1>5. Solutions' = {} /\ reported' = {}
    BY <1>3, <1>4, SameProblem DEF RunMismatchedOnForces
  <1>6. TypeOK'
    BY DEF IInv, TypeOK, RunMismatchedOnForces, Phases, search, FreeVar
  <1>7. SearchInvariant'
    BY DEF RunMismatchedOnForces, SearchInvariant, CleanStart, StackShape, PrefixConsistent,
           NoSolutionLost, NoSolutionRepeats, RefusedForCause, FreshHasNoConflict,
           LowerLevelsSucceeded
  <1>8. OnlySolutions' /\ Exhaustive' /\ RejectedIsExhausted'
    BY <1>5 DEF OnlySolutions, Exhaustive, RejectedIsExhausted
  <1>9. QED
    BY <1>6, <1>7, <1>8 DEF IInv

\* With no free variables the empty assignment is the one solution.
LEMMA NoFreesStep == IInv /\ RunNoFrees => IInv'
  <1> SUFFICES ASSUME IInv, RunNoFrees PROVE IInv'
    OBVIOUS
  <1>1. FreeVar = {}
    BY DEF RunNoFrees, FreeVar
  <1>2. /\ assignments = Unused /\ reported = {} /\ rejected = {}
        /\ reported' = {Unused} /\ rejected' = {}
    BY DEF IInv, RunNoFrees, SearchInvariant, CleanStart
  <1>3. [FreeVar -> Value] = {Unused}
    BY <1>1 DEF Unused
  <1>4. Unused \in Solutions
    <2>1. SUFFICES ASSUME NEW c \in Constraint PROVE IsSatisfied(c, Unused)
      BY <1>3 DEF Solutions, IsSatisfied
    <2>2. plan.scope[c] = {}
      BY <1>1, PlanFacts DEF IInv, TypeOK
    <2>3. QED
      BY <1>2, <2>2 DEF RunNoFrees, ConsistencyCheck, FullyForcedConstraints
  <1>5. Solutions = {Unused}
    BY <1>3, <1>4 DEF Solutions
  <1>6. Solutions' = {Unused}
    BY <1>5, SameProblem DEF RunNoFrees
  <1>7. TypeOK'
    BY <1>2, <1>3, SameProblem DEF IInv, TypeOK, RunNoFrees, Phases, search
  <1>8. SearchInvariant'
    BY DEF RunNoFrees, SearchInvariant, CleanStart, StackShape, PrefixConsistent,
           NoSolutionLost, NoSolutionRepeats, RefusedForCause, FreshHasNoConflict,
           LowerLevelsSucceeded
  <1>9. OnlySolutions' /\ Exhaustive' /\ RejectedIsExhausted'
    BY <1>2, <1>6 DEF OnlySolutions, Exhaustive, RejectedIsExhausted
  <1>10. QED
    BY <1>7, <1>8, <1>9 DEF IInv

\* A selector, however generous, offers every value a solution could need.
LEMMA SelectorOffers ==
  ASSUME TypeOK, NEW a, NEW i \in FreeVar, NEW S \in PossibleSelectors(a, i),
         NEW s \in Solutions, \A j \in FreeVar : j < i => s[j] = a[j]
  PROVE  s[i] \in S
  <1>1. s[i] \in Value
    BY DEF Solutions
  <1>2. ASSUME NEW c \in AffectedConstraints(i) PROVE Supports(c, a, i, s[i])
    <2>1. plan.scope[c] \subseteq FreeVar
      BY PlanFacts DEF AffectedConstraints, TypeOK
    <2>2. QED
      BY <2>1, SolutionSupported
  <1>3. QED
    BY <1>1, <1>2 DEF PossibleSelectors

\* ... and what it does not offer some constraint refuses.
LEMMA SelectorRefuses ==
  ASSUME NEW a, NEW i, NEW S \in PossibleSelectors(a, i), NEW v \in Value, v \notin S
  PROVE  \E c \in AffectedConstraints(i) : ~ Supports(c, a, i, v)
  BY DEF PossibleSelectors

LEMMA SolveStep == IInv /\ RunSolve => IInv'
  <1> SUFFICES ASSUME IInv, RunSolve PROVE IInv'
    OBVIOUS
  <1>1. PICK S \in PossibleSelectors(assignments, 0) : selectors' = [i \in {0} |-> S]
    BY DEF RunSolve
  <1>2. S \subseteq Value
    BY DEF PossibleSelectors
  <1>3. /\ 0 \in FreeVar /\ FreeVar' = FreeVar /\ Solutions' = Solutions
        /\ 0 .. 0 = {0} /\ 0 .. (0 - 1) = {}
        /\ \A i : AffectedConstraints(i)' = AffectedConstraints(i)
    BY PlanFacts, SameProblem DEF RunSolve, IInv, TypeOK, FreeVar
  <1>4. /\ current' = 0 /\ phase' = "solving" /\ assignments' = assignments
        /\ assignments = Unused /\ reported = {} /\ reported' = {}
        /\ rejected = {} /\ rejected' = {}
        /\ success_count' = [i \in {0} |-> 0] /\ conflicted_count' = 0
        /\ plan' = plan /\ sat' = sat
    BY DEF IInv, RunSolve, SearchInvariant, CleanStart
  <1>5. TypeOK'
    BY <1>4, SameProblem DEF IInv, TypeOK, Phases
  <1>6. CleanStart'
    BY <1>4 DEF CleanStart
  <1>7. StackShape'
    BY <1>1, <1>2, <1>3, <1>4 DEF StackShape, Unused
  <1>8. PrefixConsistent'
    BY <1>3, <1>4 DEF PrefixConsistent, RunSolve, ConsistencyCheck, FullyForcedConstraints,
                      IsSatisfied, Restricted
  <1>9. NoSolutionLost'
    <2>1. SUFFICES ASSUME NEW s \in Solutions PROVE Pending(s)'
      BY <1>3 DEF NoSolutionLost
    <2>2. s[0] \in S
      BY <1>3, SelectorOffers DEF IInv, FreeVar
    <2>3. QED
      BY <1>1, <1>3, <1>4, <2>2 DEF Pending
  <1>10. NoSolutionRepeats' /\ FreshHasNoConflict' /\ LowerLevelsSucceeded'
    BY <1>3, <1>4 DEF NoSolutionRepeats, FreshHasNoConflict, LowerLevelsSucceeded
  <1>11. RefusedForCause'
    <2>1. SUFFICES ASSUME NEW v \in Value, v \notin S
                   PROVE  \E c \in AffectedConstraints(0) : ~ Supports(c, assignments, 0, v)'
      BY <1>1, <1>3, <1>4 DEF RefusedForCause
    <2>2. QED
      BY <1>4, <2>1, SelectorRefuses DEF Supports
  <1>12. OnlySolutions' /\ Exhaustive' /\ RejectedIsExhausted'
    BY <1>4 DEF OnlySolutions, Exhaustive, RejectedIsExhausted
  <1>13. QED
    BY <1>5, <1>6, <1>7, <1>8, <1>9, <1>10, <1>11, <1>12 DEF IInv, SearchInvariant

\* Dropping a value that is refused leaves every unreported solution pending.
LEMMA TryInconsistentStep ==
  ASSUME IInv, NEW v \in Value, TryInconsistentValue(v)
  PROVE  IInv'
  <1> USE DEF IInv, SearchInvariant
  <1>1. phase = "solving" /\ v \in selectors[current]
    BY DEF TryInconsistentValue, Offer
  <1>2. /\ current \in FreeVar /\ current \in Nat
        /\ 0 .. current - 1 \subseteq DOMAIN assignments
    BY <1>1, PlanFacts DEF StackShape, FreeVar, TypeOK
  <1>3. /\ UNCHANGED <<plan, sat, phase, current, success_count, conflicted_count,
                        reported, rejected>>
        /\ selectors' = Dropped(v)
        /\ DOMAIN assignments' = 0 .. current - 1
        /\ \A j \in 0 .. current - 1 : assignments'[j] = assignments[j]
    BY DEF TryInconsistentValue, Restricted
  <1>4. /\ DOMAIN selectors' = 0 .. current
        /\ selectors'[current] = selectors[current] \ {v}
        /\ \A j \in 0 .. current - 1 : selectors'[j] = selectors[j]
        /\ \A j \in 0 .. current : selectors'[j] \subseteq Value
    BY <1>1, <1>3, DroppedFacts
  <1>5. FreeVar' = FreeVar /\ Solutions' = Solutions
        /\ \A i : AffectedConstraints(i)' = AffectedConstraints(i)
    BY <1>3, SameProblem
  <1>6. TypeOK' /\ CleanStart'
    BY <1>1, <1>3, <1>5 DEF TypeOK, CleanStart
  <1>7. StackShape'
    BY <1>1, <1>2, <1>3, <1>4, <1>5 DEF StackShape
  <1>8. PrefixConsistent'
    BY <1>1, <1>3 DEF PrefixConsistent, IsSatisfied, Restricted
  <1>9. NoSolutionLost'
    <2>1. SUFFICES ASSUME NEW s \in Solutions, s \notin reported PROVE Pending(s)'
      BY <1>3, <1>5 DEF NoSolutionLost
    <2>2. PICK i \in 0 .. current : /\ \A j \in 0 .. i - 1 : assignments[j] = s[j]
                                   /\ s[i] \in selectors[i]
      BY <1>1, <2>1 DEF NoSolutionLost, Pending
    <2>3. CASE i = current
      <3>1. s[current] # v
        BY <1>1, <2>2, <2>3, RefusedValue DEF TryInconsistentValue
      <3>2. QED
        BY <1>2, <1>3, <1>4, <2>2, <2>3, <3>1 DEF Pending
    <2>4. CASE i # current
      BY <1>2, <1>3, <1>4, <2>2, <2>4 DEF Pending
    <2>5. QED
      BY <2>3, <2>4
  <1>10. NoSolutionRepeats'
    <2>1. SUFFICES ASSUME NEW s \in reported, Pending(s)' PROVE FALSE
      BY <1>3 DEF NoSolutionRepeats
    <2>2. Pending(s)
      BY <1>2, <1>3, <1>4, <2>1 DEF Pending
    <2>3. QED
      BY <1>1, <2>2 DEF NoSolutionRepeats
  <1>11. RefusedForCause'
    <2>1. SUFFICES ASSUME success_count[current] = 0, NEW w \in Value, w \notin selectors'[current]
                   PROVE  \E c \in AffectedConstraints(current) :
                            ~ Supports(c, assignments, current, w)'
      BY <1>3, <1>5 DEF RefusedForCause
    <2>2. \E c \in AffectedConstraints(current) : ~ Supports(c, assignments, current, w)
      <3>1. CASE w = v
        BY <1>1, <3>1, RefusedHasCause DEF TryInconsistentValue
      <3>2. CASE w # v
        BY <1>1, <1>4, <2>1, <3>2 DEF RefusedForCause
      <3>3. QED
        BY <3>1, <3>2
    <2>3. ASSUME NEW c \in AffectedConstraints(current), ~ Supports(c, assignments, current, w)
          PROVE  ~ Supports(c, assignments, current, w)'
      <3>1. \A j \in plan.scope[c] : j < current => j \in 0 .. current - 1
        BY <1>2, PlanFacts DEF AffectedConstraints, TypeOK, FreeVar
      <3>2. QED
        BY <1>3, <2>3, <3>1 DEF Supports
    <2>4. QED
      BY <2>2, <2>3
  <1>12. FreshHasNoConflict' /\ LowerLevelsSucceeded'
    BY <1>1, <1>3, <1>4 DEF FreshHasNoConflict, LowerLevelsSucceeded
  <1>13. OnlySolutions' /\ Exhaustive' /\ RejectedIsExhausted'
    BY <1>1, <1>3, <1>5 DEF OnlySolutions, Exhaustive, RejectedIsExhausted
  <1>14. QED
    BY <1>6, <1>7, <1>8, <1>9, <1>10, <1>11, <1>12, <1>13

\* Advancing trades "v at this variable" for "anything a solution needs at the
\* next one".
LEMMA AdvanceStep ==
  ASSUME IInv, NEW v \in Value, Advance(v)
  PROVE  IInv'
  <1> USE DEF IInv, SearchInvariant
  <1> DEFINE n == current + 1
  <1>1. /\ phase = "solving" /\ v \in selectors[current]
        /\ ConsistencyCheck(Assigned(v), CompletedConstraints(current))
    BY DEF Advance, ConsistentValue, Offer
  <1>2. /\ current \in FreeVar /\ n \in FreeVar /\ current \in Nat /\ n \in Nat
        /\ 0 .. n - 1 = 0 .. current
        /\ \A j \in 0 .. n : j = n \/ j \in 0 .. current
        /\ \A j \in 0 .. current : j # n
    BY <1>1, PlanFacts DEF StackShape, FreeVar, TypeOK, Advance
  <1>3. /\ UNCHANGED <<plan, sat, phase, reported, rejected>>
        /\ current' = n
        /\ assignments' = Assigned(v)
        /\ conflicted_count' = 0
    BY DEF Advance, ConsistentValue
  <1>4. PICK S \in PossibleSelectors(Assigned(v), n) :
             selectors' = [i \in 0 .. n |-> IF i = n THEN S ELSE Dropped(v)[i]]
    BY DEF Advance
  <1>5. S \subseteq Value
    BY DEF PossibleSelectors
  <1>6. /\ DOMAIN selectors' = 0 .. n
        /\ selectors'[n] = S
        /\ selectors'[current] = selectors[current] \ {v}
        /\ \A j \in 0 .. current - 1 : selectors'[j] = selectors[j]
        /\ \A j \in 0 .. n : selectors'[j] \subseteq Value
    BY <1>1, <1>2, <1>4, <1>5, DroppedFacts
  <1>7. /\ assignments' \in [0 .. current -> Value]
        /\ assignments'[current] = v
        /\ \A j \in 0 .. current - 1 : assignments'[j] = assignments[j]
    BY <1>1, <1>3, AssignedFacts
  <1>8. /\ DOMAIN success_count' = DOMAIN success_count \cup {n}
        /\ success_count'[n] = 0
        /\ success_count'[current] = success_count[current] + 1
        /\ \A j \in DOMAIN success_count : j # n /\ j # current => success_count'[j] = success_count[j]
    BY <1>1, <1>2 DEF Advance, StackShape
  <1>9. FreeVar' = FreeVar /\ Solutions' = Solutions
        /\ \A i : AffectedConstraints(i)' = AffectedConstraints(i)
    BY <1>3, SameProblem
  <1> HIDE DEF n
  <1>10. TypeOK' /\ CleanStart'
    BY <1>1, <1>2, <1>3, <1>9 DEF TypeOK, CleanStart
  <1>11. StackShape'
    <2>1. /\ current' \in FreeVar'
          /\ DOMAIN selectors' = 0 .. current'
          /\ \A i \in 0 .. current' : selectors'[i] \subseteq Value
      BY <1>2, <1>3, <1>6, <1>9
    <2>2. /\ DOMAIN assignments' \in {0 .. current' - 1, 0 .. current'}
          /\ \A i \in DOMAIN assignments' : assignments'[i] \in Value
      BY <1>2, <1>3, <1>7
    <2>3. 0 .. current \subseteq DOMAIN success_count
          /\ \A i \in DOMAIN success_count : success_count[i] \in Nat
      BY <1>1 DEF StackShape
    <2>4. 0 .. current' \subseteq DOMAIN success_count'
      BY <1>2, <1>3, <1>8, <2>3
    <2>5. \A i \in DOMAIN success_count' : success_count'[i] \in Nat
      BY <1>2, <1>8, <2>3
    <2>6. QED
      BY <2>1, <2>2, <2>4, <2>5 DEF StackShape
  <1>12. PrefixConsistent'
    <2>1. SUFFICES ASSUME NEW c \in Constraint, plan.scope[c] \subseteq 0 .. current
                   PROVE  IsSatisfied(c, assignments)'
      BY <1>2, <1>3 DEF PrefixConsistent
    <2>2. IsSatisfied(c, Assigned(v))
      BY <1>1, <2>1, PrefixExtended
    <2>3. QED
      BY <1>3, <2>2 DEF IsSatisfied, Restricted
  <1>13. NoSolutionLost'
    <2>1. SUFFICES ASSUME NEW s \in Solutions, s \notin reported PROVE Pending(s)'
      BY <1>3, <1>9 DEF NoSolutionLost
    <2>2. PICK i \in 0 .. current : /\ \A j \in 0 .. i - 1 : assignments[j] = s[j]
                                   /\ s[i] \in selectors[i]
      BY <1>1, <2>1 DEF NoSolutionLost, Pending
    <2>3. CASE i # current
      BY <1>2, <1>3, <1>6, <1>7, <2>2, <2>3 DEF Pending
    <2>4. CASE i = current /\ s[current] # v
      BY <1>2, <1>3, <1>6, <1>7, <2>2, <2>4 DEF Pending
    <2>5. CASE i = current /\ s[current] = v
      <3>1. \A j \in 0 .. current : Assigned(v)[j] = s[j]
        BY <1>3, <1>7, <2>2, <2>5, UpToCurrent
      <3>2. \A j \in FreeVar : j < n => j \in 0 .. current
        BY <1>2, PlanFacts DEF FreeVar, n, TypeOK
      <3>3. s[n] \in S
        BY <1>2, <1>4, <3>1, <3>2, SelectorOffers
      <3>4. QED
        BY <1>2, <1>3, <1>6, <3>1, <3>3 DEF Pending
    <2>6. QED
      BY <2>3, <2>4, <2>5
  <1>14. NoSolutionRepeats'
    <2>1. SUFFICES ASSUME NEW s \in reported, Pending(s)' PROVE Pending(s)
      BY <1>1, <1>3 DEF NoSolutionRepeats
    <2>2. PICK i \in 0 .. n : /\ \A j \in 0 .. i - 1 : assignments'[j] = s[j]
                             /\ s[i] \in selectors'[i]
      BY <1>3, <2>1 DEF Pending
    <2>3. CASE i = n
      <3>1. \A j \in 0 .. current : assignments'[j] = s[j]
        BY <1>2, <2>2, <2>3
      <3>2. s[current] = v /\ \A j \in 0 .. current - 1 : assignments[j] = s[j]
        BY <1>2, <1>7, <3>1
      <3>3. QED
        BY <1>1, <1>2, <3>2 DEF Pending
    <2>4. CASE i \in 0 .. current
      BY <1>2, <1>6, <1>7, <2>2, <2>4 DEF Pending
    <2>5. QED
      BY <1>2, <2>2, <2>3, <2>4
  <1>15. RefusedForCause'
    <2>1. SUFFICES ASSUME NEW w \in Value, w \notin S
                   PROVE  \E c \in AffectedConstraints(n) :
                            ~ Supports(c, assignments, current, w)'
      BY <1>3, <1>6, <1>9 DEF RefusedForCause
    <2>2. \E c \in AffectedConstraints(n) : ~ Supports(c, Assigned(v), n, w)
      BY <1>4, <2>1, SelectorRefuses
    <2>3. QED
      BY <1>3, <2>2 DEF Supports
  <1>16. FreshHasNoConflict'
    BY <1>3 DEF FreshHasNoConflict
  <1>17. LowerLevelsSucceeded'
    <2>1. SUFFICES ASSUME NEW i \in 0 .. current
                   PROVE  success_count'[i] > 0 /\ assignments'[i] \notin selectors'[i]
      BY <1>2, <1>3 DEF LowerLevelsSucceeded
    <2>2. CASE i = current
      BY <1>1, <1>2, <1>6, <1>7, <1>8, <2>2 DEF StackShape
    <2>3. CASE i \in 0 .. current - 1
      BY <1>1, <1>2, <1>6, <1>7, <1>8, <2>3 DEF StackShape, LowerLevelsSucceeded
    <2>4. QED
      BY <2>2, <2>3, UpToCurrent
  <1>18. OnlySolutions' /\ Exhaustive' /\ RejectedIsExhausted'
    BY <1>1, <1>3, <1>9 DEF OnlySolutions, Exhaustive, RejectedIsExhausted
  <1>19. QED
    BY <1>10, <1>11, <1>12, <1>13, <1>14, <1>15, <1>16, <1>17, <1>18

\* At the last variable a consistent value completes a solution, and one that
\* was not reported before.
LEMMA CompleteAssignment ==
  ASSUME IInv, NEW v \in Value, ConsistentValue(v), current + 1 = plan.free
  PROVE  /\ Assigned(v) \in Solutions
         /\ Assigned(v) \notin reported
         /\ \A s \in Solutions : Pending(s) /\ s # Assigned(v) =>
               \E i \in 0 .. current : /\ \A j \in 0 .. i - 1 : Assigned(v)[j] = s[j]
                                      /\ s[i] \in Dropped(v)[i]
  <1> USE DEF IInv, SearchInvariant
  <1>1. /\ phase = "solving" /\ v \in selectors[current]
        /\ ConsistencyCheck(Assigned(v), CompletedConstraints(current))
    BY DEF ConsistentValue, Offer
  <1>2. /\ current \in Nat /\ FreeVar = 0 .. current
        /\ \A c \in Constraint : plan.scope[c] \subseteq 0 .. current
    BY PlanFacts DEF FreeVar, TypeOK
  <1>3. /\ Assigned(v) \in [0 .. current -> Value]
        /\ Assigned(v)[current] = v
        /\ \A j \in 0 .. current - 1 : Assigned(v)[j] = assignments[j]
    BY <1>1, AssignedFacts
  <1>4. /\ Dropped(v)[current] = selectors[current] \ {v}
        /\ \A j \in 0 .. current - 1 : Dropped(v)[j] = selectors[j]
    BY <1>1, DroppedFacts
  <1>5. Assigned(v) \in Solutions
    <2>1. \A c \in Constraint : IsSatisfied(c, Assigned(v))
      BY <1>1, <1>2, PrefixExtended
    <2>2. QED
      BY <1>2, <1>3, <2>1 DEF Solutions, IsSatisfied
  <1>6. Assigned(v) \notin reported
    <2>1. Pending(Assigned(v))
      BY <1>1, <1>2, <1>3 DEF Pending
    <2>2. QED
      BY <1>1, <2>1 DEF NoSolutionRepeats
  <1>7. ASSUME NEW s \in Solutions, Pending(s), s # Assigned(v)
        PROVE  \E i \in 0 .. current : /\ \A j \in 0 .. i - 1 : Assigned(v)[j] = s[j]
                                       /\ s[i] \in Dropped(v)[i]
    <2>1. PICK i \in 0 .. current : /\ \A j \in 0 .. i - 1 : assignments[j] = s[j]
                                   /\ s[i] \in selectors[i]
      BY <1>7 DEF Pending
    <2>2. CASE i # current
      BY <1>2, <1>3, <1>4, <2>1, <2>2
    <2>3. CASE i = current
      <3>1. s \in [0 .. current -> Value]
        BY <1>2 DEF Solutions
      <3>2. s[current] # v
        <4>1. SUFFICES ASSUME s[current] = v PROVE s = Assigned(v)
          BY <1>7
        <4>2. \A j \in 0 .. current : s[j] = Assigned(v)[j]
          BY <1>3, <2>1, <2>3, <4>1, UpToCurrent
        <4>3. QED
          <5> DEFINE D == 0 .. current
                     f == Assigned(v)
          <5>1. s \in [D -> Value] /\ f \in [D -> Value] /\ \A j \in D : s[j] = f[j]
            BY <1>3, <3>1, <4>2
          <5> HIDE DEF D, f
          <5>2. s = f
            BY <5>1, SameFunction
          <5>3. QED
            BY <5>2 DEF f
      <3>3. QED
        BY <1>2, <1>3, <1>4, <2>1, <2>3, <3>2
    <2>4. QED
      BY <2>2, <2>3
  <1>8. QED
    BY <1>5, <1>6, <1>7

LEMMA ReportStep ==
  ASSUME IInv, NEW v \in Value, ReportSolution(v)
  PROVE  IInv'
  <1> USE DEF IInv, SearchInvariant
  <1>1. /\ phase = "solving" /\ v \in selectors[current]
        /\ ConsistentValue(v) /\ current + 1 = plan.free
    BY DEF ReportSolution, ConsistentValue, Offer
  <1>2. /\ current \in Nat /\ current \in FreeVar /\ FreeVar = 0 .. current
    BY <1>1, PlanFacts DEF FreeVar, TypeOK, StackShape
  <1>3. /\ UNCHANGED <<plan, sat, phase, current, rejected>>
        /\ assignments' = Assigned(v)
        /\ selectors' = Dropped(v)
        /\ reported' = reported \cup {Assigned(v)}
        /\ success_count' = [success_count EXCEPT ![current] = @ + 1]
        /\ conflicted_count' = 0
    BY DEF ReportSolution, ConsistentValue
  <1>4. /\ Assigned(v) \in [0 .. current -> Value]
        /\ Assigned(v)[current] = v
        /\ \A j \in 0 .. current - 1 : Assigned(v)[j] = assignments[j]
    BY <1>1, AssignedFacts
  <1>5. /\ DOMAIN Dropped(v) = 0 .. current
        /\ Dropped(v)[current] = selectors[current] \ {v}
        /\ \A j \in 0 .. current - 1 : Dropped(v)[j] = selectors[j]
        /\ \A j \in 0 .. current : Dropped(v)[j] \subseteq Value
    BY <1>1, DroppedFacts
  <1>6. FreeVar' = FreeVar /\ Solutions' = Solutions
    BY <1>3, SameProblem
  <1>7. TypeOK' /\ CleanStart'
    BY <1>1, <1>2, <1>3, <1>4, <1>6 DEF TypeOK, CleanStart
  <1>8. /\ DOMAIN success_count' = DOMAIN success_count
        /\ 0 .. current \subseteq DOMAIN success_count
        /\ success_count'[current] > 0
        /\ \A j \in DOMAIN success_count : success_count'[j] \in Nat
        /\ \A j \in 0 .. current - 1 : success_count'[j] = success_count[j]
    BY <1>1, <1>2, <1>3 DEF StackShape
  <1>9. StackShape'
    BY <1>2, <1>3, <1>4, <1>5, <1>6, <1>8 DEF StackShape
  <1>10. PrefixConsistent'
    <2>1. SUFFICES ASSUME NEW c \in Constraint, plan.scope[c] \subseteq 0 .. current - 1
                   PROVE  IsSatisfied(c, assignments)'
      BY <1>3 DEF PrefixConsistent
    <2>2. IsSatisfied(c, Assigned(v))
      BY <1>1, <1>4, <2>1, SameOnScope DEF PrefixConsistent
    <2>3. QED
      BY <1>3, <2>2 DEF IsSatisfied, Restricted
  <1>11. NoSolutionLost'
    <2>1. SUFFICES ASSUME NEW s \in Solutions, s \notin reported, s # Assigned(v) PROVE Pending(s)'
      BY <1>3, <1>6 DEF NoSolutionLost
    <2>2. Pending(s)
      BY <1>1, <2>1 DEF NoSolutionLost
    <2>3. QED
      BY <1>1, <1>3, <2>1, <2>2, CompleteAssignment DEF Pending
  <1>12. NoSolutionRepeats'
    <2>1. SUFFICES ASSUME NEW s \in reported', Pending(s)' PROVE FALSE
      BY DEF NoSolutionRepeats
    <2>2. PICK i \in 0 .. current : /\ \A j \in 0 .. i - 1 : Assigned(v)[j] = s[j]
                                   /\ s[i] \in Dropped(v)[i]
      BY <1>3, <2>1 DEF Pending
    <2>3. i \in 0 .. current /\ s[i] \in selectors[i] /\ \A j \in 0 .. i - 1 : assignments[j] = s[j]
      BY <1>2, <1>4, <1>5, <2>2, UpToCurrent
    <2>4. Pending(s)
      BY <2>3 DEF Pending
    <2>5. s = Assigned(v)
      BY <1>1, <1>3, <2>1, <2>4 DEF NoSolutionRepeats
    <2>6. CASE i = current
      BY <1>4, <1>5, <2>2, <2>5, <2>6
    <2>7. CASE i \in 0 .. current - 1
      BY <1>1, <1>4, <2>3, <2>5, <2>7 DEF LowerLevelsSucceeded
    <2>8. QED
      BY <2>2, <2>6, <2>7, UpToCurrent
  <1>13. RefusedForCause' /\ FreshHasNoConflict'
    BY <1>3, <1>8 DEF RefusedForCause, FreshHasNoConflict
  <1>14. LowerLevelsSucceeded'
    BY <1>1, <1>3, <1>4, <1>5, <1>8 DEF LowerLevelsSucceeded
  <1>15. Assigned(v) \in Solutions
    BY <1>1, CompleteAssignment
  <1>16. OnlySolutions' /\ Exhaustive' /\ RejectedIsExhausted'
    BY <1>1, <1>3, <1>6, <1>15 DEF OnlySolutions, Exhaustive, RejectedIsExhausted
  <1>17. QED
    BY <1>7, <1>9, <1>10, <1>11, <1>12, <1>13, <1>14, <1>16

LEMMA AbortStep ==
  ASSUME IInv, NEW v \in Value, ReportAndAbort(v)
  PROVE  IInv'
  <1> USE DEF IInv, SearchInvariant
  <1>1. ConsistentValue(v) /\ current + 1 = plan.free /\ phase = "solving"
    BY DEF ReportAndAbort, ConsistentValue, Offer
  <1>2. Assigned(v) \in Solutions
    BY <1>1, CompleteAssignment
  <1>3. /\ UNCHANGED <<plan, sat, rejected>>
        /\ reported' = reported \cup {Assigned(v)}
        /\ phase' = "aborted"
        /\ current' = current + 1
        /\ conflicted_count' = 0
    BY DEF ReportAndAbort, ConsistentValue
  <1>4. FreeVar' = FreeVar /\ Solutions' = Solutions
    BY <1>3, SameProblem
  <1>5. TypeOK'
    BY <1>2, <1>3, <1>4 DEF TypeOK, Phases, Solutions
  <1>6. SearchInvariant'
    BY <1>3 DEF CleanStart, StackShape, PrefixConsistent, NoSolutionLost, NoSolutionRepeats,
                RefusedForCause, FreshHasNoConflict, LowerLevelsSucceeded
  <1>7. OnlySolutions' /\ Exhaustive' /\ RejectedIsExhausted'
    BY <1>2, <1>3, <1>4 DEF OnlySolutions, Exhaustive, RejectedIsExhausted
  <1>8. QED
    BY <1>5, <1>6, <1>7

\* The variable AssignUnsuccessful lands on, or all of them if it ceases, is
\* such that any solution agreeing with the levels kept is accounted for by
\* them: nothing pending is thrown away with the levels above.
LEMMA NothingSkipped ==
  ASSUME IInv, phase = "solving", selectors[current] = {},
         NEW i \in Int, i < current, \A j \in Landing : j <= i,
         NEW s \in Solutions, NEW k \in 0 .. current, k > i,
         \A j \in 0 .. k - 1 : assignments[j] = s[j],
         s[k] \in selectors[k]
  PROVE  FALSE
  <1> USE DEF IInv, SearchInvariant
  <1>1. current \in FreeVar /\ current \in Nat
    BY DEF StackShape, TypeOK
  <1>2. k # current /\ k \in 0 .. current - 1
    BY <1>1
  <1>3. CASE Backjumping /\ conflicted_count = 0 /\ success_count[current] = 0
    <2>1. ASSUME NEW j \in PossiblyConflictedVars, j < current
          PROVE  s[j] = assignments[j]
      <3>1. j \in Landing
        BY <1>3, <2>1 DEF Landing
      <3>2. j \in FreeVar
        BY <2>1, PlanFacts DEF PossiblyConflictedVars, GetAffectedVariableIndices,
                               AffectedConstraints, TypeOK
      <3>3. j \in 0 .. k - 1
        BY <1>1, <1>2, <3>1, <3>2, PlanFacts DEF FreeVar, TypeOK
      <3>4. QED
        BY <3>3
    <2>2. QED
      BY <1>3, <2>1, DeadEnd
  <1>4. CASE ~ (Backjumping /\ conflicted_count = 0 /\ success_count[current] = 0)
    <2>1. Landing = {j \in FreeVar : j < current}
      BY <1>4 DEF Landing
    <2>2. k \in Landing
      BY <1>1, <1>2, <2>1, PlanFacts DEF FreeVar, TypeOK
    <2>3. QED
      BY <1>2, <2>2
  <1>5. QED
    BY <1>3, <1>4

LEMMA CeaseStep ==
  ASSUME IInv, phase = "solving", selectors[current] = {}, Landing = {}, Cease
  PROVE  IInv'
  <1> USE DEF IInv, SearchInvariant
  <1>1. current \in Nat
    BY DEF TypeOK
  <1>2. ASSUME NEW s \in Solutions, s \notin reported PROVE FALSE
    <2>1. PICK k \in 0 .. current : /\ \A j \in 0 .. k - 1 : assignments[j] = s[j]
                                   /\ s[k] \in selectors[k]
      BY <1>2 DEF NoSolutionLost, Pending
    <2>2. QED
      BY <1>1, <1>2, <2>1, NothingSkipped, -1 \in Int, -1 < current, k > -1
  <1>3. reported = Solutions
    BY <1>2 DEF OnlySolutions
  <1>4. /\ UNCHANGED <<plan, sat, conflicted_count, reported>>
        /\ phase' = "done" /\ current' = 0
    BY DEF Cease
  <1>5. FreeVar' = FreeVar /\ Solutions' = Solutions
    BY <1>4, SameProblem
  <1>6. TypeOK'
    BY <1>4, <1>5 DEF TypeOK, Phases
  <1>7. SearchInvariant'
    BY <1>4 DEF CleanStart, StackShape, PrefixConsistent, NoSolutionLost, NoSolutionRepeats,
                RefusedForCause, FreshHasNoConflict, LowerLevelsSucceeded
  <1>8. OnlySolutions' /\ Exhaustive' /\ RejectedIsExhausted'
    BY <1>3, <1>4, <1>5 DEF OnlySolutions, Exhaustive, RejectedIsExhausted
  <1>9. QED
    BY <1>6, <1>7, <1>8

LEMMA BackStep ==
  ASSUME IInv, phase = "solving", selectors[current] = {},
         NEW i \in Landing, \A j \in Landing : j <= i, BackTo(i),
         conflicted_count' = IF Backjumping THEN conflicted_count + 1 ELSE 0
  PROVE  IInv'
  <1> USE DEF IInv, SearchInvariant
  <1>1. /\ current \in FreeVar /\ current \in Nat /\ conflicted_count \in Nat
        /\ Backjumping \in BOOLEAN
    BY PlansAssumption DEF StackShape, TypeOK
  <1>2. i \in FreeVar /\ i < current
    BY PlanFacts DEF Landing, PossiblyConflictedVars, GetAffectedVariableIndices,
                     AffectedConstraints, TypeOK
  <1>3. i \in Nat /\ 0 .. i \subseteq 0 .. current - 1 /\ 0 .. i \subseteq 0 .. current
        /\ 0 .. i - 1 \subseteq 0 .. i
    BY <1>1, <1>2, PlanFacts DEF FreeVar, TypeOK
  <1>4. /\ UNCHANGED <<plan, sat, phase, success_count, reported>>
        /\ current' = i
        /\ rejected' = {assignments'}
        /\ DOMAIN selectors' = 0 .. i
        /\ \A j \in 0 .. i : selectors'[j] = selectors[j]
        /\ DOMAIN assignments' = 0 .. i
        /\ \A j \in 0 .. i : assignments'[j] = assignments[j]
    BY DEF BackTo, Restricted
  <1>5. FreeVar' = FreeVar /\ Solutions' = Solutions
    BY <1>4, SameProblem
  <1>6. TypeOK' /\ CleanStart'
    BY <1>1, <1>3, <1>4, <1>5 DEF TypeOK, CleanStart
  <1>7. StackShape'
    <2>1. \A j \in 0 .. i : j \in DOMAIN assignments /\ j \in 0 .. current
      BY <1>1, <1>3 DEF StackShape
    <2>2. QED
      BY <1>2, <1>3, <1>4, <1>5, <2>1 DEF StackShape
  <1>8. PrefixConsistent'
    <2>1. SUFFICES ASSUME NEW c \in Constraint, plan.scope[c] \subseteq 0 .. i - 1
                   PROVE  IsSatisfied(c, assignments)'
      BY <1>4 DEF PrefixConsistent
    <2>2. IsSatisfied(c, assignments) /\ plan.scope[c] \subseteq 0 .. i
      BY <1>3, <2>1 DEF PrefixConsistent
    <2>3. QED
      BY <1>4, <2>2 DEF IsSatisfied, Restricted
  <1>9. ASSUME NEW s \in Solutions, s \notin reported
        PROVE  \E k \in 0 .. i : /\ \A j \in 0 .. k - 1 : assignments[j] = s[j]
                                 /\ s[k] \in selectors[k]
    <2>1. PICK k \in 0 .. current : /\ \A j \in 0 .. k - 1 : assignments[j] = s[j]
                                   /\ s[k] \in selectors[k]
      BY <1>9 DEF NoSolutionLost, Pending
    <2>2. ~ (k > i)
      BY <1>2, <1>3, <2>1, NothingSkipped
    <2>3. QED
      BY <1>1, <1>3, <2>1, <2>2
  <1>10. NoSolutionLost'
    <2>1. SUFFICES ASSUME NEW s \in Solutions, s \notin reported PROVE Pending(s)'
      BY <1>4, <1>5 DEF NoSolutionLost
    <2>2. PICK k \in 0 .. i : /\ \A j \in 0 .. k - 1 : assignments[j] = s[j]
                             /\ s[k] \in selectors[k]
      BY <1>9, <2>1
    <2>3. QED
      BY <1>3, <1>4, <2>2 DEF Pending
  <1>11. NoSolutionRepeats'
    <2>1. SUFFICES ASSUME NEW s \in reported, Pending(s)' PROVE Pending(s)
      BY <1>4 DEF NoSolutionRepeats
    <2>2. PICK k \in 0 .. i : /\ \A j \in 0 .. k - 1 : assignments'[j] = s[j]
                             /\ s[k] \in selectors'[k]
      BY <1>4, <2>1 DEF Pending
    <2>3. k \in 0 .. current /\ (\A j \in 0 .. k - 1 : j \in 0 .. i)
      BY <1>1, <1>3, <2>2
    <2>4. QED
      BY <1>4, <2>2, <2>3 DEF Pending
  <1>12. RefusedForCause' /\ FreshHasNoConflict'
    <2>1. success_count'[current'] > 0
      BY <1>3, <1>4 DEF LowerLevelsSucceeded
    <2>2. QED
      BY <2>1 DEF RefusedForCause, FreshHasNoConflict
  <1>13. LowerLevelsSucceeded'
    BY <1>3, <1>4 DEF LowerLevelsSucceeded
  <1>14. RejectedIsExhausted'
    <2>1. SUFFICES ASSUME NEW s \in Solutions, \A j \in 0 .. i : s[j] = assignments[j],
                          s \notin reported
                   PROVE  FALSE
      BY <1>4, <1>5 DEF RejectedIsExhausted
    <2>2. PICK k \in 0 .. i : s[k] \in selectors[k]
      BY <1>9, <2>1
    <2>3. QED
      BY <1>3, <2>1, <2>2 DEF LowerLevelsSucceeded
  <1>15. OnlySolutions' /\ Exhaustive'
    BY <1>4, <1>5 DEF OnlySolutions, Exhaustive
  <1>16. QED
    BY <1>6, <1>7, <1>8, <1>10, <1>11, <1>12, <1>13, <1>14, <1>15

LEMMA UnsuccessfulStep == IInv /\ AssignUnsuccessful => IInv'
  BY CeaseStep, BackStep DEF AssignUnsuccessful

LEMMA StutterStep == IInv /\ UNCHANGED vars => IInv'
  <1> SUFFICES ASSUME IInv, UNCHANGED vars PROVE IInv'
    OBVIOUS
  <1> USE DEF IInv, SearchInvariant, vars
  <1>1. TypeOK' /\ CleanStart' /\ StackShape'
    BY SameProblem DEF TypeOK, CleanStart, StackShape
  <1>2. PrefixConsistent'
    BY DEF PrefixConsistent, IsSatisfied, Restricted
  <1>3. NoSolutionLost' /\ NoSolutionRepeats'
    BY SameProblem DEF NoSolutionLost, NoSolutionRepeats, Pending
  <1>4. RefusedForCause'
    BY SameProblem DEF RefusedForCause, Supports
  <1>5. FreshHasNoConflict' /\ LowerLevelsSucceeded'
    BY DEF FreshHasNoConflict, LowerLevelsSucceeded
  <1>6. OnlySolutions' /\ Exhaustive' /\ RejectedIsExhausted'
    BY SameProblem DEF OnlySolutions, Exhaustive, RejectedIsExhausted
  <1>7. QED
    BY <1>1, <1>2, <1>3, <1>4, <1>5, <1>6

LEMMA NextStep == IInv /\ [Next]_vars => IInv'
  BY StartStep, MismatchedStep, NoFreesStep, SolveStep, TryInconsistentStep, AdvanceStep,
     ReportStep, AbortStep, UnsuccessfulStep, StopStep, StutterStep
     DEF Next, Search

\* The whole inductive invariant holds of every run of either solver.
THEOREM InvariantHolds == Spec => []IInv
  BY InitIInv, NextStep, PTL DEF Spec

\* Every variable of the solver keeps its type.
THEOREM TypeCorrect == Spec => []TypeOK
  <1>1. IInv => TypeOK
    BY DEF IInv
  <1>2. QED
    BY <1>1, InvariantHolds, PTL

\* What the search loop keeps true, on either way back: its maps are stacks in
\* step with the current variable, no solution is lost or met again, and what
\* a backjump relies on.
THEOREM SearchInvariantHolds == Spec => []SearchInvariant
  <1>1. IInv => SearchInvariant
    BY DEF IInv
  <1>2. QED
    BY <1>1, InvariantHolds, PTL

\* Soundness: the report function is only ever given solutions.
THEOREM Soundness == Spec => []OnlySolutions
  <1>1. IInv => OnlySolutions
    BY DEF IInv
  <1>2. QED
    BY <1>1, InvariantHolds, PTL

\* Completeness: when Run() returns, backjumping or not, no solution has been
\* missed.
THEOREM Completeness == Spec => []Exhaustive
  <1>1. IInv => Exhaustive
    BY DEF IInv
  <1>2. QED
    BY <1>1, InvariantHolds, PTL

\* A rejected set is never one that a solution still to be found extends.
THEOREM RejectionSafe == Spec => []RejectedIsExhausted
  <1>1. IInv => RejectedIsExhausted
    BY DEF IInv
  <1>2. QED
    BY <1>1, InvariantHolds, PTL

\* No solution is reported twice in a run.
THEOREM NoRepeat == Spec => ReportedOnce
  <1>1. ASSUME IInv, NEW v \in Value, ReportSolution(v) \/ ReportAndAbort(v)
        PROVE  reported' # reported
    <2>1. ConsistentValue(v) /\ current + 1 = plan.free /\ Assigned(v) \in reported'
      BY <1>1 DEF ReportSolution, ReportAndAbort
    <2>2. QED
      BY <1>1, <2>1, CompleteAssignment
  <1>2. IInv /\ [Next]_vars =>
          [\A v \in Value : ReportSolution(v) \/ ReportAndAbort(v) => reported' # reported]_vars
    BY <1>1
  <1>3. QED
    BY <1>2, InvariantHolds, PTL DEF Spec, ReportedOnce

\* A problem's solutions are possible solutions of the abstract specification.
LEMMA GoalTyped ==
  ASSUME TypeOK
  PROVE  Solutions \in SUBSET UNION {[0 .. p.free - 1 -> Value] : p \in Plans}
  BY DEF TypeOK, Solutions, FreeVar

LEMMA StepKeepsPromise ==
  ASSUME IInv, IInv', [Next]_vars
  PROVE  [Promise!Next]_(Promise!vars)
  <1> USE DEF Promise!vars, Promise!Next
  <1>0. (Solutions \in SUBSET UNION {[0 .. p.free - 1 -> Value] : p \in Plans})'
    BY DEF IInv, TypeOK, Solutions, FreeVar
  <1>1. CASE Start
    BY <1>1, <1>0 DEF Start, Promise!Start
  <1>2. CASE RunMismatchedOnForces
    <2>1. reported = Solutions /\ Solutions' = Solutions
      BY <1>2, SameProblem DEF IInv, RunMismatchedOnForces, Exhaustive
    <2>2. QED
      BY <1>2, <2>1 DEF RunMismatchedOnForces, Promise!Finish
  <1>3. CASE RunNoFrees
    <2>1. Solutions' = Solutions /\ reported = {} /\ reported' = {Unused}
          /\ phase = "started"
      BY <1>3, SameProblem DEF IInv, RunNoFrees, SearchInvariant, CleanStart
    <2>2. Unused \in Solutions
      BY <2>1 DEF IInv, OnlySolutions
    <2>3. CASE phase' = "done"
      <3>1. reported' = Solutions
        BY <2>1, <2>3 DEF IInv, Exhaustive
      <3>2. QED
        BY <2>1, <2>2, <2>3, <3>1 DEF Promise!Finish, Promise!Report
    <2>4. CASE phase' = "aborted"
      BY <2>1, <2>2, <2>4 DEF Promise!ReportAndAbort, Promise!Report
    <2>5. QED
      BY <1>3, <2>3, <2>4 DEF RunNoFrees
  <1>4. CASE RunSolve
    BY <1>4, SameProblem DEF RunSolve, Promise!Begin
  <1>5. ASSUME NEW v \in Value, TryInconsistentValue(v)
        PROVE  UNCHANGED <<phase, Solutions, reported>>
    BY <1>5, SameProblem DEF TryInconsistentValue
  <1>6. ASSUME NEW v \in Value, Advance(v)
        PROVE  UNCHANGED <<phase, Solutions, reported>>
    BY <1>6, SameProblem DEF Advance, ConsistentValue
  <1>7. ASSUME NEW v \in Value, ReportSolution(v) PROVE Promise!ReportAndContinue
    <2>1. ConsistentValue(v) /\ current + 1 = plan.free /\ phase = "solving"
      BY <1>7 DEF ReportSolution, ConsistentValue, Offer
    <2>2. Assigned(v) \in Solutions \ reported
      BY <2>1, CompleteAssignment
    <2>3. QED
      BY <1>7, <2>1, <2>2, SameProblem
         DEF ReportSolution, ConsistentValue, Promise!ReportAndContinue, Promise!Report
  <1>8. ASSUME NEW v \in Value, ReportAndAbort(v) PROVE Promise!ReportAndAbort
    <2>1. ConsistentValue(v) /\ current + 1 = plan.free /\ phase = "solving"
      BY <1>8 DEF ReportAndAbort, ConsistentValue, Offer
    <2>2. Assigned(v) \in Solutions \ reported
      BY <2>1, CompleteAssignment
    <2>3. QED
      BY <1>8, <2>1, <2>2, SameProblem
         DEF ReportAndAbort, ConsistentValue, Promise!ReportAndAbort, Promise!Report
  <1>9. CASE AssignUnsuccessful
    <2>1. CASE Cease
      <3>1. reported' = reported /\ reported' = Solutions' /\ Solutions' = Solutions
        BY <2>1, SameProblem DEF Cease, IInv, Exhaustive
      <3>2. QED
        BY <1>9, <2>1, <3>1 DEF AssignUnsuccessful, Cease, Promise!Finish
    <2>2. ASSUME NEW i, BackTo(i) PROVE UNCHANGED <<phase, Solutions, reported>>
      BY <2>2, SameProblem DEF BackTo
    <2>3. QED
      BY <1>9, <2>1, <2>2 DEF AssignUnsuccessful
  <1>10. CASE Stop
    BY <1>10, <1>0 DEF Stop, Promise!Stop
  <1>11. CASE UNCHANGED vars
    BY <1>11, SameProblem DEF vars
  <1>12. QED
    BY <1>1, <1>2, <1>3, <1>4, <1>5, <1>6, <1>7, <1>8, <1>9, <1>10, <1>11 DEF Next, Search

\* Either solver implements what csp/solver.hpp promises: exactly the solutions,
\* each once, and a normal return only when all have been reported.
THEOREM KeepsPromise == Spec => PromiseKept
  <1>1. Init => Promise!Init
    <2> SUFFICES ASSUME Init PROVE Promise!Init
      OBVIOUS
    <2>1. TypeOK
      BY InitIInv DEF IInv
    <2>2. QED
      BY <2>1, GoalTyped DEF Init, Promise!Init
  <1>2. IInv /\ IInv' /\ [Next]_vars => [Promise!Next]_(Promise!vars)
    BY StepKeepsPromise
  <1>3. QED
    BY <1>1, <1>2, InvariantHolds, PTL DEF Spec, PromiseKept, Promise!Spec

===============================================================================
