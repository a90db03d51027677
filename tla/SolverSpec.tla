------------------------------ MODULE SolverSpec ------------------------------
(***************************************************************************)
(* What a CSP::Solver promises its client (csp/solver.hpp): Run() reports, *)
(* through the supplied function, the solutions of the problem it was      *)
(* started on - only those, each of them once - and returns when there are *)
(* no others.  The report function may abort the solve by throwing.        *)
(***************************************************************************)

CONSTANT Solution   \* everything that could be a solution of some problem

VARIABLES
  phase,      \* where the client's Start / Run / Stop protocol has got to
  goal,       \* the solutions of the problem being solved
  reported    \* the solutions given to the report function so far

vars == <<phase, goal, reported>>

Init ==
  /\ phase = "idle"
  /\ goal \in SUBSET Solution
  /\ reported = {}

\* The problem is fixed when the solver is started.
Start ==
  /\ phase = "idle"
  /\ phase' = "started"
  /\ goal' \in SUBSET Solution
  /\ UNCHANGED reported

Begin ==
  /\ phase = "started"
  /\ phase' = "solving"
  /\ UNCHANGED <<goal, reported>>

Report(from, to) ==
  /\ phase \in from
  /\ phase' = to
  /\ \E s \in goal \ reported : reported' = reported \cup {s}
  /\ UNCHANGED goal

\* The report function returned: the solver goes on looking.
ReportAndContinue == Report({"solving"}, "solving")

\* The report function threw: Run() is unwound.
ReportAndAbort == Report({"started", "solving"}, "aborted")

\* Run() returned: nothing is left to report.  A solver with nothing to search
\* reports its only solution and returns in the same step.
Finish ==
  \/ /\ phase \in {"started", "solving"}
     /\ reported = goal
     /\ phase' = "done"
     /\ UNCHANGED <<goal, reported>>
  \/ /\ Report({"started"}, "done")
     /\ reported' = goal

Stop ==
  /\ phase \in {"done", "aborted"}
  /\ phase' = "idle"
  /\ goal' \in SUBSET Solution
  /\ reported' = {}

Next == Start \/ Begin \/ ReportAndContinue \/ ReportAndAbort \/ Finish \/ Stop

Spec == Init /\ [][Next]_vars
===============================================================================
