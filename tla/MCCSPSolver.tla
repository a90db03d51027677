------------------------------ MODULE MCCSPSolver ------------------------------
(* CSPSolver on small constraint networks. *)
EXTENDS CSPSolver

CONSTANTS c1, c2, c3

Plan(n, s1, s2, s3) ==
  [free |-> n, scope |-> [c \in Constraint |->
     CASE c = c1 -> s1 [] c = c2 -> s2 [] c = c3 -> s3]]

\* No free variables; one; a chain; a variable between two that conflict; a
\* constraint over three; four variables with two independent pairs.
MCPlans ==
  { Plan(0, {}, {}, {}),
    Plan(1, {0}, {}, {0}),
    Plan(3, {0, 1}, {1, 2}, {}),
    Plan(3, {0, 2}, {0, 1}, {2}),
    Plan(3, {1}, {0, 2}, {}),
    Plan(3, {0, 1, 2}, {1}, {}),
    Plan(4, {0, 3}, {1, 2}, {}) }
===============================================================================
