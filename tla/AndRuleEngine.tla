---------------------------- MODULE AndRuleEngine ----------------------------
(***************************************************************************)
(* VN::AndRuleEngine::Compare() and the regeneration of a solution: the    *)
(* CSP solver, taken at its promise (SolverSpec), reports solutions; for   *)
(* each one every agent of the pattern runs a query that makes choices at  *)
(* decision points, a Conjecture steps through the choices, and the links  *)
(* the query arrives at are compared by subordinate engines.  The first    *)
(* solution for which all agents succeed unwinds the solver.               *)
(*                                                                         *)
(* An agent's query is a deterministic function of the solution and of the *)
(* choices made so far (the path): it asks for one more decision, fails or *)
(* returns.  This, and what the subordinate engines accept, changes with   *)
(* the tree and is the world that a call of Compare() meets.  Iterators of *)
(* a range of n elements are the numbers 0..n, n being its end.            *)
(***************************************************************************)
EXTENDS Integers, Sequences, FiniteSets, FiniteSetsExt

CONSTANTS
    Solution,      \* what the solver may report
    N,             \* number of my_normal_agents, visited in the order 1..N
    NumDecisions,  \* [1..N -> Nat]: the decisions of each agent's pattern query
    Worlds         \* goal: what the solver reports; ask[s][a][path]: what the
                   \* query of agent a does next; good: accepted <<s, a, path>>

Agents == 1..N

Hit      == [kind |-> "hit"]
Mismatch == [kind |-> "mismatch"]
DecisionRange(size, inclusive) == [kind |-> "range", size |-> size, inclusive |-> inclusive]
EmptyRange == DecisionRange(0, FALSE)

(* What a decision can be: RegisterDecision() asserts that it is not empty. *)
ChoicesOf(r) == 0..(IF r.inclusive THEN r.size ELSE r.size - 1)

(* What a query can be asked: it gives the same range after the same       *)
(* choices, makes at most NumDecisions[a] of them, and each choice leads on.*)
Ranges == [kind : {"range"}, size : Nat, inclusive : BOOLEAN]
IsChoiceTree(tree, a) ==
    /\ DOMAIN tree \subseteq Seq(Nat) /\ <<>> \in DOMAIN tree
    /\ \A p \in DOMAIN tree :
        \/ tree[p] = Hit \/ tree[p] = Mismatch
        \/ /\ tree[p] \in Ranges
           /\ Len(p) < NumDecisions[a]
           /\ ChoicesOf(tree[p]) # {}
           /\ \A c \in ChoicesOf(tree[p]) : Append(p, c) \in DOMAIN tree

ASSUME WorldsAssumption ==
    /\ N \in Nat /\ N > 0 /\ NumDecisions \in [Agents -> Nat]
    /\ Solution # {}
    /\ \A w \in Worlds :
        /\ w.goal \subseteq Solution
        /\ \A s \in w.goal, a \in Agents : IsChoiceTree(w.ask[s][a], a)

VARIABLES
    world, solver_phase, goal, reported,
    pc,            \* where the call of Compare() is
    basic,         \* basic_solution: the solution being regenerated
    agent,         \* the agent being regenerated
    path,          \* choices the current query has used: next_choice, and links
    choices,       \* per agent, of each decision: mode and iter
    decisions,     \* per agent, the range of each decision
    last_activity, \* per agent
    chosen,        \* abnormal links put in the solution, as the path they are from
    tried          \* history: the paths given to the subordinate engines

conjecture == <<choices, decisions, last_activity>>
solver == <<solver_phase, goal, reported>>
vars == <<world, solver, pc, basic, agent, path, conjecture, chosen, tried>>

Solver == INSTANCE SolverSpec WITH phase <- solver_phase

Begin == [mode |-> "BEGIN", iter |-> 0]
Iter(i) == [mode |-> "ITER", iter |-> i]
AllBegin(a) == [i \in 1..NumDecisions[a] |-> Begin]
AllEmpty(a) == [i \in 1..NumDecisions[a] |-> EmptyRange]

(* Between calls of Compare(): no solution, and nothing to ask of a tree. *)
NoWorld == [goal |-> {}]
Nothing == CHOOSE s \in Solution : TRUE

Init ==
    /\ world = NoWorld
    /\ solver_phase = "idle" /\ goal = {} /\ reported = {}
    /\ pc = "idle"
    /\ basic = Nothing
    /\ agent = 1
    /\ path = <<>>
    /\ choices = [a \in Agents |-> AllBegin(a)]
    /\ decisions = [a \in Agents |-> AllEmpty(a)]
    /\ last_activity = [a \in Agents |-> "NEW"]
    /\ chosen = <<>>
    /\ tried = {}

-----------------------------------------------------------------------------
(* Conjecture                                                              *)

(* Mutant of Start: choices are left as the previous search left them. *)
StartLeavesChoices(a) ==
    /\ choices' = choices
    /\ decisions' = [decisions EXCEPT ![a] = AllEmpty(a)]
    /\ UNCHANGED last_activity

(* Conjecture::Start(), which AgentRegeneration() begins with. *)
Start(a) ==
    /\ choices' = [choices EXCEPT ![a] = AllBegin(a)]
    /\ decisions' = [decisions EXCEPT ![a] = AllEmpty(a)]
    /\ UNCHANGED last_activity

(* Mutant of At: an iterator that is one too low. *)
AtBefore(choice) == IF choice.mode = "BEGIN" THEN -1 ELSE choice.iter - 1

At(choice) == IF choice.mode = "BEGIN" THEN 0 ELSE choice.iter

(* Mutant of CanAdvance: an inclusive range is taken as exclusive. *)
CanAdvanceExclusive(a, i) ==
    At(choices[a][i]) \notin {decisions[a][i].size - 1, decisions[a][i].size}

(* The decisions whose choice IncrementAgent() can step on. *)
CanAdvance(a, i) ==
    LET r == decisions[a][i]
    IN  /\ At(choices[a][i]) # r.size
        /\ r.inclusive \/ At(choices[a][i]) + 1 # r.size

Advanceable(a) ==
    IF last_activity[a] = "QUERY" THEN {i \in 1..NumDecisions[a] : CanAdvance(a, i)}
                                  ELSE {}

(* Mutants of IncrementAgent: the decisions after the one stepped on are   *)
(* not invalidated; no step is made.                                       *)
IncrementKeepsLater(a) ==
    IF Advanceable(a) = {} THEN AllBegin(a)
    ELSE LET bc == Max(Advanceable(a))
         IN  [choices[a] EXCEPT ![bc] = Iter(At(choices[a][bc]) + 1)]

IncrementStuck(a) ==
    IF Advanceable(a) = {} THEN AllBegin(a)
    ELSE [choices[a] EXCEPT ![Max(Advanceable(a))] = Iter(At(@))]

(* IncrementAgent(): step the last choice that can be, invalidate those    *)
(* after it; if there is none, all are.                                    *)
IncrementAgent(a) ==
    IF Advanceable(a) = {} THEN AllBegin(a)
    ELSE LET bc == Max(Advanceable(a))
         IN  [i \in 1..NumDecisions[a] |->
                 CASE i > bc -> Begin
                   [] i = bc -> Iter(At(choices[a][bc]) + 1)
                   [] OTHER  -> choices[a][i]]

(* Conjecture::Increment(), which returns whether to try again. *)
Increment(ok) ==
    /\ ok = (Advanceable(agent) # {})
    /\ choices' = IF last_activity[agent] = "QUERY"
                  THEN [choices EXCEPT ![agent] = IncrementAgent(agent)] ELSE choices
    /\ last_activity' = [last_activity EXCEPT ![agent] =
                            IF @ = "QUERY" /\ NumDecisions[agent] > 0 THEN "CONJECTURE" ELSE @]

-----------------------------------------------------------------------------
(* Compare() and OnSolution()                                              *)

(* A new call, on a tree that is different from the last one's. *)
Compare ==
    /\ pc = "idle"
    /\ world' \in Worlds
    /\ Solver!Start /\ goal' = world'.goal
    /\ pc' = "solving"
    /\ UNCHANGED <<basic, agent, path, conjecture, chosen, tried>>

RunSolver ==
    /\ pc = "solving"
    /\ Solver!Begin
    /\ UNCHANGED <<world, pc, basic, agent, path, conjecture, chosen, tried>>

(* Mutant of OnSolution: links of a solution given up stay in the next. *)
OnSolutionKeepsLinks ==
    /\ pc = "solving"
    /\ solver_phase = "solving" \/ (solver_phase = "started" /\ Cardinality(goal) = 1)
    /\ \E s \in goal \ reported : basic' = s
    /\ agent' = 1
    /\ Start(1)
    /\ pc' = "begin"
    /\ tried' = {}
    /\ UNCHANGED <<world, solver, path, chosen>>

(* The solver calls OnSolution(), whose loop over agents begins.  With     *)
(* nothing to search, it does so straight away.                            *)
OnSolution ==
    /\ pc = "solving"
    /\ solver_phase = "solving" \/ (solver_phase = "started" /\ Cardinality(goal) = 1)
    /\ \E s \in goal \ reported : basic' = s
    /\ agent' = 1
    /\ Start(1)
    /\ pc' = "begin"
    /\ chosen' = <<>>
    /\ tried' = {}
    /\ UNCHANGED <<world, solver, path>>

(* OnSolution() returns: the solver goes on, or has nothing to go on with. *)
SolutionFails ==
    /\ Solver!ReportAndContinue \/ Solver!Finish
    /\ reported' = reported \cup {basic}
    /\ pc' = IF solver_phase' = "done" THEN "returned" ELSE "solving"

SolverReturns ==
    /\ pc = "solving"
    /\ Solver!Finish /\ reported' = reported
    /\ pc' = "returned"
    /\ UNCHANGED <<world, basic, agent, path, conjecture, chosen, tried>>

(* Compare() stops the solver, whichever way Run() ended. *)
StopSolver ==
    /\ pc \in {"returned", "thrown"}
    /\ Solver!Stop /\ goal' = {}
    /\ pc' = IF pc = "thrown" THEN "matched" ELSE "mismatched"
    /\ UNCHANGED <<world, basic, agent, path, conjecture, chosen, tried>>

(* The caller has the outcome; only the conjectures and the solver remain. *)
Return ==
    /\ pc \in {"matched", "mismatched"}
    /\ pc' = "idle"
    /\ world' = NoWorld /\ basic' = Nothing
    /\ agent' = 1 /\ path' = <<>> /\ chosen' = <<>> /\ tried' = {}
    /\ UNCHANGED <<solver, conjecture>>

-----------------------------------------------------------------------------
(* AgentRegeneration() and the lambda of StartRegenerationQuery()          *)

Asked == world.ask[basic][agent][path]

(* RunRegenerationQuery(): Reset() and call the agent. *)
BeginQuery ==
    /\ pc = "begin"
    /\ last_activity' = [last_activity EXCEPT ![agent] = "QUERY"]
    /\ path' = <<>>
    /\ pc' = "query"
    /\ UNCHANGED <<world, solver, basic, agent, choices, decisions, chosen, tried>>

(* DecidedQuery::RegisterDecision() *)
RegisterDecision ==
    /\ pc = "query" /\ Asked.kind = "range"
    /\ LET i == Len(path) + 1
       IN  /\ path' = Append(path, At(choices[agent][i]))
           /\ decisions' = IF choices[agent][i].mode = "BEGIN"
                           THEN [decisions EXCEPT ![agent][i] = Asked] ELSE decisions
    /\ UNCHANGED <<world, solver, pc, basic, agent, choices, last_activity, chosen, tried>>

(* The decisions the query did not get to, filled in as it is left. *)
CompleteDecisionsWithEmpty ==
    [decisions EXCEPT ![agent] = [i \in DOMAIN @ |-> IF i > Len(path) THEN EmptyRange ELSE @[i]]]

QueryReturns ==
    /\ pc = "query" /\ Asked = Hit
    /\ decisions' = CompleteDecisionsWithEmpty
    /\ pc' = "client"
    /\ UNCHANGED <<world, solver, basic, agent, path, choices, last_activity, chosen, tried>>

QueryThrows ==
    /\ pc = "query" /\ Asked = Mismatch
    /\ decisions' = CompleteDecisionsWithEmpty
    /\ pc' = "caught"
    /\ UNCHANGED <<world, solver, basic, agent, path, choices, last_activity, chosen, tried>>

(* The subordinate engines compare the links the query found. *)
ClientRejects ==
    /\ pc = "client" /\ <<basic, agent, path>> \notin world.good
    /\ tried' = tried \cup {path}
    /\ pc' = "caught"
    /\ UNCHANGED <<world, solver, basic, agent, path, conjecture, chosen>>

(* The lambda, after a mismatch: increment and query again, or give up on  *)
(* this solution.                                                          *)
TryAgain ==
    /\ pc = "caught"
    /\ Increment(TRUE)
    /\ pc' = "begin"
    /\ UNCHANGED <<world, solver, basic, agent, path, decisions, chosen, tried>>

GiveUp ==
    /\ pc = "caught"
    /\ Increment(FALSE)
    /\ path' = <<>>
    /\ SolutionFails
    /\ UNCHANGED <<world, basic, agent, decisions, chosen, tried>>

Accepted ==
    /\ pc = "client" /\ <<basic, agent, path>> \in world.good
    /\ chosen' = Append(chosen, path)
    /\ path' = <<>>
    /\ UNCHANGED <<world, basic>>

ClientAccepts ==
    /\ Accepted /\ agent < N
    /\ agent' = agent + 1
    /\ Start(agent + 1)
    /\ tried' = {}
    /\ pc' = "begin"
    /\ UNCHANGED solver

(* All agents are regenerated: SuccessfulMatch is thrown. *)
SuccessfulMatch ==
    /\ Accepted /\ agent = N
    /\ Solver!ReportAndAbort /\ reported' = reported \cup {basic}
    /\ tried' = tried \cup {path}
    /\ pc' = "thrown"
    /\ UNCHANGED <<agent, conjecture>>

-----------------------------------------------------------------------------
Running ==
    \/ RunSolver \/ OnSolution \/ SolverReturns \/ StopSolver \/ Return
    \/ BeginQuery \/ RegisterDecision \/ QueryReturns \/ QueryThrows
    \/ ClientRejects \/ TryAgain \/ GiveUp \/ ClientAccepts \/ SuccessfulMatch

Next == Compare \/ Running

(* Compare() is one call on one thread: once begun it keeps taking steps. *)
Spec == Init /\ [][Next]_vars /\ WF_vars(Running)

-----------------------------------------------------------------------------
(* What regeneration means.                                                *)

Reachable(tree, p) ==
    \A i \in 1..Len(p) :
        LET q == SubSeq(p, 1, i - 1)
        IN  q \in DOMAIN tree /\ tree[q].kind = "range" /\ p[i] \in ChoicesOf(tree[q])

(* The combinations of choices for which an agent's query returns. *)
Hits(s, a) ==
    {p \in DOMAIN world.ask[s][a] : /\ world.ask[s][a][p] = Hit
                                    /\ Reachable(world.ask[s][a], p)}

Regenerable(s) == \A a \in Agents : \E p \in Hits(s, a) : <<s, a, p>> \in world.good

(* Lexicographic order of paths, the order choices are to be tried in. *)
Before(p, q) ==
    \E i \in 1..Len(q) : /\ i <= Len(p) /\ p[i] < q[i]
                         /\ \A j \in 1..(i - 1) : p[j] = q[j]

-----------------------------------------------------------------------------
(* Properties.                                                             *)

(* Conjectures, choices and the phase hold what their C++ types hold. *)
TypeOK ==
    /\ pc \in {"idle", "solving", "begin", "query", "client", "caught", "returned",
               "thrown", "matched", "mismatched"}
    /\ basic \in Solution
    /\ agent \in Agents
    /\ path \in Seq(Nat) /\ tried \subseteq Seq(Nat)
    /\ chosen \in Seq(Seq(Nat))
    /\ DOMAIN choices = Agents /\ DOMAIN decisions = Agents
    /\ \A a \in Agents :
        /\ choices[a] \in [1..NumDecisions[a] -> [mode : {"BEGIN", "ITER"}, iter : Nat]]
        /\ decisions[a] \in [1..NumDecisions[a] -> Ranges]
    /\ last_activity \in [Agents -> {"NEW", "QUERY", "CONJECTURE"}]

(* A match that Compare() returns is a solution of the constraint problem, *)
(* with, for every agent, links that its query gave and that were accepted *)
(* for this solution and not for one tried before.                         *)
MatchIsReal ==
    pc \in {"thrown", "matched"} =>
        /\ basic \in world.goal
        /\ Len(chosen) = N
        /\ \A a \in Agents : chosen[a] \in Hits(basic, a) /\ <<basic, a, chosen[a]>> \in world.good

(* Compare() throws a mismatch only if there is none: no solution is given *)
(* up with a combination of choices untried, and none is skipped.          *)
MismatchIsReal == pc = "mismatched" => \A s \in world.goal : ~ Regenerable(s)

(* RegisterDecision(): "any decision submitted here must match the         *)
(* previous one so that the iterator remains valid", and no choice is the  *)
(* end of an exclusive range.                                              *)
IteratorsValid ==
    pc = "query" /\ Asked.kind = "range" =>
        LET i == Len(path) + 1
        IN  /\ choices[agent][i].mode = "ITER" => decisions[agent][i] = Asked
            /\ At(choices[agent][i]) \in ChoicesOf(Asked)

(* The subordinate engines see the combinations of choices of one agent in *)
(* lexicographic order, so none twice; and when the agent gives up, every  *)
(* combination that its query returns for has been tried.                  *)
TriesAll ==
    [][/\ GiveUp => Hits(basic, agent) \subseteq tried
       /\ pc' = "client" => \A p \in tried' : Before(p, path')]_vars

(* Compare() comes to an end. *)
CompareEnds == pc = "solving" ~> pc \in {"matched", "mismatched"}

-----------------------------------------------------------------------------
(* What holds the above together: the inductive invariant.                 *)

Regenerating == pc \in {"begin", "query", "client", "caught"}

(* The solver is where the call is, and works on the world of the call.    *)
SolverInStep ==
    /\ pc \in {"idle", "matched", "mismatched"} => solver_phase = "idle" /\ reported = {}
    /\ pc = "solving" \/ Regenerating => solver_phase \in {"started", "solving"}
    /\ pc = "returned" => solver_phase = "done" /\ reported = goal
    /\ pc = "thrown" => solver_phase = "aborted"
    /\ pc # "idle" => world \in Worlds
    /\ pc \notin {"idle", "matched", "mismatched"} => goal = world.goal
    /\ reported \subseteq goal

(* A solution that was reported and did not unwind the solver was given up *)
(* for a reason.                                                           *)
GivenUpForCause ==
    pc \notin {"idle", "thrown", "matched"} =>
        \A s \in reported : ~ Regenerable(s)

Tree == world.ask[basic][agent]
Position == [i \in 1..NumDecisions[agent] |-> At(choices[agent][i])]

(* The first k of the choices s lead down the tree, by the ranges given.   *)
Follows(tree, ranges, s, k) ==
    \A i \in 1..k :
        LET q == SubSeq(s, 1, i - 1)
        IN  /\ q \in DOMAIN tree /\ tree[q].kind = "range"
            /\ ranges[i] = tree[q]
            /\ s[i] \in ChoicesOf(tree[q])

(* The choices are a way down the tree, by the decisions, as far as they   *)
(* have been made, and from there on invalidated.                          *)
ChoicesFollow ==
    Regenerating =>
        \E k \in 0..NumDecisions[agent] :
            /\ Follows(Tree, decisions[agent], Position, k)
            /\ \A i \in 1..NumDecisions[agent] : i > k => choices[agent][i] = Begin

(* A query takes that way. *)
PathFollows ==
    pc \in {"query", "client", "caught"} =>
        /\ last_activity[agent] = "QUERY"
        /\ Len(path) <= NumDecisions[agent]
        /\ path = SubSeq(Position, 1, Len(path)) /\ path \in DOMAIN Tree
        /\ Follows(Tree, decisions[agent], Position, Len(path))

(* It ends where there is no further decision, and has left none behind.   *)
QueryEnded ==
    pc \in {"client", "caught"} =>
        /\ pc = "client" => Tree[path] = Hit
        /\ pc = "caught" => Tree[path] = Mismatch \/ path \in tried
        /\ Tree[path].kind # "range"
        /\ \A i \in 1..NumDecisions[agent] :
               i > Len(path) => decisions[agent][i] = EmptyRange

(* What comes before the choices has been tried, and refused; nothing else *)
(* has.                                                                    *)
TriedSoFar ==
    Regenerating =>
        /\ basic \in goal \ reported
        /\ \A p \in tried : /\ Before(p, Position) \/ (pc = "caught" /\ p = path)
                            /\ <<basic, agent, p>> \notin world.good
        /\ \A p \in Hits(basic, agent) \ tried : ~ Before(p, Position)

(* The agents already done have their links. *)
ChosenSoFar ==
    Regenerating =>
        /\ Len(chosen) = agent - 1
        /\ \A a \in 1..(agent - 1) :
               chosen[a] \in Hits(basic, a) /\ <<basic, a, chosen[a]>> \in world.good

(* Where a call of Compare() is: solver, conjectures and results together. *)
RegenerationInvariant ==
    /\ TypeOK
    /\ SolverInStep
    /\ GivenUpForCause
    /\ ChoicesFollow
    /\ PathFollows
    /\ QueryEnded
    /\ TriedSoFar
    /\ ChosenSoFar
    /\ MatchIsReal
    /\ MismatchIsReal
=============================================================================
