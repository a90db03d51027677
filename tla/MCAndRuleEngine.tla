--------------------------- MODULE MCAndRuleEngine ---------------------------
(***************************************************************************)
(* Instances of AndRuleEngine: two agents, on two kinds of worlds. The     *)
(* first agent makes two decisions, on every small tree of choices; or     *)
(* both make one decision each, on two solutions.                          *)
(***************************************************************************)
EXTENDS AndRuleEngine

R1 == DecisionRange(1, FALSE)   R2 == DecisionRange(2, FALSE)
I0 == DecisionRange(0, TRUE)    I1 == DecisionRange(1, TRUE)

Leaf == {<<i, j>> : i, j \in 0..1}
Paths2 == {<<>>, <<0>>, <<1>>} \cup Leaf
Paths1 == {<<>>, <<0>>, <<1>>}

(* Trees of one agent with two decisions: the second range depends on the  *)
(* first choice, and a query may fail, or return early, at any point.      *)
DeepTrees ==
    {[p \in Paths2 |-> CASE p = <<>> -> top [] p = <<0>> -> first [] p = <<1>> -> second
                         [] p \in dead -> Mismatch [] OTHER -> Hit] :
        top \in {R2, I0, I1, Hit, Mismatch},
        first \in {R2, I0, I1, Hit, Mismatch}, second \in {R1, I1, Hit, Mismatch},
        dead \in {{}, {<<0, 1>>, <<1, 0>>}}}

ShallowTrees ==
    {[p \in Paths1 |-> CASE p = <<>> -> top [] p = <<0>> -> first [] OTHER -> Hit] :
        top \in {R1, I1, Hit}, first \in {Hit, Mismatch}}

TwoSolutions == {"s1", "s2"}
TwoDecisions == <<2, 1>>

(* The first agent has two decisions, the second has nothing to choose. At *)
(* most one combination is accepted: the search stops at the first.        *)
NoChoice == [p \in {<<>>} |-> Hit]
DeepWorlds ==
    {[goal |-> {"s1"}, ask |-> [s \in TwoSolutions |-> <<tree, NoChoice>>],
      good |-> {<<"s1", 2, <<>>>>} \cup {<<"s1", 1, p>> : p \in accepted}] :
        tree \in DeepTrees, accepted \in {{}, {<<0>>}, {<<0, 1>>}, {<<1, 1>>}}}

(* s2 is not regenerable, unless all is accepted. *)
WideWorlds ==
    {[goal |-> goals, ask |-> [s \in TwoSolutions |-> IF s = "s1" THEN <<t1, t2>> ELSE <<t2, t1>>],
      good |-> good] :
        goals \in {{}, {"s1"}, TwoSolutions}, t1, t2 \in ShallowTrees,
        good \in {TwoSolutions \X {1, 2} \X Paths1}
              \cup {({"s1"} \X {1, 2} \X {p}) \cup ({"s2"} \X {1} \X Paths1) : p \in {<<0>>, <<1>>}}}

AllWorlds == DeepWorlds \cup WideWorlds
=============================================================================
