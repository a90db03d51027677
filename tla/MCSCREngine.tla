----------------------------- MODULE MCSCREngine -----------------------------
(* Patterns for SCREngine.                                                 *)
EXTENDS SCREngine

(* The links of each agent, those not named having none. *)
Links(agents, some) == [a \in agents |-> IF a \in DOMAIN some THEN some[a] ELSE <<>>]

(* Two embedded patterns at one level, L reaching M by its through link.   *)
(* They are coupled to X and Y, which the root pattern has below M; R is   *)
(* made by the delta D and T only compared, with U, which is coupled too,  *)
(* and V below a disjunction.                                              *)
SiblingAgents == {"A", "D", "T", "R", "L", "M", "X", "Y", "S", "U", "V", "B", "C"}
Siblings ==
    [root |-> "e0",
     origin |-> [e0 |-> "o0", e1 |-> "o1", e2 |-> "o2"],
     enclosing |-> [e1 |-> "e0", e2 |-> "e0"],
     embedded |-> [L |-> "e1", M |-> "e2"],
     child |-> [o0 |-> "A", AL |-> "L", LM |-> "M", MX |-> "X", XY |-> "Y", AD |-> "D", AS |-> "S",
                DT |-> "T", TU |-> "U", TV |-> "V", DR |-> "R", RY |-> "Y", RS |-> "S", o1 |-> "B", BX |-> "X", o2 |-> "C", CY |-> "Y", CU |-> "U"],
     compare |-> Links(SiblingAgents, [A |-> <<"AL", "AD", "AS">>, L |-> <<"LM">>, M |-> <<"MX">>,
                    X |-> <<"XY">>, D |-> <<"DT">>, T |-> <<"TU", "TV">>, B |-> <<"BX">>, C |-> <<"CY", "CU">>]),
     replace |-> Links(SiblingAgents, [A |-> <<"AL", "AD", "AS">>, L |-> <<"LM">>, M |-> <<"MX">>,
                    X |-> <<"XY">>, D |-> <<"DR">>, R |-> <<"RY", "RS">>, B |-> <<"BX">>, C |-> <<"CY", "CU">>]),
     unmatched |-> {"TV"}]

(* A pattern embedded in an embedded one.  Its coupling is to an agent of  *)
(* the first (Y), or of the root (X); or to an agent (P) of the first that *)
(* is itself linked to one of the root.                                    *)
NestedAgents == {"A", "L", "X", "P", "N", "Y", "C"}
Nested(coupling) ==
    [root |-> "e0",
     origin |-> [e0 |-> "o0", e1 |-> "o1", e2 |-> "o2"],
     enclosing |-> [e1 |-> "e0", e2 |-> "e1"],
     embedded |-> [L |-> "e1", N |-> "e2"],
     child |-> [o0 |-> "A", AL |-> "L", LX |-> "X", o1 |-> "N", NP |-> "P", PX |-> "X", PY |-> "Y",
                o2 |-> "C", CQ |-> coupling],
     compare |-> Links(NestedAgents, [A |-> <<"AL">>, L |-> <<"LX">>, N |-> <<"NP">>,
                    P |-> <<"PX", "PY">>, C |-> <<"CQ">>]),
     replace |-> Links(NestedAgents, [A |-> <<"AL">>, L |-> <<"LX">>, N |-> <<"NP">>,
                    P |-> <<"PX", "PY">>, C |-> <<"CQ">>]),
     unmatched |-> {}]

TamePatterns == {Siblings, Nested("X"), Nested("Y")}
CoupledPatterns == {Nested("P")}

MCStopCounts == {<<>>, <<0>>, <<1>>, <<2>>, <<1, 1>>, <<2, 1>>, <<1, 2>>, <<2, 0>>, <<1, 1, 1>>, <<1, 2, 1>>}
NoCounts == {<<>>}

MCMaxReps == {<<1, TRUE>>, <<2, TRUE>>, <<2, FALSE>>, <<3, FALSE>>}
OneMaxReps == {<<2, FALSE>>}
=============================================================================
