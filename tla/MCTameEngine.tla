---------------------------- MODULE MCTameEngine ----------------------------
(* MCSCREngine with patterns that keep the conditions of SCREngine_proofs.  *)
EXTENDS MCSCREngine

ASSUME PlansAreTame ==
    \A p \in Patterns :
        LinksSeparate(PlanFor(p)) /\ KeysAreSure(PlanFor(p)) /\ RunsEachOnce(PlanFor(p))
=============================================================================
