-------------------------- MODULE MCTameExtension ---------------------------
(***************************************************************************)
(* MCDomainExtension where the extenders keep the conditions below.  Not   *)
(* all of those in the repository do: MCDomainExtension_nested.cfg and     *)
(* MCDomainExtension_refused.cfg have two that do not.                     *)
(***************************************************************************)
EXTENDS MCDomainExtension

Stimulates(ch, k) == \E seen \in SUBSET Kinds : Induces(ch, k, seen) # NoClass

(* No channel's extra trees change what that channel has recorded. *)
OwnTreesInert ==
    \A ch \in Channels, j \in Kinds : \A k \in BuiltKinds(ch) :
        ~Stimulates(ch, k) /\ (Stimulates(ch, j) => k \notin Reads[ch][j])

(* Extra trees stimulate only channels later in the order of the map. *)
ExtraTreesLookAhead ==
    \A ch \in Channels, k \in Kinds, later \in Channels :
        k \in BuiltKinds(later) /\ ch <= later => ~Stimulates(ch, k)

(* No extender reads a link of an extra tree, besides its own stimulus. *)
ExtraTreesUnread ==
    \A ch, other \in Channels, j \in Kinds :
        Stimulates(ch, j) => Reads[ch][j] \cap BuiltKinds(other) = {}

(* Whether an extender has a value depends on the stimulus alone. *)
RefusalByKind ==
    \A ch \in Channels, k \in Kinds, seen \in SUBSET Kinds :
        Stimulates(ch, k) => Induces(ch, k, seen) # NoClass

ASSUME ExtendersAreTame ==
    OwnTreesInert /\ ExtraTreesLookAhead /\ ExtraTreesUnread /\ RefusalByKind
=============================================================================
