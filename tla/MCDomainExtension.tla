-------------------------- MODULE MCDomainExtension --------------------------
(***************************************************************************)
(* Instances of DomainExtension.  Kinds: a Use is an expression whose type *)
(* is worked out from the declaration in the tree, DeclA or DeclB; a Lit   *)
(* is a literal, such as the width of an integral type, which has a type   *)
(* of its own.  Channel 1 is TransformOf(TypeOf), channel 2 PointerIs.     *)
(***************************************************************************)
EXTENDS DomainExtension

Use == "Use"  DeclA == "DeclA"  DeclB == "DeclB"  Lit == "Lit"  Leaf == "Leaf"
Scaf == "Scaffold"
AllKinds == {Use, DeclA, DeclB, Lit, Leaf, Scaf}

SortOf == [k \in AllKinds |-> CASE k \in {DeclA, DeclB} -> "Decl"
                                [] OTHER -> "Expr"]
MCClasses == {"A", "B", "L"}
Channels1 == 1..1
Channels2 == 1..2
Main2 == <<Use, DeclA>>
SixLinks == 1..6

(* The heap gives the lowest or the highest addresses that are free. *)
LowOrHigh(F, n) ==
    {x \in F : \/ Cardinality({y \in F : y < x}) < n
               \/ Cardinality({y \in F : y > x}) < n}

TypeOfReads == [k \in AllKinds |-> CASE k = Use -> {"self", DeclA, DeclB}
                                     [] k = Lit -> {"self"}
                                     [] OTHER -> {}]
PointerIsReads == [k \in AllKinds |-> {}]
Reads1 == <<TypeOfReads>>
Reads2 == <<TypeOfReads, PointerIsReads>>

(* Extra trees hold links that stimulate only the later channel, and every *)
(* Use has an induced type.                                                *)
TameInduces(ch, k, seen) ==
    CASE ch = 1 /\ k = Use -> IF DeclA \in seen THEN "A" ELSE "B"
      [] ch = 2 /\ k = Lit -> "L"
      [] OTHER -> "none"
(* The type of a Use is in the tree, or cannot be worked out, when DeclA   *)
(* declares it: TypeOf of an operator on a typedef throws Mismatch, and    *)
(* does not once the typedef is expanded.                                  *)
RefusingInduces(ch, k, seen) ==
    IF ch = 1 /\ k = Use /\ DeclB \in seen THEN "B" ELSE "none"

(* Literals in an extra tree stimulate the channel the tree belongs to.    *)
NestedInduces(ch, k, seen) ==
    CASE ch = 1 /\ k = Use -> IF DeclA \in seen THEN "A" ELSE "B"
      [] ch = 1 /\ k = Lit -> "L"
      [] OTHER -> "none"

TameBody == [c \in MCClasses |-> IF c = "L" THEN <<Leaf>> ELSE <<Lit>>]

(* Of every instance, tame or not. *)
ASSUME ExtendersAreFunctions == InducedStays
=============================================================================
