-------------------------- MODULE SCREngine_proofs ---------------------------
(***************************************************************************)
(* Proofs, for patterns with any number of engines however they are nested *)
(* and any settings of the step's options, that an engine leaves the map   *)
(* of assignments as it found it, finds in it what it looks up, and stops  *)
(* at its count.                                                           *)
(***************************************************************************)
EXTENDS SCREngine, TLAPS

-----------------------------------------------------------------------------
(* Sequences, plans and the last call.                                     *)

LEMMA ReplaceLast ==
    ASSUME NEW S, NEW s \in Seq(S), s # <<>>, NEW f \in S,
           NEW t, t = [s EXCEPT ![Len(s)] = f]
    PROVE  /\ t \in Seq(S) /\ Len(t) = Len(s) /\ t[Len(s)] = f
           /\ \A d \in 1..(Len(s) - 1) : t[d] = s[d]
  OBVIOUS

LEMMA DropLast ==
    ASSUME NEW S, NEW s \in Seq(S), s # <<>>, NEW t, t = Front(s)
    PROVE  /\ t \in Seq(S) /\ Len(t) = Len(s) - 1
           /\ \A d \in 1..(Len(s) - 1) : t[d] = s[d]
  <1>1. Len(s) \in Nat /\ Len(s) > 0
    OBVIOUS
  <1>2. PICK n \in Nat : n = Len(s) - 1
    BY <1>1
  <1>3. t = SubSeq(s, 1, n)
    BY <1>2 DEF Front
  <1>4. n <= Len(s)
    BY <1>1, <1>2
  <1>5. t \in Seq(S) /\ Len(t) = n
    BY <1>3, <1>4
  <1>6. \A d \in 1..n : t[d] = s[d]
    BY <1>3, <1>4
  <1>7. QED
    BY <1>2, <1>5, <1>6

LEMMA AppendOne ==
    ASSUME NEW S, NEW s \in Seq(S), NEW f \in S, NEW t, t = Append(s, f)
    PROVE  /\ t \in Seq(S) /\ Len(t) = Len(s) + 1 /\ t[Len(s) + 1] = f
           /\ \A d \in 1..Len(s) : t[d] = s[d]
  OBVIOUS

LEMMA TopIsACall ==
    ASSUME TypeOK, outcome = "running"
    PROVE  /\ Len(stack) \in Nat /\ Len(stack) > 0 /\ stack # <<>>
           /\ Len(stack) \in 1..Len(stack)
           /\ Top = stack[Len(stack)] /\ Top \in Frames
           /\ Top.engine \in Engines /\ Top.hits \in Nat /\ Top.next \in Nat
           /\ Top.initial \subseteq AllTouched(plan, Engines)
           /\ Top.next \in 1..(Len(Plan.embeddeds) + 1)
           /\ Len(Plan.embeddeds) \in Nat
           /\ Top.hits <= repetitions
           /\ Top.pc \in {"matched", "updated"} => Top.hits < repetitions
  <1>1. stack \in Seq(Frames) /\ stack # <<>>
    BY DEF TypeOK
  <1>2. Len(stack) \in Nat /\ Len(stack) > 0 /\ Len(stack) \in 1..Len(stack)
    BY <1>1
  <1>3. Top = stack[Len(stack)] /\ Top \in Frames
    BY <1>1, <1>2 DEF Top
  <1>4. Top.engine \in Engines /\ Top.hits \in Nat /\ Top.next \in Nat
        /\ Top.initial \subseteq AllTouched(plan, Engines)
    BY <1>3 DEF Frames
  <1>5. Top.next \in 1..(Len(Plan.embeddeds) + 1) /\ Top.hits <= repetitions
        /\ (Top.pc \in {"matched", "updated"} => Top.hits < repetitions)
    BY <1>2, <1>3 DEF TypeOK, Plan
  <1>6. Len(Plan.embeddeds) \in Nat
    BY <1>4 DEF TypeOK, PlanIsTree, Engines, Plan
  <1>7. QED
    BY <1>1, <1>2, <1>3, <1>4, <1>5, <1>6

(* What an engine touches is among what all engines touch. *)
LEMMA TouchesPlanned ==
    ASSUME NEW pl, NEW E, NEW e \in E
    PROVE  /\ Touched(pl, e) \subseteq AllTouched(pl, E)
           /\ pl[e].solved \subseteq AllTouched(pl, E)
           /\ pl[e].placed \subseteq AllTouched(pl, E)
  BY DEF AllTouched, Touched

(* An embedded engine is in the plan. *)
LEMMA EmbeddedIsPlanned ==
    ASSUME NEW pl, NEW rt, PlanIsTree(pl, rt), NEW e \in DOMAIN pl,
           NEW i \in 1..Len(pl[e].embeddeds)
    PROVE  /\ pl[e].embeddeds[i].engine \in Runs(pl, e)
           /\ pl[e].embeddeds[i].engine \in DOMAIN pl
           /\ pl[pl[e].embeddeds[i].engine].within = pl[e].within \cup {e}
  <1>1. i \in DOMAIN pl[e].embeddeds
    BY DEF PlanIsTree
  <1>2. pl[e].embeddeds[i] \in ToSet(pl[e].embeddeds)
    BY <1>1 DEF ToSet
  <1>3. pl[e].embeddeds[i].engine \in Runs(pl, e)
    BY <1>2 DEF Runs
  <1>4. QED
    BY <1>3 DEF PlanIsTree

LEMMA PropagatedType ==
    ASSUME TypeOK, outcome = "running"
    PROVE  Propagated \in [Engines -> [counts : Seq(Nat), depth : Nat]]
  <1>1. stop_after \in [Engines -> [counts : Seq(Nat), depth : Nat]]
    BY DEF TypeOK
  <1>2. Top.engine \in Engines
    BY TopIsACall
  <1> DEFINE s == stop_after[Top.engine]
  <1>3. s \in [counts : Seq(Nat), depth : Nat]
    BY <1>1, <1>2
  <1>4. [counts |-> s.counts, depth |-> s.depth + 1] \in [counts : Seq(Nat), depth : Nat]
    BY <1>3
  <1>5. QED
    BY <1>1, <1>4 DEF Propagated

-----------------------------------------------------------------------------
(* Types and the nesting of calls.                                         *)

(* What of TypeOK is about one call. *)
CallOK(pl, reps, f) ==
    /\ f.hits <= reps
    /\ f.pc \in {"matched", "updated"} => f.hits < reps
    /\ f.next \in 1..(Len(pl[f.engine].embeddeds) + 1)

LEMMA InitType ==
    ASSUME Init
    PROVE  TypeOK /\ CallsNest
  <1>1. PICK p \in Patterns : plan = PlanFor(p) /\ root = p.root
    BY DEF Init
  <1>2. PlanIsTree(plan, root)
    BY <1>1, PatternsAssumption
  <1>3. PICK reps \in MaxReps : repetitions = reps[1] /\ rep_error = reps[2]
    BY DEF Init
  <1>4. repetitions \in Nat
    BY <1>3, OptionsAssumption
  <1>5. root \in Engines /\ plan[root].within = {} /\ Len(plan[root].embeddeds) \in Nat
    BY <1>2 DEF PlanIsTree, Engines
  <1>6. Frame(root) \in Frames
    BY <1>5 DEF Frame, Frames
  <1>7. stack = <<Frame(root)>> /\ outcome = "running" /\ universal_assignments = {}
    BY DEF Init
  <1>8. stack \in Seq(Frames) /\ stack # <<>> /\ Len(stack) = 1 /\ stack[1] = Frame(root)
    BY <1>6, <1>7
  <1>9. Frame(root).hits = 0 /\ Frame(root).next = 1 /\ Frame(root).pc = "entered" /\ Frame(root).engine = root
    BY DEF Frame
  <1>10. \A d \in 1..Len(stack) :
        /\ stack[d].hits <= repetitions
        /\ stack[d].pc \in {"matched", "updated"} => stack[d].hits < repetitions
        /\ stack[d].next \in 1..(Len(plan[stack[d].engine].embeddeds) + 1)
    BY <1>4, <1>5, <1>8, <1>9
  <1>11. stop_after \in [Engines -> [counts : Seq(Nat), depth : Nat]]
    <2>1. PICK counts \in StopCounts : stop_after = [e \in Engines |->
            [counts |-> IF e = root THEN counts ELSE <<>>, depth |-> 0]]
      BY DEF Init
    <2>2. counts \in Seq(Nat) /\ <<>> \in Seq(Nat)
      BY OptionsAssumption
    <2>3. QED
      BY <2>1, <2>2
  <1>12. TypeOK
    BY <1>2, <1>4, <1>7, <1>8, <1>10, <1>11 DEF TypeOK
  <1>13. CallsNest
    <2>1. {stack[j].engine : j \in 1..(1 - 1)} = {}
      OBVIOUS
    <2>2. \A d \in Depths : d = 1
      BY <1>8 DEF Depths
    <2>3. QED
      BY <1>5, <1>8, <1>9, <2>1, <2>2 DEF CallsNest
  <1>14. QED
    BY <1>12, <1>13

(* What no step changes, and the shapes that a step gives to the stack.    *)
Settled ==
    /\ plan' = plan /\ root' = root /\ repetitions' = repetitions
    /\ Engines' = Engines /\ Frames' = Frames

GoesOn(f) ==
    /\ Len(stack') = Len(stack) /\ stack'[Len(stack)] = f
    /\ stack' \in Seq(Frames)
    /\ \A d \in 1..(Len(stack) - 1) : stack'[d] = stack[d]

Returns ==
    /\ Len(stack') = Len(stack) - 1
    /\ stack' \in Seq(Frames)
    /\ \A d \in 1..(Len(stack) - 1) : stack'[d] = stack[d]

Calls(f, g) ==
    /\ Len(stack') = Len(stack) + 1 /\ stack'[Len(stack)] = f /\ stack'[Len(stack) + 1] = g
    /\ stack' \in Seq(Frames)
    /\ \A d \in 1..(Len(stack) - 1) : stack'[d] = stack[d]

LEMMA StepSettled ==
    ASSUME UNCHANGED config
    PROVE  Settled
  BY DEF config, Settled, Engines, Frames, AllTouched, Touched

LEMMA NextSettled ==
    ASSUME [Next]_vars
    PROVE  Settled
  <1>1. UNCHANGED config
    BY DEF Next, Step, StopBeforeTrying, CompareHit, CompareMismatch, UpdateMainTree,
           RunEmbedded, EndSingle, LimitReached, vars, config
  <1>2. QED
    BY <1>1, StepSettled

LEMMA ContinueShape ==
    ASSUME TypeOK, outcome = "running", NEW f \in Frames, Continue(f)
    PROVE  GoesOn(f)
  <1>1. stack \in Seq(Frames) /\ stack # <<>>
    BY TopIsACall DEF TypeOK
  <1>2. stack' = [stack EXCEPT ![Len(stack)] = f]
    BY DEF Continue
  <1>3. QED
    BY <1>1, <1>2, ReplaceLast DEF GoesOn

LEMMA ReturnShape ==
    ASSUME TypeOK, outcome = "running", NEW f, NEW by, Return(f, by)
    PROVE  Returns /\ (outcome' = "running" => stack' # <<>>) /\ outcome' \in {"running", "done"}
  <1>1. stack \in Seq(Frames) /\ stack # <<>>
    BY TopIsACall DEF TypeOK
  <1>2. stack' = Front(stack)
    BY DEF Return
  <1>3. Returns
    BY <1>1, <1>2, DropLast DEF Returns
  <1>4. outcome' = "running" => Len(stack) # 1
    BY DEF Return
  <1>5. QED
    BY <1>1, <1>3, <1>4 DEF Returns, Return

(* The calls as the actions leave them. *)
Hit == [Top EXCEPT !.pc = "matched", !.stop = Stopping, !.initial = universal_assignments]
Updated == [Top EXCEPT !.pc = "updated", !.next = 1]
Called == [Top EXCEPT !.next = @ + 1]
Ended == [Top EXCEPT !.pc = "loop", !.hits = @ + 1]

LEMMA FramesLeft ==
    ASSUME TypeOK, outcome = "running"
    PROVE  /\ Hit \in Frames /\ Updated \in Frames /\ Called \in Frames /\ Ended \in Frames
           /\ Hit.engine = Top.engine /\ Hit.pc = "matched" /\ Hit.hits = Top.hits
           /\ Hit.stop = Stopping /\ Hit.initial = universal_assignments /\ Hit.next = Top.next
           /\ Updated.engine = Top.engine /\ Updated.pc = "updated" /\ Updated.hits = Top.hits
           /\ Updated.stop = Top.stop /\ Updated.initial = Top.initial /\ Updated.next = 1
           /\ Called.engine = Top.engine /\ Called.pc = Top.pc /\ Called.hits = Top.hits
           /\ Called.stop = Top.stop /\ Called.initial = Top.initial /\ Called.next = Top.next + 1
           /\ Ended.engine = Top.engine /\ Ended.pc = "loop" /\ Ended.hits = Top.hits + 1
           /\ Ended.stop = Top.stop /\ Ended.initial = Top.initial /\ Ended.next = Top.next
  <1>1. Top \in Frames
    BY TopIsACall
  <1>2. universal_assignments \subseteq AllTouched(plan, Engines)
    BY DEF TypeOK
  <1>3. Stopping \in BOOLEAN
    BY DEF Stopping
  <1>4. Hit \in Frames
    BY <1>1, <1>2, <1>3 DEF Hit, Frames
  <1>5. Updated \in Frames
    BY <1>1 DEF Updated, Frames
  <1>6. Called \in Frames
    BY <1>1 DEF Called, Frames
  <1>7. Ended \in Frames
    <2>1. Top.hits + 1 \in Nat
      BY TopIsACall
    <2>2. Ended = [[Top EXCEPT !.pc = "loop"] EXCEPT !.hits = Top.hits + 1]
      BY <1>1 DEF Ended, Frames
    <2>3. [Top EXCEPT !.pc = "loop"] \in Frames
      BY <1>1 DEF Frames
    <2>4. QED
      BY <2>1, <2>2, <2>3 DEF Frames
  <1>8. QED
    BY <1>1, <1>4, <1>5, <1>6, <1>7 DEF Hit, Updated, Called, Ended, Frames


(* TypeOK, by the shape of a step. *)
LEMMA TypeByCalls ==
    ASSUME TypeOK, Settled, stack' \in Seq(Frames),
           outcome' \in {"running", "done", "aborted"}, outcome' = "running" => stack' # <<>>,
           \A d \in 1..Len(stack') : CallOK(plan, repetitions, stack'[d]),
           stop_after' \in [Engines -> [counts : Seq(Nat), depth : Nat]],
           universal_assignments' \subseteq AllTouched(plan, Engines)
    PROVE  TypeOK'
  <1>1. PlanIsTree(plan, root)' /\ (repetitions \in Nat)' /\ (stack \in Seq(Frames))'
    BY DEF TypeOK, Settled
  <1>2. \A d \in 1..Len(stack') :
        /\ stack'[d].hits <= repetitions'
        /\ stack'[d].pc \in {"matched", "updated"} => stack'[d].hits < repetitions'
        /\ stack'[d].next \in 1..(Len(plan'[stack'[d].engine].embeddeds) + 1)
    BY DEF Settled, CallOK
  <1>3. AllTouched(plan, Engines)' = AllTouched(plan, Engines)
    BY DEF Settled, AllTouched, Touched
  <1>4. QED
    BY <1>1, <1>2, <1>3 DEF TypeOK, Settled

LEMMA CallsOK ==
    ASSUME TypeOK
    PROVE  \A d \in 1..Len(stack) : CallOK(plan, repetitions, stack[d])
  BY DEF TypeOK, CallOK

LEMMA TypeGoesOn ==
    ASSUME TypeOK, outcome = "running", Settled, NEW f, GoesOn(f),
           CallOK(plan, repetitions, f), outcome' = outcome,
           stop_after' \in [Engines -> [counts : Seq(Nat), depth : Nat]],
           universal_assignments' \subseteq AllTouched(plan, Engines)
    PROVE  TypeOK'
  <1>1. Len(stack) \in Nat /\ Len(stack) > 0
    BY TopIsACall
  <1>2. ASSUME NEW d \in 1..Len(stack')
        PROVE  CallOK(plan, repetitions, stack'[d])
    <2>1. CASE d = Len(stack)
      BY <2>1 DEF GoesOn
    <2>2. CASE d # Len(stack)
      <3>1. d \in 1..(Len(stack) - 1) /\ d \in 1..Len(stack)
        BY <1>1, <2>2 DEF GoesOn
      <3>2. stack'[d] = stack[d]
        BY <3>1 DEF GoesOn
      <3>3. QED
        BY <3>1, <3>2, CallsOK
    <2>3. QED
      BY <2>1, <2>2
  <1>3. stack' # <<>>
    BY <1>1 DEF GoesOn
  <1>4. QED
    BY <1>2, <1>3, TypeByCalls DEF GoesOn

LEMMA TypeReturns ==
    ASSUME TypeOK, outcome = "running", Settled, Returns,
           outcome' = "running" => stack' # <<>>, outcome' \in {"running", "done"},
           stop_after' \in [Engines -> [counts : Seq(Nat), depth : Nat]],
           universal_assignments' \subseteq AllTouched(plan, Engines)
    PROVE  TypeOK'
  <1>1. Len(stack) \in Nat /\ Len(stack) > 0
    BY TopIsACall
  <1>2. ASSUME NEW d \in 1..Len(stack')
        PROVE  CallOK(plan, repetitions, stack'[d])
    <2>1. d \in 1..(Len(stack) - 1) /\ d \in 1..Len(stack)
      BY <1>1 DEF Returns
    <2>2. stack'[d] = stack[d]
      BY <2>1 DEF Returns
    <2>3. QED
      BY <2>1, <2>2, CallsOK
  <1>3. QED
    BY <1>2, TypeByCalls DEF Returns

LEMMA TypeCalls ==
    ASSUME TypeOK, outcome = "running", Settled, NEW f, NEW g, Calls(f, g),
           CallOK(plan, repetitions, f), CallOK(plan, repetitions, g), outcome' = outcome,
           stop_after' = stop_after, universal_assignments' = universal_assignments
    PROVE  TypeOK'
  <1>1. Len(stack) \in Nat /\ Len(stack) > 0
    BY TopIsACall
  <1>2. ASSUME NEW d \in 1..Len(stack')
        PROVE  CallOK(plan, repetitions, stack'[d])
    <2>1. CASE d = Len(stack)
      BY <2>1 DEF Calls
    <2>2. CASE d = Len(stack) + 1
      BY <2>2 DEF Calls
    <2>3. CASE d # Len(stack) /\ d # Len(stack) + 1
      <3>1. d \in 1..(Len(stack) - 1) /\ d \in 1..Len(stack)
        BY <1>1, <2>3 DEF Calls
      <3>2. stack'[d] = stack[d]
        BY <3>1 DEF Calls
      <3>3. QED
        BY <3>1, <3>2, CallsOK
    <2>4. QED
      BY <2>1, <2>2, <2>3
  <1>3. stack' # <<>>
    BY <1>1 DEF Calls
  <1>4. stop_after' \in [Engines -> [counts : Seq(Nat), depth : Nat]]
        /\ universal_assignments' \subseteq AllTouched(plan, Engines)
    BY DEF TypeOK
  <1>5. QED
    BY <1>2, <1>3, <1>4, TypeByCalls DEF Calls

(* A failed assertion leaves the calls as they are. *)
LEMMA TypeAborts ==
    ASSUME TypeOK, outcome = "running", Settled, Abort,
           stop_after' \in [Engines -> [counts : Seq(Nat), depth : Nat]],
           universal_assignments' \subseteq AllTouched(plan, Engines)
    PROVE  TypeOK'
  <1>1. stack' = stack /\ stack \in Seq(Frames) /\ stack # <<>>
    BY TopIsACall DEF Abort, TypeOK
  <1>2. QED
    BY <1>1, CallsOK, TypeByCalls DEF Abort

(* CallsNest, by the shape of a step. *)
NestedCall(pl, rt, s, n, d) ==
    /\ pl[s[d].engine].within = {s[j].engine : j \in 1..(d - 1)}
    /\ d = 1 => s[d].engine = rt
    /\ d < n =>
           /\ s[d].pc = "updated" /\ s[d].next > 1
           /\ s[d + 1].engine = pl[s[d].engine].embeddeds[s[d].next - 1].engine

LEMMA NestedCalls ==
    CallsNest <=> \A d \in 1..Len(stack) : NestedCall(plan, root, stack, Len(stack), d)
  BY DEF CallsNest, NestedCall, Depths

LEMMA NestedCallsNext ==
    ASSUME Settled, \A d \in 1..Len(stack') : NestedCall(plan, root, stack', Len(stack'), d)
    PROVE  CallsNest'
  BY DEF CallsNest, NestedCall, Depths, Settled

(* What is below a call, when the calls below are kept. *)
LEMMA SameBelow ==
    ASSUME NEW n \in Nat, NEW s, NEW t, NEW d \in 1..n,
           \A j \in 1..(n - 1) : t[j].engine = s[j].engine
    PROVE  {t[j].engine : j \in 1..(d - 1)} = {s[j].engine : j \in 1..(d - 1)}
  <1>1. \A j \in 1..(d - 1) : j \in 1..(n - 1)
    OBVIOUS
  <1>2. QED
    BY <1>1

LEMMA NestGoesOn ==
    ASSUME TypeOK, CallsNest, outcome = "running", Settled, NEW f, GoesOn(f),
           f.engine = Top.engine
    PROVE  CallsNest'
  <1>1. Len(stack) \in Nat /\ Len(stack) > 0 /\ Top = stack[Len(stack)]
    BY TopIsACall
  <1>2. \A j \in 1..Len(stack) : stack'[j].engine = stack[j].engine
    <2>1. \A j \in 1..Len(stack) : j = Len(stack) \/ j \in 1..(Len(stack) - 1)
      BY <1>1
    <2>2. QED
      BY <1>1, <2>1 DEF GoesOn
  <1>3. \A j \in 1..(Len(stack) - 1) : stack'[j].engine = stack[j].engine
    BY <1>1, <1>2
  <1>4. ASSUME NEW d \in 1..Len(stack)
        PROVE  NestedCall(plan, root, stack', Len(stack), d)
    <2>1. NestedCall(plan, root, stack, Len(stack), d)
      BY NestedCalls
    <2>2. {stack'[j].engine : j \in 1..(d - 1)} = {stack[j].engine : j \in 1..(d - 1)}
      BY <1>1, <1>3, SameBelow
    <2>3. stack'[d].engine = stack[d].engine
      BY <1>2
    <2>4. CASE d = Len(stack)
      <3>1. ~ (d < Len(stack))
        BY <1>1, <2>4
      <3>2. plan[stack'[d].engine].within = {stack'[j].engine : j \in 1..(d - 1)}
            /\ (d = 1 => stack'[d].engine = root)
        BY <2>1, <2>2, <2>3 DEF NestedCall
      <3>3. QED
        BY <3>1, <3>2 DEF NestedCall
    <2>5. CASE d # Len(stack)
      <3>1. d \in 1..(Len(stack) - 1) /\ d + 1 \in 1..Len(stack)
        BY <1>1, <2>5
      <3>2. stack'[d] = stack[d] /\ stack'[d + 1].engine = stack[d + 1].engine
        BY <1>2, <3>1 DEF GoesOn
      <3>3. QED
        BY <2>1, <2>2, <3>2 DEF NestedCall
    <2>6. QED
      BY <2>4, <2>5
  <1>5. QED
    BY <1>4, NestedCallsNext DEF GoesOn

LEMMA NestReturns ==
    ASSUME TypeOK, CallsNest, outcome = "running", Settled, Returns
    PROVE  CallsNest'
  <1>1. Len(stack) \in Nat /\ Len(stack) > 0
    BY TopIsACall
  <1>2. ASSUME NEW d \in 1..(Len(stack) - 1)
        PROVE  NestedCall(plan, root, stack', Len(stack) - 1, d)
    <2>1. d \in 1..Len(stack) /\ stack'[d] = stack[d]
      BY <1>1 DEF Returns
    <2>2. NestedCall(plan, root, stack, Len(stack), d)
      BY <2>1, NestedCalls
    <2>3. {stack'[j].engine : j \in 1..(d - 1)} = {stack[j].engine : j \in 1..(d - 1)}
      BY <1>1, <2>1, SameBelow DEF Returns
    <2>4. ASSUME d < Len(stack) - 1
          PROVE  /\ stack'[d].pc = "updated" /\ stack'[d].next > 1
                 /\ stack'[d + 1].engine = plan[stack'[d].engine].embeddeds[stack'[d].next - 1].engine
      <3>1. d < Len(stack) /\ d + 1 \in 1..(Len(stack) - 1)
        BY <1>1, <2>4
      <3>2. stack'[d + 1] = stack[d + 1]
        BY <3>1 DEF Returns
      <3>3. QED
        BY <2>1, <2>2, <3>1, <3>2 DEF NestedCall
    <2>5. QED
      BY <2>1, <2>2, <2>3, <2>4 DEF NestedCall
  <1>3. QED
    BY <1>2, NestedCallsNext DEF Returns

LEMMA NestCalls ==
    ASSUME TypeOK, CallsNest, outcome = "running", Settled, Top.pc = "updated",
           Top.next <= Len(Plan.embeddeds), NEW f, NEW g, Calls(f, g),
           f.engine = Top.engine, f.pc = "updated", f.next = Top.next + 1,
           g.engine = Plan.embeddeds[Top.next].engine
    PROVE  CallsNest'
  <1> DEFINE n == Len(stack)
  <1>1. n \in Nat /\ n > 0 /\ Top = stack[n] /\ Top.engine \in Engines
        /\ Top.next \in Nat /\ Top.next \in 1..Len(Plan.embeddeds)
    BY TopIsACall
  <1>2. \A j \in 1..n : stack'[j].engine = stack[j].engine
    <2>1. \A j \in 1..n : j = n \/ j \in 1..(n - 1)
      BY <1>1
    <2>2. QED
      BY <1>1, <2>1 DEF Calls
  <1>3. \A d \in 1..(n + 1) : {stack'[j].engine : j \in 1..(d - 1)} = {stack[j].engine : j \in 1..(d - 1)}
    <2>1. n + 1 \in Nat /\ n + 1 - 1 = n
      BY <1>1
    <2>2. QED
      BY <1>2, <2>1, SameBelow
  <1>4. plan[g.engine].within = plan[Top.engine].within \cup {Top.engine}
    <2>1. PlanIsTree(plan, root)
      BY DEF TypeOK
    <2>2. Top.engine \in DOMAIN plan /\ Top.next \in 1..Len(plan[Top.engine].embeddeds)
      BY <1>1 DEF Engines, Plan
    <2>3. g.engine = plan[Top.engine].embeddeds[Top.next].engine
      BY DEF Plan
    <2>4. plan[plan[Top.engine].embeddeds[Top.next].engine].within = plan[Top.engine].within \cup {Top.engine}
      BY <2>1, <2>2, EmbeddedIsPlanned, Zenon
    <2>5. QED
      BY <2>3, <2>4
  <1>5. ASSUME NEW d \in 1..(n + 1)
        PROVE  NestedCall(plan, root, stack', n + 1, d)
    <2>1. CASE d = n + 1
      <3>1. stack'[d] = g /\ d # 1 /\ ~ (d < n + 1)
        BY <1>1, <2>1 DEF Calls
      <3>2. {stack[j].engine : j \in 1..(d - 1)} = {stack[j].engine : j \in 1..(n - 1)} \cup {stack[n].engine}
        <4>1. d - 1 = n /\ 1..n = (1..(n - 1)) \cup {n}
          BY <1>1, <2>1
        <4>2. QED
          BY <4>1
      <3>3. NestedCall(plan, root, stack, n, n)
        BY <1>1, NestedCalls
      <3>4. plan[g.engine].within = {stack[j].engine : j \in 1..(d - 1)}
        BY <1>1, <1>4, <3>2, <3>3 DEF NestedCall
      <3>5. plan[g.engine].within = {stack'[j].engine : j \in 1..(d - 1)}
        BY <1>3, <3>4
      <3>6. QED
        BY <3>1, <3>5 DEF NestedCall
    <2>2. CASE d = n
      <3>1. stack'[n] = f /\ stack'[n + 1] = g /\ n \in 1..n
        BY <1>1 DEF Calls
      <3>2. NestedCall(plan, root, stack, n, n)
        BY <1>1, NestedCalls
      <3>3. f.next > 1 /\ f.next - 1 = Top.next
        BY <1>1
      <3>4. g.engine = plan[f.engine].embeddeds[f.next - 1].engine
        BY <3>3 DEF Plan
      <3>5. plan[f.engine].within = {stack'[j].engine : j \in 1..(d - 1)}
        BY <1>1, <1>3, <2>2, <3>2 DEF NestedCall
      <3>6. d = 1 => f.engine = root
        BY <1>1, <2>2, <3>2 DEF NestedCall
      <3>7. QED
        BY <2>2, <3>1, <3>3, <3>4, <3>5, <3>6 DEF NestedCall
    <2>3. CASE d # n /\ d # n + 1
      <3>1. d \in 1..(n - 1) /\ d \in 1..n /\ d + 1 \in 1..n /\ d < n
        BY <1>1, <2>3
      <3>2. stack'[d] = stack[d] /\ stack'[d + 1].engine = stack[d + 1].engine
        BY <1>2, <3>1 DEF Calls
      <3>3. NestedCall(plan, root, stack, n, d)
        BY <3>1, NestedCalls
      <3>4. {stack'[j].engine : j \in 1..(d - 1)} = {stack[j].engine : j \in 1..(d - 1)}
        BY <1>3
      <3>5. QED
        BY <3>1, <3>2, <3>3, <3>4 DEF NestedCall
    <2>4. QED
      BY <2>1, <2>2, <2>3
  <1>6. Len(stack') = n + 1
    BY DEF Calls
  <1>7. QED
    BY <1>5, <1>6, NestedCallsNext


-----------------------------------------------------------------------------
(* What each action does.                                                  *)

LEMMA StopBeforeEffect ==
    ASSUME TypeOK, StopBeforeTrying
    PROVE  /\ outcome = "running" /\ Top.pc = "entered" /\ StopAfter = 0
           /\ Settled /\ Returns /\ Return(Top, "count")
           /\ stop_after' = stop_after /\ universal_assignments' = universal_assignments
           /\ outcome' = "running" => stack' # <<>>
           /\ outcome' \in {"running", "done"}
  <1>1. outcome = "running" /\ Top.pc = "entered" /\ StopAfter = 0 /\ Return(Top, "count")
        /\ stop_after' = stop_after /\ universal_assignments' = universal_assignments
    BY DEF StopBeforeTrying, Running
  <1>2. Settled
    BY StepSettled DEF StopBeforeTrying
  <1>3. QED
    BY <1>1, <1>2, ReturnShape

LEMMA HitEffect ==
    ASSUME TypeOK, CompareHit
    PROVE  /\ outcome = "running" /\ outcome' = outcome /\ returned' = returned
           /\ Top.pc \in {"entered", "loop"} /\ (Top.pc = "entered" => StopAfter # 0)
           /\ Top.hits < repetitions
           /\ Settled /\ GoesOn(Hit)
           /\ stop_after' = Propagated
           /\ universal_assignments \subseteq universal_assignments'
           /\ universal_assignments' \subseteq universal_assignments \cup Plan.solved
           /\ Plan.solved \ Plan.unmatched \subseteq universal_assignments'
  <1>1. outcome = "running" /\ Top.pc \in {"entered", "loop"} /\ (Top.pc = "entered" => StopAfter # 0)
        /\ Top.hits < repetitions
    BY DEF CompareHit, Iterating, Running
  <1>2. Settled
    BY StepSettled DEF CompareHit
  <1>3. PICK absent \in SUBSET Plan.unmatched :
            universal_assignments' = universal_assignments \cup (Plan.solved \ absent)
    BY DEF CompareHit
  <1>4. Continue(Hit)
    BY DEF CompareHit, Hit
  <1>5. Hit \in Frames
    BY <1>1, FramesLeft
  <1>6. GoesOn(Hit)
    BY <1>1, <1>4, <1>5, ContinueShape
  <1>7. outcome' = outcome /\ returned' = returned
    BY <1>4 DEF Continue
  <1>8. stop_after' = Propagated
    BY DEF CompareHit
  <1>9. QED
    BY <1>1, <1>2, <1>3, <1>6, <1>7, <1>8

LEMMA MismatchEffect ==
    ASSUME TypeOK, CompareMismatch
    PROVE  /\ outcome = "running" /\ Top.pc \in {"entered", "loop"}
           /\ Settled /\ stop_after' = Propagated
           /\ universal_assignments' = universal_assignments
           /\ IF StopAfter >= Top.hits THEN Abort
              ELSE /\ Returns /\ Return(Top, "mismatch")
                   /\ outcome' = "running" => stack' # <<>>
                   /\ outcome' \in {"running", "done"}
  <1>1. outcome = "running" /\ Top.pc \in {"entered", "loop"}
    BY DEF CompareMismatch, Iterating, Running
  <1>2. Settled
    BY StepSettled DEF CompareMismatch
  <1>3. stop_after' = Propagated /\ universal_assignments' = universal_assignments
        /\ IF StopAfter >= Top.hits THEN Abort ELSE Return(Top, "mismatch")
    BY DEF CompareMismatch
  <1>4. QED
    BY <1>1, <1>2, <1>3, ReturnShape

LEMMA UpdateEffect ==
    ASSUME TypeOK, UpdateMainTree
    PROVE  /\ outcome = "running" /\ outcome' = outcome /\ returned' = returned
           /\ Top.pc = "matched"
           /\ Settled /\ GoesOn(Updated)
           /\ stop_after' = stop_after
           /\ universal_assignments' = universal_assignments \cup Plan.placed
  <1>1. outcome = "running" /\ Top.pc = "matched"
    BY DEF UpdateMainTree, Running
  <1>2. Settled
    BY StepSettled DEF UpdateMainTree
  <1>3. Continue(Updated)
    BY DEF UpdateMainTree, Updated
  <1>4. GoesOn(Updated)
    BY <1>1, <1>3, FramesLeft, ContinueShape
  <1>5. outcome' = outcome /\ returned' = returned
    BY <1>3 DEF Continue
  <1>6. QED
    BY <1>1, <1>2, <1>4, <1>5 DEF UpdateMainTree

EmbeddedCall == Frame(Plan.embeddeds[Top.next].engine)

LEMMA RunEffect ==
    ASSUME TypeOK, RunEmbedded
    PROVE  /\ outcome = "running" /\ outcome' = outcome /\ returned' = returned
           /\ Top.pc = "updated" /\ Top.next \in 1..Len(Plan.embeddeds)
           /\ Settled /\ Calls(Called, EmbeddedCall)
           /\ stop_after' = stop_after /\ universal_assignments' = universal_assignments
           /\ EmbeddedCall.engine = Plan.embeddeds[Top.next].engine
           /\ EmbeddedCall.engine \in Runs(plan, Top.engine) /\ EmbeddedCall.engine \in Engines
           /\ plan[EmbeddedCall.engine].within = plan[Top.engine].within \cup {Top.engine}
           /\ EmbeddedCall.pc = "entered" /\ EmbeddedCall.hits = 0 /\ EmbeddedCall.stop = FALSE
           /\ EmbeddedCall.next = 1
  <1>1. outcome = "running" /\ Top.pc = "updated" /\ Top.next <= Len(Plan.embeddeds)
    BY DEF RunEmbedded, Running
  <1>2. Settled
    BY StepSettled DEF RunEmbedded
  <1>3. Top.next \in 1..Len(Plan.embeddeds)
    BY <1>1, TopIsACall
  <1>4. /\ EmbeddedCall.engine = Plan.embeddeds[Top.next].engine
        /\ EmbeddedCall.pc = "entered" /\ EmbeddedCall.hits = 0 /\ EmbeddedCall.stop = FALSE
        /\ EmbeddedCall.next = 1
    BY DEF EmbeddedCall, Frame
  <1>5. /\ EmbeddedCall.engine \in Runs(plan, Top.engine) /\ EmbeddedCall.engine \in Engines
        /\ plan[EmbeddedCall.engine].within = plan[Top.engine].within \cup {Top.engine}
    <2>1. PlanIsTree(plan, root)
      BY DEF TypeOK
    <2>2. Top.engine \in DOMAIN plan /\ Top.next \in 1..Len(plan[Top.engine].embeddeds)
      BY <1>1, <1>3, TopIsACall DEF Engines, Plan
    <2>3. EmbeddedCall.engine = plan[Top.engine].embeddeds[Top.next].engine
      BY <1>4 DEF Plan
    <2> DEFINE g == plan[Top.engine].embeddeds[Top.next].engine
    <2>4. /\ g \in Runs(plan, Top.engine) /\ g \in DOMAIN plan
          /\ plan[g].within = plan[Top.engine].within \cup {Top.engine}
      BY <2>1, <2>2, EmbeddedIsPlanned, Zenon
    <2>5. QED
      BY <2>3, <2>4 DEF Engines
  <1>6. EmbeddedCall \in Frames
    BY <1>4, <1>5 DEF EmbeddedCall, Frame, Frames
  <1>7. Calls(Called, EmbeddedCall)
    <2> DEFINE s == [stack EXCEPT ![Len(stack)] = Called]
    <2>1. stack \in Seq(Frames) /\ stack # <<>> /\ Called \in Frames /\ Len(stack) \in Nat /\ Len(stack) > 0
      BY <1>1, TopIsACall, FramesLeft DEF TypeOK
    <2>2. stack' = Append(s, EmbeddedCall)
      BY <2>1 DEF RunEmbedded, Called, EmbeddedCall, Top
    <2>3. s \in Seq(Frames) /\ Len(s) = Len(stack) /\ s[Len(stack)] = Called
          /\ \A d \in 1..(Len(stack) - 1) : s[d] = stack[d]
      BY <2>1, ReplaceLast
    <2> HIDE DEF s
    <2>4. stack' \in Seq(Frames) /\ Len(stack') = Len(s) + 1 /\ stack'[Len(s) + 1] = EmbeddedCall
          /\ \A d \in 1..Len(s) : stack'[d] = s[d]
      BY <1>6, <2>2, <2>3, AppendOne
    <2>5. \A d \in 1..(Len(stack) - 1) : d \in 1..Len(s)
      BY <2>1, <2>3
    <2>6. Len(stack) \in 1..Len(s)
      BY <2>1, <2>3
    <2>7. QED
      BY <2>3, <2>4, <2>5, <2>6 DEF Calls
  <1>8. QED
    BY <1>1, <1>2, <1>3, <1>4, <1>5, <1>7 DEF RunEmbedded

LEMMA EndEffect ==
    ASSUME TypeOK, EndSingle
    PROVE  /\ outcome = "running" /\ Top.pc = "updated" /\ Top.next > Len(Plan.embeddeds)
           /\ Settled /\ stop_after' = stop_after
           /\ universal_assignments' = universal_assignments \ Plan.my_plinks
           /\ \/ Abort
              \/ /\ Top.stop /\ Returns /\ Return(Ended, "count")
                 /\ outcome' = "running" => stack' # <<>>
                 /\ outcome' \in {"running", "done"}
              \/ /\ ~ Top.stop /\ GoesOn(Ended) /\ outcome' = outcome /\ returned' = returned
  <1>1. outcome = "running" /\ Top.pc = "updated" /\ Top.next > Len(Plan.embeddeds)
        /\ stop_after' = stop_after
        /\ universal_assignments' = universal_assignments \ Plan.my_plinks
    BY DEF EndSingle, Running
  <1>2. Settled
    BY StepSettled DEF EndSingle
  <1>3. Ended \in Frames /\ Ended.stop = Top.stop
    BY <1>1, FramesLeft
  <1>4. \/ Abort
        \/ Ended.stop /\ Return(Ended, "count")
        \/ ~ Ended.stop /\ Continue(Ended)
    BY DEF EndSingle, Ended
  <1>5. ASSUME Return(Ended, "count")
        PROVE  Returns /\ (outcome' = "running" => stack' # <<>>) /\ outcome' \in {"running", "done"}
    BY <1>1, <1>5, ReturnShape
  <1>6. ASSUME Continue(Ended)
        PROVE  GoesOn(Ended) /\ outcome' = outcome /\ returned' = returned
    BY <1>1, <1>3, <1>6, ContinueShape DEF Continue
  <1>7. QED
    BY <1>1, <1>2, <1>3, <1>4, <1>5, <1>6

LEMMA LimitEffect ==
    ASSUME TypeOK, LimitReached
    PROVE  /\ outcome = "running" /\ Top.pc \in {"entered", "loop"}
           /\ Settled /\ stop_after' = stop_after
           /\ universal_assignments' = universal_assignments
           /\ \/ Abort
              \/ /\ Returns /\ Return(Top, "limit")
                 /\ outcome' = "running" => stack' # <<>>
                 /\ outcome' \in {"running", "done"}
  <1>1. outcome = "running" /\ Top.pc \in {"entered", "loop"}
        /\ stop_after' = stop_after /\ universal_assignments' = universal_assignments
        /\ (Abort \/ Return(Top, "limit"))
    BY DEF LimitReached, Running
  <1>2. Settled
    BY StepSettled DEF LimitReached
  <1>3. QED
    BY <1>1, <1>2, ReturnShape

LEMMA TypeStep ==
    ASSUME TypeOK, Step
    PROVE  TypeOK'
  <1> USE DEF CallOK
  <1>1. stop_after \in [Engines -> [counts : Seq(Nat), depth : Nat]]
        /\ universal_assignments \subseteq AllTouched(plan, Engines) /\ repetitions \in Nat
    BY DEF TypeOK
  <1>2. CASE StopBeforeTrying
    BY <1>1, <1>2, StopBeforeEffect, TypeReturns
  <1>3. CASE CompareHit
    <2>1. outcome = "running"
      BY <1>3, HitEffect
    <2>2. stop_after' \in [Engines -> [counts : Seq(Nat), depth : Nat]]
      BY <1>3, <2>1, HitEffect, PropagatedType
    <2>3. universal_assignments' \subseteq AllTouched(plan, Engines)
      <3>1. Plan.solved \subseteq AllTouched(plan, Engines)
        BY <2>1, TopIsACall, TouchesPlanned DEF Plan
      <3>2. QED
        BY <1>1, <1>3, <3>1, HitEffect
    <2>4. CallOK(plan, repetitions, Hit)
      <3>1. Hit.hits = Top.hits /\ Hit.next = Top.next /\ Hit.engine = Top.engine
        BY <2>1, FramesLeft
      <3>2. Top.hits < repetitions /\ Top.hits <= repetitions /\ Top.next \in 1..(Len(Plan.embeddeds) + 1)
        BY <1>3, <2>1, HitEffect, TopIsACall
      <3>3. QED
        BY <3>1, <3>2 DEF Plan
    <2>5. Settled /\ GoesOn(Hit) /\ outcome' = outcome
      BY <1>3, HitEffect
    <2>6. QED
      BY <2>1, <2>2, <2>3, <2>4, <2>5, TypeGoesOn DEF CallOK
  <1>4. CASE CompareMismatch
    <2>1. outcome = "running"
      BY <1>4, MismatchEffect
    <2>2. stop_after' \in [Engines -> [counts : Seq(Nat), depth : Nat]]
      BY <1>4, <2>1, MismatchEffect, PropagatedType
    <2>3. universal_assignments' \subseteq AllTouched(plan, Engines) /\ Settled
      BY <1>1, <1>4, MismatchEffect
    <2>4. CASE StopAfter >= Top.hits
      BY <1>4, <2>1, <2>2, <2>3, <2>4, MismatchEffect, TypeAborts
    <2>5. CASE ~ (StopAfter >= Top.hits)
      BY <1>4, <2>1, <2>2, <2>3, <2>5, MismatchEffect, TypeReturns
    <2>6. QED
      BY <2>4, <2>5
  <1>5. CASE UpdateMainTree
    <2>1. outcome = "running"
      BY <1>5, UpdateEffect
    <2>2. universal_assignments' \subseteq AllTouched(plan, Engines)
      <3>1. Plan.placed \subseteq AllTouched(plan, Engines)
        BY <2>1, TopIsACall, TouchesPlanned DEF Plan
      <3>2. QED
        BY <1>1, <1>5, <3>1, UpdateEffect
    <2>3. CallOK(plan, repetitions, Updated)
      <3>1. Updated.hits = Top.hits /\ Updated.next = 1 /\ Updated.engine = Top.engine
        BY <2>1, FramesLeft
      <3>2. Top.hits < repetitions /\ Top.hits <= repetitions
        BY <1>5, <2>1, UpdateEffect, TopIsACall
      <3>3. 1 \in 1..(Len(Plan.embeddeds) + 1)
        BY <2>1, TopIsACall
      <3>4. QED
        BY <3>1, <3>2, <3>3 DEF Plan
    <2>4. Settled /\ GoesOn(Updated) /\ outcome' = outcome /\ stop_after' = stop_after
      BY <1>5, UpdateEffect
    <2>5. QED
      BY <1>1, <2>1, <2>2, <2>3, <2>4, TypeGoesOn DEF CallOK
  <1>6. CASE RunEmbedded
    <2>1. outcome = "running"
      BY <1>6, RunEffect
    <2>2. CallOK(plan, repetitions, Called)
      <3>1. Called.hits = Top.hits /\ Called.next = Top.next + 1 /\ Called.engine = Top.engine
            /\ Called.pc = Top.pc
        BY <2>1, FramesLeft
      <3>2. Top.hits <= repetitions /\ (Top.pc \in {"matched", "updated"} => Top.hits < repetitions)
        BY <2>1, TopIsACall
      <3>3. Top.next + 1 \in 1..(Len(Plan.embeddeds) + 1)
        BY <1>6, <2>1, RunEffect, TopIsACall
      <3>4. QED
        BY <3>1, <3>2, <3>3 DEF Plan
    <2>3. CallOK(plan, repetitions, EmbeddedCall)
      <3>1. EmbeddedCall.hits = 0 /\ EmbeddedCall.next = 1 /\ EmbeddedCall.pc = "entered"
            /\ EmbeddedCall.engine \in Engines
        BY <1>6, RunEffect
      <3>2. Len(plan[EmbeddedCall.engine].embeddeds) \in Nat
        BY <3>1 DEF TypeOK, PlanIsTree, Engines
      <3>3. 0 <= repetitions /\ 1 \in 1..(Len(plan[EmbeddedCall.engine].embeddeds) + 1)
        BY <1>1, <3>2
      <3>4. QED
        BY <3>1, <3>3
    <2>4. Settled /\ Calls(Called, EmbeddedCall) /\ outcome' = outcome /\ stop_after' = stop_after
          /\ universal_assignments' = universal_assignments
      BY <1>6, RunEffect
    <2>5. QED
      BY <2>1, <2>2, <2>3, <2>4, TypeCalls DEF CallOK
  <1>7. CASE EndSingle
    <2>1. outcome = "running" /\ Settled
          /\ stop_after' \in [Engines -> [counts : Seq(Nat), depth : Nat]]
          /\ universal_assignments' \subseteq AllTouched(plan, Engines)
      BY <1>1, <1>7, EndEffect
    <2>2. CASE Abort
      BY <2>1, <2>2, TypeAborts
    <2>3. CASE Returns /\ (outcome' = "running" => stack' # <<>>) /\ outcome' \in {"running", "done"}
      BY <2>1, <2>3, TypeReturns
    <2>4. CASE GoesOn(Ended) /\ outcome' = outcome
      <3>1. Ended.hits = Top.hits + 1 /\ Ended.next = Top.next /\ Ended.engine = Top.engine
            /\ Ended.pc = "loop"
        BY <2>1, FramesLeft
      <3>2. Top.hits < repetitions /\ Top.hits \in Nat /\ Top.next \in 1..(Len(Plan.embeddeds) + 1)
        BY <1>7, <2>1, EndEffect, TopIsACall
      <3>3. Top.hits + 1 <= repetitions
        BY <1>1, <3>2
      <3>4. CallOK(plan, repetitions, Ended)
        BY <3>1, <3>2, <3>3 DEF Plan
      <3>5. QED
        BY <2>1, <2>4, <3>4, TypeGoesOn DEF CallOK
    <2>5. QED
      BY <1>7, <2>2, <2>3, <2>4, EndEffect
  <1>8. CASE LimitReached
    <2>1. outcome = "running" /\ Settled
          /\ stop_after' \in [Engines -> [counts : Seq(Nat), depth : Nat]]
          /\ universal_assignments' \subseteq AllTouched(plan, Engines)
      BY <1>1, <1>8, LimitEffect
    <2>2. CASE Abort
      BY <2>1, <2>2, TypeAborts
    <2>3. CASE Returns /\ (outcome' = "running" => stack' # <<>>) /\ outcome' \in {"running", "done"}
      BY <2>1, <2>3, TypeReturns
    <2>4. QED
      BY <1>8, <2>2, <2>3, LimitEffect
  <1>9. QED
    BY <1>2, <1>3, <1>4, <1>5, <1>6, <1>7, <1>8 DEF Step

LEMMA NestAborts ==
    ASSUME CallsNest, Settled, stack' = stack
    PROVE  CallsNest'
  <1>1. \A d \in 1..Len(stack) : NestedCall(plan, root, stack, Len(stack), d)
    BY NestedCalls
  <1>2. \A d \in 1..Len(stack') : NestedCall(plan, root, stack', Len(stack'), d)
    BY <1>1
  <1>3. QED
    BY <1>2, NestedCallsNext

LEMMA NestStep ==
    ASSUME TypeOK, CallsNest, Step
    PROVE  CallsNest'
  <1>1. CASE StopBeforeTrying
    BY <1>1, StopBeforeEffect, NestReturns
  <1>2. CASE CompareHit
    <2>1. outcome = "running" /\ Settled /\ GoesOn(Hit)
      BY <1>2, HitEffect
    <2>2. Hit.engine = Top.engine
      BY <2>1, FramesLeft
    <2>3. QED
      BY <2>1, <2>2, NestGoesOn
  <1>3. CASE CompareMismatch
    BY <1>3, MismatchEffect, NestReturns, NestAborts DEF Abort
  <1>4. CASE UpdateMainTree
    <2>1. outcome = "running" /\ Settled /\ GoesOn(Updated)
      BY <1>4, UpdateEffect
    <2>2. Updated.engine = Top.engine
      BY <2>1, FramesLeft
    <2>3. QED
      BY <2>1, <2>2, NestGoesOn
  <1>5. CASE RunEmbedded
    <2>1. outcome = "running" /\ Settled /\ Top.pc = "updated" /\ Top.next <= Len(Plan.embeddeds)
          /\ Calls(Called, EmbeddedCall) /\ EmbeddedCall.engine = Plan.embeddeds[Top.next].engine
      BY <1>5, RunEffect DEF RunEmbedded
    <2>2. Called.engine = Top.engine /\ Called.pc = "updated" /\ Called.next = Top.next + 1
      BY <2>1, FramesLeft
    <2>3. QED
      BY <2>1, <2>2, NestCalls
  <1>6. CASE EndSingle
    <2>1. outcome = "running" /\ Settled
      BY <1>6, EndEffect
    <2>2. Ended.engine = Top.engine
      BY <2>1, FramesLeft
    <2>3. Abort \/ Returns \/ GoesOn(Ended)
      BY <1>6, EndEffect
    <2>4. QED
      BY <2>1, <2>2, <2>3, NestGoesOn, NestReturns, NestAborts DEF Abort
  <1>7. CASE LimitReached
    BY <1>7, LimitEffect, NestReturns, NestAborts DEF Abort
  <1>8. QED
    BY <1>1, <1>2, <1>3, <1>4, <1>5, <1>6, <1>7 DEF Step

(* A step that changes no variable. *)
LEMMA TypeStutter ==
    ASSUME TypeOK, UNCHANGED vars
    PROVE  TypeOK'
  <1>1. Settled
    BY StepSettled DEF vars, config
  <1>2. stack' \in Seq(Frames) /\ outcome' \in {"running", "done", "aborted"}
        /\ (outcome' = "running" => stack' # <<>>)
        /\ stop_after' \in [Engines -> [counts : Seq(Nat), depth : Nat]]
        /\ universal_assignments' \subseteq AllTouched(plan, Engines)
    BY DEF TypeOK, vars
  <1>3. \A d \in 1..Len(stack') : CallOK(plan, repetitions, stack'[d])
    <2>1. stack' = stack
      BY DEF vars
    <2>2. QED
      BY <2>1, CallsOK
  <1>4. QED
    BY <1>1, <1>2, <1>3, TypeByCalls

LEMMA NestStutter ==
    ASSUME CallsNest, UNCHANGED vars
    PROVE  CallsNest'
  <1>1. Settled /\ stack' = stack
    BY StepSettled DEF vars, config
  <1>2. QED
    BY <1>1, NestAborts

(* The engines called and those around them in the plan are the same, and  *)
(* calls, links and counts are what the plan has.                          *)
THEOREM CallsAreNested == Spec => [](TypeOK /\ CallsNest)
  <1>1. Init => TypeOK /\ CallsNest
    BY InitType
  <1>2. TypeOK /\ CallsNest /\ [Next]_vars => TypeOK' /\ CallsNest'
    BY TypeStep, NestStep, TypeStutter, NestStutter DEF Next
  <1>3. QED
    BY <1>1, <1>2, PTL DEF Spec


-----------------------------------------------------------------------------
(* The map of assignments.                                                 *)

(* What of MapLayered is about one call. *)
Layer(pl, f, base, level) ==
    /\ AllSure(pl, pl[f.engine].within) \subseteq base
    /\ base \subseteq AllTouched(pl, pl[f.engine].within)
    /\ base \subseteq level /\ level \subseteq base \cup Touched(pl, f.engine)
    /\ f.pc = "matched" => pl[f.engine].solved \ pl[f.engine].unmatched \subseteq level
    /\ f.pc = "updated" => Sure(pl, f.engine) \subseteq level

LEMMA Layers ==
    ASSUME MapLayered, outcome = "running", NEW d \in 1..Len(stack)
    PROVE  Layer(plan, stack[d], Base(d), Level(d))
  BY DEF MapLayered, Layer, Depths

LEMMA LayersNext ==
    ASSUME Settled,
           outcome' = "running" => \A d \in 1..Len(stack') : Layer(plan, stack'[d], Base(d)', Level(d)')
    PROVE  MapLayered'
  BY DEF MapLayered, Layer, Depths, Settled, AllSure, AllTouched, Sure, Touched

LEMMA BelowUpdated ==
    ASSUME TypeOK, CallsNest, NEW d \in 1..(Len(stack) - 1)
    PROVE  stack[d].pc = "updated" /\ Base(d) = stack[d].initial /\ Level(d) = Base(d + 1)
  <1>1. Len(stack) \in Nat
    BY DEF TypeOK
  <1>2. d \in Depths /\ d < Len(stack) /\ d # Len(stack)
    BY <1>1 DEF Depths
  <1>3. stack[d].pc = "updated"
    BY <1>2 DEF CallsNest
  <1>4. QED
    BY <1>2, <1>3 DEF Base, Level

(* The layers below the last call: what it began with is still theirs. *)
LEMMA LowerLayers ==
    ASSUME NEW n \in Nat, n = Len(stack),
           TypeOK, CallsNest, MapLayered, outcome = "running", Settled,
           \A d \in 1..(n - 1) : stack'[d] = stack[d],
           \/ Len(stack') = n - 1 /\ universal_assignments' = Base(n)
           \/ Len(stack') \in Nat /\ Len(stack') >= n /\ Base(n)' = Base(n)
    PROVE  \A d \in 1..(n - 1) : Layer(plan, stack'[d], Base(d)', Level(d)')
  <1>1. n > 0
    BY TopIsACall
  <1>2. \A d \in 1..(n - 1) : Base(d)' = Base(d)
    <2>1. SUFFICES ASSUME NEW d \in 1..(n - 1)
                   PROVE  Base(d)' = Base(d)
      OBVIOUS
    <2>2. stack'[d] = stack[d] /\ stack[d].pc = "updated" /\ Base(d) = stack[d].initial
      BY BelowUpdated
    <2>3. QED
      BY <2>2 DEF Base
  <1>3. SUFFICES ASSUME NEW d \in 1..(n - 1)
                 PROVE  Layer(plan, stack'[d], Base(d)', Level(d)')
    OBVIOUS
  <1>4. d \in 1..n /\ stack'[d] = stack[d] /\ Level(d) = Base(d + 1) /\ d \in Nat
    BY <1>1, BelowUpdated
  <1>5. Level(d)' = Base(d + 1)
    <2>1. CASE d = n - 1
      <3>1. d + 1 = n
        BY <1>1, <2>1
      <3>2. CASE Len(stack') = n - 1 /\ universal_assignments' = Base(n)
        <4>1. Level(d)' = universal_assignments'
          BY <2>1, <3>2 DEF Level
        <4>2. QED
          BY <3>1, <3>2, <4>1
      <3>3. CASE Len(stack') \in Nat /\ Len(stack') >= n /\ Base(n)' = Base(n)
        <4>1. d # Len(stack')
          BY <1>1, <2>1, <3>3
        <4>2. Level(d)' = Base(d + 1)'
          BY <4>1 DEF Level
        <4>3. QED
          BY <3>1, <3>3, <4>2
      <3>4. QED
        BY <3>2, <3>3
    <2>2. CASE d # n - 1
      <3>1. d + 1 \in 1..(n - 1) /\ d # Len(stack')
        BY <1>1, <2>2
      <3>2. Level(d)' = Base(d + 1)'
        BY <3>1 DEF Level
      <3>3. QED
        BY <1>2, <3>1, <3>2
    <2>3. QED
      BY <2>1, <2>2
  <1>6. Layer(plan, stack[d], Base(d), Level(d))
    BY <1>4, Layers
  <1>7. QED
    BY <1>2, <1>4, <1>5, <1>6

(* The last call. *)
LEMMA TopLayer ==
    ASSUME TypeOK, MapLayered, outcome = "running"
    PROVE  /\ Layer(plan, Top, Base(Len(stack)), universal_assignments)
           /\ Top.pc \in {"matched", "updated"} => Base(Len(stack)) = Top.initial
           /\ Top.pc \in {"entered", "loop"} => Base(Len(stack)) = universal_assignments
  <1>1. Len(stack) \in 1..Len(stack) /\ Top = stack[Len(stack)]
    BY TopIsACall
  <1>2. Level(Len(stack)) = universal_assignments
    BY DEF Level
  <1>3. QED
    BY <1>1, <1>2, Layers DEF Base

LEMMA LayersGoOn ==
    ASSUME NEW n \in Nat, n = Len(stack),
           TypeOK, CallsNest, MapLayered, outcome = "running", Settled, NEW f, GoesOn(f),
           Base(n)' = Base(n),
           Layer(plan, f, Base(n), universal_assignments')
    PROVE  MapLayered'
  <1>1. n > 0
    BY TopIsACall
  <1>2. \A d \in 1..(n - 1) : Layer(plan, stack'[d], Base(d)', Level(d)')
    BY <1>1, LowerLayers DEF GoesOn
  <1>3. Layer(plan, stack'[n], Base(n)', Level(n)')
    <2>1. stack'[n] = f
      BY DEF GoesOn
    <2>2. Level(n)' = universal_assignments'
      BY DEF Level, GoesOn
    <2>3. QED
      BY <2>1, <2>2
  <1>4. \A d \in 1..Len(stack') : d = n \/ d \in 1..(n - 1)
    BY <1>1 DEF GoesOn
  <1>5. \A d \in 1..Len(stack') : Layer(plan, stack'[d], Base(d)', Level(d)')
    BY <1>2, <1>3, <1>4
  <1>6. QED
    BY <1>5, LayersNext

LEMMA LayersReturn ==
    ASSUME NEW n \in Nat, n = Len(stack),
           TypeOK, CallsNest, MapLayered, outcome = "running", Settled, Returns,
           universal_assignments' = Base(n)
    PROVE  MapLayered'
  <1>1. Len(stack') = n - 1
    BY DEF Returns
  <1>2. \A d \in 1..(n - 1) : Layer(plan, stack'[d], Base(d)', Level(d)')
    BY <1>1, LowerLayers DEF Returns
  <1>3. QED
    BY <1>1, <1>2, LayersNext

(* With the links of engines apart, an iteration ends with the map that it *)
(* began with.                                                             *)
LEMMA TakenOut ==
    ASSUME TypeOK, MapLayered, LinksSeparate(plan), outcome = "running", Top.pc = "updated"
    PROVE  universal_assignments \ Plan.my_plinks = Top.initial
  <1> DEFINE e == Top.engine
  <1>1. e \in DOMAIN plan
    BY TopIsACall DEF Engines
  <1>2. /\ AllTouched(plan, plan[e].within) \cap plan[e].my_plinks = {}
        /\ Touched(plan, e) \subseteq plan[e].my_plinks \cup AllSure(plan, plan[e].within)
    BY <1>1 DEF LinksSeparate
  <1>3. Layer(plan, Top, Top.initial, universal_assignments)
    BY TopLayer
  <1>4. /\ AllSure(plan, plan[e].within) \subseteq Top.initial
        /\ Top.initial \subseteq AllTouched(plan, plan[e].within)
        /\ Top.initial \subseteq universal_assignments
        /\ universal_assignments \subseteq Top.initial \cup Touched(plan, e)
    BY <1>3 DEF Layer
  <1>5. QED
    BY <1>2, <1>4 DEF Plan

LEMMA LayerStep ==
    ASSUME TypeOK, CallsNest, MapLayered, LinksSeparate(plan), Step
    PROVE  MapLayered'
  <1>0. PICK n \in Nat : n = Len(stack)
    BY DEF TypeOK
  <1>1. CASE StopBeforeTrying
    <2>1. outcome = "running" /\ Settled /\ Returns /\ universal_assignments' = Base(n)
      BY <1>0, <1>1, StopBeforeEffect, TopLayer
    <2>2. QED
      BY <1>0, <2>1, LayersReturn
  <1>2. CASE CompareHit
    <2>1. outcome = "running" /\ Settled /\ GoesOn(Hit)
      BY <1>0, <1>2, HitEffect
    <2>2. Base(n) = universal_assignments /\ Layer(plan, Top, universal_assignments, universal_assignments)
      BY <1>0, <1>2, HitEffect, TopLayer
    <2>3. Hit.engine = Top.engine /\ Hit.pc = "matched" /\ Hit.initial = universal_assignments
      BY <1>0, <2>1, FramesLeft
    <2>4. Base(n)' = Base(n)
      <3>1. stack'[n] = Hit
        BY <1>0, <2>1 DEF GoesOn
      <3>2. QED
        BY <1>0, <2>2, <2>3, <3>1 DEF Base
    <2>5. Layer(plan, Hit, universal_assignments, universal_assignments')
      <3>1. /\ universal_assignments \subseteq universal_assignments'
            /\ universal_assignments' \subseteq universal_assignments \cup Touched(plan, Top.engine)
            /\ plan[Top.engine].solved \ plan[Top.engine].unmatched \subseteq universal_assignments'
        BY <1>0, <1>2, HitEffect DEF Plan, Touched
      <3>2. QED
        BY <1>0, <2>2, <2>3, <3>1 DEF Layer
    <2>6. QED
      BY <1>0, <2>1, <2>2, <2>4, <2>5, LayersGoOn
  <1>3. CASE CompareMismatch
    <2>1. outcome = "running" /\ Settled /\ universal_assignments' = Base(n)
      BY <1>0, <1>3, MismatchEffect, TopLayer
    <2>2. CASE Abort
      BY <1>0, <2>1, <2>2, LayersNext DEF Abort
    <2>3. CASE Returns
      BY <1>0, <2>1, <2>3, LayersReturn
    <2>4. QED
      BY <1>0, <1>3, <2>2, <2>3, MismatchEffect
  <1>4. CASE UpdateMainTree
    <2>1. outcome = "running" /\ Settled /\ GoesOn(Updated) /\ Top.pc = "matched"
      BY <1>0, <1>4, UpdateEffect
    <2>2. Base(n) = Top.initial /\ Layer(plan, Top, Top.initial, universal_assignments)
      BY <1>0, <2>1, TopLayer
    <2>3. Updated.engine = Top.engine /\ Updated.pc = "updated" /\ Updated.initial = Top.initial
      BY <1>0, <2>1, FramesLeft
    <2>4. Base(n)' = Base(n)
      <3>1. stack'[n] = Updated
        BY <1>0, <2>1 DEF GoesOn
      <3>2. QED
        BY <1>0, <2>2, <2>3, <3>1 DEF Base
    <2>5. Layer(plan, Updated, Top.initial, universal_assignments')
      <3>1. universal_assignments' = universal_assignments \cup plan[Top.engine].placed
        BY <1>0, <1>4, UpdateEffect DEF Plan
      <3>2. QED
        BY <1>0, <2>1, <2>2, <2>3, <3>1 DEF Layer, Touched, Sure
    <2>6. QED
      BY <1>0, <2>1, <2>2, <2>4, <2>5, LayersGoOn
  <1>5. CASE RunEmbedded
    <2>1. outcome = "running" /\ Settled /\ Calls(Called, EmbeddedCall) /\ Top.pc = "updated"
          /\ universal_assignments' = universal_assignments
      BY <1>0, <1>5, RunEffect
    <2>2. Base(n) = Top.initial /\ Layer(plan, Top, Top.initial, universal_assignments)
      BY <1>0, <2>1, TopLayer
    <2>3. Called.engine = Top.engine /\ Called.pc = "updated" /\ Called.initial = Top.initial
      BY <1>0, <2>1, FramesLeft
    <2>4. n \in Nat /\ n > 0
      BY <1>0, <2>1, TopIsACall
    <2>5. Len(stack') = n + 1 /\ stack'[n] = Called /\ stack'[n + 1] = EmbeddedCall
      BY <1>0, <2>1 DEF Calls
    <2>6. Base(n)' = Base(n)
      BY <1>0, <2>2, <2>3, <2>5 DEF Base
    <2>7. EmbeddedCall.pc = "entered"
          /\ plan[EmbeddedCall.engine].within = plan[Top.engine].within \cup {Top.engine}
      BY <1>0, <1>5, RunEffect
    <2>8. Base(n + 1)' = universal_assignments
      BY <1>0, <2>1, <2>5, <2>7 DEF Base
    <2>9. n # n + 1
      BY <1>0, <2>4
    <2>10. Level(n)' = universal_assignments /\ Level(n + 1)' = universal_assignments
      BY <1>0, <2>1, <2>5, <2>8, <2>9 DEF Level
    <2>11. Layer(plan, Called, Base(n)', Level(n)')
      BY <1>0, <2>1, <2>2, <2>3, <2>6, <2>10 DEF Layer
    <2>12. Layer(plan, EmbeddedCall, Base(n + 1)', Level(n + 1)')
      <3>1. AllSure(plan, plan[EmbeddedCall.engine].within)
                = AllSure(plan, plan[Top.engine].within) \cup Sure(plan, Top.engine)
        BY <1>0, <2>7 DEF AllSure
      <3>2. AllTouched(plan, plan[EmbeddedCall.engine].within)
                = AllTouched(plan, plan[Top.engine].within) \cup Touched(plan, Top.engine)
        BY <1>0, <2>7 DEF AllTouched
      <3>3. AllSure(plan, plan[EmbeddedCall.engine].within) \subseteq universal_assignments
        BY <1>0, <2>1, <2>2, <3>1 DEF Layer
      <3>4. universal_assignments \subseteq AllTouched(plan, plan[EmbeddedCall.engine].within)
        BY <1>0, <2>2, <3>2 DEF Layer
      <3>5. QED
        BY <1>0, <2>7, <2>8, <2>10, <3>3, <3>4 DEF Layer
    <2>13. \A d \in 1..(n - 1) : Layer(plan, stack'[d], Base(d)', Level(d)')
      <3>1. Len(stack') \in Nat /\ Len(stack') >= n
        BY <1>0, <2>4, <2>5
      <3>2. QED
        BY <1>0, <2>1, <2>6, <3>1, LowerLayers DEF Calls
    <2>14. \A d \in 1..Len(stack') : d = n + 1 \/ d = n \/ d \in 1..(n - 1)
      BY <1>0, <2>4, <2>5
    <2>15. \A d \in 1..Len(stack') : Layer(plan, stack'[d], Base(d)', Level(d)')
      BY <1>0, <2>5, <2>11, <2>12, <2>13, <2>14
    <2>16. QED
      BY <1>0, <2>1, <2>15, LayersNext
  <1>6. CASE EndSingle
    <2>1. outcome = "running" /\ Settled /\ Top.pc = "updated"
      BY <1>0, <1>6, EndEffect
    <2>2. Base(n) = Top.initial /\ Layer(plan, Top, Top.initial, universal_assignments)
      BY <1>0, <2>1, TopLayer
    <2>3. universal_assignments' = Top.initial
      BY <1>0, <1>6, <2>1, EndEffect, TakenOut
    <2>4. CASE Abort
      BY <1>0, <2>1, <2>4, LayersNext DEF Abort
    <2>5. CASE Returns
      BY <1>0, <2>1, <2>2, <2>3, <2>5, LayersReturn
    <2>6. CASE GoesOn(Ended)
      <3>1. Ended.engine = Top.engine /\ Ended.pc = "loop"
        BY <1>0, <2>1, FramesLeft
      <3>2. Base(n)' = Base(n)
        <4>1. stack'[n] = Ended
          BY <1>0, <2>6 DEF GoesOn
        <4>2. QED
          BY <1>0, <2>2, <2>3, <3>1, <4>1 DEF Base
      <3>3. Layer(plan, Ended, Top.initial, universal_assignments')
        BY <1>0, <2>2, <2>3, <3>1 DEF Layer
      <3>4. QED
        BY <1>0, <2>1, <2>2, <2>6, <3>2, <3>3, LayersGoOn
    <2>7. QED
      BY <1>0, <1>6, <2>4, <2>5, <2>6, EndEffect
  <1>7. CASE LimitReached
    <2>1. outcome = "running" /\ Settled /\ universal_assignments' = Base(n)
      BY <1>0, <1>7, LimitEffect, TopLayer
    <2>2. CASE Abort
      BY <1>0, <2>1, <2>2, LayersNext DEF Abort
    <2>3. CASE Returns
      BY <1>0, <2>1, <2>3, LayersReturn
    <2>4. QED
      BY <1>0, <1>7, <2>2, <2>3, LimitEffect
  <1>8. QED
    BY <1>1, <1>2, <1>3, <1>4, <1>5, <1>6, <1>7 DEF Step

LEMMA LayerStutter ==
    ASSUME MapLayered, UNCHANGED vars
    PROVE  MapLayered'
  <1>1. Settled /\ stack' = stack /\ outcome' = outcome /\ universal_assignments' = universal_assignments
    BY StepSettled DEF vars, config
  <1>2. \A d \in 1..Len(stack) : Base(d)' = Base(d) /\ Level(d)' = Level(d)
    BY <1>1 DEF Base, Level
  <1>3. outcome' = "running" => \A d \in 1..Len(stack') : Layer(plan, stack'[d], Base(d)', Level(d)')
    BY <1>1, <1>2, Layers
  <1>4. QED
    BY <1>1, <1>3, LayersNext

LEMMA LayerInit ==
    ASSUME Init
    PROVE  MapLayered
  <1>1. stack = <<Frame(root)>> /\ universal_assignments = {} /\ plan[root].within = {}
    <2>1. PICK p \in Patterns : plan = PlanFor(p) /\ root = p.root
      BY DEF Init
    <2>2. PlanIsTree(plan, root)
      BY <2>1, PatternsAssumption
    <2>3. QED
      BY <2>2 DEF Init, PlanIsTree
  <1>2. Len(stack) = 1 /\ stack[1] = Frame(root) /\ Frame(root).engine = root /\ Frame(root).pc = "entered"
    BY <1>1 DEF Frame
  <1>3. Base(1) = {} /\ Level(1) = {}
    BY <1>1, <1>2 DEF Base, Level
  <1>4. AllSure(plan, {}) = {}
    BY DEF AllSure
  <1>5. \A d \in Depths : d = 1
    BY <1>2 DEF Depths
  <1>6. QED
    BY <1>1, <1>2, <1>3, <1>4, <1>5 DEF MapLayered

(* SingleCompareReplace() leaves universal_assignments as it found it, the *)
(* embedded engines that it runs included, if the links an engine takes    *)
(* out are its own: the ASSERT on their number holds.                      *)
THEOREM MapIsBalanced ==
    ASSUME \A p \in Patterns : LinksSeparate(PlanFor(p))
    PROVE  Spec => Balanced
  <1> DEFINE Inv == TypeOK /\ CallsNest /\ MapLayered /\ LinksSeparate(plan)
  <1>1. Init => Inv
    BY InitType, LayerInit DEF Init
  <1>2. Inv /\ [Next]_vars => Inv'
    <2>1. SUFFICES ASSUME Inv, [Next]_vars
                   PROVE  Inv'
      OBVIOUS
    <2>2. LinksSeparate(plan)'
      BY <2>1, NextSettled DEF Settled
    <2>3. CASE Step
      BY <2>1, <2>2, <2>3, TypeStep, NestStep, LayerStep
    <2>4. CASE UNCHANGED vars
      BY <2>1, <2>2, <2>4, TypeStutter, NestStutter, LayerStutter
    <2>5. QED
      BY <2>1, <2>3, <2>4 DEF Next
  <1>3. Inv => [EndSingle => universal_assignments' = Top.initial]_vars
    BY EndEffect, TakenOut
  <1>4. QED
    BY <1>1, <1>2, <1>3, PTL DEF Spec, Balanced

(* What an engine looks up in universal_assignments is there, if it is     *)
(* among what surrounding engines have assigned whatever they matched.     *)
THEOREM CouplingsAlwaysKeyed ==
    ASSUME \A p \in Patterns : LinksSeparate(PlanFor(p)) /\ KeysAreSure(PlanFor(p))
    PROVE  Spec => []CouplingsKeyed
  <1> DEFINE Inv == TypeOK /\ CallsNest /\ MapLayered /\ LinksSeparate(plan) /\ KeysAreSure(plan)
  <1>1. Init => Inv
    BY InitType, LayerInit DEF Init
  <1>2. Inv /\ [Next]_vars => Inv'
    <2>1. SUFFICES ASSUME Inv, [Next]_vars
                   PROVE  Inv'
      OBVIOUS
    <2>2. LinksSeparate(plan)' /\ KeysAreSure(plan)'
      BY <2>1, NextSettled DEF Settled
    <2>3. CASE Step
      BY <2>1, <2>2, <2>3, TypeStep, NestStep, LayerStep
    <2>4. CASE UNCHANGED vars
      BY <2>1, <2>2, <2>4, TypeStutter, NestStutter, LayerStutter
    <2>5. QED
      BY <2>1, <2>3, <2>4 DEF Next
  <1>3. Inv => CouplingsKeyed
    <2>1. SUFFICES ASSUME Inv, outcome = "running"
                   PROVE  /\ Iterating => Plan.boundary_keyers \subseteq universal_assignments
                          /\ Top.pc = "matched" => Plan.layout_keyers \subseteq universal_assignments
                          /\ Top.pc = "updated" /\ Top.next <= Len(Plan.embeddeds) =>
                                 Plan.embeddeds[Top.next].plink \in universal_assignments
      BY DEF CouplingsKeyed
    <2> DEFINE e == Top.engine
    <2>2. e \in DOMAIN plan
      BY <2>1, TopIsACall DEF Engines
    <2>3. /\ plan[e].boundary_keyers \subseteq AllSure(plan, plan[e].within)
          /\ plan[e].layout_keyers \subseteq
                 AllSure(plan, plan[e].within) \cup (plan[e].solved \ plan[e].unmatched)
          /\ \A m \in ToSet(plan[e].embeddeds) :
                 m.plink \in AllSure(plan, plan[e].within) \cup Sure(plan, e)
      BY <2>1, <2>2 DEF KeysAreSure
    <2>4. Layer(plan, Top, Base(Len(stack)), universal_assignments)
      BY <2>1, TopLayer
    <2>5. AllSure(plan, plan[e].within) \subseteq universal_assignments
      BY <2>4 DEF Layer
    <2>6. Iterating => Plan.boundary_keyers \subseteq universal_assignments
      BY <2>3, <2>5 DEF Plan
    <2>7. Top.pc = "matched" => Plan.layout_keyers \subseteq universal_assignments
      BY <2>3, <2>4, <2>5 DEF Plan, Layer
    <2>8. ASSUME Top.pc = "updated", Top.next <= Len(Plan.embeddeds)
          PROVE  Plan.embeddeds[Top.next].plink \in universal_assignments
      <3>1. Top.next \in 1..Len(Plan.embeddeds)
        BY <2>1, <2>8, TopIsACall
      <3>2. DOMAIN Plan.embeddeds = 1..Len(Plan.embeddeds)
        BY <2>1, <2>2 DEF TypeOK, PlanIsTree, Plan
      <3>3. Plan.embeddeds[Top.next] \in ToSet(plan[e].embeddeds)
        BY <3>1, <3>2 DEF ToSet, Plan
      <3>4. Sure(plan, e) \subseteq universal_assignments
        BY <2>4, <2>8 DEF Layer
      <3>5. QED
        BY <2>3, <2>5, <3>3, <3>4
    <2>9. QED
      BY <2>6, <2>7, <2>8
  <1>4. QED
    BY <1>1, <1>2, <1>3, PTL DEF Spec


-----------------------------------------------------------------------------
(* Engines that are apart in the plan.                                     *)

LEMMA EmbeddedApart ==
    ASSUME NEW pl, NEW rt, PlanIsTree(pl, rt), NEW e \in DOMAIN pl, NEW x \in Runs(pl, e)
    PROVE  /\ x \in DOMAIN pl /\ pl[x].within = pl[e].within \cup {e}
           /\ x \notin pl[e].within /\ x # e /\ x # rt
           /\ \A h \in DOMAIN pl : x \in pl[h].within => h \notin Runs(pl, e) /\ e \in pl[h].within
  <1>1. \A y \in Runs(pl, e) : y \in DOMAIN pl /\ pl[y].within = pl[e].within \cup {e}
    BY DEF PlanIsTree
  <1>2. pl[e].within \subseteq DOMAIN pl \ {e} /\ e \notin pl[e].within /\ pl[rt].within = {}
        /\ \A a \in pl[e].within : pl[a].within \subseteq pl[e].within
    BY DEF PlanIsTree
  <1>3. x \notin pl[e].within /\ x # e /\ x # rt
    BY <1>1, <1>2
  <1>4. ASSUME NEW h \in DOMAIN pl, x \in pl[h].within
        PROVE  h \notin Runs(pl, e) /\ e \in pl[h].within
    <2>1. pl[x].within \subseteq pl[h].within
      BY <1>4 DEF PlanIsTree
    <2>2. QED
      BY <1>1, <1>3, <1>4, <2>1
  <1>5. QED
    BY <1>1, <1>3, <1>4

(* e runs inside b, which a embeds like g: then g and what is inside it    *)
(* are not run by e.                                                       *)
LEMMA SiblingsApart ==
    ASSUME NEW pl, NEW rt, PlanIsTree(pl, rt), NEW e \in DOMAIN pl, NEW a \in DOMAIN pl,
           NEW b \in Runs(pl, a), NEW g \in Runs(pl, a), g # b, b \in pl[e].within \cup {e}
    PROVE  /\ g \notin Runs(pl, e)
           /\ \A h \in DOMAIN pl : g \in pl[h].within => h \notin Runs(pl, e)
  <1>1. /\ b \in DOMAIN pl /\ pl[b].within = pl[a].within \cup {a}
        /\ g \in DOMAIN pl /\ pl[g].within = pl[a].within \cup {a}
    BY DEF PlanIsTree
  <1>2. b \notin pl[b].within /\ g \notin pl[g].within
    BY <1>1 DEF PlanIsTree
  <1>3. SUFFICES ASSUME NEW y \in Runs(pl, e)
                 PROVE  y # g /\ g \notin pl[y].within
    BY <1>3
  <1>4. y \in DOMAIN pl /\ b \in pl[y].within
    BY DEF PlanIsTree
  <1>5. y # g
    BY <1>1, <1>2, <1>4
  <1>6. ASSUME g \in pl[y].within
        PROVE  FALSE
    <2>1. g = b \/ g \in pl[b].within \/ b \in pl[g].within
      BY <1>4, <1>6 DEF PlanIsTree
    <2>2. QED
      BY <1>1, <1>2, <2>1
  <1>7. QED
    BY <1>5, <1>6

-----------------------------------------------------------------------------
(* The stop counts.                                                        *)

At(c, d) == [counts |-> c, depth |-> d - 1]
NoCount == [counts |-> <<>>, depth |-> 0]
InsideOf(pl, e) == {g \in DOMAIN pl : e \in pl[g].within}
YetToRun(pl, f) ==
    LET m == pl[f.engine].embeddeds
    IN  {m[i].engine : i \in (IF f.pc = "updated" THEN f.next ELSE 1)..Len(m)}

(* What of CountsPlaced is about one call, on the path and off it. *)
PlacedOn(pl, sa, c, f, d) ==
    /\ sa[f.engine] = At(c, d)
    /\ f.stop => /\ f.pc \in {"matched", "updated"} /\ d <= Len(c)
                 /\ \A g \in YetToRun(pl, f) : sa[g] = At(c, d + 1) /\ \A h \in InsideOf(pl, g) : sa[h] = NoCount
    /\ ~ f.stop => \A g \in InsideOf(pl, f.engine) : sa[g] = NoCount
    /\ d <= Len(c) =>
           /\ f.pc = "entered" => f.hits = 0
           /\ f.pc # "entered" => f.hits < c[d]
           /\ f.pc \in {"matched", "updated"} => (f.stop <=> f.hits + 1 = c[d])

PlacedOff(pl, sa, f) ==
    /\ ~ f.stop /\ sa[f.engine] = NoCount
    /\ \A g \in InsideOf(pl, f.engine) : sa[g] = NoCount

LEMMA CallPlaced ==
    ASSUME CountsPlaced, outcome = "running", NEW d \in 1..Len(stack)
    PROVE  /\ OnPath(d) => PlacedOn(plan, stop_after, Counts, stack[d], d)
           /\ ~ OnPath(d) => PlacedOff(plan, stop_after, stack[d])
  <1>1. CASE OnPath(d)
    BY <1>1 DEF CountsPlaced, Depths, PlacedOn, At, NoCount, InsideOf, YetToRun,
                Counted, Uncounted, Inside, ToRun, Engines
  <1>2. CASE ~ OnPath(d)
    BY <1>2 DEF CountsPlaced, Depths, PlacedOff, NoCount, InsideOf, Uncounted, Inside, Engines
  <1>3. QED
    BY <1>1, <1>2

LEMMA CountsPlacedNext ==
    ASSUME Settled, Counts' = Counts,
           outcome' = "running" => \A d \in 1..Len(stack') :
               /\ OnPath(d)' => PlacedOn(plan, stop_after', Counts, stack'[d], d)
               /\ ~ OnPath(d)' => PlacedOff(plan, stop_after', stack'[d])
    PROVE  CountsPlaced'
  <1>1. SUFFICES ASSUME outcome' = "running", NEW d \in 1..Len(stack')
                 PROVE  (LET f == stack[d]
                         IN  IF OnPath(d)
                             THEN /\ Counted(f.engine, d)
                                  /\ f.stop => /\ f.pc \in {"matched", "updated"} /\ d <= Len(Counts)
                                               /\ \A g \in ToRun(f) : Counted(g, d + 1) /\ \A h \in Inside(g) : Uncounted(h)
                                  /\ ~ f.stop => \A g \in Inside(f.engine) : Uncounted(g)
                                  /\ d <= Len(Counts) =>
                                         /\ f.pc = "entered" => f.hits = 0
                                         /\ f.pc # "entered" => f.hits < Counts[d]
                                         /\ f.pc \in {"matched", "updated"} => (f.stop <=> f.hits + 1 = Counts[d])
                             ELSE /\ ~ f.stop /\ Uncounted(f.engine)
                                  /\ \A g \in Inside(f.engine) : Uncounted(g))'
    BY DEF CountsPlaced, Depths
  <1>2. plan' = plan /\ Engines' = Engines
    BY DEF Settled
  <1>3. CASE OnPath(d)'
    <2>1. PlacedOn(plan, stop_after', Counts, stack'[d], d)
      BY <1>1, <1>3
    <2>2. QED
      BY <1>2, <1>3, <2>1 DEF PlacedOn, At, NoCount, InsideOf, YetToRun,
                Counted, Uncounted, Inside, ToRun, Engines
  <1>4. CASE ~ OnPath(d)'
    <2>1. PlacedOff(plan, stop_after', stack'[d])
      BY <1>1, <1>4
    <2>2. QED
      BY <1>2, <1>4, <2>1 DEF PlacedOff, NoCount, InsideOf, Uncounted, Inside, Engines
  <1>5. QED
    BY <1>3, <1>4


LEMMA CountsType ==
    ASSUME TypeOK
    PROVE  /\ root \in Engines /\ Counts \in Seq(Nat) /\ Len(Counts) \in Nat
           /\ \A d \in 1..Len(Counts) : Counts[d] \in Nat
  <1>1. root \in Engines /\ stop_after \in [Engines -> [counts : Seq(Nat), depth : Nat]]
    BY DEF TypeOK, PlanIsTree, Engines
  <1>2. Counts \in Seq(Nat)
    BY <1>1 DEF Counts
  <1>3. QED
    BY <1>1, <1>2

LEMMA TopPlaced ==
    ASSUME TypeOK, CountsPlaced, outcome = "running", NEW n \in Nat, n = Len(stack)
    PROVE  /\ OnPath(n) => PlacedOn(plan, stop_after, Counts, Top, n)
           /\ ~ OnPath(n) => PlacedOff(plan, stop_after, Top)
           /\ OnPath(n) <=> OnStoppingPath
  <1>1. n \in 1..Len(stack) /\ Top = stack[n]
    BY TopIsACall
  <1>2. QED
    BY <1>1, CallPlaced DEF OnPath, OnStoppingPath

(* The count that ends a call's loop is the one of its level, on the path. *)
LEMMA StopAfterValue ==
    ASSUME TypeOK, CountsPlaced, outcome = "running", NEW n \in Nat, n = Len(stack)
    PROVE  /\ OnPath(n) /\ n <= Len(Counts) => StopAfter = Counts[n]
           /\ ~ (OnPath(n) /\ n <= Len(Counts)) => StopAfter = -1
  <1>1. Len(Counts) \in Nat
    BY CountsType
  <1>2. CASE OnPath(n)
    <2>1. stop_after[Top.engine] = [counts |-> Counts, depth |-> n - 1]
      BY <1>2, TopPlaced DEF PlacedOn, At
    <2>2. StopAfter = IF n - 1 < Len(Counts) THEN Counts[(n - 1) + 1] ELSE -1
      BY <2>1 DEF StopAfter
    <2>3. (n - 1 < Len(Counts) <=> n <= Len(Counts)) /\ (n - 1) + 1 = n
      BY <1>1
    <2>4. QED
      BY <1>2, <2>2, <2>3
  <1>3. CASE ~ OnPath(n)
    <2>1. stop_after[Top.engine] = [counts |-> <<>>, depth |-> 0]
      BY <1>3, TopPlaced DEF PlacedOff, NoCount
    <2>2. StopAfter = -1
      BY <2>1 DEF StopAfter
    <2>3. QED
      BY <1>3, <2>2
  <1>4. QED
    BY <1>2, <1>3

(* A call that is in its last iteration is on the path. *)
LEMMA StoppingOnPath ==
    ASSUME TypeOK, CountsPlaced, outcome = "running", Stopping, NEW n \in Nat, n = Len(stack)
    PROVE  OnPath(n) /\ n <= Len(Counts) /\ Counts[n] = Top.hits + 1
  <1>1. Top.hits \in Nat
    BY TopIsACall
  <1>2. StopAfter = Top.hits + 1
    BY DEF Stopping
  <1>3. StopAfter # -1
    BY <1>1, <1>2
  <1>4. QED
    BY <1>2, <1>3, StopAfterValue

LEMMA PropagatedValue ==
    ASSUME TypeOK, CountsPlaced, outcome = "running", NEW n \in Nat, n = Len(stack)
    PROVE  /\ ~ Stopping => Propagated = stop_after
           /\ Stopping => \A e \in Engines :
                 Propagated[e] = IF e \in Runs(plan, Top.engine) THEN At(Counts, n + 1) ELSE stop_after[e]
  <1>1. Runs(plan, Top.engine) = {m.engine : m \in ToSet(Plan.embeddeds)}
    BY DEF Runs, Plan
  <1>2. CASE ~ Stopping
    <2>1. stop_after \in [Engines -> [counts : Seq(Nat), depth : Nat]]
      BY DEF TypeOK
    <2>2. Propagated = [e \in Engines |-> stop_after[e]]
      BY <1>2 DEF Propagated
    <2>3. QED
      BY <1>2, <2>1, <2>2
  <1>3. CASE Stopping
    <2>1. stop_after[Top.engine] = [counts |-> Counts, depth |-> n - 1]
      BY <1>3, StoppingOnPath, TopPlaced DEF PlacedOn, At
    <2>2. Propagated = [e \in Engines |-> IF e \in Runs(plan, Top.engine)
              THEN [counts |-> Counts, depth |-> (n - 1) + 1] ELSE stop_after[e]]
      BY <1>1, <1>3, <2>1 DEF Propagated
    <2>3. (n - 1) + 1 = (n + 1) - 1
      OBVIOUS
    <2>4. QED
      BY <1>3, <2>2, <2>3 DEF At
  <1>4. QED
    BY <1>2, <1>3

LEMMA CountsKept ==
    ASSUME TypeOK, CountsPlaced, outcome = "running", Settled,
           stop_after' = stop_after \/ stop_after' = Propagated
    PROVE  Counts' = Counts
  <1>1. PICK n \in Nat : n = Len(stack)
    BY TopIsACall
  <1>2. root \in Engines /\ root \notin Runs(plan, Top.engine)
    <2>1. PlanIsTree(plan, root) /\ Top.engine \in DOMAIN plan
      BY TopIsACall DEF TypeOK, Engines
    <2>2. QED
      BY <2>1, CountsType, EmbeddedApart
  <1>3. Propagated[root] = stop_after[root]
    BY <1>1, <1>2, PropagatedValue
  <1>4. QED
    BY <1>3 DEF Counts, Settled

(* The engines of the calls on the stack. *)
LEMMA CalledEngines ==
    ASSUME TypeOK, CallsNest, NEW n \in Nat, n = Len(stack), NEW d \in 1..(n - 1)
    PROVE  /\ stack[d].engine \in DOMAIN plan /\ stack[n].engine \in DOMAIN plan
           /\ stack[d].engine \in plan[stack[n].engine].within
           /\ stack[d].pc = "updated" /\ stack[d].next - 1 \in 1..Len(plan[stack[d].engine].embeddeds)
           /\ stack[d].next \in Nat
           /\ stack[d + 1].engine = plan[stack[d].engine].embeddeds[stack[d].next - 1].engine
           /\ stack[d + 1].engine \in Runs(plan, stack[d].engine)
           /\ stack[d + 1].engine \in plan[stack[n].engine].within \cup {stack[n].engine}
  <1>1. stack \in Seq(Frames) /\ d \in 1..n /\ n \in 1..n /\ d < n /\ d + 1 \in 1..n
    BY DEF TypeOK
  <1>2. stack[d] \in Frames /\ stack[n] \in Frames
    BY <1>1
  <1>3. stack[d].engine \in DOMAIN plan /\ stack[n].engine \in DOMAIN plan /\ stack[d].next \in Nat
    BY <1>2 DEF Frames, Engines
  <1>4. plan[stack[n].engine].within = {stack[j].engine : j \in 1..(n - 1)}
    BY <1>1 DEF CallsNest, Depths
  <1>5. stack[d].engine \in plan[stack[n].engine].within
    BY <1>4
  <1>6. stack[d].pc = "updated" /\ stack[d].next > 1
        /\ stack[d + 1].engine = plan[stack[d].engine].embeddeds[stack[d].next - 1].engine
    BY <1>1 DEF CallsNest, Depths
  <1>7. stack[d].next \in 1..(Len(plan[stack[d].engine].embeddeds) + 1)
    BY <1>1 DEF TypeOK
  <1>8. PlanIsTree(plan, root)
    BY DEF TypeOK
  <1>9. Len(plan[stack[d].engine].embeddeds) \in Nat
    BY <1>3, <1>8 DEF PlanIsTree
  <1>10. stack[d].next - 1 \in 1..Len(plan[stack[d].engine].embeddeds)
    BY <1>3, <1>6, <1>7, <1>9
  <1>11. stack[d + 1].engine \in Runs(plan, stack[d].engine)
    <2> DEFINE i == stack[d].next - 1
               a == stack[d].engine
    <2>1. a \in DOMAIN plan /\ i \in 1..Len(plan[a].embeddeds)
      BY <1>3, <1>10
    <2> HIDE DEF i, a
    <2>2. plan[a].embeddeds[i].engine \in Runs(plan, a)
      BY <1>8, <2>1, EmbeddedIsPlanned
    <2>3. QED
      BY <1>6, <2>2 DEF i, a
  <1>12. stack[d + 1].engine \in plan[stack[n].engine].within \cup {stack[n].engine}
    <2>1. CASE d + 1 = n
      BY <2>1
    <2>2. CASE d + 1 # n
      <3>1. d + 1 \in 1..(n - 1)
        BY <1>1, <2>2
      <3>2. QED
        BY <1>4, <3>1
    <2>3. QED
      BY <2>1, <2>2
  <1>13. QED
    BY <1>3, <1>5, <1>6, <1>10, <1>11, <1>12

(* What a call has yet to run is embedded in its engine, and is not what   *)
(* it runs now.                                                            *)
LEMMA YetEmbedded ==
    ASSUME NEW pl, NEW rt, PlanIsTree(pl, rt), NEW f, f.engine \in DOMAIN pl, f.next \in Nat,
           f.next > 0, NEW g \in YetToRun(pl, f)
    PROVE  g \in Runs(pl, f.engine)
  <1>1. PICK i \in (IF f.pc = "updated" THEN f.next ELSE 1)..Len(pl[f.engine].embeddeds) :
            g = pl[f.engine].embeddeds[i].engine
    BY DEF YetToRun
  <1>2. Len(pl[f.engine].embeddeds) \in Nat
    BY DEF PlanIsTree
  <1>3. i \in 1..Len(pl[f.engine].embeddeds)
    BY <1>1, <1>2
  <1>4. QED
    BY <1>1, <1>3, EmbeddedIsPlanned

LEMMA YetOther ==
    ASSUME NEW pl, NEW rt, PlanIsTree(pl, rt), RunsEachOnce(pl), NEW f, f.engine \in DOMAIN pl,
           f.pc = "updated", f.next \in Nat, f.next - 1 \in 1..Len(pl[f.engine].embeddeds),
           NEW g \in YetToRun(pl, f)
    PROVE  g # pl[f.engine].embeddeds[f.next - 1].engine
  <1> DEFINE m == pl[f.engine].embeddeds
             q == [i \in DOMAIN m |-> m[i].engine]
  <1>1. PICK i \in f.next..Len(m) : g = m[i].engine
    BY DEF YetToRun
  <1>2. Len(m) \in Nat /\ DOMAIN m = 1..Len(m)
    BY DEF PlanIsTree
  <1>3. i \in DOMAIN m /\ f.next - 1 \in DOMAIN m /\ i # f.next - 1
    BY <1>1, <1>2
  <1>4. IsInjective(q)
    BY DEF RunsEachOnce
  <1>5. q[i] # q[f.next - 1]
    BY <1>3, <1>4 DEF IsInjective
  <1>6. QED
    BY <1>1, <1>3, <1>5


LEMMA PathKept ==
    ASSUME NEW n \in Nat, \A j \in 1..(n - 1) : stack'[j] = stack[j], NEW d \in 1..n
    PROVE  OnPath(d)' <=> OnPath(d)
  <1>1. \A j \in 1..(d - 1) : j \in 1..(n - 1)
    OBVIOUS
  <1>2. \A j \in 1..(d - 1) : stack'[j] = stack[j]
    BY <1>1
  <1>3. QED
    BY <1>2 DEF OnPath

(* Counts handed on by the last call do not reach what the calls below it  *)
(* have, or will run.                                                      *)
LEMMA LowerPlaced ==
    ASSUME TypeOK, CallsNest, CountsPlaced, RunsEachOnce(plan), outcome = "running",
           NEW n \in Nat, n = Len(stack),
           \A d \in 1..(n - 1) : stack'[d] = stack[d],
           stop_after' = stop_after \/ stop_after' = Propagated
    PROVE  \A d \in 1..(n - 1) :
               /\ OnPath(d)' => PlacedOn(plan, stop_after', Counts, stack'[d], d)
               /\ ~ OnPath(d)' => PlacedOff(plan, stop_after', stack'[d])
  <1>1. SUFFICES ASSUME NEW d \in 1..(n - 1)
                 PROVE  /\ OnPath(d) => PlacedOn(plan, stop_after', Counts, stack[d], d)
                        /\ ~ OnPath(d) => PlacedOff(plan, stop_after', stack[d])
    <2>1. \A d \in 1..(n - 1) : d \in 1..n /\ stack'[d] = stack[d]
      OBVIOUS
    <2>2. \A d \in 1..(n - 1) : OnPath(d)' <=> OnPath(d)
      BY <2>1, PathKept
    <2>3. QED
      BY <1>1, <2>1, <2>2
  <1>2. d \in 1..Len(stack) /\ n > 0 /\ Top = stack[n]
    BY TopIsACall
  <1>3. CASE stop_after' = stop_after
    BY <1>2, <1>3, CallPlaced
  <1>4. CASE stop_after' = Propagated
    <2>1. CASE ~ Stopping
      <3>1. stop_after' = stop_after
        BY <1>4, <2>1, PropagatedValue
      <3>2. QED
        BY <1>2, <3>1, CallPlaced
    <2>2. CASE Stopping
      <3>1. OnPath(n)
        BY <2>2, StoppingOnPath
      <3>2. OnPath(d) /\ stack[d].stop
        BY <3>1 DEF OnPath
      <3>3. PlacedOn(plan, stop_after, Counts, stack[d], d)
        BY <1>2, <3>2, CallPlaced
      <3> DEFINE e == stack[n].engine
                 a == stack[d].engine
                 b == stack[d + 1].engine
      <3>4. \A x \in DOMAIN plan : x \notin Runs(plan, e) => stop_after'[x] = stop_after[x]
        BY <1>2, <1>4, <2>2, PropagatedValue DEF Engines
      <3>5. PlanIsTree(plan, root)
        BY DEF TypeOK
      <3>6. /\ a \in DOMAIN plan /\ e \in DOMAIN plan /\ a \in plan[e].within
            /\ stack[d].pc = "updated" /\ stack[d].next - 1 \in 1..Len(plan[a].embeddeds)
            /\ stack[d].next \in Nat
            /\ b = plan[a].embeddeds[stack[d].next - 1].engine
            /\ b \in Runs(plan, a)
            /\ b \in plan[e].within \cup {e}
        BY CalledEngines
      <3>7. stop_after'[a] = stop_after[a]
        <4>1. a \notin Runs(plan, e)
          BY <3>5, <3>6, EmbeddedApart
        <4>2. QED
          BY <3>4, <3>6, <4>1
      <3>8. ASSUME NEW g \in YetToRun(plan, stack[d])
            PROVE  /\ stop_after'[g] = stop_after[g]
                   /\ \A h \in InsideOf(plan, g) : stop_after'[h] = stop_after[h]
        <4>1. stack[d].next > 0
          BY <3>5, <3>6 DEF PlanIsTree
        <4>2. g \in Runs(plan, a)
          BY <3>5, <3>6, <4>1, YetEmbedded
        <4>3. g # b
          BY <3>5, <3>6, YetOther
        <4> HIDE DEF a, b, e
        <4>4. /\ g \notin Runs(plan, e)
              /\ \A h \in DOMAIN plan : g \in plan[h].within => h \notin Runs(plan, e)
          BY <3>5, <3>6, <4>2, <4>3, SiblingsApart
        <4>5. g \in DOMAIN plan
          BY <3>5, <3>6, <4>2, EmbeddedApart
        <4>6. QED
          BY <3>4, <4>4, <4>5 DEF InsideOf
      <3>9. PlacedOn(plan, stop_after', Counts, stack[d], d)
        BY <3>2, <3>3, <3>7, <3>8 DEF PlacedOn
      <3>10. QED
        BY <3>2, <3>9
    <2>3. QED
      BY <2>1, <2>2
  <1>5. QED
    BY <1>3, <1>4

LEMMA PlacedGoesOn ==
    ASSUME TypeOK, CallsNest, CountsPlaced, RunsEachOnce(plan), outcome = "running", Settled,
           NEW n \in Nat, n = Len(stack), NEW f, GoesOn(f),
           stop_after' = stop_after \/ stop_after' = Propagated,
           OnPath(n) => PlacedOn(plan, stop_after', Counts, f, n),
           ~ OnPath(n) => PlacedOff(plan, stop_after', f)
    PROVE  CountsPlaced'
  <1>1. n > 0 /\ n \in 1..n
    BY TopIsACall
  <1>2. \A j \in 1..(n - 1) : stack'[j] = stack[j]
    BY DEF GoesOn
  <1>3. \A d \in 1..(n - 1) :
               /\ OnPath(d)' => PlacedOn(plan, stop_after', Counts, stack'[d], d)
               /\ ~ OnPath(d)' => PlacedOff(plan, stop_after', stack'[d])
    BY <1>2, LowerPlaced
  <1>4. OnPath(n)' <=> OnPath(n)
    BY <1>1, <1>2, PathKept
  <1>5. stack'[n] = f /\ Len(stack') = n
    BY DEF GoesOn
  <1>6. \A d \in 1..n : d = n \/ d \in 1..(n - 1)
    BY <1>1
  <1>7. Counts' = Counts
    BY CountsKept
  <1>8. \A d \in 1..n :
               /\ OnPath(d)' => PlacedOn(plan, stop_after', Counts, stack'[d], d)
               /\ ~ OnPath(d)' => PlacedOff(plan, stop_after', stack'[d])
    BY <1>3, <1>4, <1>5, <1>6
  <1>9. QED
    BY <1>5, <1>7, <1>8, CountsPlacedNext

LEMMA PlacedReturns ==
    ASSUME TypeOK, CallsNest, CountsPlaced, RunsEachOnce(plan), outcome = "running", Settled,
           Returns, stop_after' = stop_after \/ stop_after' = Propagated
    PROVE  CountsPlaced'
  <1>1. PICK n \in Nat : n = Len(stack)
    BY TopIsACall
  <1>2. \A j \in 1..(n - 1) : stack'[j] = stack[j]
    BY <1>1 DEF Returns
  <1>3. \A d \in 1..(n - 1) :
               /\ OnPath(d)' => PlacedOn(plan, stop_after', Counts, stack'[d], d)
               /\ ~ OnPath(d)' => PlacedOff(plan, stop_after', stack'[d])
    BY <1>1, <1>2, LowerPlaced
  <1>4. Counts' = Counts
    BY CountsKept
  <1>5. Len(stack') = n - 1
    BY <1>1 DEF Returns
  <1>6. QED
    BY <1>3, <1>4, <1>5, CountsPlacedNext

LEMMA PlacedAborts ==
    ASSUME TypeOK, CountsPlaced, outcome = "running", Settled, Abort,
           stop_after' = stop_after \/ stop_after' = Propagated
    PROVE  CountsPlaced'
  BY CountsKept, CountsPlacedNext DEF Abort

LEMMA PlacedHit ==
    ASSUME TypeOK, CallsNest, CountsPlaced, RunsEachOnce(plan), CompareHit
    PROVE  CountsPlaced'
  <1>1. PICK n \in Nat : n = Len(stack)
    BY DEF TypeOK
  <1>2. outcome = "running" /\ Settled /\ GoesOn(Hit) /\ stop_after' = Propagated
        /\ Top.pc \in {"entered", "loop"} /\ (Top.pc = "entered" => StopAfter # 0)
    BY HitEffect
  <1>3. Hit.engine = Top.engine /\ Hit.pc = "matched" /\ Hit.hits = Top.hits /\ Hit.stop = Stopping
    BY <1>2, FramesLeft
  <1> DEFINE e == Top.engine
  <1>4. e \in DOMAIN plan /\ PlanIsTree(plan, root) /\ Top.hits \in Nat
    BY <1>2, TopIsACall DEF TypeOK, Engines
  <1>5. ASSUME ~ OnPath(n)
        PROVE  PlacedOff(plan, stop_after', Hit)
    <2>1. ~ Stopping
      BY <1>1, <1>2, <1>5, StoppingOnPath
    <2>2. stop_after' = stop_after
      BY <1>1, <1>2, <2>1, PropagatedValue
    <2>3. PlacedOff(plan, stop_after, Top)
      BY <1>1, <1>2, <1>5, TopPlaced
    <2>4. QED
      BY <1>3, <2>1, <2>2, <2>3 DEF PlacedOff
  <1>6. ASSUME OnPath(n)
        PROVE  PlacedOn(plan, stop_after', Counts, Hit, n)
    <2>1. PlacedOn(plan, stop_after, Counts, Top, n)
      BY <1>1, <1>2, <1>6, TopPlaced
    <2>2. ~ Top.stop
      BY <1>2, <2>1 DEF PlacedOn
    <2>3. stop_after[e] = At(Counts, n) /\ \A g \in InsideOf(plan, e) : stop_after[g] = NoCount
      BY <2>1, <2>2 DEF PlacedOn
    <2>4. n <= Len(Counts) => StopAfter = Counts[n]
      BY <1>1, <1>2, <1>6, StopAfterValue
    <2>5. ASSUME n <= Len(Counts)
          PROVE  Hit.hits < Counts[n] /\ (Hit.stop <=> Hit.hits + 1 = Counts[n])
      <3>1. n > 0 /\ n \in 1..Len(Counts) /\ Counts[n] \in Nat
        BY <1>1, <1>2, <2>5, TopIsACall, CountsType
      <3>2. Stopping <=> Counts[n] = Top.hits + 1
        BY <2>4, <2>5 DEF Stopping
      <3>3. CASE Top.pc = "entered"
        <4>1. Top.hits = 0 /\ Counts[n] # 0
          BY <1>2, <2>1, <2>4, <2>5, <3>3 DEF PlacedOn
        <4>2. QED
          BY <1>3, <3>1, <3>2, <4>1
      <3>4. CASE Top.pc = "loop"
        <4>1. Top.hits < Counts[n]
          BY <2>1, <2>5, <3>4 DEF PlacedOn
        <4>2. QED
          BY <1>3, <3>2, <4>1
      <3>5. QED
        BY <1>2, <3>3, <3>4
    <2>6. CASE ~ Stopping
      <3>1. stop_after' = stop_after
        BY <1>1, <1>2, <2>6, PropagatedValue
      <3>2. QED
        BY <1>3, <2>3, <2>5, <2>6, <3>1 DEF PlacedOn
    <2>7. CASE Stopping
      <3>1. n <= Len(Counts)
        BY <1>1, <1>2, <2>7, StoppingOnPath
      <3>2. \A x \in DOMAIN plan :
               stop_after'[x] = IF x \in Runs(plan, e) THEN At(Counts, n + 1) ELSE stop_after[x]
        BY <1>1, <1>2, <2>7, PropagatedValue DEF Engines
      <3>3. e \notin Runs(plan, e)
        BY <1>4, EmbeddedApart
      <3>4. ASSUME NEW g \in YetToRun(plan, Hit)
            PROVE  /\ stop_after'[g] = At(Counts, n + 1)
                   /\ \A h \in InsideOf(plan, g) : stop_after'[h] = NoCount
        <4>1. g \in Runs(plan, e)
          <5>1. Len(plan[e].embeddeds) \in Nat
            BY <1>4 DEF PlanIsTree
          <5>2. PICK i \in 1..Len(plan[e].embeddeds) : g = plan[e].embeddeds[i].engine
            BY <1>3 DEF YetToRun
          <5>3. QED
            BY <1>4, <5>2, EmbeddedIsPlanned
        <4>2. g \in DOMAIN plan
          BY <1>4, <4>1, EmbeddedApart
        <4>3. ASSUME NEW h \in InsideOf(plan, g)
              PROVE  stop_after'[h] = NoCount
          <5>1. h \in DOMAIN plan /\ g \in plan[h].within
            BY DEF InsideOf
          <5>2. h \notin Runs(plan, e) /\ e \in plan[h].within
            BY <1>4, <4>1, <5>1, EmbeddedApart
          <5>3. stop_after[h] = NoCount
            BY <2>3, <5>1, <5>2 DEF InsideOf
          <5>4. QED
            BY <3>2, <5>1, <5>2, <5>3
        <4>4. QED
          BY <3>2, <4>1, <4>2, <4>3
      <3>5. stop_after'[e] = At(Counts, n)
        BY <1>4, <2>3, <3>2, <3>3
      <3>6. QED
        BY <1>3, <2>5, <2>7, <3>1, <3>4, <3>5 DEF PlacedOn
    <2>8. QED
      BY <2>6, <2>7
  <1>7. QED
    BY <1>1, <1>2, <1>5, <1>6, PlacedGoesOn

LEMMA PlacedUpdate ==
    ASSUME TypeOK, CallsNest, CountsPlaced, RunsEachOnce(plan), UpdateMainTree
    PROVE  CountsPlaced'
  <1>1. PICK n \in Nat : n = Len(stack)
    BY DEF TypeOK
  <1>2. outcome = "running" /\ Settled /\ GoesOn(Updated) /\ stop_after' = stop_after
        /\ Top.pc = "matched"
    BY UpdateEffect
  <1>3. Updated.engine = Top.engine /\ Updated.pc = "updated" /\ Updated.hits = Top.hits
        /\ Updated.stop = Top.stop /\ Updated.next = 1
    BY <1>2, FramesLeft
  <1>4. YetToRun(plan, Updated) = YetToRun(plan, Top)
    BY <1>2, <1>3 DEF YetToRun
  <1>5. OnPath(n) => PlacedOn(plan, stop_after', Counts, Updated, n)
    <2>1. SUFFICES ASSUME OnPath(n)
                   PROVE  PlacedOn(plan, stop_after', Counts, Updated, n)
      OBVIOUS
    <2>2. PlacedOn(plan, stop_after, Counts, Top, n)
      BY <1>1, <1>2, <2>1, TopPlaced
    <2>3. QED
      BY <1>2, <1>3, <1>4, <2>2 DEF PlacedOn
  <1>6. ~ OnPath(n) => PlacedOff(plan, stop_after', Updated)
    BY <1>1, <1>2, <1>3, TopPlaced DEF PlacedOff
  <1>7. QED
    BY <1>1, <1>2, <1>5, <1>6, PlacedGoesOn

LEMMA PlacedEnd ==
    ASSUME TypeOK, CallsNest, CountsPlaced, RunsEachOnce(plan), EndSingle
    PROVE  CountsPlaced'
  <1>1. PICK n \in Nat : n = Len(stack)
    BY DEF TypeOK
  <1>2. outcome = "running" /\ Settled /\ stop_after' = stop_after /\ Top.pc = "updated"
    BY EndEffect
  <1>3. CASE Abort
    BY <1>2, <1>3, PlacedAborts
  <1>4. CASE Returns
    BY <1>2, <1>4, PlacedReturns
  <1>5. CASE ~ Top.stop /\ GoesOn(Ended)
    <2>1. Ended.engine = Top.engine /\ Ended.pc = "loop" /\ Ended.hits = Top.hits + 1
          /\ Ended.stop = Top.stop
      BY <1>2, FramesLeft
    <2>2. OnPath(n) => PlacedOn(plan, stop_after', Counts, Ended, n)
      <3>1. SUFFICES ASSUME OnPath(n)
                     PROVE  PlacedOn(plan, stop_after', Counts, Ended, n)
        OBVIOUS
      <3>2. PlacedOn(plan, stop_after, Counts, Top, n)
        BY <1>1, <1>2, <3>1, TopPlaced
      <3>3. ASSUME n <= Len(Counts)
            PROVE  Top.hits + 1 < Counts[n]
        <4>1. n \in 1..Len(Counts) /\ Counts[n] \in Nat /\ Top.hits \in Nat
          BY <1>1, <1>2, <3>3, TopIsACall, CountsType
        <4>2. Top.hits < Counts[n] /\ Top.hits + 1 # Counts[n]
          BY <1>2, <1>5, <3>2, <3>3 DEF PlacedOn
        <4>3. QED
          BY <4>1, <4>2
      <3>4. QED
        BY <1>2, <1>5, <2>1, <3>2, <3>3 DEF PlacedOn
    <2>3. ~ OnPath(n) => PlacedOff(plan, stop_after', Ended)
      BY <1>1, <1>2, <2>1, TopPlaced DEF PlacedOff
    <2>4. QED
      BY <1>1, <1>2, <1>5, <2>2, <2>3, PlacedGoesOn
  <1>6. QED
    BY <1>3, <1>4, <1>5, EndEffect

LEMMA PlacedRun ==
    ASSUME TypeOK, CallsNest, CountsPlaced, RunsEachOnce(plan), RunEmbedded
    PROVE  CountsPlaced'
  <1>1. PICK n \in Nat : n = Len(stack)
    BY DEF TypeOK
  <1> DEFINE g == EmbeddedCall.engine
             e == Top.engine
  <1>2. /\ outcome = "running" /\ Settled /\ Calls(Called, EmbeddedCall) /\ stop_after' = stop_after
        /\ Top.pc = "updated" /\ Top.next \in 1..Len(Plan.embeddeds)
        /\ g = Plan.embeddeds[Top.next].engine
        /\ g \in Runs(plan, e) /\ g \in DOMAIN plan
        /\ EmbeddedCall.pc = "entered" /\ EmbeddedCall.hits = 0 /\ EmbeddedCall.stop = FALSE
    BY RunEffect DEF Engines
  <1>3. Called.engine = e /\ Called.pc = "updated" /\ Called.hits = Top.hits
        /\ Called.stop = Top.stop /\ Called.next = Top.next + 1
    BY <1>2, FramesLeft
  <1>4. n > 0 /\ Top = stack[n] /\ e \in DOMAIN plan /\ PlanIsTree(plan, root) /\ Top.next \in Nat
        /\ Len(Plan.embeddeds) \in Nat /\ n \in 1..n
    BY <1>1, <1>2, TopIsACall DEF TypeOK, Engines
  <1>5. YetToRun(plan, Called) \subseteq YetToRun(plan, Top) /\ g \in YetToRun(plan, Top)
    <2>1. YetToRun(plan, Top) = {Plan.embeddeds[i].engine : i \in Top.next..Len(Plan.embeddeds)}
      BY <1>2 DEF YetToRun, Plan
    <2>2. YetToRun(plan, Called) = {Plan.embeddeds[i].engine : i \in (Top.next + 1)..Len(Plan.embeddeds)}
      BY <1>3 DEF YetToRun, Plan
    <2>3. Top.next \in Top.next..Len(Plan.embeddeds)
      BY <1>2, <1>4
    <2>4. \A i \in (Top.next + 1)..Len(Plan.embeddeds) : i \in Top.next..Len(Plan.embeddeds)
      BY <1>4
    <2>5. QED
      BY <1>2, <2>1, <2>2, <2>3, <2>4
  <1>6. g \in InsideOf(plan, e) /\ \A h \in InsideOf(plan, g) : h \in InsideOf(plan, e)
    <2>1. plan[g].within = plan[e].within \cup {e}
      BY <1>2, <1>4, EmbeddedApart
    <2>2. \A h \in DOMAIN plan : g \in plan[h].within => e \in plan[h].within
      BY <1>2, <1>4, EmbeddedApart
    <2>3. QED
      BY <1>2, <2>1, <2>2 DEF InsideOf
  <1>7. /\ Len(stack') = n + 1 /\ stack'[n] = Called /\ stack'[n + 1] = EmbeddedCall
        /\ \A j \in 1..(n - 1) : stack'[j] = stack[j]
    BY <1>1, <1>2 DEF Calls
  <1>8. OnPath(n)' <=> OnPath(n)
    BY <1>4, <1>7, PathKept
  <1>9. OnPath(n + 1)' <=> OnPath(n) /\ Top.stop
    <2>1. \A j \in 1..n : j = n \/ j \in 1..(n - 1)
      BY <1>4
    <2>2. \A j \in 1..(n - 1) : j \in 1..n
      BY <1>4
    <2>3. OnPath(n + 1)' <=> \A j \in 1..n : stack'[j].stop
      <3>1. (n + 1) - 1 = n
        OBVIOUS
      <3>2. QED
        BY <3>1 DEF OnPath
    <2>4. (\A j \in 1..n : stack'[j].stop) <=> OnPath(n) /\ Called.stop
      BY <1>4, <1>7, <2>1, <2>2 DEF OnPath
    <2>5. QED
      BY <1>3, <2>3, <2>4
  <1>10. \A d \in 1..(n - 1) :
               /\ OnPath(d)' => PlacedOn(plan, stop_after', Counts, stack'[d], d)
               /\ ~ OnPath(d)' => PlacedOff(plan, stop_after', stack'[d])
    BY <1>1, <1>2, <1>7, LowerPlaced
  <1>11. OnPath(n) => PlacedOn(plan, stop_after, Counts, Top, n)
    BY <1>1, <1>2, TopPlaced
  <1>12. ~ OnPath(n) => PlacedOff(plan, stop_after, Top)
    BY <1>1, <1>2, TopPlaced
  <1>13. /\ OnPath(n)' => PlacedOn(plan, stop_after', Counts, stack'[n], n)
         /\ ~ OnPath(n)' => PlacedOff(plan, stop_after', stack'[n])
    <2>1. OnPath(n) => PlacedOn(plan, stop_after, Counts, Called, n)
      <3>1. SUFFICES ASSUME OnPath(n)
                     PROVE  PlacedOn(plan, stop_after, Counts, Called, n)
        OBVIOUS
      <3>2. PlacedOn(plan, stop_after, Counts, Top, n)
        BY <1>11, <3>1
      <3>3. QED
        BY <1>2, <1>3, <1>5, <3>2 DEF PlacedOn
    <2>2. ~ OnPath(n) => PlacedOff(plan, stop_after, Called)
      BY <1>3, <1>12 DEF PlacedOff
    <2>3. QED
      BY <1>2, <1>7, <1>8, <2>1, <2>2
  <1>14. /\ OnPath(n + 1)' => PlacedOn(plan, stop_after', Counts, stack'[n + 1], n + 1)
         /\ ~ OnPath(n + 1)' => PlacedOff(plan, stop_after', stack'[n + 1])
    <2>1. CASE OnPath(n) /\ Top.stop
      <3>1. stop_after[g] = At(Counts, n + 1) /\ \A h \in InsideOf(plan, g) : stop_after[h] = NoCount
        BY <1>5, <1>11, <2>1 DEF PlacedOn
      <3>2. PlacedOn(plan, stop_after, Counts, EmbeddedCall, n + 1)
        BY <1>2, <3>1 DEF PlacedOn
      <3>3. QED
        BY <1>2, <1>7, <1>9, <2>1, <3>2
    <2>2. CASE ~ (OnPath(n) /\ Top.stop)
      <3>1. \A x \in InsideOf(plan, e) : stop_after[x] = NoCount
        BY <1>11, <1>12, <2>2 DEF PlacedOn, PlacedOff
      <3>2. PlacedOff(plan, stop_after, EmbeddedCall)
        BY <1>2, <1>6, <3>1 DEF PlacedOff
      <3>3. QED
        BY <1>2, <1>7, <1>9, <2>2, <3>2
    <2>3. QED
      BY <2>1, <2>2
  <1>15. \A d \in 1..(n + 1) : d = n + 1 \/ d = n \/ d \in 1..(n - 1)
    BY <1>4
  <1>16. \A d \in 1..Len(stack') :
               /\ OnPath(d)' => PlacedOn(plan, stop_after', Counts, stack'[d], d)
               /\ ~ OnPath(d)' => PlacedOff(plan, stop_after', stack'[d])
    BY <1>7, <1>10, <1>13, <1>14, <1>15
  <1>17. Counts' = Counts
    BY <1>2, CountsKept
  <1>18. QED
    BY <1>2, <1>16, <1>17, CountsPlacedNext


LEMMA PlacedStep ==
    ASSUME TypeOK, CallsNest, CountsPlaced, RunsEachOnce(plan), Step
    PROVE  CountsPlaced'
  <1>1. CASE StopBeforeTrying
    BY <1>1, StopBeforeEffect, PlacedReturns
  <1>2. CASE CompareMismatch
    BY <1>2, MismatchEffect, PlacedReturns, PlacedAborts
  <1>3. CASE LimitReached
    BY <1>3, LimitEffect, PlacedReturns, PlacedAborts
  <1>4. QED
    BY <1>1, <1>2, <1>3, PlacedHit, PlacedUpdate, PlacedRun, PlacedEnd DEF Step

LEMMA PlacedStutter ==
    ASSUME CountsPlaced, UNCHANGED vars
    PROVE  CountsPlaced'
  <1>1. Settled /\ stack' = stack /\ outcome' = outcome /\ stop_after' = stop_after /\ Counts' = Counts
    BY StepSettled DEF vars, config, Counts
  <1>2. \A d \in 1..Len(stack) : OnPath(d)' <=> OnPath(d)
    BY <1>1 DEF OnPath
  <1>3. outcome = "running" => \A d \in 1..Len(stack) :
               /\ OnPath(d) => PlacedOn(plan, stop_after, Counts, stack[d], d)
               /\ ~ OnPath(d) => PlacedOff(plan, stop_after, stack[d])
    BY CallPlaced
  <1>4. outcome' = "running" => \A d \in 1..Len(stack') :
               /\ OnPath(d)' => PlacedOn(plan, stop_after', Counts, stack'[d], d)
               /\ ~ OnPath(d)' => PlacedOff(plan, stop_after', stack'[d])
    BY <1>1, <1>2, <1>3
  <1>5. QED
    BY <1>1, <1>4, CountsPlacedNext

LEMMA PlacedInit ==
    ASSUME Init
    PROVE  CountsPlaced /\ StopsAtCount
  <1>1. TypeOK
    BY InitType
  <1>2. PICK c \in StopCounts : stop_after = [e \in Engines |->
            [counts |-> IF e = root THEN c ELSE <<>>, depth |-> 0]]
    BY DEF Init
  <1>3. root \in Engines /\ plan[root].within = {} /\ root \in DOMAIN plan
    BY <1>1 DEF TypeOK, PlanIsTree, Engines
  <1>4. Counts = c /\ Counted(root, 1)
    BY <1>2, <1>3 DEF Counts, Counted
  <1>5. \A g \in Inside(root) : Uncounted(g)
    BY <1>2, <1>3 DEF Inside, Uncounted
  <1>6. Len(stack) = 1 /\ stack[1] = Frame(root) /\ returned = NoCall
    BY DEF Init
  <1>7. Frame(root).engine = root /\ Frame(root).pc = "entered" /\ Frame(root).stop = FALSE
        /\ Frame(root).hits = 0
    BY DEF Frame
  <1>8. OnPath(1) /\ \A d \in Depths : d = 1
    BY <1>6 DEF OnPath, Depths
  <1>9. CountsPlaced
    BY <1>4, <1>5, <1>6, <1>7, <1>8 DEF CountsPlaced
  <1>10. StopsAtCount
    BY <1>6 DEF StopsAtCount, NoCall
  <1>11. QED
    BY <1>9, <1>10

LEMMA StopsKept ==
    ASSUME StopsAtCount, Counts' = Counts, returned' = returned
    PROVE  StopsAtCount'
  BY DEF StopsAtCount, Counts

LEMMA StopsReturned ==
    ASSUME TypeOK, CountsPlaced, outcome = "running", Counts' = Counts,
           NEW n \in Nat, n = Len(stack), NEW f, NEW by, Return(f, by),
           by = "count" => OnPath(n) /\ n <= Len(Counts) /\ f.hits = Counts[n],
           OnPath(n) /\ n <= Len(Counts) => by \in {"count", "limit"}
    PROVE  StopsAtCount'
  <1>1. returned'.level = n /\ returned'.hits = f.hits /\ returned'.by = by
        /\ (returned'.stopping <=> OnPath(n))
    BY TopPlaced DEF Return
  <1>2. QED
    BY <1>1 DEF StopsAtCount, Counts

LEMMA StopsStep ==
    ASSUME TypeOK, CountsPlaced, StopsAtCount, Step
    PROVE  StopsAtCount'
  <1>0. PICK n \in Nat : n = Len(stack)
    BY DEF TypeOK
  <1>1. CASE StopBeforeTrying
    <2>1. outcome = "running" /\ Settled /\ stop_after' = stop_after /\ Return(Top, "count")
          /\ StopAfter = 0 /\ Top.pc = "entered"
      BY <1>1, StopBeforeEffect
    <2>2. OnPath(n) /\ n <= Len(Counts) /\ Counts[n] = 0
      BY <1>0, <2>1, StopAfterValue
    <2>3. Top.hits = 0
      BY <1>0, <2>1, <2>2, TopPlaced DEF PlacedOn
    <2>4. Counts' = Counts
      BY <2>1, CountsKept
    <2>5. QED
      BY <1>0, <2>1, <2>2, <2>3, <2>4, StopsReturned
  <1>2. CASE CompareHit
    BY <1>2, HitEffect, CountsKept, StopsKept
  <1>3. CASE CompareMismatch
    <2>1. outcome = "running" /\ Settled /\ stop_after' = Propagated /\ Top.pc \in {"entered", "loop"}
      BY <1>3, MismatchEffect
    <2>2. Counts' = Counts
      BY <2>1, CountsKept
    <2>3. CASE StopAfter >= Top.hits
      BY <1>3, <2>2, <2>3, MismatchEffect, StopsKept DEF Abort
    <2>4. CASE ~ (StopAfter >= Top.hits)
      <3>1. Return(Top, "mismatch")
        BY <1>3, <2>4, MismatchEffect
      <3>2. ~ (OnPath(n) /\ n <= Len(Counts))
        <4>1. SUFFICES ASSUME OnPath(n), n <= Len(Counts)
                       PROVE  FALSE
          OBVIOUS
        <4>2. StopAfter = Counts[n] /\ PlacedOn(plan, stop_after, Counts, Top, n)
          BY <1>0, <2>1, <4>1, StopAfterValue, TopPlaced
        <4>3. Counts[n] \in Nat /\ Top.hits \in Nat
          <5>1. n > 0 /\ Len(Counts) \in Nat
            BY <1>0, <2>1, TopIsACall, CountsType
          <5>2. n \in 1..Len(Counts)
            BY <4>1, <5>1
          <5>3. QED
            BY <2>1, <5>2, CountsType, TopIsACall
        <4>4. Top.hits = 0 \/ Top.hits < Counts[n]
          BY <2>1, <4>1, <4>2 DEF PlacedOn
        <4>5. QED
          BY <2>4, <4>2, <4>3, <4>4
      <3>3. QED
        BY <1>0, <2>1, <2>2, <3>1, <3>2, StopsReturned
    <2>5. QED
      BY <2>3, <2>4
  <1>4. CASE UpdateMainTree
    BY <1>4, UpdateEffect, CountsKept, StopsKept
  <1>5. CASE RunEmbedded
    BY <1>5, RunEffect, CountsKept, StopsKept
  <1>6. CASE EndSingle
    <2>1. outcome = "running" /\ Settled /\ stop_after' = stop_after /\ Top.pc = "updated"
      BY <1>6, EndEffect
    <2>2. Counts' = Counts
      BY <2>1, CountsKept
    <2>3. CASE returned' = returned
      BY <2>2, <2>3, StopsKept
    <2>4. CASE Top.stop /\ Return(Ended, "count")
      <3>1. OnPath(n) /\ PlacedOn(plan, stop_after, Counts, Top, n)
        BY <1>0, <2>1, <2>4, TopPlaced DEF PlacedOff
      <3>2. n <= Len(Counts) /\ Top.hits + 1 = Counts[n]
        BY <2>1, <2>4, <3>1 DEF PlacedOn
      <3>3. Ended.hits = Top.hits + 1
        BY <2>1, FramesLeft
      <3>4. QED
        BY <1>0, <2>1, <2>2, <2>4, <3>1, <3>2, <3>3, StopsReturned
    <2>5. QED
      BY <1>6, <2>3, <2>4, EndEffect DEF Abort
  <1>7. CASE LimitReached
    <2>1. outcome = "running" /\ Settled /\ stop_after' = stop_after
      BY <1>7, LimitEffect
    <2>2. Counts' = Counts
      BY <2>1, CountsKept
    <2>3. CASE Abort
      BY <2>2, <2>3, StopsKept DEF Abort
    <2>4. CASE Return(Top, "limit")
      BY <1>0, <2>1, <2>2, <2>4, StopsReturned
    <2>5. QED
      BY <1>7, <2>3, <2>4, LimitEffect
  <1>8. QED
    BY <1>1, <1>2, <1>3, <1>4, <1>5, <1>6, <1>7 DEF Step

LEMMA StopsStutter ==
    ASSUME StopsAtCount, UNCHANGED vars
    PROVE  StopsAtCount'
  BY StopsKept DEF vars, Counts

(* The counts of -q stop the calls they are for and no other: a call that  *)
(* returns on a count is the root's, or one inside a match that all of the *)
(* calls around it stop after, at exactly the count of its depth; however  *)
(* often its engine was run before, with counts handed to it or not.       *)
THEOREM StopsAtItsCount ==
    ASSUME \A p \in Patterns : RunsEachOnce(PlanFor(p))
    PROVE  Spec => []StopsAtCount
  <1> DEFINE Inv == TypeOK /\ CallsNest /\ CountsPlaced /\ StopsAtCount /\ RunsEachOnce(plan)
  <1>1. Init => Inv
    BY InitType, PlacedInit DEF Init
  <1>2. Inv /\ [Next]_vars => Inv'
    <2>1. SUFFICES ASSUME Inv, [Next]_vars
                   PROVE  Inv'
      OBVIOUS
    <2>2. RunsEachOnce(plan)'
      BY <2>1, NextSettled DEF Settled
    <2>3. CASE Step
      BY <2>1, <2>2, <2>3, TypeStep, NestStep, PlacedStep, StopsStep
    <2>4. CASE UNCHANGED vars
      BY <2>1, <2>2, <2>4, TypeStutter, NestStutter, PlacedStutter, StopsStutter
    <2>5. QED
      BY <2>1, <2>3, <2>4 DEF Next
  <1>3. QED
    BY <1>1, <1>2, PTL DEF Spec

(* The invariant that holds the engine together, with both conditions.     *)
THEOREM EngineInvariantHolds ==
    ASSUME \A p \in Patterns : LinksSeparate(PlanFor(p)) /\ RunsEachOnce(PlanFor(p))
    PROVE  Spec => []EngineInvariant
  <1> DEFINE Inv == EngineInvariant /\ LinksSeparate(plan) /\ RunsEachOnce(plan)
  <1>1. Init => Inv
    BY InitType, LayerInit, PlacedInit DEF Init, EngineInvariant
  <1>2. Inv /\ [Next]_vars => Inv'
    <2>1. SUFFICES ASSUME Inv, [Next]_vars
                   PROVE  Inv'
      OBVIOUS
    <2>2. LinksSeparate(plan)' /\ RunsEachOnce(plan)'
      BY <2>1, NextSettled DEF Settled
    <2>3. CASE Step
      BY <2>1, <2>2, <2>3, TypeStep, NestStep, LayerStep, PlacedStep, StopsStep DEF EngineInvariant
    <2>4. CASE UNCHANGED vars
      BY <2>1, <2>2, <2>4, TypeStutter, NestStutter, LayerStutter, PlacedStutter, StopsStutter
         DEF EngineInvariant
    <2>5. QED
      BY <2>1, <2>3, <2>4 DEF Next
  <1>3. Inv => EngineInvariant
    OBVIOUS
  <1>4. QED
    BY <1>1, <1>2, <1>3, PTL DEF Spec
=============================================================================
