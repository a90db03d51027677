-------------------------- MODULE Extenders_proofs --------------------------
(***************************************************************************)
(* What the domain extension promises of any extenders, even those whose   *)
(* own trees are extended again: an extra tree is lost to its owner only   *)
(* behind the iterator of the loop that ends a step, and a recorded value  *)
(* is the value that a search would compute there.                         *)
(***************************************************************************)
EXTENDS DomainExtension_proofs

-----------------------------------------------------------------------------
(* What the operations leave as it was.                                    *)

(* What is recorded was recorded before, of nodes that have not changed. *)
HeldSame ==
    \A ch \in Channels : \A s \in DOMAIN info'[ch] :
        /\ s \in DOMAIN info[ch] /\ info'[ch][s] = info[ch][s]
        /\ node'[s] = node[s]
        /\ \A d \in info[ch][s].deps : node'[d] = node[d]

(* The extra trees left are as they were and belong to whom they did. *)
ExtrasSame ==
    /\ \A x \in Links : owner'[x] \in LiveTrees("DOMAIN_EXTENSION")'
                            => owner'[x] = owner[x] /\ node'[x] = node[x]
    /\ LiveTrees("DOMAIN_EXTENSION")' \subseteq LiveTrees("DOMAIN_EXTENSION")
    /\ \A ch \in Channels :
        /\ Owned(ch)' \subseteq Owned(ch)
        /\ Owned(ch) \cap LiveTrees("DOMAIN_EXTENSION")' \subseteq Owned(ch)'

(* A link of a live tree is in the tables. *)
LEMMA InTables ==
    ASSUME DatabaseInvariant
    PROVE  \A x \in Links : \A t : owner[x] \in LiveTrees(t) => x \in Live
  <1>1. \A o \in Trees : o # NoTree
    <2>1. \A o \in Trees : o \in Nat
      BY Numbers DEF DatabaseInvariant, StoreInvariant, TypeOK, StoreTypeOK
    <2>2. QED BY <2>1 DEF NoTree
  <1>2. QED BY <1>1 DEF LiveTrees, Live

LEMMA InTablesAfter ==
    ASSUME DatabaseInvariant'
    PROVE  \A x \in Links : \A t : owner'[x] \in LiveTrees(t)' => x \in Live'
  <1>1. \A o \in Trees' : o # NoTree
    <2>1. \A o \in Trees' : o \in Nat
      BY Numbers DEF DatabaseInvariant, StoreInvariant, TypeOK, StoreTypeOK
    <2>2. QED BY <2>1 DEF NoTree
  <1>2. QED BY <1>1 DEF LiveTrees, Live

(* The step changes neither what is in the tables nor what is recorded. *)
Settles ==
    /\ SameView
    /\ UNCHANGED <<info, classes>>
    /\ \A ch \in Channels : Pending(ch)' = Pending(ch)

LEMMA SettledSame ==
    ASSUME DatabaseInvariant, DatabaseInvariant', Settles
    PROVE  HeldSame /\ ExtrasSame
  <1>1. HeldSame
    BY DEF HeldSame, Settles, SameView, DatabaseInvariant, StoreInvariant, NothingDangles
  <1>2. \A x \in Links : owner'[x] \in LiveTrees("DOMAIN_EXTENSION")' => x \in Live
    BY InTablesAfter DEF Settles, SameView
  <1>3. \A ch \in Channels : Owned(ch)' = Owned(ch)
    BY DEF Owned, Settles
  <1>4. ExtrasSame
    BY <1>2, <1>3 DEF ExtrasSame, Settles, SameView
  <1>5. QED BY <1>1, <1>4

(* Links of S are deleted; of the others the channels hold, none changes. *)
LEMMA DeletedSame ==
    ASSUME DatabaseInvariant, NEW S \in SUBSET Links, DeleteAction(S),
           \A y \in Tracked(Live, node) \ S : node'[y] = node[y]
    PROVE  HeldSame /\ \A ch \in Channels : DOMAIN info'[ch] = Kept(ch, S)
  <1>1. ChannelsTypeOK /\ (\A ch \in Channels : MapsAgree(ch)) /\ ScaffoldUntracked
    BY DEF DatabaseInvariant, StoreInvariant, TypeOK, MapsInSynch
  <1>2. \A ch \in Channels :
          /\ DOMAIN info'[ch] = Kept(ch, S)
          /\ \A s \in Kept(ch, S) : info'[ch][s] = info[ch][s]
    BY <1>1, DeleteFacts
  <1>3. ASSUME NEW ch \in Channels, NEW s \in Kept(ch, S)
        PROVE  /\ s \in DOMAIN info[ch] /\ node'[s] = node[s]
               /\ \A d \in info[ch][s].deps : node'[d] = node[d]
    BY <1>1 DEF ScaffoldUntracked, Kept
  <1>4. QED BY <1>2, <1>3 DEF HeldSame

LEMMA DeletedOwned ==
    ASSUME DatabaseInvariant, NEW S, DeleteAction(S), NEW gone, NEW ch \in Channels,
           Pending(ch)' = (Pending(ch) \ gone) \cup
               {classes[ch][c].tree_ordinal : c \in DOMAIN classes[ch] \ DOMAIN classes'[ch]}
    PROVE  Owned(ch)' \subseteq Owned(ch) /\ Owned(ch) \ gone \subseteq Owned(ch)'
  <1>1. ChannelsTypeOK /\ (\A c \in Channels : MapsAgree(c))
    BY DEF DatabaseInvariant, StoreInvariant, TypeOK, MapsInSynch
  <1>2. /\ DOMAIN classes'[ch] \subseteq DOMAIN classes[ch]
        /\ \A c \in DOMAIN classes'[ch] :
               classes'[ch][c].tree_ordinal = classes[ch][c].tree_ordinal
    BY <1>1, DeleteFacts
  <1>3. Owned(ch)' \subseteq Owned(ch)
    BY <1>2 DEF Owned
  <1>4. Owned(ch) \ gone \subseteq Owned(ch)'
    BY <1>2 DEF Owned
  <1>5. QED BY <1>3, <1>4

(* The store and the channels' maps are as they were. *)
LEMMA QuietSettles ==
    ASSUME UNCHANGED <<owner, node, trees_by_ordinal, deferred_tree_ordinals>>,
           UNCHANGED <<info, classes>>,
           \A ch \in Channels : Pending(ch)' = Pending(ch)
    PROVE  Settles
  <1>1. Trees' = Trees /\ Deferred' = Deferred
    BY DEF Trees, Deferred, ToSet
  <1>2. SameView
    BY <1>1 DEF SameView, Live, LiveTrees
  <1>3. QED BY <1>2 DEF Settles

LEMMA AllOrdinalsAhead ==
    ASSUME DatabaseInvariant, NEW ch \in Channels
    PROVE  /\ Ahead(ordinals_to_tear_down[ch], -1) = ordinals_to_tear_down[ch]
           /\ Ahead(stimulii_to_recheck[ch], -1) = stimulii_to_recheck[ch]
  <1>1. ordinals_to_tear_down[ch] \in SUBSET Nat /\ stimulii_to_recheck[ch] \in SUBSET Nat
    BY Numbers DEF DatabaseInvariant, StoreInvariant, TypeOK, ChannelsTypeOK
  <1>2. QED BY <1>1, AllAhead

LEMMA QuietSteps ==
    ASSUME DatabaseInvariant,
           \/ BeginUpdate \/ EndUpdate \/ ClearRecheck \/ UNCHANGED vars
           \/ /\ CheckNonStimulus(Min(Ahead(stimulii_to_recheck[pc.ch], pc.cursor)))
              /\ pc.at = "check" /\ pc'.at = "check"
    PROVE  Settles
  <1>1. /\ UNCHANGED <<owner, node, trees_by_ordinal, deferred_tree_ordinals>>
        /\ UNCHANGED <<info, classes>> /\ UNCHANGED ordinals_to_tear_down
    BY DEF BeginUpdate, EndUpdate, ClearRecheck, CheckNonStimulus, vars, store, channels
  <1>2. pc' = pc \/ (pc.at # "step" /\ pc'.at # "step")
    BY PhaseRecords DEF BeginUpdate, EndUpdate, ClearRecheck, vars, Searching, Updating, Checking
  <1>3. \A ch \in Channels : Pending(ch)' = Pending(ch)
    BY <1>1, <1>2 DEF Pending
  <1>4. QED BY <1>1, <1>3, QuietSettles

LEMMA ClearTearDownSettles ==
    ASSUME DatabaseInvariant, ClearTearDown PROVE Settles
  <1>1. /\ pc.at = "step" /\ Ahead(ordinals_to_tear_down[pc.ch], pc.cursor) = {}
        /\ ordinals_to_tear_down' = [ordinals_to_tear_down EXCEPT ![pc.ch] = {}]
        /\ pc' = IF pc.ch + 1 \in Channels THEN EndingStep(pc.ch + 1, -1) ELSE Searching
        /\ UNCHANGED <<owner, node, trees_by_ordinal, deferred_tree_ordinals>>
        /\ UNCHANGED <<info, classes>>
    BY DEF ClearTearDown, store
  <1>2. pc.ch \in Channels /\ ordinals_to_tear_down \in [Channels -> SUBSET Ordinals]
    BY <1>1, NotUpdating DEF DatabaseInvariant, StoreInvariant, TypeOK, ChannelsTypeOK
  <1>3. pc'.at = "step" => pc'.cursor = -1
    BY <1>1, PhaseRecords
  <1>4. ASSUME NEW ch \in Channels PROVE Pending(ch)' = Pending(ch)
    <2>1. CASE ch = pc.ch
      <3>1. ordinals_to_tear_down'[ch] = {} /\ Pending(ch) = {}
        BY <1>1, <1>2, <2>1 DEF Pending
      <3>2. QED BY <3>1 DEF Pending, Ahead
    <2>2. CASE ch # pc.ch
      <3>1. /\ ordinals_to_tear_down'[ch] = ordinals_to_tear_down[ch]
            /\ Pending(ch) = ordinals_to_tear_down[ch]
        BY <1>1, <1>2, <2>2 DEF Pending
      <3>2. Ahead(ordinals_to_tear_down[ch], -1) = ordinals_to_tear_down[ch]
        BY AllOrdinalsAhead
      <3>3. QED BY <3>1, <3>2, <1>3 DEF Pending
    <2>3. QED BY <2>1, <2>2
  <1>5. QED BY <1>1, <1>4, QuietSettles

LEMMA EndStepSettles ==
    ASSUME DatabaseInvariant, EndStep PROVE Settles
  <1>1. /\ pc = Searching /\ FreeTrees(deferred_tree_ordinals)
        /\ deferred_tree_ordinals' = <<>>
        /\ pc' = EndingStep(1, -1)
        /\ UNCHANGED <<info, classes>> /\ UNCHANGED ordinals_to_tear_down
    BY DEF EndStep, channels
  <1>2. Deferred = ToSet(deferred_tree_ordinals) /\ Deferred' = {}
    BY <1>1 DEF Deferred, ToSet
  <1>3. /\ Trees' = Trees \ Deferred
        /\ \A o \in Trees' : trees_by_ordinal'[o] = trees_by_ordinal[o]
        /\ \A x \in Links : /\ owner[x] \in Deferred => owner'[x] = NoTree
                            /\ owner[x] \notin Deferred =>
                                 owner'[x] = owner[x] /\ node'[x] = node[x]
    BY <1>1, <1>2 DEF FreeTrees, Trees
  <1>4. SameView
    BY <1>2, <1>3 DEF SameView, Live, LiveTrees
  <1>5. pc.at = "search" /\ pc'.at = "step" /\ pc'.cursor = -1
    BY <1>1 DEF Searching, EndingStep
  <1>6. ASSUME NEW ch \in Channels PROVE Pending(ch)' = Pending(ch)
    <2>1. Ahead(ordinals_to_tear_down[ch], -1) = ordinals_to_tear_down[ch]
      BY AllOrdinalsAhead
    <2>2. QED BY <2>1, <1>1, <1>5 DEF Pending
  <1>7. QED BY <1>1, <1>4, <1>6 DEF Settles

(* A tree of an update, or the main tree, has been built. *)
LEMMA InsertedSame ==
    ASSUME DatabaseInvariant, DatabaseInvariant', NEW ord \in Ordinals,
           NEW type, type # "DOMAIN_EXTENSION", NEW at, Built(ord, type, at),
           UNCHANGED <<info, classes>>, UNCHANGED ordinals_to_tear_down,
           pc.at # "step", pc'.at # "step"
    PROVE  HeldSame /\ ExtrasSame
  <1>0. StoreTypeOK'
    BY DEF DatabaseInvariant, StoreInvariant, TypeOK
  <1>1. /\ \A x \in Live : node'[x] = node[x] /\ owner'[x] = owner[x]
        /\ \A x \in at : owner'[x] = ord
        /\ Live' = Live \cup at
        /\ \A t : LiveTrees(t)' = LiveTrees(t) \cup {o \in {ord} : t = type}
        /\ ord \notin Trees
    BY <1>0, BuiltView
  <1>2. HeldSame
    BY <1>1 DEF HeldSame, DatabaseInvariant, StoreInvariant, NothingDangles
  <1>3. LiveTrees("DOMAIN_EXTENSION")' = LiveTrees("DOMAIN_EXTENSION")
    BY <1>1
  <1>4. \A x \in Links : owner'[x] \in LiveTrees("DOMAIN_EXTENSION")' => x \in Live
    <2>1. ord \notin LiveTrees("DOMAIN_EXTENSION")
      BY <1>1 DEF LiveTrees
    <2>2. QED BY <2>1, <1>1, <1>3, InTablesAfter
  <1>5. \A ch \in Channels : Owned(ch)' = Owned(ch)
    BY DEF Owned, Pending
  <1>6. ExtrasSame
    BY <1>1, <1>3, <1>4, <1>5 DEF ExtrasSame
  <1>7. QED BY <1>2, <1>6

LEMMA SwappedSame ==
    ASSUME DatabaseInvariant, DatabaseInvariant', NEW S \in SUBSET Links, Swaps(S)
    PROVE  /\ HeldSame /\ ExtrasSame
           /\ \A ch \in Channels : DOMAIN info'[ch] = Kept(ch, Tracked(S, node))
  <1> DEFINE T == Tracked(S, node)
  <1>1. /\ DeleteAction(T) /\ T \in SUBSET Links /\ pc.at = "update" /\ pc' = pc
        /\ UNCHANGED <<trees_by_ordinal, deferred_tree_ordinals>>
        /\ \A x \in S : owner'[x] \in LiveTrees("MAIN") \cup LiveTrees("UPDATE")
        /\ \A x \in Links \ S : node'[x] = node[x] /\ owner'[x] = owner[x]
    BY PhaseRecords DEF Swaps, Tracked
  <1>2. \A y \in Tracked(Live, node) \ T : node'[y] = node[y]
    BY <1>1 DEF Tracked, Live
  <1> HIDE DEF T
  <1>3. HeldSame /\ \A ch \in Channels : DOMAIN info'[ch] = Kept(ch, T)
    BY <1>1, <1>2, DeletedSame
  <1>4. \A t : LiveTrees(t)' = LiveTrees(t)
    BY <1>1 DEF LiveTrees, Trees, Deferred, ToSet
  <1>5. ASSUME NEW ch \in Channels
        PROVE  Owned(ch)' \subseteq Owned(ch) /\ Owned(ch) \subseteq Owned(ch)'
    <2>1. Pending(ch)' = ordinals_to_tear_down'[ch] /\ Pending(ch) = ordinals_to_tear_down[ch]
      BY <1>1 DEF Pending
    <2>2. Pending(ch)' = (Pending(ch) \ {}) \cup
               {classes[ch][c].tree_ordinal : c \in DOMAIN classes[ch] \ DOMAIN classes'[ch]}
      <3>1. ordinals_to_tear_down'[ch] = ordinals_to_tear_down[ch] \cup
               {classes[ch][c].tree_ordinal : c \in DOMAIN classes[ch] \ DOMAIN classes'[ch]}
        BY <1>1, DeleteFacts DEF DatabaseInvariant, StoreInvariant, MapsInSynch, TypeOK
      <3>2. QED BY <2>1, <3>1
    <2>3. Owned(ch)' \subseteq Owned(ch) /\ Owned(ch) \ {} \subseteq Owned(ch)'
      BY <2>2, <1>1, DeletedOwned
    <2>4. QED BY <2>3
  <1>6. \A x \in Links : owner'[x] \in LiveTrees("DOMAIN_EXTENSION")' => x \notin S
    BY <1>1, <1>4 DEF LiveTrees
  <1>7. ExtrasSame
    BY <1>1, <1>4, <1>5, <1>6 DEF ExtrasSame
  <1>8. QED BY <1>3, <1>7 DEF T

(* A tree is torn down, and no owner loses another. *)
LEMMA TornDownSame ==
    ASSUME DatabaseInvariant, DatabaseInvariant', NEW ord, TeardownTree(ord), Gone(ord),
           \A ch \in Channels : Pending(ch)' = (Pending(ch) \ {ord}) \cup
               {classes[ch][c].tree_ordinal : c \in DOMAIN classes[ch] \ DOMAIN classes'[ch]}
    PROVE  /\ HeldSame /\ ExtrasSame
           /\ \A ch \in Channels : DOMAIN info'[ch] = Kept(ch, Tracked(LinksOf(ord), node))
  <1> DEFINE S == Tracked(LinksOf(ord), node)
  <1>1. DeleteAction(S) /\ S \in SUBSET Links
    BY DEF TeardownTree, Tracked, LinksOf
  <1>2. /\ Live' = Live \ LinksOf(ord)
        /\ \A x \in Live' : node'[x] = node[x] /\ owner'[x] = owner[x]
        /\ \A t : LiveTrees(t)' = LiveTrees(t) \ {ord}
    BY DEF Gone
  <1>3. \A y \in Tracked(Live, node) \ S : node'[y] = node[y]
    BY <1>2 DEF Tracked
  <1> HIDE DEF S
  <1>4. HeldSame /\ \A ch \in Channels : DOMAIN info'[ch] = Kept(ch, S)
    BY <1>1, <1>3, DeletedSame
  <1>5. \A ch \in Channels : Owned(ch)' \subseteq Owned(ch) /\ Owned(ch) \ {ord} \subseteq Owned(ch)'
    BY <1>1, DeletedOwned
  <1>6. LiveTrees("DOMAIN_EXTENSION")' = LiveTrees("DOMAIN_EXTENSION") \ {ord}
    BY <1>2
  <1>7. ExtrasSame
    BY <1>2, <1>5, <1>6, InTablesAfter DEF ExtrasSame
  <1>8. QED BY <1>4, <1>7 DEF S

(* The trees an update tears down belong to no channel. *)
LEMMA UpdateTornDown ==
    ASSUME DatabaseInvariant, DatabaseInvariant', TeardownOldContent \/ TeardownMoved
    PROVE  \E ord \in LiveTrees("UPDATE") :
               /\ TeardownTree(ord) /\ Gone(ord) /\ pc.at = "update" /\ pc' = pc
               /\ HeldSame /\ ExtrasSame
               /\ \A ch \in Channels : DOMAIN info'[ch] = Kept(ch, Tracked(LinksOf(ord), node))
  <1>1. PICK ord \in LiveTrees("UPDATE") : TeardownTree(ord) /\ Gone(ord)
    <2>1. CASE TeardownOldContent
      <3>1. PICK ord \in LiveTrees("UPDATE") :
                /\ TeardownTree(ord)
                /\ deferred_tree_ordinals' = Append(deferred_tree_ordinals, ord)
        BY <2>1 DEF TeardownOldContent
      <3>2. UNCHANGED <<owner, node, trees_by_ordinal, next_tree_ordinal, free_tree_ordinals>>
        BY <2>1 DEF TeardownOldContent
      <3>3. QED BY <3>1, <3>2, DeferredIsGone
    <2>2. CASE TeardownMoved
      <3>1. PICK ord \in LiveTrees("UPDATE") : TeardownTree(ord) /\ FreeTrees(<<ord>>)
        BY <2>2 DEF TeardownMoved
      <3>2. UNCHANGED deferred_tree_ordinals /\ ord \in Trees \ Deferred
        BY <2>2 DEF TeardownMoved, LiveTrees
      <3>3. QED BY <3>1, <3>2, FreedIsGone
    <2>3. QED BY <2>1, <2>2
  <1>2. pc.at = "update" /\ pc' = pc
    BY PhaseRecords DEF TeardownOldContent, TeardownMoved
  <1>3. ASSUME NEW ch \in Channels
        PROVE  Pending(ch)' = (Pending(ch) \ {ord}) \cup
               {classes[ch][c].tree_ordinal : c \in DOMAIN classes[ch] \ DOMAIN classes'[ch]}
    <2>1. ordinals_to_tear_down'[ch] = ordinals_to_tear_down[ch] \cup
               {classes[ch][c].tree_ordinal : c \in DOMAIN classes[ch] \ DOMAIN classes'[ch]}
      BY <1>1, DeleteFacts DEF TeardownTree, DatabaseInvariant, StoreInvariant, MapsInSynch, TypeOK
    <2>2. Pending(ch)' = ordinals_to_tear_down'[ch] /\ Pending(ch) = ordinals_to_tear_down[ch]
      BY <1>2 DEF Pending
    <2>3. ord \notin Pending(ch)
      BY <1>1 DEF DatabaseInvariant, StoreInvariant, NothingDangles, LiveTrees
    <2>4. QED BY <2>1, <2>2, <2>3
  <1>4. QED BY <1>1, <1>2, <1>3, TornDownSame

(* The tree that the loop at the end of a step has come to is torn down.   *)
(* A tree that becomes due on the way waits for the loop unless it is of   *)
(* the same channel and behind.                                            *)
LEMMA ExtensionTornDown ==
    ASSUME DatabaseInvariant, DatabaseInvariant', TeardownExtension
    PROVE  \E ord \in Nat :
               /\ Gone(ord) /\ pc.at = "step" /\ pc'.cursor = ord /\ pc.ch \in Channels
               /\ HeldSame
               /\ \A ch \in Channels : \A o \in Owned(ch) \ Owned(ch)' :
                    \/ o = ord
                    \/ /\ ch = pc.ch /\ o < ord
                       /\ \E c \in DOMAIN classes[ch] : classes[ch][c].tree_ordinal = o
  <1> DEFINE ahead == Ahead(ordinals_to_tear_down[pc.ch], pc.cursor)
             ord == Min(ahead)
             S == Tracked(LinksOf(ord), node)
  <1>0. /\ pc.at = "step" /\ ahead # {} /\ pc' = EndingStep(pc.ch, ord)
        /\ TeardownTree(ord) /\ FreeTrees(<<ord>>)
        /\ UNCHANGED deferred_tree_ordinals
    BY DEF TeardownExtension
  <1>1. /\ pc.ch \in Channels /\ pc.cursor \in Int
        /\ ordinals_to_tear_down[pc.ch] \subseteq Nat
    <2>1. pc.ch \in Channels /\ pc.cursor \in Int
      BY <1>0, NotUpdating
    <2>2. QED BY <2>1, Numbers DEF DatabaseInvariant, StoreInvariant, TypeOK, ChannelsTypeOK
  <1>2. ord \in ahead /\ ord \in Nat /\ \A o \in ahead : ord <= o
    <2>1. ahead \in SUBSET Nat
      BY <1>1 DEF Ahead
    <2> HIDE DEF ahead
    <2>2. QED BY <2>1, <1>0, NatMin
  <1>3. ord \in Pending(pc.ch)
    BY <1>0, <1>2 DEF Pending
  <1>4. pc'.at = "step" /\ pc'.ch = pc.ch /\ pc'.cursor = ord
    BY <1>0 DEF EndingStep
  <1>5. DeleteAction(S) /\ S \in SUBSET Links
    BY <1>0 DEF TeardownTree, Tracked, LinksOf
  <1> HIDE DEF ord
  <1>6. Gone(ord)
    <2>1. ord \in Trees \ Deferred
      BY <1>1, <1>3 DEF DatabaseInvariant, NothingDangles, LiveTrees
    <2>2. QED BY <2>1, <1>0, FreedIsGone
  <1>7. HeldSame
    <2>1. \A y \in Tracked(Live, node) \ S : node'[y] = node[y]
      BY <1>6 DEF Gone, Tracked
    <2> HIDE DEF S
    <2>2. QED BY <2>1, <1>5, DeletedSame
  <1>8. \A ch \in Channels :
          /\ ordinals_to_tear_down'[ch] = ordinals_to_tear_down[ch] \cup
               {classes[ch][c].tree_ordinal : c \in DOMAIN classes[ch] \ DOMAIN classes'[ch]}
          /\ \A c \in DOMAIN classes'[ch] :
               classes'[ch][c].tree_ordinal = classes[ch][c].tree_ordinal
    <2> HIDE DEF S
    <2>1. QED BY <1>5, DeleteFacts
              DEF DatabaseInvariant, StoreInvariant, MapsInSynch, TypeOK
  <1>9. ASSUME NEW ch \in Channels, NEW o \in Owned(ch), o \notin Owned(ch)', o # ord
        PROVE  /\ ch = pc.ch /\ o < ord
               /\ \E c \in DOMAIN classes[ch] : classes[ch][c].tree_ordinal = o
    <2>1. o \notin Pending(ch)'
          /\ \A c \in DOMAIN classes'[ch] : classes'[ch][c].tree_ordinal # o
      BY <1>9 DEF Owned
    <2>2. CASE ch # pc.ch
      <3>1. Pending(ch)' = ordinals_to_tear_down'[ch] /\ Pending(ch) = ordinals_to_tear_down[ch]
        BY <2>2, <1>4 DEF Pending
      <3>2. o \notin Pending(ch)
        BY <3>1, <2>1, <1>8
      <3>3. PICK c \in DOMAIN classes[ch] : classes[ch][c].tree_ordinal = o
        BY <3>2 DEF Owned
      <3>4. c \in DOMAIN classes'[ch]
        BY <3>1, <3>3, <2>1, <1>8
      <3>5. QED BY <3>3, <3>4, <2>1, <1>8
    <2>3. CASE ch = pc.ch
      <3>1. Pending(ch)' = {e \in ordinals_to_tear_down'[ch] : e > ord}
        BY <2>3, <1>4 DEF Pending, Ahead
      <3>2. o \notin Pending(ch)
        <4>1. ASSUME o \in Pending(ch) PROVE FALSE
          <5>1. o \in ahead /\ o \in ordinals_to_tear_down[ch]
            BY <4>1, <2>3, <1>0 DEF Pending, Ahead
          <5>2. ord <= o /\ o \in Nat
            BY <5>1, <2>3, <1>1, <1>2
          <5>3. o > ord
            BY <5>2, <1>2, <1>9
          <5>4. QED BY <5>1, <5>3, <3>1, <2>1, <1>8
        <4>2. QED BY <4>1
      <3>3. PICK c \in DOMAIN classes[ch] : classes[ch][c].tree_ordinal = o
        BY <3>2 DEF Owned
      <3>4. c \notin DOMAIN classes'[ch]
        BY <3>3, <2>1, <1>8
      <3>5. o \in ordinals_to_tear_down'[ch]
        BY <3>3, <3>4, <1>8
      <3>6. ~(o > ord)
        BY <3>1, <3>5, <2>1
      <3>7. o \in Nat
        BY <3>3, Numbers DEF DatabaseInvariant, StoreInvariant, TypeOK, ChannelsTypeOK
      <3>8. o < ord
        BY <3>6, <3>7, <1>2, <1>9
      <3>9. QED BY <2>3, <3>3, <3>8
    <2>4. QED BY <2>2, <2>3
  <1>10. QED BY <1>0, <1>1, <1>2, <1>4, <1>6, <1>7, <1>9

-----------------------------------------------------------------------------
(* Checking a link: what it records and builds.                            *)

(* Link x is recorded with class c; more are the links of a tree built for *)
(* the class, if it is new.                                                *)
Checks(x, c, more) ==
    /\ pc.at = "check" /\ pc.ch \in Channels
    /\ pc'.at = "check" /\ pc'.ch = pc.ch /\ pc'.cursor = x
    /\ x \in Live /\ node[x] # Scaffold
    /\ c \in Classes /\ c = GetDomainExtension(pc.ch, x)
    /\ DOMAIN info'[pc.ch] = DOMAIN info[pc.ch] \cup {x}
    /\ info'[pc.ch][x] = [root |-> c, deps |-> Read(pc.ch, x)]
    /\ \A s \in DOMAIN info[pc.ch] : s # x => info'[pc.ch][s] = info[pc.ch][s]
    /\ \A ch \in Channels : ch # pc.ch => info'[ch] = info[ch]
    /\ Live' = Live \cup more
    /\ \A y \in Live : node'[y] = node[y] /\ owner'[y] = owner[y]
    /\ \A y \in more : node'[y] \in Range(Body[c]) /\ owner'[y] \notin Trees
    /\ \A ch \in Channels : stimulii_to_recheck[ch] \cup more \subseteq stimulii_to_recheck'[ch]
    /\ Ahead(stimulii_to_recheck[pc.ch], x) = Ahead(stimulii_to_recheck[pc.ch], pc.cursor) \ {x}
    /\ \A ch \in Channels : Owned(ch) \subseteq Owned(ch)'
    /\ \A ch \in Channels : ch # pc.ch => Owned(ch)' = Owned(ch)
    /\ \A ord \in LiveTrees("DOMAIN_EXTENSION")' :
           ord \in LiveTrees("DOMAIN_EXTENSION") \/ ord \in Owned(pc.ch)'
    /\ \A y \in Links : owner'[y] \in Owned(pc.ch)' \ Owned(pc.ch) => y \in more

LEMMA CheckedKnownClass ==
    ASSUME DatabaseInvariant, DatabaseInvariant', pc.at = "check",
           Ahead(stimulii_to_recheck[pc.ch], pc.cursor) # {},
           CheckKnownClass(Min(Ahead(stimulii_to_recheck[pc.ch], pc.cursor))),
           pc' = Checking(pc.ch, Min(Ahead(stimulii_to_recheck[pc.ch], pc.cursor)))
    PROVE  \E x, c : Checks(x, c, {})
  <1> DEFINE x == Min(Ahead(stimulii_to_recheck[pc.ch], pc.cursor))
             c == GetDomainExtension(pc.ch, x)
  <1>1. /\ c \in DOMAIN classes[pc.ch] /\ Record(x, c)
        /\ classes' = [classes EXCEPT ![pc.ch][c].ref_count = @ + 1]
        /\ UNCHANGED <<store, stimulii_to_recheck, ordinals_to_tear_down>>
    BY DEF CheckKnownClass
  <1>2. /\ x \in Live /\ node[x] # Scaffold
        /\ pc'.at = "check" /\ pc'.ch = pc.ch /\ pc'.cursor = x
        /\ Ahead(stimulii_to_recheck[pc.ch], x) =
               Ahead(stimulii_to_recheck[pc.ch], pc.cursor) \ {x}
    BY CheckedLink
  <1>2a. c = GetDomainExtension(pc.ch, x)
    OBVIOUS
  <1> HIDE DEF x, c
  <1>3. pc.ch \in Channels /\ ChannelsTypeOK
    BY NotUpdating DEF DatabaseInvariant, StoreInvariant, TypeOK
  <1>4. c \in Classes
    BY <1>1, <1>3 DEF ChannelsTypeOK
  <1>5. /\ DOMAIN info'[pc.ch] = DOMAIN info[pc.ch] \cup {x}
        /\ info'[pc.ch][x] = [root |-> c, deps |-> Read(pc.ch, x)]
        /\ \A s \in DOMAIN info[pc.ch] : s # x => info'[pc.ch][s] = info[pc.ch][s]
        /\ \A ch \in Channels : ch # pc.ch => info'[ch] = info[ch]
    BY <1>1, <1>3, RecordFacts
  <1>6. /\ owner' = owner /\ node' = node /\ trees_by_ordinal' = trees_by_ordinal
        /\ deferred_tree_ordinals' = deferred_tree_ordinals
        /\ stimulii_to_recheck' = stimulii_to_recheck
        /\ ordinals_to_tear_down' = ordinals_to_tear_down
    BY <1>1 DEF store
  <1>7. Live' = Live /\ \A t : LiveTrees(t)' = LiveTrees(t)
    BY <1>6 DEF Live, LiveTrees, Trees, Deferred, ToSet
  <1>8. ASSUME NEW ch \in Channels PROVE Owned(ch)' = Owned(ch)
    <2>1. DOMAIN classes'[ch] = DOMAIN classes[ch]
          /\ \A d \in DOMAIN classes[ch] :
                classes'[ch][d].tree_ordinal = classes[ch][d].tree_ordinal
      BY <1>1, <1>3 DEF ChannelsTypeOK
    <2>2. Pending(ch)' = Pending(ch)
      BY <1>2, <1>6 DEF Pending
    <2>3. QED BY <2>1, <2>2 DEF Owned
  <1>9. \A ord \in LiveTrees("DOMAIN_EXTENSION")' : ord \in LiveTrees("DOMAIN_EXTENSION")
    BY <1>7
  <1>10. Checks(x, c, {})
    BY <1>2, <1>2a, <1>3, <1>4, <1>5, <1>6, <1>7, <1>8, <1>9 DEF Checks
  <1>11. QED BY <1>10

LEMMA CheckedNewClass ==
    ASSUME DatabaseInvariant, DatabaseInvariant', pc.at = "check",
           Ahead(stimulii_to_recheck[pc.ch], pc.cursor) # {},
           CheckNewClass(Min(Ahead(stimulii_to_recheck[pc.ch], pc.cursor))),
           pc' = Checking(pc.ch, Min(Ahead(stimulii_to_recheck[pc.ch], pc.cursor)))
    PROVE  \E x, c, more : Checks(x, c, more)
  <1> DEFINE x == Min(Ahead(stimulii_to_recheck[pc.ch], pc.cursor))
             c == GetDomainExtension(pc.ch, x)
  <1>1. /\ c \in Classes /\ Record(x, c)
        /\ UNCHANGED ordinals_to_tear_down
        /\ \E at \in Places(Len(Body[c])), ord \in 0..Cardinality(Links) :
            /\ BuildTree("DOMAIN_EXTENSION", Body[c], at)
            /\ ord \in DOMAIN trees_by_ordinal' \ Trees
            /\ classes' = [classes EXCEPT ![pc.ch] =
                              [d \in DOMAIN @ \cup {c} |->
                                  IF d = c THEN ExtensionClass(ord, 1) ELSE @[d]]]
            /\ stimulii_to_recheck' =
                   [ch \in Channels |->
                       stimulii_to_recheck[ch] \cup Tracked(Range(at), node')]
        /\ c \notin DOMAIN classes[pc.ch]
    BY DEF CheckNewClass
  <1>2. /\ x \in Live /\ node[x] # Scaffold
        /\ pc'.at = "check" /\ pc'.ch = pc.ch /\ pc'.cursor = x
        /\ Ahead(stimulii_to_recheck[pc.ch], x) =
               Ahead(stimulii_to_recheck[pc.ch], pc.cursor) \ {x}
    BY CheckedLink
  <1>2a. c = GetDomainExtension(pc.ch, x)
    OBVIOUS
  <1> HIDE DEF x, c
  <1>3. PICK at \in Places(Len(Body[c])), new \in 0..Cardinality(Links) :
            /\ BuildTree("DOMAIN_EXTENSION", Body[c], at)
            /\ new \in DOMAIN trees_by_ordinal' \ Trees
            /\ classes' = [classes EXCEPT ![pc.ch] =
                              [d \in DOMAIN @ \cup {c} |->
                                  IF d = c THEN ExtensionClass(new, 1) ELSE @[d]]]
            /\ stimulii_to_recheck' =
                   [ch \in Channels |->
                       stimulii_to_recheck[ch] \cup Tracked(Range(at), node')]
    BY <1>1
  <1>4. /\ pc.ch \in Channels /\ ChannelsTypeOK /\ StoreTypeOK /\ OrdinalsKept
        /\ "DOMAIN_EXTENSION" \in TreeTypes /\ StoreTypeOK'
    BY NotUpdating DEF DatabaseInvariant, StoreInvariant, TypeOK, TreeTypes
  <1>5. Body[c] \in Seq(Kinds) /\ Range(Body[c]) \subseteq Kinds \ {Scaffold}
    <2>1. Body[c] \in Seq(Kinds \ {Scaffold})
      BY <1>1, KindsAssumption
    <2>2. QED BY <2>1 DEF Range
  <1>6. /\ \E o \in Ordinals : Built(o, "DOMAIN_EXTENSION", Range(at))
        /\ \A y \in Range(at) : node'[y] \in Range(Body[c])
    BY <1>3, <1>4, <1>5, BuildFacts
  <1>7. PICK ord \in Ordinals : Built(ord, "DOMAIN_EXTENSION", Range(at))
    BY <1>6
  <1>8. new = ord
    BY <1>3, <1>7 DEF Built, Trees
  <1> DEFINE more == Range(at)
  <1>9. /\ \A t : LiveTrees(t)' = LiveTrees(t) \cup {o \in {ord} : t = "DOMAIN_EXTENSION"}
        /\ Live' = Live \cup more
        /\ \A y \in Live : node'[y] = node[y] /\ owner'[y] = owner[y]
        /\ \A y \in Links : owner'[y] = ord => y \in more
        /\ \A y \in more : owner'[y] = ord
        /\ ord \notin Trees
        /\ \A ch \in Channels : ord \notin Owned(ch)
    BY <1>4, <1>7, BuiltView DEF LinksOf
  <1>10. Tracked(more, node') = more
    BY <1>5, <1>6 DEF Tracked
  <1>11. LiveTrees("DOMAIN_EXTENSION")' = LiveTrees("DOMAIN_EXTENSION") \cup {ord}
    BY <1>9
  <1>12. /\ \A ch \in Channels : ch # pc.ch => classes'[ch] = classes[ch]
         /\ classes'[pc.ch] = [d \in DOMAIN classes[pc.ch] \cup {c} |->
                                  IF d = c THEN ExtensionClass(ord, 1) ELSE classes[pc.ch][d]]
    BY <1>3, <1>4, <1>8 DEF ChannelsTypeOK
  <1>13. /\ DOMAIN classes'[pc.ch] = DOMAIN classes[pc.ch] \cup {c}
         /\ classes'[pc.ch][c].tree_ordinal = ord
         /\ \A d \in DOMAIN classes[pc.ch] : classes'[pc.ch][d] = classes[pc.ch][d]
    BY <1>1, <1>12 DEF ExtensionClass
  <1>14. \A ch \in Channels : Pending(ch)' = Pending(ch)
    BY <1>1, <1>2 DEF Pending
  <1>15. /\ \A ch \in Channels : ch # pc.ch => Owned(ch)' = Owned(ch)
         /\ Owned(pc.ch)' = Owned(pc.ch) \cup {ord}
    <2>1. ASSUME NEW ch \in Channels, ch # pc.ch PROVE Owned(ch)' = Owned(ch)
      BY <2>1, <1>12, <1>14 DEF Owned
    <2>2. ASSUME NEW ch \in Channels, ch = pc.ch PROVE Owned(ch)' = Owned(ch) \cup {ord}
      <3>1. {classes'[ch][d].tree_ordinal : d \in DOMAIN classes'[ch]} =
                {classes[ch][d].tree_ordinal : d \in DOMAIN classes[ch]} \cup {ord}
        BY <2>2, <1>13
      <3>2. QED BY <3>1, <1>14 DEF Owned
    <2>3. Owned(pc.ch)' = Owned(pc.ch) \cup {ord}
      BY <2>2, <1>2, <1>4
    <2>4. QED BY <2>1, <2>3
  <1>16. \A ch \in Channels : stimulii_to_recheck[ch] \cup more \subseteq stimulii_to_recheck'[ch]
    BY <1>3, <1>10
  <1>17. /\ DOMAIN info'[pc.ch] = DOMAIN info[pc.ch] \cup {x}
         /\ info'[pc.ch][x] = [root |-> c, deps |-> Read(pc.ch, x)]
         /\ \A s \in DOMAIN info[pc.ch] : s # x => info'[pc.ch][s] = info[pc.ch][s]
         /\ \A ch \in Channels : ch # pc.ch => info'[ch] = info[ch]
    BY <1>1, <1>4, RecordFacts
  <1>18. \A y \in more : node'[y] \in Range(Body[c]) /\ owner'[y] \notin Trees
    BY <1>6, <1>9
  <1> HIDE DEF more
  <1>19. Checks(x, c, more)
    BY <1>1, <1>2, <1>2a, <1>4, <1>9, <1>11, <1>15, <1>16, <1>17, <1>18 DEF Checks
  <1>20. QED BY <1>19

(* What an extender has induced is of a kind that it builds. *)
LEMMA InducedIsBuilt ==
    ASSUME DatabaseInvariant, NEW ch \in Channels, NEW x \in Live,
           GetDomainExtension(ch, x) # NoClass
    PROVE  /\ GetDomainExtension(ch, x) \in Classes
           /\ Range(Body[GetDomainExtension(ch, x)]) \subseteq BuiltKinds(ch)
  <1> DEFINE seen == {node[y] : y \in Read(ch, x)}
             c == GetDomainExtension(ch, x)
  <1>1. node[x] \in Kinds /\ seen \in SUBSET Kinds
    <2>1. \A y \in Live : node[y] \in Kinds
      BY DEF Live, DatabaseInvariant, StoreInvariant, TypeOK, StoreTypeOK
    <2>2. QED BY <2>1 DEF Read
  <1>2. c = Induces(ch, node[x], seen)
    BY DEF GetDomainExtension
  <1> HIDE DEF seen, c
  <1>3. c \in Classes
    BY <1>1, <1>2, KindsAssumption DEF c
  <1>4. Range(Body[c]) \subseteq BuiltKinds(ch)
    BY <1>1, <1>2, <1>3 DEF BuiltKinds
  <1>5. QED BY <1>3, <1>4 DEF c

(* Building the main tree or a tree of an update. *)
LEMMA TreeBuilt ==
    ASSUME DatabaseInvariant, DatabaseInvariant', BuildMainTree \/ BuildUpdateTree
    PROVE  /\ \E ord \in Ordinals, type \in {"MAIN", "UPDATE"}, at \in SUBSET Links :
               /\ Built(ord, type, at)
               /\ \A ch \in Channels :
                      stimulii_to_recheck[ch] \cup Tracked(at, node') \subseteq stimulii_to_recheck'[ch]
               /\ type = "UPDATE" => \A x \in at : node'[x] \in NewKinds \cup InnerKinds
               /\ type = "MAIN" => Live = {}
           /\ UNCHANGED <<info, classes>> /\ UNCHANGED ordinals_to_tear_down
           /\ pc.at = "update"
           /\ pc' = pc \/ pc' = Checking(1, -1)
  <1>1. UNCHANGED <<info, classes>> /\ UNCHANGED ordinals_to_tear_down
    BY DEF BuildMainTree, BuildUpdateTree
  <1>2. pc' = pc \/ pc' = Checking(1, -1)
    BY DEF BuildMainTree, BuildUpdateTree
  <1>3. pc.at = "update"
    <2>1. BuildMainTree => LiveTrees("MAIN") = {}
      BY DEF BuildMainTree, LiveTrees
    <2>2. pc = Updating
      BY <2>1 DEF BuildUpdateTree, DatabaseInvariant, StoreInvariant, MainTreeStays
    <2>3. QED BY <2>2, PhaseRecords
  <1>4. StoreTypeOK /\ OrdinalsKept /\ "MAIN" \in TreeTypes /\ "UPDATE" \in TreeTypes
    BY DEF DatabaseInvariant, StoreInvariant, TypeOK, TreeTypes
  <1>5. CASE BuildMainTree
    <2>1. Trees = {} /\ \E at \in Places(Len(MainKinds)) :
             /\ BuildTree("MAIN", MainKinds, at)
             /\ stimulii_to_recheck' = [ch \in Channels |-> Tracked(Range(at), node')]
      BY <1>5 DEF BuildMainTree
    <2>2. PICK at \in Places(Len(MainKinds)) :
             /\ BuildTree("MAIN", MainKinds, at)
             /\ stimulii_to_recheck' = [ch \in Channels |-> Tracked(Range(at), node')]
      BY <2>1
    <2>3. MainKinds \in Seq(Kinds)
      BY KindsAssumption
    <2>4. \E o \in Ordinals : Built(o, "MAIN", Range(at))
      BY <2>2, <2>3, <1>4, BuildFacts
    <2>5. PICK ord \in Ordinals : Built(ord, "MAIN", Range(at))
      BY <2>4
    <2>6. Live = {} /\ \A ch \in Channels : stimulii_to_recheck[ch] = {}
      BY <2>1 DEF Live, DatabaseInvariant, StoreInvariant, OrdinalsKept, NothingDangles
    <2>7. Range(at) \subseteq Links
      BY <2>5 DEF Built, Freed
    <2>8. \A ch \in Channels : stimulii_to_recheck[ch] \cup Tracked(Range(at), node')
                                   \subseteq stimulii_to_recheck'[ch]
      BY <2>2, <2>6
    <2> DEFINE S == Range(at)
    <2> HIDE DEF S
    <2>9. S \in SUBSET Links /\ Built(ord, "MAIN", S)
          /\ \A ch \in Channels : stimulii_to_recheck[ch] \cup Tracked(S, node')
                                   \subseteq stimulii_to_recheck'[ch]
      BY <2>5, <2>7, <2>8 DEF S
    <2>10. QED BY <2>6, <2>9, <1>1, <1>2, <1>3
  <1>6. CASE BuildUpdateTree
    <2>1. PICK base \in NewKinds, n \in 0..MaxInner : \E inner \in [1..n -> InnerKinds] :
          \E at \in Places(n + 1) :
             /\ BuildTree("UPDATE", <<base>> \o inner, at)
             /\ stimulii_to_recheck' = [ch \in Channels |->
                      stimulii_to_recheck[ch] \cup Tracked(Range(at), node')]
      BY <1>6 DEF BuildUpdateTree
    <2>2. PICK inner \in [1..n -> InnerKinds], at \in Places(n + 1) :
             /\ BuildTree("UPDATE", <<base>> \o inner, at)
             /\ stimulii_to_recheck' = [ch \in Channels |->
                      stimulii_to_recheck[ch] \cup Tracked(Range(at), node')]
      BY <2>1
    <2> DEFINE kinds == <<base>> \o inner
    <2>3. kinds \in Seq(Kinds) /\ Len(kinds) = n + 1 /\ Range(kinds) \subseteq NewKinds \cup InnerKinds
      <3>1. base \in Kinds /\ n \in Nat /\ inner \in Seq(Kinds) /\ Len(inner) = n
        BY KindsAssumption, BoundsAssumption
      <3>2. kinds \in Seq(Kinds) /\ Len(kinds) = n + 1
        BY <3>1
      <3>3. \A i \in DOMAIN kinds : kinds[i] \in NewKinds \cup InnerKinds
        <4>1. inner \in Seq(NewKinds \cup InnerKinds) /\ <<base>> \in Seq(NewKinds \cup InnerKinds)
          BY <3>1
        <4>2. kinds \in Seq(NewKinds \cup InnerKinds)
          BY <4>1
        <4>3. QED BY <4>2
      <3>4. QED BY <3>2, <3>3 DEF Range
    <2> HIDE DEF kinds
    <2>4. at \in Places(Len(kinds)) /\ BuildTree("UPDATE", kinds, at)
      BY <2>2, <2>3 DEF kinds
    <2>5. /\ \E o \in Ordinals : Built(o, "UPDATE", Range(at))
          /\ \A x \in Range(at) : node'[x] \in Range(kinds)
      BY <2>3, <2>4, <1>4, BuildFacts
    <2>6. PICK ord \in Ordinals : Built(ord, "UPDATE", Range(at))
      BY <2>5
    <2>7. Range(at) \subseteq Links
      BY <2>6 DEF Built, Freed
    <2>8. \A ch \in Channels : stimulii_to_recheck[ch] \cup Tracked(Range(at), node')
                                   \subseteq stimulii_to_recheck'[ch]
      BY <2>2
    <2> DEFINE S == Range(at)
    <2> HIDE DEF S
    <2>9. S \in SUBSET Links /\ Built(ord, "UPDATE", S)
          /\ (\A ch \in Channels : stimulii_to_recheck[ch] \cup Tracked(S, node')
                                   \subseteq stimulii_to_recheck'[ch])
          /\ \A x \in S : node'[x] \in NewKinds \cup InnerKinds
      BY <2>3, <2>5, <2>6, <2>7, <2>8 DEF S
    <2>10. QED BY <2>9, <1>1, <1>2, <1>3
  <1>7. QED BY <1>5, <1>6

-----------------------------------------------------------------------------
(* Owners of the extra trees.                                              *)

LEMMA SameLosesNone ==
    ASSUME ExtrasSame PROVE Unowned' \subseteq Unowned
  <1>1. ASSUME NEW ord \in Unowned' PROVE ord \in Unowned
    <2>1. ord \in LiveTrees("DOMAIN_EXTENSION")' /\ \A ch \in Channels : ord \notin Owned(ch)'
      BY DEF Unowned
    <2>2. QED BY <2>1 DEF ExtrasSame, Unowned
  <1>2. QED BY <1>1

LEMMA CheckLosesNone ==
    ASSUME NEW x, NEW c, NEW more, Checks(x, c, more) PROVE Unowned' \subseteq Unowned
  <1>1. ASSUME NEW ord \in Unowned' PROVE ord \in Unowned
    <2>1. ord \in LiveTrees("DOMAIN_EXTENSION")' /\ \A ch \in Channels : ord \notin Owned(ch)'
      BY DEF Unowned
    <2>2. QED BY <2>1 DEF Checks, Unowned
  <1>2. QED BY <1>1

(* What a step may do to the owner of a tree. *)
LosesBehind ==
    \A ord \in Unowned' \ Unowned :
        /\ pc.at = "step" /\ ord < pc'.cursor
        /\ \E c \in DOMAIN classes[pc.ch] : classes[pc.ch][c].tree_ordinal = ord

LEMMA TeardownLosesBehind ==
    ASSUME DatabaseInvariant, DatabaseInvariant', TeardownExtension
    PROVE  LosesBehind
  <1>1. PICK ord \in Nat :
               /\ Gone(ord) /\ pc.at = "step" /\ pc'.cursor = ord /\ pc.ch \in Channels
               /\ HeldSame
               /\ \A ch \in Channels : \A o \in Owned(ch) \ Owned(ch)' :
                    \/ o = ord
                    \/ /\ ch = pc.ch /\ o < ord
                       /\ \E c \in DOMAIN classes[ch] : classes[ch][c].tree_ordinal = o
    BY ExtensionTornDown
  <1>2. ASSUME NEW o \in Unowned', o \notin Unowned
        PROVE  /\ pc.at = "step" /\ o < pc'.cursor
               /\ \E c \in DOMAIN classes[pc.ch] : classes[pc.ch][c].tree_ordinal = o
    <2>1. o \in LiveTrees("DOMAIN_EXTENSION")' /\ \A ch \in Channels : o \notin Owned(ch)'
      BY DEF Unowned
    <2>2. o \in LiveTrees("DOMAIN_EXTENSION") /\ o # ord
      BY <2>1, <1>1 DEF Gone
    <2>3. PICK ch \in Channels : o \in Owned(ch)
      BY <2>2, <1>2 DEF Unowned
    <2>4. QED BY <2>1, <2>2, <2>3, <1>1
  <1>3. QED BY <1>2 DEF LosesBehind

LEMMA StepLosesBehind ==
    ASSUME DatabaseInvariant, DatabaseInvariant', Next
    PROVE  LosesBehind
  <1>1. CASE BuildMainTree \/ BuildUpdateTree
    <2>1. PICK ord \in Ordinals, type \in {"MAIN", "UPDATE"}, at \in SUBSET Links :
              Built(ord, type, at)
      BY <1>1, TreeBuilt
    <2>2. /\ UNCHANGED <<info, classes>> /\ UNCHANGED ordinals_to_tear_down
          /\ pc.at # "step" /\ pc'.at # "step"
      BY <1>1, TreeBuilt DEF Checking
    <2>3. type # "DOMAIN_EXTENSION"
      OBVIOUS
    <2>4. ExtrasSame
      BY <2>1, <2>2, <2>3, InsertedSame
    <2>5. QED BY <2>4, SameLosesNone DEF LosesBehind
  <1>2. CASE BeginUpdate \/ EndUpdate \/ ClearRecheck \/ EndStep \/ ClearTearDown
    <2>1. Settles
      BY <1>2, QuietSteps, EndStepSettles, ClearTearDownSettles
    <2>2. QED BY <2>1, SettledSame, SameLosesNone DEF LosesBehind
  <1>3. CASE SwapTreeToTree
    <2>1. ExtrasSame
      BY <1>3, SwapFacts, SwappedSame
    <2>2. QED BY <2>1, SameLosesNone DEF LosesBehind
  <1>4. CASE TeardownOldContent \/ TeardownMoved
    <2>1. ExtrasSame
      BY <1>4, UpdateTornDown
    <2>2. QED BY <2>1, SameLosesNone DEF LosesBehind
  <1>5. CASE TeardownExtension
    BY <1>5, TeardownLosesBehind
  <1>6. CASE CheckStimulusXLink
    <2>1. /\ pc.at = "check" /\ Ahead(stimulii_to_recheck[pc.ch], pc.cursor) # {}
          /\ pc' = Checking(pc.ch, Min(Ahead(stimulii_to_recheck[pc.ch], pc.cursor)))
          /\ \/ CheckNonStimulus(Min(Ahead(stimulii_to_recheck[pc.ch], pc.cursor)))
             \/ CheckKnownClass(Min(Ahead(stimulii_to_recheck[pc.ch], pc.cursor)))
             \/ CheckNewClass(Min(Ahead(stimulii_to_recheck[pc.ch], pc.cursor)))
      BY <1>6 DEF CheckStimulusXLink
    <2>2. CASE CheckNonStimulus(Min(Ahead(stimulii_to_recheck[pc.ch], pc.cursor)))
      <3>1. pc'.at = "check"
        BY <2>1 DEF Checking
      <3>2. Settles
        BY <3>1, <2>1, <2>2, QuietSteps
      <3>3. QED BY <3>2, SettledSame, SameLosesNone DEF LosesBehind
    <2>3. CASE ~CheckNonStimulus(Min(Ahead(stimulii_to_recheck[pc.ch], pc.cursor)))
      <3>1. \E x, c, more : Checks(x, c, more)
        BY <2>1, <2>3, CheckedKnownClass, CheckedNewClass
      <3>2. QED BY <3>1, CheckLosesNone DEF LosesBehind
    <2>4. QED BY <2>2, <2>3
  <1>7. QED BY <1>1, <1>2, <1>3, <1>4, <1>5, <1>6 DEF Next

(* Of any extenders, the database loses an extra tree in one way only: at  *)
(* the end of a step, when tearing down one tree of a channel drops the    *)
(* last stimulus of a class of the same channel whose tree has a smaller   *)
(* ordinal, which DropStimulusXLink() then inserts behind the iterator of  *)
(* DeferredActionsEndOfStep(), to be cleared unvisited.  No update, check  *)
(* or other step loses a tree, and no tree ahead of the iterator, or of    *)
(* another channel, is lost.                                               *)
THEOREM TreesLostOnlyBehind == Spec => LostOnlyBehind
  <1>1. DatabaseInvariant /\ DatabaseInvariant' /\ [Next]_vars =>
            [\A ord \in Unowned' \ Unowned :
                /\ pc.at = "step" /\ ord < pc'.cursor
                /\ \E c \in DOMAIN classes[pc.ch] : classes[pc.ch][c].tree_ordinal = ord]_vars
    BY StepLosesBehind DEF LosesBehind
  <1>2. QED BY <1>1, DatabaseInvariantHolds, PTL DEF Spec, LostOnlyBehind

-----------------------------------------------------------------------------
(* What a search can rely on.                                              *)

(* Besides what was read of a recorded stimulus, what it could read now    *)
(* was there to be read already, or is of a kind that is added silently.   *)
NothingNew ==
    \A ch \in Channels : \A s \in DOMAIN info'[ch] : \A y \in Live' \ info'[ch][s].deps :
        \/ y # s /\ node'[y] \in AddedKinds
        \/ \E z \in Live \ info[ch][s].deps : node'[y] = node[z] /\ (z = s <=> y = s)

(* The value of one stimulus. *)
Current(ch, s) ==
    /\ info[ch][s].root = Induces(ch, node[s], {node[d] : d \in info[ch][s].deps})
    /\ info[ch][s].deps \subseteq Read(ch, s)
    /\ \A y \in Read(ch, s) \ info[ch][s].deps : node[y] \in AddedKinds

LEMMA CurrentKept ==
    ASSUME NEW ch \in Channels, NEW s, Current(ch, s),
           info'[ch][s] = info[ch][s], node'[s] = node[s],
           \A d \in info[ch][s].deps : node'[d] = node[d],
           info'[ch][s].deps \subseteq Live',
           \A y \in Live' \ info[ch][s].deps :
               \/ y # s /\ node'[y] \in AddedKinds
               \/ \E z \in Live \ info[ch][s].deps : node'[y] = node[z] /\ (z = s <=> y = s)
    PROVE  Current(ch, s)'
  <1> DEFINE deps == info[ch][s].deps
  <1>1. info'[ch][s].deps = deps /\ info'[ch][s].root = info[ch][s].root
    OBVIOUS
  <1>2. {node'[d] : d \in deps} = {node[d] : d \in deps}
    OBVIOUS
  <1>3. info'[ch][s].root = Induces(ch, node'[s], {node'[d] : d \in info'[ch][s].deps})
    BY <1>1, <1>2 DEF Current
  <1>4. deps \subseteq Read(ch, s)'
    BY DEF Current, Read
  <1>5. ASSUME NEW y \in Read(ch, s)', y \notin deps PROVE node'[y] \in AddedKinds
    <2>1. y \in Live' /\ (IF y = s THEN Self \in Reads[ch][node'[s]]
                                  ELSE node'[y] \in Reads[ch][node'[s]])
      BY DEF Read
    <2>2. CASE y # s /\ node'[y] \in AddedKinds
      BY <2>2
    <2>3. CASE \E z \in Live \ deps : node'[y] = node[z] /\ (z = s <=> y = s)
      <3>1. PICK z \in Live \ deps : node'[y] = node[z] /\ (z = s <=> y = s)
        BY <2>3
      <3>2. z \in Read(ch, s)
        BY <3>1, <2>1 DEF Read
      <3>3. QED BY <3>1, <3>2 DEF Current
    <2>4. QED BY <1>5, <2>1, <2>2, <2>3
  <1>6. QED BY <1>1, <1>3, <1>4, <1>5 DEF Current, AddedKinds, BuiltKinds

LEMMA ValuesKept ==
    ASSUME ValuesCurrent, DatabaseInvariant', HeldSame, NothingNew
    PROVE  ValuesCurrent'
  <1>1. ASSUME NEW ch \in Channels, NEW s \in DOMAIN info'[ch] PROVE Current(ch, s)'
    <2>1. /\ s \in DOMAIN info[ch] /\ info'[ch][s] = info[ch][s]
          /\ node'[s] = node[s]
          /\ \A d \in info[ch][s].deps : node'[d] = node[d]
      BY DEF HeldSame
    <2>2. Current(ch, s)
      BY <2>1 DEF ValuesCurrent, Current
    <2>3. info'[ch][s].deps \subseteq Live'
      BY DEF DatabaseInvariant, StoreInvariant, NothingDangles
    <2>4. \A y \in Live' \ info[ch][s].deps :
             \/ y # s /\ node'[y] \in AddedKinds
             \/ \E z \in Live \ info[ch][s].deps : node'[y] = node[z] /\ (z = s <=> y = s)
      BY <2>1 DEF NothingNew
    <2>5. QED BY <2>1, <2>2, <2>3, <2>4, CurrentKept
  <1>2. QED BY <1>1 DEF ValuesCurrent, Current

(* Nothing has come into the tables, nor changed there. *)
LEMMA FewerNothingNew ==
    ASSUME HeldSame, Live' \subseteq Live, \A x \in Live' : node'[x] = node[x]
    PROVE  NothingNew
  BY DEF NothingNew, HeldSame

LEMMA InsertNothingNew ==
    ASSUME DatabaseInvariant, NEW at, UNCHANGED info, Live' = Live \cup at,
           at \cap Live = {},
           \A x \in Live : node'[x] = node[x],
           Live = {} \/ \A x \in at : node'[x] \in AddedKinds
    PROVE  NothingNew
  <1>1. \A ch \in Channels : DOMAIN info[ch] \subseteq Live
    BY DEF DatabaseInvariant, StoreInvariant, NothingDangles
  <1>2. QED BY <1>1 DEF NothingNew

(* A swap deletes what it moves: what a recorded stimulus could now read   *)
(* where a link was swapped, it could read before where that was.          *)
LEMMA SwapNothingNew ==
    ASSUME DatabaseInvariant, NEW S \in SUBSET Links, Swaps(S), HeldSame,
           \A ch \in Channels : DOMAIN info'[ch] = Kept(ch, Tracked(S, node))
    PROVE  NothingNew
  <1>1. /\ \A x \in S : /\ owner[x] \in LiveTrees("MAIN") \cup LiveTrees("UPDATE")
                        /\ \E z \in S : node'[x] = node[z]
        /\ \A x \in Links \ S : node'[x] = node[x] /\ owner'[x] = owner[x]
        /\ UNCHANGED deferred_tree_ordinals
    BY DEF Swaps
  <1>2. S \subseteq Live
    BY <1>1, InTables
  <1>3. Live' \subseteq Live
    <2>1. Deferred' = Deferred
      BY <1>1 DEF Deferred, ToSet
    <2>2. QED BY <2>1, <1>1, <1>2 DEF Live
  <1>4. ASSUME NEW ch \in Channels, NEW s \in DOMAIN info'[ch],
               NEW y \in Live' \ info'[ch][s].deps
        PROVE  \E z \in Live \ info[ch][s].deps : node'[y] = node[z] /\ (z = s <=> y = s)
    <2>1. /\ s \in DOMAIN info[ch] /\ info'[ch][s] = info[ch][s] /\ node'[s] = node[s]
          /\ s \notin Tracked(S, node) /\ info[ch][s].deps \cap Tracked(S, node) = {}
      BY DEF HeldSame, Kept
    <2>2. node[s] # Scaffold /\ \A d \in info[ch][s].deps : node[d] # Scaffold
      BY <2>1 DEF DatabaseInvariant, StoreInvariant, ScaffoldUntracked, Tracked
    <2>3. s \notin S /\ info[ch][s].deps \cap S = {}
      BY <2>1, <2>2 DEF Tracked
    <2>4. CASE y \in S
      <3>1. PICK z \in S : node'[y] = node[z]
        BY <2>4, <1>1
      <3>2. z \in Live \ info[ch][s].deps /\ z # s /\ y # s
        BY <3>1, <2>3, <2>4, <1>2
      <3>3. QED BY <3>1, <3>2
    <2>5. CASE y \notin S
      <3>1. y \in Live \ info[ch][s].deps /\ node'[y] = node[y]
        <4>1. y \in Links
          BY <1>3 DEF Live
        <4>2. QED BY <4>1, <2>1, <2>5, <1>1, <1>3
      <3>2. QED BY <3>1
    <2>6. QED BY <2>4, <2>5
  <1>5. QED BY <1>4 DEF NothingNew

LEMMA CheckKeepsValues ==
    ASSUME ValuesCurrent, DatabaseInvariant, DatabaseInvariant',
           NEW x, NEW c, NEW more, Checks(x, c, more)
    PROVE  ValuesCurrent'
  <1>0. /\ pc.ch \in Channels /\ x \in Live /\ c \in Classes
        /\ c = GetDomainExtension(pc.ch, x) /\ c # NoClass
        /\ Live' = Live \cup more
        /\ \A y \in Live : node'[y] = node[y]
        /\ \A y \in more : node'[y] \in Range(Body[c]) /\ owner'[y] \notin Trees
    BY KindsAssumption DEF Checks
  <1>1. \A y \in more \ Live : node'[y] \in AddedKinds
    <2>1. Range(Body[c]) \subseteq BuiltKinds(pc.ch)
      BY <1>0, InducedIsBuilt
    <2>2. QED BY <2>1, <1>0 DEF AddedKinds
  <1>2. ASSUME NEW ch \in Channels, NEW s \in DOMAIN info'[ch] PROVE Current(ch, s)'
    <2>1. CASE ch = pc.ch /\ s = x
      <3>1. info'[ch][s].root = c /\ info'[ch][s].deps = Read(ch, x)
        BY <2>1 DEF Checks
      <3>2. Read(ch, x) \subseteq Live
        BY DEF Read
      <3>3. {node'[d] : d \in Read(ch, x)} = {node[d] : d \in Read(ch, x)} /\ node'[x] = node[x]
        BY <3>2, <1>0
      <3>4. c = Induces(ch, node'[x], {node'[d] : d \in Read(ch, x)})
        BY <3>3, <2>1, <1>0 DEF GetDomainExtension
      <3>5. Read(ch, x) \subseteq Read(ch, x)'
        BY <3>2, <3>3, <1>0 DEF Read
      <3>6. ASSUME NEW y \in Read(ch, x)', y \notin Read(ch, x) PROVE node'[y] \in AddedKinds
        <4>1. y \in Live'
          BY DEF Read
        <4>2. y \notin Live
          BY <3>3, <3>6, <1>0 DEF Read
        <4>3. QED BY <4>1, <4>2, <1>0, <1>1
      <3>7. QED BY <3>1, <3>4, <3>5, <3>6, <2>1 DEF Current, AddedKinds, BuiltKinds
    <2>2. CASE ~(ch = pc.ch /\ s = x)
      <3>1. s \in DOMAIN info[ch] /\ info'[ch][s] = info[ch][s]
        BY <2>2 DEF Checks
      <3>2. s \in Live /\ info[ch][s].deps \subseteq Live
        BY <3>1 DEF DatabaseInvariant, StoreInvariant, NothingDangles
      <3>3. Current(ch, s)
        BY <3>1 DEF ValuesCurrent, Current
      <3>4. info'[ch][s].deps \subseteq Live'
        BY <3>1, <3>2, <1>0
      <3>5. node'[s] = node[s] /\ \A d \in info[ch][s].deps : node'[d] = node[d]
        BY <3>2, <1>0
      <3>6. \A y \in Live' \ info[ch][s].deps :
             \/ y # s /\ node'[y] \in AddedKinds
             \/ \E z \in Live \ info[ch][s].deps : node'[y] = node[z] /\ (z = s <=> y = s)
        <4>1. ASSUME NEW y \in Live' \ info[ch][s].deps, y \notin Live
              PROVE  y # s /\ node'[y] \in AddedKinds
          BY <4>1, <3>2, <1>0, <1>1
        <4>2. ASSUME NEW y \in Live' \ info[ch][s].deps, y \in Live
              PROVE  \E z \in Live \ info[ch][s].deps : node'[y] = node[z] /\ (z = s <=> y = s)
          BY <4>2, <1>0
        <4>3. QED BY <4>1, <4>2
      <3>7. QED BY <3>1, <3>3, <3>4, <3>5, <3>6, CurrentKept
    <2>3. QED BY <2>1, <2>2
  <1>3. QED BY <1>2 DEF ValuesCurrent, Current

LEMMA StepKeepsValues ==
    ASSUME ValuesCurrent, DatabaseInvariant, DatabaseInvariant', Next
    PROVE  ValuesCurrent'
  <1>1. ASSUME Settles PROVE ValuesCurrent'
    <2>1. HeldSame /\ Live' \subseteq Live /\ \A x \in Live' : node'[x] = node[x]
      BY <1>1, SettledSame DEF Settles, SameView
    <2>2. QED BY <2>1, FewerNothingNew, ValuesKept
  <1>2. CASE BuildMainTree \/ BuildUpdateTree
    <2>1. PICK ord \in Ordinals, type \in {"MAIN", "UPDATE"}, at \in SUBSET Links :
               /\ Built(ord, type, at)
               /\ type = "UPDATE" => \A x \in at : node'[x] \in NewKinds \cup InnerKinds
               /\ type = "MAIN" => Live = {}
      BY <1>2, TreeBuilt
    <2>2. /\ UNCHANGED <<info, classes>> /\ UNCHANGED ordinals_to_tear_down
          /\ pc.at # "step" /\ pc'.at # "step"
      BY <1>2, TreeBuilt DEF Checking
    <2>3. StoreTypeOK' /\ type # "DOMAIN_EXTENSION"
      BY DEF DatabaseInvariant, StoreInvariant, TypeOK
    <2>4. /\ at \cap Live = {} /\ Live' = Live \cup at
          /\ \A x \in Live : node'[x] = node[x]
      BY <2>1, <2>3, BuiltView
    <2>5. Live = {} \/ \A x \in at : node'[x] \in AddedKinds
      BY <2>1 DEF AddedKinds
    <2>6. HeldSame
      BY <2>1, <2>2, <2>3, InsertedSame
    <2>7. NothingNew
      BY <2>2, <2>4, <2>5, InsertNothingNew
    <2>8. QED BY <2>6, <2>7, ValuesKept
  <1>3. CASE BeginUpdate \/ EndUpdate \/ ClearRecheck \/ EndStep \/ ClearTearDown
    BY <1>1, <1>3, QuietSteps, EndStepSettles, ClearTearDownSettles
  <1>4. CASE SwapTreeToTree
    <2>1. PICK S \in SUBSET Links : Swaps(S)
      BY <1>4, SwapFacts
    <2>2. HeldSame /\ \A ch \in Channels : DOMAIN info'[ch] = Kept(ch, Tracked(S, node))
      BY <2>1, SwappedSame
    <2>3. NothingNew
      BY <2>1, <2>2, SwapNothingNew
    <2>4. QED BY <2>2, <2>3, ValuesKept
  <1>5. CASE TeardownOldContent \/ TeardownMoved \/ TeardownExtension
    <2>1. PICK ord : Gone(ord) /\ HeldSame
      BY <1>5, UpdateTornDown, ExtensionTornDown
    <2>2. Live' \subseteq Live /\ \A x \in Live' : node'[x] = node[x]
      BY <2>1 DEF Gone
    <2>3. QED BY <2>1, <2>2, FewerNothingNew, ValuesKept
  <1>6. CASE CheckStimulusXLink
    <2>1. /\ pc.at = "check" /\ Ahead(stimulii_to_recheck[pc.ch], pc.cursor) # {}
          /\ pc' = Checking(pc.ch, Min(Ahead(stimulii_to_recheck[pc.ch], pc.cursor)))
          /\ \/ CheckNonStimulus(Min(Ahead(stimulii_to_recheck[pc.ch], pc.cursor)))
             \/ CheckKnownClass(Min(Ahead(stimulii_to_recheck[pc.ch], pc.cursor)))
             \/ CheckNewClass(Min(Ahead(stimulii_to_recheck[pc.ch], pc.cursor)))
      BY <1>6 DEF CheckStimulusXLink
    <2>2. CASE CheckNonStimulus(Min(Ahead(stimulii_to_recheck[pc.ch], pc.cursor)))
      <3>1. pc'.at = "check"
        BY <2>1 DEF Checking
      <3>2. Settles
        BY <3>1, <2>1, <2>2, QuietSteps
      <3>3. QED BY <3>2, <1>1
    <2>3. CASE ~CheckNonStimulus(Min(Ahead(stimulii_to_recheck[pc.ch], pc.cursor)))
      <3>1. \E x, c, more : Checks(x, c, more)
        BY <2>1, <2>3, CheckedKnownClass, CheckedNewClass
      <3>2. QED BY <3>1, CheckKeepsValues
    <2>4. QED BY <2>2, <2>3
  <1>7. QED BY <1>2, <1>3, <1>4, <1>5, <1>6 DEF Next

LEMMA StutterKeepsValues ==
    ASSUME ValuesCurrent, DatabaseInvariant, DatabaseInvariant', UNCHANGED vars
    PROVE  ValuesCurrent'
  <1>1. Settles
    BY QuietSteps
  <1>2. HeldSame /\ Live' \subseteq Live /\ \A x \in Live' : node'[x] = node[x]
    BY <1>1, SettledSame DEF Settles, SameView
  <1>3. QED BY <1>2, FewerNothingNew, ValuesKept

(* Of any extenders: what a channel has recorded of a stimulus is what its *)
(* extender induced from the links it read; all of these are still there,  *)
(* unchanged, and would be read again; and a link that would be read now   *)
(* and was not then has been added since.  Whatever removes or changes a   *)
(* link that was read drops the record first (DeleteAction()).             *)
THEOREM ValuesStayCurrent == Spec => []ValuesCurrent
  <1>1. Init => ValuesCurrent
    <2>1. Init => \A ch \in Channels : DOMAIN info[ch] = {}
      BY DEF Init, Empty
    <2>2. QED BY <2>1 DEF ValuesCurrent
  <1>2. ValuesCurrent /\ DatabaseInvariant /\ DatabaseInvariant' /\ [Next]_vars
            => ValuesCurrent'
    BY StepKeepsValues, StutterKeepsValues
  <1>3. QED BY <1>1, <1>2, DatabaseInvariantHolds, PTL DEF Spec

LEMMA CurrentIsInduced ==
    ASSUME InducedStays, DatabaseInvariant, ValuesCurrent PROVE RecordedCurrent
  <1>1. SUFFICES ASSUME NEW ch \in Channels, NEW s \in DOMAIN info[ch]
                 PROVE  info[ch][s].root = GetDomainExtension(ch, s)
    BY DEF RecordedCurrent
  <1> DEFINE deps == info[ch][s].deps
             seen == {node[d] : d \in deps}
             more == {node[y] : y \in Read(ch, s) \ deps}
  <1>2. /\ info[ch][s].root = Induces(ch, node[s], seen)
        /\ deps \subseteq Read(ch, s)
        /\ \A y \in Read(ch, s) \ deps : node[y] \in AddedKinds
    BY DEF ValuesCurrent
  <1>3. {node[y] : y \in Read(ch, s)} = seen \cup more
    BY <1>2
  <1>4. /\ \A y \in Live : node[y] \in Kinds
        /\ s \in Live /\ info[ch][s].root \in Classes
    BY DEF Live, DatabaseInvariant, StoreInvariant, TypeOK, StoreTypeOK, ChannelsTypeOK,
           NothingDangles
  <1>5. node[s] \in Kinds /\ seen \in SUBSET Kinds /\ more \in SUBSET AddedKinds
    BY <1>2, <1>4 DEF Read
  <1>6. GetDomainExtension(ch, s) = Induces(ch, node[s], seen \cup more)
    BY <1>3 DEF GetDomainExtension
  <1> HIDE DEF seen, more
  <1>7. Induces(ch, node[s], seen) # NoClass
    BY <1>2, <1>4, KindsAssumption
  <1>8. Induces(ch, node[s], seen \cup more) = Induces(ch, node[s], seen)
    BY <1>5, <1>7 DEF InducedStays
  <1>9. QED BY <1>2, <1>6, <1>8

(* If what is added elsewhere does not change a value that an extender has *)
(* found, the recorded value of every stimulus is always the one it would  *)
(* induce now: at a link with a record, GetUniqueDomainExtension() never   *)
(* meets another value.  Extenders whose own trees are extended again, or  *)
(* that refuse a value and give one later, are not excluded.               *)
THEOREM RecordedNeverStale == ASSUME InducedStays PROVE Spec => []RecordedCurrent
  <1>1. DatabaseInvariant /\ ValuesCurrent => RecordedCurrent
    BY CurrentIsInduced
  <1>2. QED BY <1>1, DatabaseInvariantHolds, ValuesStayCurrent, PTL
=============================================================================
