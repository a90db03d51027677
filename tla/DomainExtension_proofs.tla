----------------------- MODULE DomainExtension_proofs -----------------------
(***************************************************************************)
(* Proofs about DomainExtension for any extenders, well-behaved or not:    *)
(* the store of trees and the maps of the channels stay well-formed        *)
(* (DatabaseInvariant, which is inductive), and nodes outlive the step.    *)
(*                                                                         *)
(* Steps are grouped by what they do to the tables: phases (SameView),     *)
(* deletion with or without reinsertion (Reinserts, Gone, Swaps), building *)
(* (Built) and recording (Record, ClassGains).                             *)
(***************************************************************************)
EXTENDS DomainExtension, FiniteSetTheorems, WellFoundedInduction, TLAPS

(* The least element of a set of addresses or ordinals exists. *)
LEMMA NatMin ==
    ASSUME NEW S \in SUBSET Nat, S # {}
    PROVE  Min(S) \in S /\ \A y \in S : Min(S) <= y
  <1>1. PICK x \in S : \A y \in S : ~(<<y, x>> \in OpToRel(<, Nat))
    BY NatLessThanWellFounded, WFMin
  <1>2. \A y \in S : x <= y
    <2>1. ASSUME NEW y \in S, y < x PROVE FALSE
      <3>1. <<y, x>> \in {ss \in Nat \X Nat : ss[1] < ss[2]}
        BY <2>1
      <3>2. QED BY <3>1, <1>1 DEF OpToRel
    <2>2. QED BY <2>1
  <1>3. QED BY <1>2 DEF Min

LEMMA Numbers ==
    /\ Links \subseteq Nat /\ Ordinals \subseteq Nat
    /\ \A cursor \in Links \cup Ordinals \cup {-1} : cursor \in Int /\ cursor >= -1
  <1>1. Links \subseteq Nat
    BY LinksAssumption
  <1>2. Ordinals \subseteq Nat
    BY LinksAssumption, FS_CardinalityType DEF Ordinals
  <1>3. \A cursor \in Nat : cursor \in Int /\ cursor >= -1
    OBVIOUS
  <1>4. -1 \in Int /\ -1 >= -1
    OBVIOUS
  <1>5. QED BY <1>1, <1>2, <1>3, <1>4, Zenon

-----------------------------------------------------------------------------
(* Dropping stimulii.                                                      *)

(* The stimulii a channel keeps when the links of S are deleted. *)
Kept(ch, S) ==
    {s \in DOMAIN info[ch] : s \notin S /\ info[ch][s].deps \cap S = {}}

LEMMA DroppedOrKept ==
    ASSUME NEW ch \in Channels, MapsAgree(ch), NEW S, DOMAIN info[ch] \subseteq Links
    PROVE  DroppedWith(ch, S) = DOMAIN info[ch] \ Kept(ch, S)
  <1>1. \A d, s : <<d, s>> \in dep_to_all_stimulii[ch]
                      <=> s \in DOMAIN info[ch] /\ d \in info[ch][s].deps
    BY DEF MapsAgree
  <1>2. QED BY <1>1 DEF DroppedWith, Kept

(* What is left of a class's references is its stimulii that are left. *)
LEMMA RefsCounted ==
    ASSUME NEW ch \in Channels, MapsAgree(ch), NEW gone,
           DOMAIN info[ch] \subseteq Links, NEW c \in DOMAIN classes[ch]
    PROVE  LET left == {s \in DOMAIN info[ch] \ gone : info[ch][s].root = c}
           IN  /\ IsFiniteSet(left)
               /\ RefsLeft(ch, gone, c) = Cardinality(left)
               /\ Cardinality(left) \in Nat
               /\ c \in Emptied(ch, gone) <=> left = {}
  <1> DEFINE all == {s \in DOMAIN info[ch] : info[ch][s].root = c}
             lost == {s \in gone \cap DOMAIN info[ch] : info[ch][s].root = c}
             left == {s \in DOMAIN info[ch] \ gone : info[ch][s].root = c}
  <1>1. IsFiniteSet(all)
    BY FS_Subset, LinksAssumption
  <1>2. left = all \ gone /\ lost = all \cap gone
    OBVIOUS
  <1>3. IsFiniteSet(left) /\ Cardinality(left) = Cardinality(all) - Cardinality(lost)
    <2> HIDE DEF all, left, lost
    <2> QED BY <1>1, <1>2, FS_Difference
  <1>4. RefsLeft(ch, gone, c) = Cardinality(left)
    BY <1>3 DEF RefsLeft, MapsAgree
  <1>5. Cardinality(left) \in Nat /\ (Cardinality(left) = 0 <=> left = {})
    BY <1>3, FS_CardinalityType, FS_EmptySet
  <1>6. c \in Emptied(ch, gone) <=> left = {}
    BY <1>4, <1>5 DEF Emptied
  <1>7. QED BY <1>3, <1>4, <1>5, <1>6

(* What DropStimulusXLink() makes of a channel when links S are deleted. *)
DropsRight(ch, S, d) ==
    /\ DOMAIN d.info = Kept(ch, S)
    /\ \A s \in Kept(ch, S) : d.info[s] = info[ch][s]
    /\ d.deps = UNION {info[ch][s].deps \X {s} : s \in Kept(ch, S)}
    /\ DOMAIN d.classes = {c \in DOMAIN classes[ch] :
                               \E s \in Kept(ch, S) : info[ch][s].root = c}
    /\ \A c \in DOMAIN d.classes :
           /\ d.classes[c].tree_ordinal = classes[ch][c].tree_ordinal
           /\ d.classes[c].ref_count =
                  Cardinality({s \in Kept(ch, S) : info[ch][s].root = c})
           /\ d.classes[c].ref_count > 0
           /\ d.classes[c] \in [tree_ordinal : Ordinals, ref_count : Nat]
    /\ d.tear = ordinals_to_tear_down[ch] \cup
           {classes[ch][c].tree_ordinal : c \in DOMAIN classes[ch] \ DOMAIN d.classes}

LEMMA DropStimulus ==
    ASSUME ChannelsTypeOK, NEW ch \in Channels, MapsAgree(ch), NEW S
    PROVE  DropsRight(ch, S, DropStimulusXLink(ch, DroppedWith(ch, S)))
  <1> DEFINE gone == DroppedWith(ch, S)
             d == DropStimulusXLink(ch, gone)
             keep == Kept(ch, S)
  <1>0. DOMAIN info[ch] \subseteq Links
    BY DEF ChannelsTypeOK
  <1>1. gone = DOMAIN info[ch] \ keep /\ keep \subseteq DOMAIN info[ch]
    BY <1>0, DroppedOrKept DEF Kept
  <1>2. DOMAIN info[ch] \ gone = keep /\ gone \cap DOMAIN info[ch] = gone
    BY <1>1
  <1> HIDE DEF gone, keep
  <1>3. DOMAIN d.info = keep /\ \A s \in keep : d.info[s] = info[ch][s]
    BY <1>2 DEF DropStimulusXLink
  <1>4. d.deps = UNION {info[ch][s].deps \X {s} : s \in keep}
    <2>1. d.deps = dep_to_all_stimulii[ch] \ UNION {info[ch][s].deps \X {s} : s \in gone}
      BY <1>2 DEF DropStimulusXLink
    <2>2. dep_to_all_stimulii[ch] = UNION {info[ch][s].deps \X {s} : s \in DOMAIN info[ch]}
      BY DEF MapsAgree
    <2> HIDE DEF d
    <2>3. ASSUME NEW p PROVE p \in d.deps <=>
                    p \in UNION {info[ch][s].deps \X {s} : s \in keep}
      BY <2>1, <2>2, <1>1
    <2>4. QED BY <2>3
  <1>5. ASSUME NEW c \in DOMAIN classes[ch]
        PROVE  /\ RefsLeft(ch, gone, c) = Cardinality({s \in keep : info[ch][s].root = c})
               /\ RefsLeft(ch, gone, c) \in Nat
               /\ c \in Emptied(ch, gone) <=> ~ \E s \in keep : info[ch][s].root = c
               /\ c \notin Emptied(ch, gone) => RefsLeft(ch, gone, c) > 0
    <2>1. /\ RefsLeft(ch, gone, c) = Cardinality({s \in keep : info[ch][s].root = c})
          /\ RefsLeft(ch, gone, c) \in Nat
          /\ c \in Emptied(ch, gone) <=> {s \in keep : info[ch][s].root = c} = {}
      BY <1>0, <1>2, RefsCounted
    <2>2. QED BY <2>1 DEF Emptied
  <1>6. DOMAIN d.classes = {c \in DOMAIN classes[ch] : \E s \in keep : info[ch][s].root = c}
    BY <1>5 DEF DropStimulusXLink
  <1>7. ASSUME NEW c \in DOMAIN d.classes
        PROVE  /\ d.classes[c].tree_ordinal = classes[ch][c].tree_ordinal
               /\ d.classes[c].ref_count = Cardinality({s \in keep : info[ch][s].root = c})
               /\ d.classes[c].ref_count > 0
               /\ d.classes[c] \in [tree_ordinal : Ordinals, ref_count : Nat]
    <2>1. c \in DOMAIN classes[ch] \ Emptied(ch, gone)
      BY <1>7 DEF DropStimulusXLink
    <2>2. classes[ch][c] \in [tree_ordinal : Ordinals, ref_count : Nat]
      BY <2>1 DEF ChannelsTypeOK
    <2>3. d.classes[c] = [classes[ch][c] EXCEPT !.ref_count = RefsLeft(ch, gone, c)]
      BY <2>1 DEF DropStimulusXLink
    <2>4. QED BY <2>1, <2>2, <2>3, <1>5
  <1>8. d.tear = ordinals_to_tear_down[ch] \cup
                     {classes[ch][c].tree_ordinal : c \in DOMAIN classes[ch] \ DOMAIN d.classes}
    <2>1. DOMAIN classes[ch] \ DOMAIN d.classes = Emptied(ch, gone)
      BY DEF DropStimulusXLink, Emptied
    <2>2. d.tear = ordinals_to_tear_down[ch] \cup
                     {classes[ch][c].tree_ordinal : c \in Emptied(ch, gone)}
      BY DEF DropStimulusXLink
    <2>3. QED BY <2>1, <2>2
  <1>9. DropsRight(ch, S, d)
    <2> HIDE DEF d
    <2> QED BY <1>3, <1>4, <1>6, <1>7, <1>8 DEF keep, DropsRight
  <1>10. QED BY <1>9 DEF gone

(* DeleteAction() leaves the maps of every channel in agreement. *)
LEMMA DeleteFacts ==
    ASSUME ChannelsTypeOK, \A ch \in Channels : MapsAgree(ch), NEW S, DeleteAction(S)
    PROVE  /\ DOMAIN info' = Channels
           /\ DOMAIN classes' = Channels
           /\ dep_to_all_stimulii' \in [Channels -> SUBSET (Links \X Links)]
           /\ ordinals_to_tear_down' \in [Channels -> SUBSET Ordinals]
           /\ \A ch \in Channels :
                /\ DOMAIN info'[ch] = Kept(ch, S)
                /\ \A s \in Kept(ch, S) : info'[ch][s] = info[ch][s]
                /\ MapsAgree(ch)'
                /\ DOMAIN classes'[ch] \subseteq DOMAIN classes[ch]
                /\ \A c \in DOMAIN classes'[ch] :
                     /\ classes'[ch][c] \in [tree_ordinal : Ordinals, ref_count : Nat]
                     /\ classes'[ch][c].tree_ordinal = classes[ch][c].tree_ordinal
                /\ ordinals_to_tear_down'[ch] = ordinals_to_tear_down[ch] \cup
                     {classes[ch][c].tree_ordinal :
                         c \in DOMAIN classes[ch] \ DOMAIN classes'[ch]}
  <1> DEFINE d(ch) == DropStimulusXLink(ch, DroppedWith(ch, S))
  <1>1. /\ info' = [ch \in Channels |-> d(ch).info]
        /\ dep_to_all_stimulii' = [ch \in Channels |-> d(ch).deps]
        /\ classes' = [ch \in Channels |-> d(ch).classes]
        /\ ordinals_to_tear_down' = [ch \in Channels |-> d(ch).tear]
    BY DEF DeleteAction
  <1> HIDE DEF d
  <1>2. ASSUME NEW ch \in Channels
        PROVE  /\ DOMAIN info'[ch] = Kept(ch, S)
               /\ \A s \in Kept(ch, S) : info'[ch][s] = info[ch][s]
               /\ dep_to_all_stimulii'[ch] =
                      UNION {info[ch][s].deps \X {s} : s \in Kept(ch, S)}
               /\ DOMAIN classes'[ch] = {c \in DOMAIN classes[ch] :
                                         \E s \in Kept(ch, S) : info[ch][s].root = c}
               /\ \A c \in DOMAIN classes'[ch] :
                    /\ classes'[ch][c].tree_ordinal = classes[ch][c].tree_ordinal
                    /\ classes'[ch][c].ref_count =
                           Cardinality({s \in Kept(ch, S) : info[ch][s].root = c})
                    /\ classes'[ch][c].ref_count > 0
                    /\ classes'[ch][c] \in [tree_ordinal : Ordinals, ref_count : Nat]
               /\ ordinals_to_tear_down'[ch] = ordinals_to_tear_down[ch] \cup
                     {classes[ch][c].tree_ordinal :
                         c \in DOMAIN classes[ch] \ DOMAIN classes'[ch]}
    <2>1. info'[ch] = d(ch).info /\ dep_to_all_stimulii'[ch] = d(ch).deps
          /\ classes'[ch] = d(ch).classes /\ ordinals_to_tear_down'[ch] = d(ch).tear
      BY <1>1
    <2>2. DropsRight(ch, S, d(ch))
      BY DropStimulus DEF d
    <2>3. QED BY <2>1, <2>2 DEF DropsRight
  <1>3. ASSUME NEW ch \in Channels PROVE MapsAgree(ch)'
    <2>1. \A s \in Kept(ch, S) : s \in DOMAIN info[ch] /\ info[ch][s].root \in DOMAIN classes[ch]
      BY DEF Kept, MapsAgree
    <2>2. dep_to_all_stimulii'[ch] =
              UNION {info'[ch][s].deps \X {s} : s \in DOMAIN info'[ch]}
      BY <1>2
    <2>3. \A c : {s \in DOMAIN info'[ch] : info'[ch][s].root = c} =
                 {s \in Kept(ch, S) : info[ch][s].root = c}
      BY <1>2
    <2>4. \A s \in DOMAIN info'[ch] : info'[ch][s].root \in DOMAIN classes'[ch]
      BY <1>2, <2>1
    <2>5. ASSUME NEW c \in DOMAIN classes'[ch]
          PROVE  /\ classes'[ch][c].ref_count > 0
                 /\ classes'[ch][c].ref_count =
                      Cardinality({s \in DOMAIN info'[ch] : info'[ch][s].root = c})
      <3> DEFINE kept == {s \in Kept(ch, S) : info[ch][s].root = c}
                 has == {s \in DOMAIN info'[ch] : info'[ch][s].root = c}
      <3>1. has = kept
        BY <2>3
      <3>2. classes'[ch][c].ref_count = Cardinality(kept) /\ classes'[ch][c].ref_count > 0
        BY <1>2
      <3> HIDE DEF kept, has
      <3>3. classes'[ch][c].ref_count = Cardinality(has) /\ classes'[ch][c].ref_count > 0
        BY <3>1, <3>2
      <3>4. QED BY <3>3 DEF has
    <2>6. QED BY <2>2, <2>4, <2>5 DEF MapsAgree
  <1>4. ASSUME NEW ch \in Channels
        PROVE  /\ dep_to_all_stimulii'[ch] \subseteq Links \X Links
               /\ ordinals_to_tear_down'[ch] \subseteq Ordinals
    <2>1. \A s \in DOMAIN info[ch] : s \in Links /\ info[ch][s].deps \subseteq Links
      BY DEF ChannelsTypeOK
    <2>2. \A c \in DOMAIN classes[ch] : classes[ch][c].tree_ordinal \in Ordinals
      BY DEF ChannelsTypeOK
    <2>3. ordinals_to_tear_down[ch] \subseteq Ordinals
      BY DEF ChannelsTypeOK
    <2>4. QED BY <1>2, <2>1, <2>2, <2>3 DEF Kept
  <1>5. QED BY <1>1, <1>2, <1>3, <1>4

-----------------------------------------------------------------------------
(* Queues of ordinals.                                                     *)

LEMMA HeadAndTail ==
    ASSUME NEW A, NEW q \in Seq(A), q # <<>>, IsInjective(q)
    PROVE  /\ Head(q) \in ToSet(q)
           /\ Tail(q) \in Seq(A)
           /\ ToSet(Tail(q)) \subseteq ToSet(q) \ {Head(q)}
           /\ IsInjective(Tail(q))
  <1>1. Head(q) = q[1] /\ 1 \in DOMAIN q
    OBVIOUS
  <1>2. Tail(q) \in Seq(A) /\ DOMAIN Tail(q) = 1..(Len(q) - 1)
    OBVIOUS
  <1>3. \A i \in DOMAIN Tail(q) : Tail(q)[i] = q[i + 1] /\ i + 1 \in DOMAIN q /\ i + 1 # 1
    OBVIOUS
  <1>4. IsInjective(Tail(q))
    <2>1. ASSUME NEW i \in DOMAIN Tail(q), NEW j \in DOMAIN Tail(q), Tail(q)[i] = Tail(q)[j]
          PROVE  i = j
      <3>1. i + 1 = j + 1
        BY <2>1, <1>3 DEF IsInjective
      <3>2. QED BY <3>1, <1>2
    <2>2. QED BY <2>1 DEF IsInjective
  <1>5. ToSet(Tail(q)) \subseteq ToSet(q) \ {Head(q)}
    BY <1>1, <1>3 DEF ToSet, IsInjective
  <1>6. QED BY <1>1, <1>2, <1>4, <1>5 DEF ToSet

LEMMA TwoQueues ==
    ASSUME NEW A, NEW q \in Seq(A), NEW r \in Seq(A)
    PROVE  /\ q \o r \in Seq(A)
           /\ ToSet(q \o r) = ToSet(q) \cup ToSet(r)
           /\ IsInjective(q) /\ IsInjective(r) /\ ToSet(q) \cap ToSet(r) = {}
                  => IsInjective(q \o r)
  <1> DEFINE s == q \o r
  <1>1. /\ s \in Seq(A) /\ DOMAIN s = 1..(Len(q) + Len(r))
        /\ DOMAIN q = 1..Len(q) /\ DOMAIN r = 1..Len(r)
        /\ Len(q) \in Nat /\ Len(r) \in Nat
    OBVIOUS
  <1>2. /\ \A i \in DOMAIN q : s[i] = q[i] /\ i \in DOMAIN s
        /\ \A i \in DOMAIN r : s[Len(q) + i] = r[i] /\ Len(q) + i \in DOMAIN s
        /\ \A i \in DOMAIN s : \/ i \in DOMAIN q /\ s[i] = q[i]
                               \/ i - Len(q) \in DOMAIN r /\ s[i] = r[i - Len(q)]
                                  /\ i \notin DOMAIN q
    BY <1>1
  <1> HIDE DEF s
  <1>3. ToSet(s) = ToSet(q) \cup ToSet(r)
    BY <1>2 DEF ToSet
  <1>4. ASSUME IsInjective(q), IsInjective(r), ToSet(q) \cap ToSet(r) = {}
        PROVE  IsInjective(s)
    <2>1. ASSUME NEW i \in DOMAIN s, NEW j \in DOMAIN s, s[i] = s[j]
          PROVE  i = j
      <3>1. CASE i \in DOMAIN q /\ j \in DOMAIN q
        BY <3>1, <2>1, <1>2, <1>4 DEF IsInjective
      <3>2. CASE i \notin DOMAIN q /\ j \notin DOMAIN q
        <4>1. i - Len(q) = j - Len(q)
          BY <3>2, <2>1, <1>2, <1>4 DEF IsInjective
        <4>2. QED BY <4>1, <1>1
      <3>3. CASE i \in DOMAIN q /\ j \notin DOMAIN q
        <4>1. s[i] \in ToSet(q) /\ s[j] \in ToSet(r)
          BY <3>3, <1>2 DEF ToSet
        <4>2. QED BY <4>1, <2>1, <1>4
      <3>4. CASE i \notin DOMAIN q /\ j \in DOMAIN q
        <4>1. s[i] \in ToSet(r) /\ s[j] \in ToSet(q)
          BY <3>4, <1>2 DEF ToSet
        <4>2. QED BY <4>1, <2>1, <1>4
      <3>5. QED BY <3>1, <3>2, <3>3, <3>4
    <2>2. QED BY <2>1 DEF IsInjective
  <1>5. QED BY <1>1, <1>3, <1>4 DEF s

LEMMA OneMore ==
    ASSUME NEW A, NEW a \in A
    PROVE  <<a>> \in Seq(A) /\ ToSet(<<a>>) = {a} /\ IsInjective(<<a>>)
  BY DEF ToSet, IsInjective

-----------------------------------------------------------------------------
(* Building and freeing trees.                                             *)

(* The tree ord of the given type has been built on the links at. *)
Built(ord, type, at) ==
    /\ ord \in Ordinals \ Trees
    /\ Trees' = Trees \cup {ord}
    /\ trees_by_ordinal'[ord] = type
    /\ \A o \in Trees : trees_by_ordinal'[o] = trees_by_ordinal[o]
    /\ at \subseteq Freed
    /\ \A x \in Links : owner'[x] = IF x \in at THEN ord ELSE owner[x]
    /\ \A x \in Links \ at : node'[x] = node[x]
    /\ Deferred' = Deferred
    /\ ord \notin Deferred

LEMMA BuildFacts ==
    ASSUME StoreTypeOK, OrdinalsKept,
           NEW type \in TreeTypes, NEW kinds \in Seq(Kinds),
           NEW at \in Places(Len(kinds)), BuildTree(type, kinds, at)
    PROVE  /\ OrdinalsKept'
           /\ StoreTypeOK'
           /\ \E ord \in Ordinals : Built(ord, type, Range(at))
           /\ \A x \in Range(at) : node'[x] \in Range(kinds)
  <1>0. StoreTypeOK!1 /\ StoreTypeOK!2 /\ StoreTypeOK!3 /\ StoreTypeOK!4
        /\ StoreTypeOK!5 /\ StoreTypeOK!6 /\ StoreTypeOK!7
    BY DEF StoreTypeOK
  <1>1. PICK ord \in Ordinals :
        /\ Allocated(ord, free_tree_ordinals', next_tree_ordinal')
        /\ owner' = [x \in Links |-> IF x \in Range(at) THEN ord ELSE owner[x]]
        /\ node' = [x \in Links |->
                        IF x \in Range(at) THEN kinds[CHOOSE i \in DOMAIN at : at[i] = x]
                                           ELSE node[x]]
        /\ trees_by_ordinal' =
               [o \in Trees \cup {ord} |-> IF o = ord THEN type ELSE trees_by_ordinal[o]]
    BY DEF BuildTree, Ordinals
  <1>2. deferred_tree_ordinals' = deferred_tree_ordinals
    BY DEF BuildTree
  <1>3. ord \in Ordinals /\ ord \in Nat
    BY LinksAssumption, FS_CardinalityType DEF Ordinals
  <1>4. Range(at) \subseteq Freed /\ DOMAIN at = DOMAIN kinds
    BY DEF Places, Range
  <1>5. \A x \in Range(at) : node'[x] \in Range(kinds)
    <2>1. ASSUME NEW x \in Range(at) PROVE node'[x] \in Range(kinds)
      <3>1. \E i \in DOMAIN at : at[i] = x
        BY DEF Range
      <3>2. (CHOOSE i \in DOMAIN at : at[i] = x) \in DOMAIN kinds
        BY <3>1, <1>4
      <3>3. x \in Links
        BY <1>4 DEF Freed
      <3>4. QED BY <3>2, <3>3, <1>1 DEF Range
    <2>2. QED BY <2>1
  <1>6. /\ ord \notin Trees
        /\ next_tree_ordinal' \in Nat /\ ord < next_tree_ordinal'
        /\ \A o \in Trees \cup ToSet(free_tree_ordinals') : o < next_tree_ordinal'
        /\ free_tree_ordinals' \in Seq(Ordinals)
        /\ (Trees \cup {ord}) \cap ToSet(free_tree_ordinals') = {}
        /\ IsInjective(free_tree_ordinals')
    <2>0. /\ \A o \in Trees \cup ToSet(free_tree_ordinals) : o < next_tree_ordinal /\ o \in Nat
          /\ next_tree_ordinal \in Nat
      <3>1. \A o \in Ordinals : o \in Nat
        BY LinksAssumption, FS_CardinalityType DEF Ordinals
      <3>2. ToSet(free_tree_ordinals) \subseteq Ordinals
        BY <1>0 DEF ToSet
      <3>3. QED BY <3>1, <3>2, <1>0 DEF OrdinalsKept
    <2>1. CASE free_tree_ordinals = <<>>
      <3>1. ord = next_tree_ordinal /\ free_tree_ordinals' = <<>> /\ next_tree_ordinal' = ord + 1
        BY <1>1, <2>1 DEF Allocated
      <3>2. ToSet(<<>>) = {} /\ IsInjective(<<>>) /\ <<>> \in Seq(Ordinals)
        BY DEF ToSet, IsInjective
      <3>3. ord + 1 \in Nat /\ ord < ord + 1 /\ ord \notin Trees
            /\ \A o \in Trees : o < ord + 1
        BY <3>1, <2>0, <1>3
      <3>4. QED BY <3>1, <3>2, <3>3
    <2>2. CASE free_tree_ordinals # <<>>
      <3>1. /\ ord = Head(free_tree_ordinals)
            /\ free_tree_ordinals' = Tail(free_tree_ordinals)
            /\ next_tree_ordinal' = next_tree_ordinal
        BY <1>1, <2>2 DEF Allocated
      <3>2. Trees \cap ToSet(free_tree_ordinals) = {} /\ IsInjective(free_tree_ordinals)
        BY DEF OrdinalsKept
      <3>3. /\ Head(free_tree_ordinals) \in ToSet(free_tree_ordinals)
            /\ Tail(free_tree_ordinals) \in Seq(Ordinals)
            /\ ToSet(Tail(free_tree_ordinals)) \subseteq
                   ToSet(free_tree_ordinals) \ {Head(free_tree_ordinals)}
            /\ IsInjective(Tail(free_tree_ordinals))
        BY <3>2, <1>0, <2>2, HeadAndTail
      <3>4. QED BY <3>1, <3>2, <3>3, <2>0
    <2>3. QED BY <2>1, <2>2
  <1>7. Deferred' = Deferred /\ ord \notin Deferred
    BY <1>2, <1>6 DEF Deferred, OrdinalsKept
  <1>8. Built(ord, type, Range(at))
    BY <1>1, <1>3, <1>4, <1>6, <1>7 DEF Built, Trees
  <1>9. OrdinalsKept'
    <2>1. Trees' = Trees \cup {ord} /\ \A o \in Trees : trees_by_ordinal'[o] = trees_by_ordinal[o]
      BY <1>8 DEF Built
    <2>2. ToSet(free_tree_ordinals)' = ToSet(free_tree_ordinals')
      BY DEF ToSet
    <2>3. /\ \A o \in Trees' \cup ToSet(free_tree_ordinals)' : o < next_tree_ordinal'
          /\ Trees' \cap ToSet(free_tree_ordinals)' = {}
      BY <2>1, <2>2, <1>6
    <2>4. \A o \in Deferred' : o \in Trees' /\ trees_by_ordinal'[o] = "UPDATE"
      BY <2>1, <1>7 DEF OrdinalsKept
    <2>5. \A x \in Links : owner'[x] # NoTree => owner'[x] \in Trees'
      BY <2>1, <1>1 DEF OrdinalsKept
    <2>6. QED BY <2>3, <2>4, <2>5, <1>2, <1>6 DEF OrdinalsKept
  <1>10. owner' \in [Links -> Ordinals \cup {NoTree}]
    BY <1>0, <1>1, <1>3
  <1>11. node' \in [Links -> Kinds]
    <2>1. Range(kinds) \subseteq Kinds
      BY DEF Range
    <2>2. QED BY <1>0, <1>1, <1>5, <2>1
  <1>12. Trees' \subseteq Ordinals
    BY <1>8, <1>0 DEF Built
  <1>13. \E o \in Ordinals : Built(o, type, Range(at))
    BY <1>3, <1>8
  <1>14. \A o \in Trees' : trees_by_ordinal'[o] \in TreeTypes
    BY <1>8, <1>0 DEF Built
  <1>15. StoreTypeOK'
    BY <1>2, <1>0, <1>6, <1>10, <1>11, <1>12, <1>14 DEF StoreTypeOK
  <1>16. QED BY <1>5, <1>9, <1>13, <1>15

LEMMA FreeFacts ==
    ASSUME StoreTypeOK, OrdinalsKept, NEW ords \in Seq(Trees), IsInjective(ords),
           FreeTrees(ords),
           deferred_tree_ordinals' \in Seq(Ordinals), IsInjective(deferred_tree_ordinals'),
           Deferred' \subseteq Deferred \ ToSet(ords)
    PROVE  /\ OrdinalsKept'
           /\ StoreTypeOK'
           /\ Trees' = Trees \ ToSet(ords)
           /\ \A o \in Trees' : trees_by_ordinal'[o] = trees_by_ordinal[o]
           /\ \A x \in Links : /\ owner[x] \in ToSet(ords) => owner'[x] = NoTree
                               /\ owner[x] \notin ToSet(ords) =>
                                    owner'[x] = owner[x] /\ node'[x] = node[x]
  <1>0. StoreTypeOK!1 /\ StoreTypeOK!2 /\ StoreTypeOK!3 /\ StoreTypeOK!4
        /\ StoreTypeOK!5 /\ StoreTypeOK!6 /\ StoreTypeOK!7
    BY DEF StoreTypeOK
  <1>1. /\ trees_by_ordinal' = [o \in Trees \ ToSet(ords) |-> trees_by_ordinal[o]]
        /\ free_tree_ordinals' = free_tree_ordinals \o ords
        /\ owner' = [x \in Links |-> IF owner[x] \in ToSet(ords) THEN NoTree ELSE owner[x]]
        /\ node' = [x \in Links |-> IF owner[x] \in ToSet(ords) THEN Scaffold ELSE node[x]]
        /\ next_tree_ordinal' = next_tree_ordinal
    BY DEF FreeTrees
  <1>2. Trees' = Trees \ ToSet(ords) /\ \A o \in Trees' : trees_by_ordinal'[o] = trees_by_ordinal[o]
    BY <1>1 DEF Trees
  <1>3. ToSet(ords) \subseteq Trees /\ ords \in Seq(Ordinals)
    BY <1>0 DEF ToSet
  <1>4. /\ free_tree_ordinals' \in Seq(Ordinals)
        /\ ToSet(free_tree_ordinals') = ToSet(free_tree_ordinals) \cup ToSet(ords)
        /\ IsInjective(free_tree_ordinals')
    <2>1. ToSet(free_tree_ordinals) \cap ToSet(ords) = {} /\ IsInjective(free_tree_ordinals)
      BY <1>3 DEF OrdinalsKept
    <2>2. QED BY <2>1, <1>0, <1>1, <1>3, TwoQueues
  <1>5. OrdinalsKept'
    <2>1. ToSet(free_tree_ordinals)' = ToSet(free_tree_ordinals')
      BY DEF ToSet
    <2>2. /\ \A o \in Trees' \cup ToSet(free_tree_ordinals)' : o < next_tree_ordinal'
          /\ Trees' \cap ToSet(free_tree_ordinals)' = {}
      BY <2>1, <1>1, <1>2, <1>3, <1>4 DEF OrdinalsKept
    <2>3. \A o \in Deferred' : o \in Trees' /\ trees_by_ordinal'[o] = "UPDATE"
      BY <1>2 DEF OrdinalsKept
    <2>4. \A x \in Links : owner'[x] # NoTree => owner'[x] \in Trees'
      BY <1>1, <1>2 DEF OrdinalsKept
    <2>5. QED BY <2>2, <2>3, <2>4, <1>4 DEF OrdinalsKept
  <1>6. node' \in [Links -> Kinds]
    BY <1>0, <1>1, KindsAssumption
  <1>7. StoreTypeOK'
    BY <1>0, <1>1, <1>2, <1>4, <1>6 DEF StoreTypeOK
  <1>8. QED BY <1>1, <1>2, <1>5, <1>7

-----------------------------------------------------------------------------
(* Steps that delete links from the channels.                              *)

(* The links of S are deleted, and those of more, which are among them or  *)
(* were place-holders, are inserted again.                                 *)
Reinserts(S, more) ==
    /\ DeleteAction(S)
    /\ stimulii_to_recheck' = [ch \in Channels |-> RecheckAfter(ch, S) \cup more]

LEMMA ReinsertKeepsMaps ==
    ASSUME DatabaseInvariant, NEW S \in SUBSET Links, NEW more \in SUBSET Links,
           Reinserts(S, more), pc.at # "check", pc'.at # "check",
           \A ch \in Channels : more \cap DOMAIN info[ch] \subseteq S
    PROVE  ChannelsTypeOK' /\ WaitingUnknown' /\ MapsInSynch'
  <1>0. ChannelsTypeOK /\ (\A ch \in Channels : MapsAgree(ch)) /\ WaitingUnknown
    BY DEF DatabaseInvariant, StoreInvariant, TypeOK, MapsInSynch
  <1>1. DeleteAction(S)
    BY DEF Reinserts
  <1>2. /\ DOMAIN info' = Channels
        /\ DOMAIN classes' = Channels
        /\ dep_to_all_stimulii' \in [Channels -> SUBSET (Links \X Links)]
        /\ ordinals_to_tear_down' \in [Channels -> SUBSET Ordinals]
        /\ \A ch \in Channels :
             /\ DOMAIN info'[ch] = Kept(ch, S)
             /\ \A s \in Kept(ch, S) : info'[ch][s] = info[ch][s]
             /\ MapsAgree(ch)'
             /\ DOMAIN classes'[ch] \subseteq DOMAIN classes[ch]
             /\ \A c \in DOMAIN classes'[ch] :
                  classes'[ch][c] \in [tree_ordinal : Ordinals, ref_count : Nat]
    BY <1>0, <1>1, DeleteFacts
  <1>3. ASSUME NEW ch \in Channels
        PROVE  /\ stimulii_to_recheck'[ch] \subseteq Links
               /\ stimulii_to_recheck'[ch] \cap Kept(ch, S) = {}
    <2>1. stimulii_to_recheck'[ch] = RecheckAfter(ch, S) \cup more
      BY DEF Reinserts
    <2>2. DroppedWith(ch, S) = DOMAIN info[ch] \ Kept(ch, S) /\ DOMAIN info[ch] \subseteq Links
      BY <1>0, DroppedOrKept DEF ChannelsTypeOK
    <2>3. stimulii_to_recheck[ch] \subseteq Links
      BY <1>0 DEF ChannelsTypeOK
    <2>4. stimulii_to_recheck[ch] \cap DOMAIN info[ch] = {}
      BY <1>0 DEF WaitingUnknown, Waiting
    <2>5. Kept(ch, S) \subseteq DOMAIN info[ch] \ S
      BY DEF Kept
    <2>6. QED BY <2>1, <2>2, <2>3, <2>4, <2>5 DEF RecheckAfter
  <1>4. stimulii_to_recheck' \in [Channels -> SUBSET Links]
    BY <1>3 DEF Reinserts
  <1>5. ASSUME NEW ch \in Channels
        PROVE  /\ DOMAIN info'[ch] \subseteq Links
               /\ \A s \in DOMAIN info'[ch] :
                      info'[ch][s] \in [root : Classes, deps : SUBSET Links]
               /\ DOMAIN classes'[ch] \subseteq Classes
    BY <1>0, <1>2 DEF ChannelsTypeOK, Kept
  <1>6. ChannelsTypeOK'
    BY <1>2, <1>4, <1>5 DEF ChannelsTypeOK
  <1>7. WaitingUnknown'
    BY <1>2, <1>3 DEF WaitingUnknown, Waiting
  <1>8. MapsInSynch'
    BY <1>2, <1>3 DEF MapsInSynch
  <1>9. QED BY <1>6, <1>7, <1>8

(* Every link a channel still holds is in the tables, and no place-holder. *)
HoldsTracked ==
    \A ch \in Channels :
        /\ DOMAIN info[ch] \subseteq Tracked(Live, node)
        /\ stimulii_to_recheck[ch] \subseteq Tracked(Live, node)
        /\ \A s \in DOMAIN info[ch] : info[ch][s].deps \subseteq Tracked(Live, node)

LEMMA ReinsertKeepsTracked ==
    ASSUME DatabaseInvariant, NEW S \in SUBSET Links, NEW more \in SUBSET Links,
           Reinserts(S, more),
           Tracked(Live, node) \ S \subseteq Tracked(Live, node)',
           more \subseteq Tracked(Live, node)'
    PROVE  HoldsTracked'
  <1>0. ChannelsTypeOK /\ (\A ch \in Channels : MapsAgree(ch)) /\ HoldsTracked
    BY DEF DatabaseInvariant, StoreInvariant, TypeOK, MapsInSynch, ScaffoldUntracked, HoldsTracked
  <1> DEFINE T == Tracked(Live, node)
  <1>1. ASSUME NEW ch \in Channels
        PROVE  /\ DOMAIN info'[ch] = Kept(ch, S)
               /\ \A s \in Kept(ch, S) : info'[ch][s] = info[ch][s]
    BY <1>0, DeleteFacts DEF Reinserts
  <1>2. ASSUME NEW ch \in Channels
        PROVE  /\ DOMAIN info'[ch] \subseteq T'
               /\ stimulii_to_recheck'[ch] \subseteq T'
               /\ \A s \in DOMAIN info'[ch] : info'[ch][s].deps \subseteq T'
    <2>1. stimulii_to_recheck'[ch] = RecheckAfter(ch, S) \cup more
      BY DEF Reinserts
    <2>2. DroppedWith(ch, S) = DOMAIN info[ch] \ Kept(ch, S)
      BY <1>0, DroppedOrKept DEF ChannelsTypeOK
    <2>3. /\ DOMAIN info[ch] \subseteq T /\ stimulii_to_recheck[ch] \subseteq T
          /\ \A s \in DOMAIN info[ch] : info[ch][s].deps \subseteq T
      BY <1>0 DEF HoldsTracked
    <2>4. /\ Kept(ch, S) \subseteq DOMAIN info[ch] \ S
          /\ \A s \in Kept(ch, S) : info[ch][s].deps \cap S = {}
      BY DEF Kept
    <2> HIDE DEF T
    <2>5. T \ S \subseteq T' /\ more \subseteq T'
      BY DEF T
    <2>6. stimulii_to_recheck'[ch] \subseteq T'
      BY <2>1, <2>2, <2>3, <2>5 DEF RecheckAfter
    <2>7. QED BY <1>1, <2>3, <2>4, <2>5, <2>6
  <1>3. QED BY <1>2 DEF HoldsTracked

(* Ownership of trees when stimulii are dropped: a tree goes from its      *)
(* class to the list of the same channel, unless it is the one torn down.  *)
LEMMA DropKeepsOwners ==
    ASSUME DatabaseInvariant, NEW S, DeleteAction(S),
           \A ch \in Channels : Pending(ch)' \subseteq Pending(ch) \cup
               {classes[ch][c].tree_ordinal : c \in DOMAIN classes[ch] \ DOMAIN classes'[ch]}
    PROVE  OwnersApart' /\ \A ch \in Channels : Owned(ch)' \subseteq Owned(ch)
  <1>0. ChannelsTypeOK /\ (\A ch \in Channels : MapsAgree(ch)) /\ OwnersApart
    BY DEF DatabaseInvariant, StoreInvariant, TypeOK, MapsInSynch
  <1>1. \A ch \in Channels :
          /\ DOMAIN classes'[ch] \subseteq DOMAIN classes[ch]
          /\ \A c \in DOMAIN classes'[ch] :
               classes'[ch][c].tree_ordinal = classes[ch][c].tree_ordinal
    BY <1>0, DeleteFacts
  <1>2. \A ch \in Channels : Owned(ch)' \subseteq Owned(ch)
    BY <1>1 DEF Owned
  <1>3. ASSUME NEW ch1 \in Channels, NEW ch2 \in Channels
        PROVE /\ \A c1 \in DOMAIN classes'[ch1], c2 \in DOMAIN classes'[ch2] :
                    classes'[ch1][c1].tree_ordinal = classes'[ch2][c2].tree_ordinal
                       => ch1 = ch2 /\ c1 = c2
              /\ \A c1 \in DOMAIN classes'[ch1] :
                    classes'[ch1][c1].tree_ordinal \notin Pending(ch2)'
              /\ ch1 # ch2 => Pending(ch1)' \cap Pending(ch2)' = {}
    <2>1. OwnersApart!(ch1, ch2)
      BY <1>0 DEF OwnersApart
    <2>2. \A c1 \in DOMAIN classes[ch1], c2 \in DOMAIN classes[ch2] :
                    classes[ch1][c1].tree_ordinal = classes[ch2][c2].tree_ordinal
                       => ch1 = ch2 /\ c1 = c2
      BY <2>1
    <2>3. \A c1 \in DOMAIN classes[ch1] : classes[ch1][c1].tree_ordinal \notin Pending(ch2)
      BY <2>1
    <2>4. \A c2 \in DOMAIN classes[ch2] : classes[ch2][c2].tree_ordinal \notin Pending(ch1)
      BY <1>0 DEF OwnersApart
    <2>5. ch1 # ch2 => Pending(ch1) \cap Pending(ch2) = {}
      BY <2>1
    <2>6. /\ Pending(ch1)' \subseteq Pending(ch1) \cup
               {classes[ch1][c].tree_ordinal : c \in DOMAIN classes[ch1] \ DOMAIN classes'[ch1]}
          /\ Pending(ch2)' \subseteq Pending(ch2) \cup
               {classes[ch2][c].tree_ordinal : c \in DOMAIN classes[ch2] \ DOMAIN classes'[ch2]}
      OBVIOUS
    <2>7. QED BY <1>1, <2>2, <2>3, <2>4, <2>5, <2>6
  <1>4. QED BY <1>2, <1>3 DEF OwnersApart

-----------------------------------------------------------------------------
(* Teardown.                                                               *)

(* The tree ord has left the tables, and nothing else has changed there. *)
Gone(ord) ==
    /\ Live' = Live \ LinksOf(ord)
    /\ \A x \in Live' : node'[x] = node[x] /\ owner'[x] = owner[x]
    /\ \A o : LinksOf(o)' \subseteq LinksOf(o) \/ o = NoTree
    /\ \A t : LiveTrees(t)' = LiveTrees(t) \ {ord}

LEMMA FreedIsGone ==
    ASSUME DatabaseInvariant, NEW ord \in Trees \ Deferred, FreeTrees(<<ord>>),
           UNCHANGED deferred_tree_ordinals
    PROVE  StoreTypeOK' /\ OrdinalsKept' /\ Gone(ord)
  <1>0. StoreTypeOK /\ OrdinalsKept
    BY DEF DatabaseInvariant, StoreInvariant, TypeOK
  <1>1. <<ord>> \in Seq(Trees) /\ ToSet(<<ord>>) = {ord} /\ IsInjective(<<ord>>)
    BY OneMore
  <1>2. Deferred' = Deferred /\ ord \notin Deferred
        /\ deferred_tree_ordinals' \in Seq(Ordinals) /\ IsInjective(deferred_tree_ordinals')
    BY <1>0 DEF Deferred, StoreTypeOK, OrdinalsKept
  <1>3. /\ OrdinalsKept'
        /\ StoreTypeOK'
        /\ Trees' = Trees \ {ord}
        /\ \A o \in Trees' : trees_by_ordinal'[o] = trees_by_ordinal[o]
        /\ \A x \in Links : /\ owner[x] = ord => owner'[x] = NoTree
                            /\ owner[x] # ord => owner'[x] = owner[x] /\ node'[x] = node[x]
    BY <1>0, <1>1, <1>2, FreeFacts
  <1>4. ord # NoTree
    <2>1. ord \in Nat
      BY <1>0, LinksAssumption, FS_CardinalityType DEF StoreTypeOK, Ordinals
    <2>2. QED BY <2>1 DEF NoTree
  <1>5. Live' = Live \ LinksOf(ord)
    BY <1>2, <1>3, <1>4 DEF Live, LinksOf
  <1>6. \A x \in Live' : node'[x] = node[x] /\ owner'[x] = owner[x]
    BY <1>3, <1>5 DEF Live, LinksOf
  <1>7. \A o : LinksOf(o)' \subseteq LinksOf(o) \/ o = NoTree
    BY <1>3 DEF LinksOf
  <1>8. \A t : LiveTrees(t)' = LiveTrees(t) \ {ord}
    BY <1>2, <1>3 DEF LiveTrees
  <1>9. QED BY <1>3, <1>5, <1>6, <1>7, <1>8 DEF Gone

LEMMA DeferredIsGone ==
    ASSUME DatabaseInvariant, NEW ord \in LiveTrees("UPDATE"),
           deferred_tree_ordinals' = Append(deferred_tree_ordinals, ord),
           UNCHANGED <<owner, node, trees_by_ordinal, next_tree_ordinal, free_tree_ordinals>>
    PROVE  StoreTypeOK' /\ OrdinalsKept' /\ Gone(ord)
  <1>0. StoreTypeOK /\ OrdinalsKept
    BY DEF DatabaseInvariant, StoreInvariant, TypeOK
  <1>1. ord \in Trees \ Deferred /\ ord \in Ordinals /\ trees_by_ordinal[ord] = "UPDATE"
    BY <1>0 DEF LiveTrees, StoreTypeOK
  <1>2. /\ deferred_tree_ordinals' \in Seq(Ordinals)
        /\ Deferred' = Deferred \cup {ord}
        /\ IsInjective(deferred_tree_ordinals')
    <2>1. deferred_tree_ordinals \in Seq(Ordinals) /\ IsInjective(deferred_tree_ordinals)
      BY <1>0 DEF StoreTypeOK, OrdinalsKept
    <2> DEFINE one == <<ord>>
               q == deferred_tree_ordinals \o one
    <2>2. one \in Seq(Ordinals) /\ ToSet(one) = {ord} /\ IsInjective(one)
      BY <1>1, OneMore
    <2>3. deferred_tree_ordinals' = q
      BY <2>1
    <2> HIDE DEF one
    <2>4. Deferred = ToSet(deferred_tree_ordinals) /\ Deferred' = ToSet(deferred_tree_ordinals')
      BY DEF Deferred, ToSet
    <2>5. ToSet(deferred_tree_ordinals) \cap ToSet(one) = {}
      BY <2>2, <2>4, <1>1
    <2>6. /\ q \in Seq(Ordinals) /\ IsInjective(q)
          /\ ToSet(q) = ToSet(deferred_tree_ordinals) \cup ToSet(one)
      BY <2>1, <2>2, <2>5, TwoQueues
    <2> HIDE DEF q
    <2>7. QED BY <2>2, <2>3, <2>4, <2>6
  <1>3. Trees' = Trees
    BY DEF Trees
  <1>4. OrdinalsKept'
    <2>1. ToSet(free_tree_ordinals)' = ToSet(free_tree_ordinals)
      BY DEF ToSet
    <2>2. QED BY <1>0, <1>1, <1>2, <1>3, <2>1 DEF OrdinalsKept
  <1>5. StoreTypeOK'
    BY <1>0, <1>2, <1>3 DEF StoreTypeOK
  <1>6. Gone(ord)
    BY <1>1, <1>2, <1>3 DEF Gone, Live, LinksOf, LiveTrees
  <1>7. QED BY <1>4, <1>5, <1>6

(* A tree that no class owns can be torn down. *)
LEMMA TeardownKeeps ==
    ASSUME DatabaseInvariant, NEW ord \in Trees \ Deferred,
           trees_by_ordinal[ord] # "MAIN",
           StoreTypeOK', OrdinalsKept', Gone(ord), TeardownTree(ord),
           pc.at # "check", pc' \in Phases, pc'.at = pc.at, UNCHANGED built,
           \A ch \in Channels : \A c \in DOMAIN classes[ch] :
               classes[ch][c].tree_ordinal # ord,
           \A ch \in Channels : Pending(ch)' \subseteq (Pending(ch) \ {ord}) \cup
               {classes[ch][c].tree_ordinal : c \in DOMAIN classes[ch] \ DOMAIN classes'[ch]}
    PROVE  DatabaseInvariant'
  <1> DEFINE S == Tracked(LinksOf(ord), node)
  <1>0. TypeOK /\ ScaffoldUntracked /\ NothingDangles /\ OrdinalsKept /\ MainTreeStays
    BY DEF DatabaseInvariant, StoreInvariant
  <1>1. Reinserts(S, {}) /\ S \in SUBSET Links
    <2>1. S \in SUBSET Links
      BY DEF LinksOf, Tracked
    <2>2. DeleteAction(S) /\ stimulii_to_recheck' = [ch \in Channels |-> RecheckAfter(ch, S)]
      BY DEF TeardownTree
    <2>3. QED BY <2>1, <2>2 DEF Reinserts
  <1>2. ord # NoTree
    <2>1. ord \in Nat
      BY <1>0, LinksAssumption, FS_CardinalityType DEF TypeOK, StoreTypeOK, Ordinals
    <2>2. QED BY <2>1 DEF NoTree
  <1>3. Live' = Live \ LinksOf(ord) /\ \A x \in Live' : node'[x] = node[x]
    BY DEF Gone
  <1>4. HoldsTracked'
    <2>1. Tracked(Live, node) \ S \subseteq Tracked(Live, node)'
      BY <1>3 DEF Tracked
    <2>2. QED BY <1>1, <2>1, ReinsertKeepsTracked
  <1>5. ChannelsTypeOK' /\ WaitingUnknown' /\ MapsInSynch'
    BY <1>1, ReinsertKeepsMaps
  <1>6. OwnersApart' /\ \A ch \in Channels : Owned(ch)' \subseteq Owned(ch)
    BY <1>1, DropKeepsOwners DEF Reinserts
  <1>7. ASSUME NEW ch \in Channels PROVE ord \notin Owned(ch)'
    <2>1. /\ DOMAIN classes'[ch] \subseteq DOMAIN classes[ch]
          /\ \A c \in DOMAIN classes'[ch] :
               classes'[ch][c].tree_ordinal = classes[ch][c].tree_ordinal
      BY <1>1, DeleteFacts DEF Reinserts, DatabaseInvariant, StoreInvariant, MapsInSynch, TypeOK
    <2>2. QED BY <2>1 DEF Owned
  <1>8. LiveTrees("DOMAIN_EXTENSION")' = LiveTrees("DOMAIN_EXTENSION") \ {ord}
        /\ LiveTrees("MAIN")' = LiveTrees("MAIN") \ {ord}
        /\ LiveTrees("UPDATE")' = LiveTrees("UPDATE") \ {ord}
    BY DEF Gone
  <1>9. NothingDangles'
    <2>1. \A ch \in Channels : Owned(ch) \subseteq LiveTrees("DOMAIN_EXTENSION")
      BY <1>0 DEF NothingDangles, Owned
    <2>2. \A ch \in Channels : Owned(ch)' \subseteq LiveTrees("DOMAIN_EXTENSION")'
      BY <2>1, <1>6, <1>7, <1>8
    <2>3. Tracked(Live, node)' \subseteq Live'
      BY DEF Tracked
    <2>4. QED BY <2>2, <2>3, <1>4 DEF NothingDangles, Owned, HoldsTracked
  <1>10. MainTreeStays'
    <2>1. LiveTrees("MAIN") # {} /\ ord \notin LiveTrees("MAIN")
      BY <1>0 DEF MainTreeStays, LiveTrees
    <2>2. QED BY <2>1, <1>8 DEF MainTreeStays
  <1>11. ScaffoldUntracked'
    <2>1. pc'.at # "update" => LiveTrees("UPDATE")' = {} /\ Live' = Tracked(Live, node)'
      BY <1>0, <1>3, <1>8 DEF ScaffoldUntracked, Tracked
    <2>2. ASSUME NEW o \in LiveTrees("DOMAIN_EXTENSION")'
          PROVE  LinksOf(o)' = Tracked(LinksOf(o), node)'
      <3>1. o \in LiveTrees("DOMAIN_EXTENSION") /\ o \in Trees' \ Deferred' /\ o # NoTree
        <4>1. o \in Trees' \ Deferred'
          BY DEF LiveTrees
        <4>2. o \in Nat
          BY <4>1, LinksAssumption, FS_CardinalityType DEF StoreTypeOK, Ordinals
        <4>3. QED BY <4>1, <4>2, <1>8 DEF NoTree
      <3>2. \A x \in LinksOf(o)' : x \in Live' /\ x \in LinksOf(o)
        BY <3>1 DEF LinksOf, Live, Gone
      <3>3. LinksOf(o) = Tracked(LinksOf(o), node)
        BY <3>1, <1>0 DEF ScaffoldUntracked
      <3>4. QED BY <3>2, <3>3, <1>3 DEF Tracked
    <2>3. QED BY <2>1, <2>2, <1>4 DEF ScaffoldUntracked, HoldsTracked
  <1>12. TypeOK'
    BY <1>0, <1>5 DEF TypeOK
  <1>13. QED BY <1>5, <1>6, <1>9, <1>10, <1>11, <1>12 DEF DatabaseInvariant, StoreInvariant

LEMMA UpdateTeardown ==
    ASSUME DatabaseInvariant, pc = Updating, NEW ord \in LiveTrees("UPDATE"),
           TeardownTree(ord), StoreTypeOK', OrdinalsKept', Gone(ord),
           UNCHANGED <<built, pc>>
    PROVE  DatabaseInvariant'
  <1>1. pc.at = "update" /\ pc \in Phases
    BY DEF Updating, DatabaseInvariant, StoreInvariant, TypeOK
  <1>2. ord \in Trees \ Deferred /\ trees_by_ordinal[ord] = "UPDATE"
    BY DEF LiveTrees
  <1>3. \A ch \in Channels : /\ ord \notin Pending(ch)
                             /\ \A c \in DOMAIN classes[ch] : classes[ch][c].tree_ordinal # ord
    BY <1>2 DEF DatabaseInvariant, StoreInvariant, NothingDangles, LiveTrees
  <1>4. ASSUME NEW ch \in Channels
        PROVE  Pending(ch)' \subseteq (Pending(ch) \ {ord}) \cup
               {classes[ch][c].tree_ordinal : c \in DOMAIN classes[ch] \ DOMAIN classes'[ch]}
    <2>1. ordinals_to_tear_down'[ch] = ordinals_to_tear_down[ch] \cup
               {classes[ch][c].tree_ordinal : c \in DOMAIN classes[ch] \ DOMAIN classes'[ch]}
      BY DeleteFacts DEF TeardownTree, DatabaseInvariant, StoreInvariant, MapsInSynch, TypeOK
    <2>2. Pending(ch)' = ordinals_to_tear_down'[ch] /\ Pending(ch) = ordinals_to_tear_down[ch]
      BY <1>1 DEF Pending
    <2>3. QED BY <1>3, <2>1, <2>2
  <1>5. QED BY <1>1, <1>2, <1>3, <1>4, TeardownKeeps

LEMMA TeardownOldContentStep ==
    ASSUME DatabaseInvariant, TeardownOldContent
    PROVE  DatabaseInvariant'
  <1>1. PICK ord \in LiveTrees("UPDATE") :
            /\ TeardownTree(ord)
            /\ deferred_tree_ordinals' = Append(deferred_tree_ordinals, ord)
    BY DEF TeardownOldContent
  <1>2. /\ pc = Updating
        /\ UNCHANGED <<owner, node, trees_by_ordinal, next_tree_ordinal, free_tree_ordinals>>
        /\ UNCHANGED <<built, pc>>
    BY DEF TeardownOldContent
  <1>3. StoreTypeOK' /\ OrdinalsKept' /\ Gone(ord)
    BY <1>1, <1>2, DeferredIsGone
  <1>4. QED BY <1>1, <1>2, <1>3, UpdateTeardown

LEMMA TeardownMovedStep ==
    ASSUME DatabaseInvariant, TeardownMoved
    PROVE  DatabaseInvariant'
  <1>1. PICK ord \in LiveTrees("UPDATE") : TeardownTree(ord) /\ FreeTrees(<<ord>>)
    BY DEF TeardownMoved
  <1>2. pc = Updating /\ UNCHANGED deferred_tree_ordinals /\ UNCHANGED <<built, pc>>
    BY DEF TeardownMoved
  <1>3. ord \in Trees \ Deferred
    BY DEF LiveTrees
  <1>4. StoreTypeOK' /\ OrdinalsKept' /\ Gone(ord)
    BY <1>1, <1>2, <1>3, FreedIsGone
  <1>5. QED BY <1>1, <1>2, <1>4, UpdateTeardown

LEMMA TeardownExtensionStep ==
    ASSUME DatabaseInvariant, TeardownExtension
    PROVE  DatabaseInvariant'
  <1> DEFINE ahead == Ahead(ordinals_to_tear_down[pc.ch], pc.cursor)
             ord == Min(ahead)
  <1>0. /\ pc.at = "step" /\ ahead # {} /\ pc' = EndingStep(pc.ch, ord)
        /\ TeardownTree(ord) /\ FreeTrees(<<ord>>)
        /\ UNCHANGED <<deferred_tree_ordinals, built>>
    BY DEF TeardownExtension
  <1>1. /\ pc \in Phases /\ pc.ch \in Channels
        /\ ordinals_to_tear_down[pc.ch] \subseteq Ordinals /\ Ordinals \subseteq Nat
    <2>1. pc \in Phases /\ pc.ch \in Channels
      BY DEF DatabaseInvariant, StoreInvariant, TypeOK, Phases
    <2>2. Ordinals \subseteq Nat
      BY LinksAssumption, FS_CardinalityType DEF Ordinals
    <2>3. QED BY <2>1, <2>2 DEF DatabaseInvariant, StoreInvariant, TypeOK, ChannelsTypeOK
  <1>2. ord \in ahead /\ ord \in Ordinals
    <2>1. ahead \in SUBSET Nat /\ ahead \subseteq Ordinals
      BY <1>1 DEF Ahead
    <2> HIDE DEF ahead
    <2>2. QED BY <2>1, <1>0, NatMin
  <1>3. ord \in Pending(pc.ch)
    BY <1>0, <1>2 DEF Pending
  <1> HIDE DEF ord, ahead
  <1>4. ord \in Trees \ Deferred /\ trees_by_ordinal[ord] = "DOMAIN_EXTENSION"
    BY <1>1, <1>3 DEF DatabaseInvariant, StoreInvariant, NothingDangles, LiveTrees
  <1>5. \A ch \in Channels : \A c \in DOMAIN classes[ch] : classes[ch][c].tree_ordinal # ord
    BY <1>1, <1>3 DEF DatabaseInvariant, StoreInvariant, OwnersApart
  <1>6. \A ch \in Channels : ch # pc.ch => ord \notin Pending(ch)
    BY <1>1, <1>3 DEF DatabaseInvariant, StoreInvariant, OwnersApart
  <1>7. pc' \in Phases /\ pc'.at = "step" /\ pc'.ch = pc.ch /\ pc'.cursor = ord
    BY <1>0, <1>1, <1>2 DEF EndingStep, Phases
  <1>8. ASSUME NEW ch \in Channels
        PROVE  Pending(ch)' \subseteq (Pending(ch) \ {ord}) \cup
               {classes[ch][c].tree_ordinal : c \in DOMAIN classes[ch] \ DOMAIN classes'[ch]}
    <2>1. ordinals_to_tear_down'[ch] = ordinals_to_tear_down[ch] \cup
               {classes[ch][c].tree_ordinal : c \in DOMAIN classes[ch] \ DOMAIN classes'[ch]}
      BY <1>0, DeleteFacts DEF TeardownTree, DatabaseInvariant, StoreInvariant, MapsInSynch, TypeOK
    <2>2. CASE ch # pc.ch
      <3>1. Pending(ch)' = ordinals_to_tear_down'[ch] /\ Pending(ch) = ordinals_to_tear_down[ch]
        BY <2>2, <1>7 DEF Pending
      <3>2. QED BY <3>1, <2>1, <2>2, <1>6
    <2>3. CASE ch = pc.ch
      <3>1. Pending(ch)' = {o \in ordinals_to_tear_down'[ch] : o > ord}
        BY <2>3, <1>7 DEF Pending, Ahead
      <3>2. Pending(ch) = {o \in ordinals_to_tear_down[ch] : o > pc.cursor}
        BY <2>3, <1>0 DEF Pending, Ahead
      <3>3. ord > pc.cursor /\ ord \in Nat /\ pc.cursor \in Int
        <4>1. pc.cursor \in Int
          BY <1>1, Numbers DEF Phases
        <4>2. QED BY <4>1, <1>1, <1>2 DEF ahead, Ahead
      <3>4. \A o \in ordinals_to_tear_down[ch] : o > ord => o \in Pending(ch) \ {ord}
        <4>1. ASSUME NEW o \in ordinals_to_tear_down[ch], o > ord
              PROVE  o > pc.cursor /\ o # ord
          <5>1. o \in Nat
            BY <2>3, <1>1
          <5>2. QED BY <5>1, <4>1, <3>3
        <4>2. QED BY <4>1, <3>2
      <3>5. QED BY <2>1, <3>1, <3>4
    <2>4. QED BY <2>2, <2>3
  <1>9. StoreTypeOK' /\ OrdinalsKept' /\ Gone(ord)
    BY <1>0, <1>4, FreedIsGone
  <1>10. QED BY <1>0, <1>4, <1>5, <1>7, <1>8, <1>9, TeardownKeeps

-----------------------------------------------------------------------------
(* Steps that move between phases.                                         *)

(* What the tables hold is as it was. *)
SameView ==
    /\ Live' = Live
    /\ \A x \in Live : node'[x] = node[x] /\ owner'[x] = owner[x]
    /\ \A t : LiveTrees(t)' = LiveTrees(t)
    /\ Trees = {} => Trees' = {}

LEMMA ViewKept ==
    ASSUME DatabaseInvariant, SameView, StoreTypeOK', OrdinalsKept',
           UNCHANGED <<info, dep_to_all_stimulii, classes, built>>,
           pc' \in Phases,
           pc'.at # "update" => LiveTrees("UPDATE") = {} /\ Live = Tracked(Live, node),
           LiveTrees("MAIN") # {} \/ pc' = pc,
           stimulii_to_recheck' \in [Channels -> SUBSET Links],
           ordinals_to_tear_down' \in [Channels -> SUBSET Ordinals],
           \A ch \in Channels :
               /\ stimulii_to_recheck'[ch] \subseteq stimulii_to_recheck[ch]
               /\ Waiting(ch)' \subseteq Waiting(ch)
               /\ Pending(ch)' \subseteq Pending(ch)
    PROVE  DatabaseInvariant'
  <1>0. /\ Live' = Live /\ \A t : LiveTrees(t)' = LiveTrees(t)
        /\ Tracked(Live, node)' = Tracked(Live, node)
    BY DEF SameView, Tracked
  <1>1. TypeOK'
    BY DEF DatabaseInvariant, StoreInvariant, TypeOK, ChannelsTypeOK
  <1>2. MainTreeStays'
    BY <1>0 DEF DatabaseInvariant, StoreInvariant, MainTreeStays, SameView
  <1>3. ASSUME NEW o \in LiveTrees("DOMAIN_EXTENSION")'
        PROVE  LinksOf(o)' = Tracked(LinksOf(o), node)'
    <2>1. o \in LiveTrees("DOMAIN_EXTENSION") /\ o \in Trees' \ Deferred' /\ o # NoTree
      <3>1. o \in Trees' \ Deferred'
        BY DEF LiveTrees
      <3>2. o \in Nat
        BY <3>1, Numbers DEF StoreTypeOK
      <3>3. QED BY <3>1, <3>2, <1>0 DEF NoTree
    <2>2. \A x \in LinksOf(o)' : x \in Live /\ x \in LinksOf(o) /\ node'[x] = node[x]
      BY <2>1 DEF LinksOf, Live, SameView
    <2>3. LinksOf(o) = Tracked(LinksOf(o), node)
      BY <2>1 DEF DatabaseInvariant, StoreInvariant, ScaffoldUntracked
    <2>4. QED BY <2>2, <2>3 DEF Tracked
  <1>4. ScaffoldUntracked'
    BY <1>0, <1>3 DEF DatabaseInvariant, StoreInvariant, ScaffoldUntracked
  <1>5. WaitingUnknown'
    BY DEF DatabaseInvariant, StoreInvariant, WaitingUnknown
  <1>6. MapsInSynch'
    <2>1. ASSUME NEW ch \in Channels PROVE MapsAgree(ch)'
      BY DEF DatabaseInvariant, StoreInvariant, MapsInSynch, MapsAgree
    <2>2. ASSUME NEW ch \in Channels, pc'.at \in {"search", "update"}
          PROVE  stimulii_to_recheck'[ch] \cap DOMAIN info'[ch] = {}
      BY <2>2, <1>5 DEF WaitingUnknown, Waiting
    <2>3. QED BY <2>1, <2>2 DEF MapsInSynch
  <1>7. NothingDangles'
    BY <1>0 DEF DatabaseInvariant, StoreInvariant, NothingDangles
  <1>8. OwnersApart'
    BY DEF DatabaseInvariant, StoreInvariant, OwnersApart
  <1>9. QED BY <1>1, <1>2, <1>4, <1>5, <1>6, <1>7, <1>8 DEF DatabaseInvariant, StoreInvariant

(* The store and the channels' maps are as they were. *)
LEMMA PhaseChange ==
    ASSUME DatabaseInvariant, UNCHANGED <<owner, node, trees_by_ordinal>>,
           UNCHANGED <<next_tree_ordinal, free_tree_ordinals, deferred_tree_ordinals>>,
           UNCHANGED <<info, dep_to_all_stimulii, classes, built>>,
           pc' \in Phases,
           pc'.at # "update" => LiveTrees("UPDATE") = {} /\ Live = Tracked(Live, node),
           LiveTrees("MAIN") # {} \/ pc' = pc,
           stimulii_to_recheck' \in [Channels -> SUBSET Links],
           ordinals_to_tear_down' \in [Channels -> SUBSET Ordinals],
           \A ch \in Channels :
               /\ stimulii_to_recheck'[ch] \subseteq stimulii_to_recheck[ch]
               /\ Waiting(ch)' \subseteq Waiting(ch)
               /\ Pending(ch)' \subseteq Pending(ch)
    PROVE  DatabaseInvariant'
  <1>0. /\ Trees' = Trees /\ Deferred' = Deferred
        /\ ToSet(free_tree_ordinals)' = ToSet(free_tree_ordinals)
    BY DEF Trees, Deferred, ToSet
  <1>1. SameView
    BY <1>0 DEF SameView, Live, LiveTrees
  <1>2. OrdinalsKept' /\ StoreTypeOK'
    BY <1>0 DEF DatabaseInvariant, StoreInvariant, TypeOK, StoreTypeOK, OrdinalsKept
  <1>3. QED BY <1>1, <1>2, ViewKept

LEMMA PhaseRecords ==
    /\ Searching \in Phases /\ Searching.at = "search"
    /\ Updating \in Phases /\ Updating.at = "update"
    /\ \A ch \in Channels, cursor \in Links \cup Ordinals \cup {-1} :
          /\ Checking(ch, cursor) \in Phases /\ Checking(ch, cursor).at = "check"
          /\ Checking(ch, cursor).ch = ch /\ Checking(ch, cursor).cursor = cursor
          /\ EndingStep(ch, cursor) \in Phases /\ EndingStep(ch, cursor).at = "step"
          /\ EndingStep(ch, cursor).ch = ch /\ EndingStep(ch, cursor).cursor = cursor
  <1>1. 1 \in Channels
    <2>1. Cardinality(Channels) \in Nat
      BY ChannelsAssumption, FS_CardinalityType
    <2>2. QED BY <2>1, ChannelsAssumption
  <1>2. QED BY <1>1 DEF Searching, Updating, Checking, EndingStep, Phases

(* A loop that begins has all of its set ahead. *)
LEMMA AllAhead == ASSUME NEW S \in SUBSET Nat PROVE Ahead(S, -1) = S
  <1>1. \A e \in Nat : e > -1
    OBVIOUS
  <1>2. \A e \in S : e > -1
    BY <1>1
  <1>3. QED BY <1>2 DEF Ahead

LEMMA BeginUpdateStep == ASSUME DatabaseInvariant, BeginUpdate PROVE DatabaseInvariant'
  <1>1. /\ pc.at = "search" /\ pc'.at = "update" /\ pc' \in Phases
        /\ UNCHANGED <<store, channels>>
    BY PhaseRecords DEF BeginUpdate
  <1>2. /\ UNCHANGED <<owner, node, trees_by_ordinal>>
        /\ UNCHANGED <<next_tree_ordinal, free_tree_ordinals, deferred_tree_ordinals>>
        /\ UNCHANGED <<info, dep_to_all_stimulii, classes, built>>
        /\ UNCHANGED <<stimulii_to_recheck, ordinals_to_tear_down>>
    BY <1>1 DEF store, channels
  <1>3. \A ch \in Channels : Waiting(ch)' = Waiting(ch) /\ Pending(ch)' = Pending(ch)
    BY <1>1, <1>2 DEF Waiting, Pending
  <1>4. LiveTrees("MAIN") # {}
    <2>1. pc # Updating
      BY <1>1, PhaseRecords
    <2>2. QED BY <2>1 DEF DatabaseInvariant, StoreInvariant, MainTreeStays
  <1>5. ChannelsTypeOK
    BY DEF DatabaseInvariant, StoreInvariant, TypeOK
  <1>6. QED BY <1>1, <1>2, <1>3, <1>4, <1>5, PhaseChange DEF ChannelsTypeOK

LEMMA EndUpdateStep == ASSUME DatabaseInvariant, EndUpdate PROVE DatabaseInvariant'
  <1>1. /\ pc.at = "update" /\ pc' \in Phases
        /\ pc'.at = "check" /\ pc'.ch = 1 /\ pc'.cursor = -1
        /\ LiveTrees("MAIN") # {} /\ LiveTrees("UPDATE") = {}
        /\ \A ord \in LiveTrees("MAIN") : Tracked(LinksOf(ord), node) = LinksOf(ord)
        /\ UNCHANGED <<store, channels>>
    BY PhaseRecords, ChannelsAssumption, FS_CardinalityType DEF EndUpdate, Checking, Updating, Phases
  <1>2. /\ UNCHANGED <<owner, node, trees_by_ordinal>>
        /\ UNCHANGED <<next_tree_ordinal, free_tree_ordinals, deferred_tree_ordinals>>
        /\ UNCHANGED <<info, dep_to_all_stimulii, classes, built>>
        /\ UNCHANGED <<stimulii_to_recheck, ordinals_to_tear_down>>
    BY <1>1 DEF store, channels
  <1>3. ChannelsTypeOK /\ StoreTypeOK
    BY DEF DatabaseInvariant, StoreInvariant, TypeOK
  <1>4. ASSUME NEW ch \in Channels
        PROVE  Waiting(ch)' = Waiting(ch) /\ Pending(ch)' = Pending(ch)
    <2>1. stimulii_to_recheck[ch] \in SUBSET Nat
      BY <1>3, LinksAssumption DEF ChannelsTypeOK
    <2>2. Ahead(stimulii_to_recheck[ch], -1) = stimulii_to_recheck[ch]
      BY <2>1, AllAhead
    <2>3. QED BY <2>2, <1>1, <1>2 DEF Waiting, Pending, Ahead
  <1>5. Live = Tracked(Live, node)
    <2>1. ASSUME NEW x \in Live PROVE node[x] # Scaffold
      <3>1. owner[x] \in Trees \ Deferred /\ x \in LinksOf(owner[x])
        BY DEF Live, LinksOf, DatabaseInvariant, StoreInvariant, OrdinalsKept
      <3>2. trees_by_ordinal[owner[x]] \in TreeTypes
        BY <3>1, <1>3 DEF StoreTypeOK
      <3>3. owner[x] \in LiveTrees("MAIN") \cup LiveTrees("DOMAIN_EXTENSION")
        BY <3>1, <3>2, <1>1 DEF TreeTypes, LiveTrees
      <3>4. Tracked(LinksOf(owner[x]), node) = LinksOf(owner[x])
        BY <3>3, <1>1 DEF DatabaseInvariant, StoreInvariant, ScaffoldUntracked
      <3>5. QED BY <3>1, <3>4 DEF Tracked
    <2>2. QED BY <2>1 DEF Tracked
  <1>6. QED BY <1>1, <1>2, <1>3, <1>4, <1>5, PhaseChange DEF ChannelsTypeOK

(* A phase other than an update finds the main tree built and all tracked. *)
LEMMA NotUpdating ==
    ASSUME DatabaseInvariant, pc.at # "update"
    PROVE  /\ LiveTrees("MAIN") # {} /\ LiveTrees("UPDATE") = {}
           /\ Live = Tracked(Live, node)
           /\ pc \in Phases /\ pc.ch \in Channels /\ pc.cursor \in Int
  <1>1. pc # Updating
    BY PhaseRecords
  <1>2. pc \in Phases
    BY DEF DatabaseInvariant, StoreInvariant, TypeOK
  <1>3. pc.ch \in Channels /\ pc.cursor \in Int
    BY <1>2, Numbers DEF Phases
  <1>4. QED BY <1>1, <1>2, <1>3 DEF DatabaseInvariant, StoreInvariant, MainTreeStays, ScaffoldUntracked

LEMMA ClearRecheckStep == ASSUME DatabaseInvariant, ClearRecheck PROVE DatabaseInvariant'
  <1>1. /\ pc.at = "check"
        /\ stimulii_to_recheck' = [stimulii_to_recheck EXCEPT ![pc.ch] = {}]
        /\ pc' = IF pc.ch + 1 \in Channels THEN Checking(pc.ch + 1, -1) ELSE Searching
        /\ UNCHANGED <<store, info, dep_to_all_stimulii, classes, ordinals_to_tear_down>>
    BY DEF ClearRecheck
  <1>2. /\ UNCHANGED <<owner, node, trees_by_ordinal>>
        /\ UNCHANGED <<next_tree_ordinal, free_tree_ordinals, deferred_tree_ordinals>>
        /\ UNCHANGED <<info, dep_to_all_stimulii, classes, built>>
        /\ UNCHANGED ordinals_to_tear_down
    BY <1>1 DEF store
  <1>3. ChannelsTypeOK
    BY DEF DatabaseInvariant, StoreInvariant, TypeOK
  <1>4. /\ LiveTrees("MAIN") # {} /\ LiveTrees("UPDATE") = {}
        /\ Live = Tracked(Live, node) /\ pc.ch \in Channels /\ pc.cursor \in Int
    BY <1>1, NotUpdating
  <1>5. /\ pc' \in Phases /\ pc'.at # "step"
        /\ pc'.at = "check" => pc'.cursor = -1
    BY <1>1, PhaseRecords
  <1>6. /\ stimulii_to_recheck' \in [Channels -> SUBSET Links]
        /\ \A ch \in Channels : stimulii_to_recheck'[ch] =
               IF ch = pc.ch THEN {} ELSE stimulii_to_recheck[ch]
    BY <1>1, <1>3, <1>4 DEF ChannelsTypeOK
  <1>7. ASSUME NEW ch \in Channels
        PROVE  Waiting(ch)' \subseteq Waiting(ch) /\ Pending(ch)' = Pending(ch)
    <2>1. Pending(ch)' = Pending(ch)
      BY <1>1, <1>2, <1>5 DEF Pending
    <2>2. Waiting(ch)' \subseteq stimulii_to_recheck'[ch]
      BY DEF Waiting, Ahead
    <2>3. ch # pc.ch => Waiting(ch) = stimulii_to_recheck[ch]
      BY DEF Waiting
    <2>4. QED BY <2>1, <2>2, <2>3, <1>6
  <1>8. QED BY <1>2, <1>3, <1>4, <1>5, <1>6, <1>7, PhaseChange DEF ChannelsTypeOK

LEMMA ClearTearDownStep == ASSUME DatabaseInvariant, ClearTearDown PROVE DatabaseInvariant'
  <1>1. /\ pc.at = "step"
        /\ ordinals_to_tear_down' = [ordinals_to_tear_down EXCEPT ![pc.ch] = {}]
        /\ pc' = IF pc.ch + 1 \in Channels THEN EndingStep(pc.ch + 1, -1) ELSE Searching
        /\ UNCHANGED <<store, info, dep_to_all_stimulii, stimulii_to_recheck, classes>>
    BY DEF ClearTearDown
  <1>2. /\ UNCHANGED <<owner, node, trees_by_ordinal>>
        /\ UNCHANGED <<next_tree_ordinal, free_tree_ordinals, deferred_tree_ordinals>>
        /\ UNCHANGED <<info, dep_to_all_stimulii, classes, built>>
        /\ UNCHANGED stimulii_to_recheck
    BY <1>1 DEF store
  <1>3. ChannelsTypeOK
    BY DEF DatabaseInvariant, StoreInvariant, TypeOK
  <1>4. /\ LiveTrees("MAIN") # {} /\ LiveTrees("UPDATE") = {}
        /\ Live = Tracked(Live, node) /\ pc.ch \in Channels /\ pc.cursor \in Int
    BY <1>1, NotUpdating
  <1>5. pc' \in Phases /\ pc'.at # "check"
    BY <1>1, PhaseRecords
  <1>6. /\ ordinals_to_tear_down' \in [Channels -> SUBSET Ordinals]
        /\ \A ch \in Channels : ordinals_to_tear_down'[ch] =
               IF ch = pc.ch THEN {} ELSE ordinals_to_tear_down[ch]
    BY <1>1, <1>3, <1>4 DEF ChannelsTypeOK
  <1>7. ASSUME NEW ch \in Channels
        PROVE  Waiting(ch)' = Waiting(ch) /\ Pending(ch)' \subseteq Pending(ch)
    <2>1. Waiting(ch)' = Waiting(ch)
      BY <1>1, <1>2, <1>5 DEF Waiting
    <2>2. Pending(ch)' \subseteq ordinals_to_tear_down'[ch]
      BY DEF Pending, Ahead
    <2>3. ch # pc.ch => Pending(ch) = ordinals_to_tear_down[ch]
      BY DEF Pending
    <2>4. QED BY <2>1, <2>2, <2>3, <1>6
  <1>8. QED BY <1>2, <1>3, <1>4, <1>5, <1>6, <1>7, PhaseChange DEF ChannelsTypeOK

(* The link that the check loop has come to. *)
LEMMA CheckedLink ==
    ASSUME DatabaseInvariant, pc.at = "check",
           Ahead(stimulii_to_recheck[pc.ch], pc.cursor) # {}
    PROVE  LET x == Min(Ahead(stimulii_to_recheck[pc.ch], pc.cursor))
           IN  /\ x \in Waiting(pc.ch) /\ x \in Live /\ x > pc.cursor
               /\ x \in Links /\ node[x] # Scaffold
               /\ Checking(pc.ch, x) \in Phases /\ Checking(pc.ch, x).at = "check"
               /\ Checking(pc.ch, x).ch = pc.ch /\ Checking(pc.ch, x).cursor = x
               /\ \A S \in SUBSET Links :
                      Ahead(S, x) \subseteq Ahead(S, pc.cursor) \ {x}
               /\ Ahead(stimulii_to_recheck[pc.ch], x) =
                      Ahead(stimulii_to_recheck[pc.ch], pc.cursor) \ {x}
  <1> DEFINE ahead == Ahead(stimulii_to_recheck[pc.ch], pc.cursor)
             x == Min(ahead)
  <1>1. pc.ch \in Channels /\ pc.cursor \in Int /\ Live = Tracked(Live, node)
    BY NotUpdating
  <1>2. stimulii_to_recheck[pc.ch] \subseteq Tracked(Live, node)
    BY <1>1 DEF DatabaseInvariant, StoreInvariant, ScaffoldUntracked
  <1>3. Live \subseteq Links
    BY DEF Live
  <1>4. x \in ahead /\ \A e \in ahead : x <= e /\ e \in Nat
    <2>1. ahead \in SUBSET Nat
      BY <1>1, <1>2, <1>3, Numbers DEF Ahead
    <2> HIDE DEF ahead
    <2>2. QED BY <2>1, NatMin DEF ahead
  <1>5. x \in Waiting(pc.ch)
    BY <1>4 DEF Waiting
  <1>6. x \in stimulii_to_recheck[pc.ch] /\ x > pc.cursor
    BY <1>4 DEF Ahead
  <1> HIDE DEF x, ahead
  <1>7. x \in Live /\ x \in Links /\ node[x] # Scaffold
    BY <1>1, <1>2, <1>3, <1>6 DEF Tracked
  <1>8. /\ Checking(pc.ch, x) \in Phases /\ Checking(pc.ch, x).at = "check"
        /\ Checking(pc.ch, x).ch = pc.ch /\ Checking(pc.ch, x).cursor = x
    BY <1>1, <1>7, PhaseRecords
  <1>9. ASSUME NEW S \in SUBSET Links
        PROVE  Ahead(S, x) \subseteq Ahead(S, pc.cursor) \ {x}
    <2>1. ASSUME NEW e \in S, e > x PROVE e > pc.cursor /\ e # x
      <3>1. e \in Nat /\ x \in Nat
        BY <1>7, Numbers
      <3>2. QED BY <3>1, <2>1, <1>1, <1>6
    <2>2. QED BY <2>1 DEF Ahead
  <1>10. Ahead(stimulii_to_recheck[pc.ch], x) = ahead \ {x}
    <2>1. stimulii_to_recheck[pc.ch] \in SUBSET Links
      BY <1>1, <1>2, <1>3 DEF Tracked
    <2>2. Ahead(stimulii_to_recheck[pc.ch], x) \subseteq ahead \ {x}
      BY <2>1, <1>9 DEF ahead
    <2>3. ASSUME NEW e \in ahead, e # x PROVE e > x
      <3>1. x \in Nat /\ e \in Nat /\ x <= e
        BY <1>4
      <3>2. QED BY <3>1, <2>3
    <2>4. \A e \in ahead : e \in stimulii_to_recheck[pc.ch]
      BY DEF ahead, Ahead
    <2>5. QED BY <2>2, <2>3, <2>4 DEF Ahead
  <1>11. QED BY <1>5, <1>6, <1>7, <1>8, <1>9, <1>10 DEF x, ahead

LEMMA CheckNonStimulusStep ==
    ASSUME DatabaseInvariant, pc.at = "check",
           Ahead(stimulii_to_recheck[pc.ch], pc.cursor) # {},
           CheckNonStimulus(Min(Ahead(stimulii_to_recheck[pc.ch], pc.cursor))),
           pc' = Checking(pc.ch, Min(Ahead(stimulii_to_recheck[pc.ch], pc.cursor)))
    PROVE  DatabaseInvariant'
  <1> DEFINE x == Min(Ahead(stimulii_to_recheck[pc.ch], pc.cursor))
  <1>1. /\ UNCHANGED <<owner, node, trees_by_ordinal>>
        /\ UNCHANGED <<next_tree_ordinal, free_tree_ordinals, deferred_tree_ordinals>>
        /\ UNCHANGED <<info, dep_to_all_stimulii, classes, built>>
        /\ UNCHANGED <<stimulii_to_recheck, ordinals_to_tear_down>>
    BY DEF CheckNonStimulus, store, channels
  <1>2. /\ pc' \in Phases /\ pc'.at = "check" /\ pc'.ch = pc.ch /\ pc'.cursor = x
        /\ \A S \in SUBSET Links : Ahead(S, x) \subseteq Ahead(S, pc.cursor)
    BY CheckedLink
  <1> HIDE DEF x
  <1>3. ChannelsTypeOK
    BY DEF DatabaseInvariant, StoreInvariant, TypeOK
  <1>4. ASSUME NEW ch \in Channels
        PROVE  Waiting(ch)' \subseteq Waiting(ch) /\ Pending(ch)' = Pending(ch)
    <2>1. Pending(ch)' = Pending(ch)
      BY <1>1, <1>2 DEF Pending
    <2>2. stimulii_to_recheck[ch] \in SUBSET Links
      BY <1>3 DEF ChannelsTypeOK
    <2>3. Ahead(stimulii_to_recheck[ch], x) \subseteq Ahead(stimulii_to_recheck[ch], pc.cursor)
      BY <2>2, <1>2
    <2>4. Waiting(ch)' \subseteq Waiting(ch)
      BY <1>1, <1>2, <2>3 DEF Waiting, Ahead
    <2>5. QED BY <2>1, <2>4
  <1>5. QED BY <1>1, <1>2, <1>3, <1>4, NotUpdating, PhaseChange DEF ChannelsTypeOK

LEMMA EndStepStep == ASSUME DatabaseInvariant, EndStep PROVE DatabaseInvariant'
  <1>1. /\ pc = Searching /\ FreeTrees(deferred_tree_ordinals)
        /\ deferred_tree_ordinals' = <<>>
        /\ pc' = EndingStep(1, -1)
        /\ UNCHANGED <<info, dep_to_all_stimulii, classes, built>>
        /\ UNCHANGED <<stimulii_to_recheck, ordinals_to_tear_down>>
    BY DEF EndStep, channels
  <1>2. pc.at = "search" /\ pc' \in Phases /\ pc'.at = "step" /\ pc'.cursor = -1
    BY <1>1, PhaseRecords, ChannelsAssumption, FS_CardinalityType DEF EndingStep, Phases
  <1>3. StoreTypeOK /\ OrdinalsKept /\ ChannelsTypeOK
    BY DEF DatabaseInvariant, StoreInvariant, TypeOK
  <1>4. Deferred = ToSet(deferred_tree_ordinals) /\ Deferred' = {}
        /\ deferred_tree_ordinals' \in Seq(Ordinals) /\ IsInjective(deferred_tree_ordinals')
    BY <1>1 DEF Deferred, ToSet, IsInjective
  <1>5. deferred_tree_ordinals \in Seq(Trees) /\ IsInjective(deferred_tree_ordinals)
    <2>1. \A i \in DOMAIN deferred_tree_ordinals : deferred_tree_ordinals[i] \in Trees
      BY <1>3, <1>4 DEF OrdinalsKept, ToSet
    <2>2. QED BY <2>1, <1>3 DEF StoreTypeOK, OrdinalsKept
  <1>6. /\ OrdinalsKept'
        /\ StoreTypeOK'
        /\ Trees' = Trees \ Deferred
        /\ \A o \in Trees' : trees_by_ordinal'[o] = trees_by_ordinal[o]
        /\ \A x \in Links : /\ owner[x] \in Deferred => owner'[x] = NoTree
                            /\ owner[x] \notin Deferred =>
                                 owner'[x] = owner[x] /\ node'[x] = node[x]
    BY <1>1, <1>3, <1>4, <1>5, FreeFacts
  <1>7. SameView
    BY <1>4, <1>6 DEF SameView, Live, LiveTrees
  <1>8. ASSUME NEW ch \in Channels
        PROVE  Waiting(ch)' = Waiting(ch) /\ Pending(ch)' \subseteq Pending(ch)
    BY <1>1, <1>2 DEF Waiting, Pending, Ahead
  <1>9. QED BY <1>1, <1>2, <1>3, <1>6, <1>7, <1>8, NotUpdating, ViewKept DEF ChannelsTypeOK

-----------------------------------------------------------------------------
(* Swapping zones.                                                         *)

(* Only the ends of the pairs exchange what they point to. *)
LEMMA ExchangedFacts ==
    ASSUME StoreTypeOK, NEW S \in SUBSET Links, NEW pairs \in SUBSET (S \X S)
    PROVE  /\ Exchanged(pairs) \in [Links -> Kinds]
           /\ \A x \in Links \ S : Exchanged(pairs)[x] = node[x]
           /\ \A x \in S : \E z \in S : Exchanged(pairs)[x] = node[z]
  <1>0. node \in [Links -> Kinds]
    BY DEF StoreTypeOK
  <1>1. ASSUME NEW p \in pairs PROVE Range(p) = {p[1], p[2]} /\ p[1] \in S /\ p[2] \in S
    <2>1. PICK a \in S, b \in S : p = <<a, b>>
      OBVIOUS
    <2>2. DOMAIN p = {1, 2} /\ p[1] = a /\ p[2] = b
      BY <2>1
    <2>3. QED BY <2>2 DEF Range
  <1>2. ASSUME NEW x \in Links
        PROVE  /\ x \notin S => Exchanged(pairs)[x] = node[x]
               /\ x \in S => \E z \in S : Exchanged(pairs)[x] = node[z]
               /\ Exchanged(pairs)[x] \in Kinds
    <2>1. CASE \E p \in pairs : x \in Range(p)
      <3> DEFINE p == CHOOSE p \in pairs : x \in Range(p)
      <3>1. p \in pairs /\ x \in Range(p)
        BY <2>1
      <3>2. Exchanged(pairs)[x] = node[IF x = p[1] THEN p[2] ELSE p[1]]
        BY <2>1 DEF Exchanged
      <3> HIDE DEF p
      <3>3. x \in S /\ p[1] \in S /\ p[2] \in S
        BY <3>1, <1>1
      <3>4. QED BY <3>2, <3>3, <1>0
    <2>2. CASE ~ \E p \in pairs : x \in Range(p)
      <3>1. Exchanged(pairs)[x] = node[x]
        BY <2>2 DEF Exchanged
      <3>2. QED BY <3>1, <1>0
    <2>3. QED BY <2>1, <2>2
  <1>3. Exchanged(pairs) \in [Links -> Kinds]
    BY <1>2 DEF Exchanged
  <1>4. QED BY <1>2, <1>3

(* What a swap does: links of S, all in live trees that no channel owns,   *)
(* change trees and kinds among themselves.                                *)
Swaps(S) ==
    /\ S \in SUBSET Links
    /\ \A x \in S : /\ owner[x] \in LiveTrees("MAIN") \cup LiveTrees("UPDATE")
                    /\ owner'[x] \in LiveTrees("MAIN") \cup LiveTrees("UPDATE")
                    /\ \E z \in S : node'[x] = node[z]
    /\ \A x \in Links \ S : node'[x] = node[x] /\ owner'[x] = owner[x]
    /\ node' \in [Links -> Kinds]
    /\ owner' \in [Links -> Ordinals \cup {NoTree}]
    /\ DeleteAction(Tracked(S, node))
    /\ stimulii_to_recheck' =
               [ch \in Channels |-> RecheckAfter(ch, Tracked(S, node))
                                        \cup Tracked(S, node')]
    /\ pc = Updating
    /\ UNCHANGED <<trees_by_ordinal, next_tree_ordinal, free_tree_ordinals>>
    /\ UNCHANGED <<deferred_tree_ordinals, built, pc>>

LEMMA SwapFacts ==
    ASSUME DatabaseInvariant, SwapTreeToTree
    PROVE  \E S \in SUBSET Links : Swaps(S)
  <1>0. StoreTypeOK
    BY DEF DatabaseInvariant, StoreInvariant, TypeOK
  <1>1. PICK o1 \in LiveTrees("MAIN"), o2 \in LiveTrees("UPDATE") :
        \E b1 \in LinksOf(o1), b2 \in LinksOf(o2) :
        \E in1 \in SUBSET (LinksOf(o1) \ {b1}), in2 \in SUBSET (LinksOf(o2) \ {b2}) :
        \E terminii \in SUBSET (in1 \X in2) :
            SwapZones(o1, o2, b1, b2, in1, in2, terminii)
    BY DEF SwapTreeToTree
  <1>2. PICK b1 \in LinksOf(o1), b2 \in LinksOf(o2) :
        \E in1 \in SUBSET (LinksOf(o1) \ {b1}), in2 \in SUBSET (LinksOf(o2) \ {b2}) :
        \E terminii \in SUBSET (in1 \X in2) :
            SwapZones(o1, o2, b1, b2, in1, in2, terminii)
    BY <1>1
  <1>3. PICK in1 \in SUBSET (LinksOf(o1) \ {b1}), in2 \in SUBSET (LinksOf(o2) \ {b2}) :
        \E terminii \in SUBSET (in1 \X in2) :
            SwapZones(o1, o2, b1, b2, in1, in2, terminii)
    BY <1>2
  <1>4. PICK terminii \in SUBSET (in1 \X in2) :
            SwapZones(o1, o2, b1, b2, in1, in2, terminii)
    BY <1>3
  <1> DEFINE S == {b1, b2} \cup in1 \cup in2
             pairs == terminii \cup {<<b1, b2>>}
  <1>4a. S \in SUBSET Links /\ pairs \in SUBSET (S \X S)
    BY DEF LinksOf
  <1>5. o1 \in Ordinals /\ o2 \in Ordinals /\ o1 # o2
    BY <1>0 DEF LiveTrees, StoreTypeOK
  <1>6. \A x \in Links : owner'[x] = CASE x \in in1 -> o2
                                       [] x \in in2 -> o1
                                       [] OTHER -> owner[x]
    BY <1>4 DEF SwapZones
  <1>7. in1 \cap in2 = {}
    BY <1>5 DEF LinksOf
  <1>8. \A x \in S : owner[x] \in {o1, o2} /\ owner'[x] \in {o1, o2}
    BY <1>4a, <1>6, <1>7 DEF LinksOf
  <1>9. \A x \in Links \ S : owner'[x] = owner[x]
    BY <1>6
  <1>10. owner' \in [Links -> Ordinals \cup {NoTree}]
    <2>1. owner' = [x \in Links |-> owner'[x]]
      BY <1>4 DEF SwapZones
    <2>2. \A x \in Links : owner'[x] \in Ordinals \cup {NoTree}
      BY <1>0, <1>5, <1>8, <1>9 DEF StoreTypeOK
    <2>3. QED BY <2>1, <2>2
  <1>11. /\ node' \in [Links -> Kinds]
         /\ \A x \in Links \ S : node'[x] = node[x]
         /\ \A x \in S : \E z \in S : node'[x] = node[z]
    <2>1. node' = Exchanged(pairs)
      BY <1>4 DEF SwapZones
    <2> HIDE DEF pairs, S
    <2>2. QED BY <2>1, <1>0, <1>4a, ExchangedFacts
  <1>12. /\ DeleteAction(Tracked(S, node))
         /\ stimulii_to_recheck' =
               [ch \in Channels |-> RecheckAfter(ch, Tracked(S, node))
                                        \cup Tracked(S, node')]
    BY <1>4 DEF SwapZones
  <1>13. /\ pc = Updating
         /\ UNCHANGED <<trees_by_ordinal, next_tree_ordinal, free_tree_ordinals>>
         /\ UNCHANGED <<deferred_tree_ordinals, built, pc>>
    BY DEF SwapTreeToTree
  <1> HIDE DEF S
  <1>14. Swaps(S)
    BY <1>4a, <1>8, <1>9, <1>10, <1>11, <1>12, <1>13 DEF Swaps
  <1>15. QED BY <1>4a, <1>14

LEMMA SwapStep == ASSUME DatabaseInvariant, SwapTreeToTree PROVE DatabaseInvariant'
  <1>1. PICK S \in SUBSET Links : Swaps(S)
    BY SwapFacts
  <1> DEFINE T == Tracked(S, node)
             more == Tracked(S, node')
  <1>2. T \in SUBSET Links /\ more \in SUBSET Links /\ Reinserts(T, more)
    BY <1>1 DEF Swaps, Reinserts, Tracked
  <1>3. pc.at = "update" /\ pc' = pc
    BY <1>1, PhaseRecords DEF Swaps
  <1>4. Trees' = Trees /\ Deferred' = Deferred /\ ToSet(free_tree_ordinals)' = ToSet(free_tree_ordinals)
    BY <1>1 DEF Swaps, Trees, Deferred, ToSet
  <1>5. \A t : LiveTrees(t)' = LiveTrees(t)
    BY <1>1, <1>4 DEF LiveTrees, Swaps
  <1>6. NoTree \notin Trees
    <2>1. \A o \in Trees : o \in Nat
      BY Numbers DEF DatabaseInvariant, StoreInvariant, TypeOK, StoreTypeOK
    <2>2. QED BY <2>1 DEF NoTree
  <1>7. \A x \in S : /\ owner[x] \in Trees \ Deferred /\ owner'[x] \in Trees \ Deferred
                     /\ x \in Live /\ x \in Live'
    BY <1>1, <1>4, <1>6 DEF Swaps, LiveTrees, Live
  <1>8. Live' = Live
    BY <1>1, <1>4, <1>7 DEF Swaps, Live
  <1>9. /\ Tracked(Live, node) \ T \subseteq Tracked(Live, node)'
        /\ more \subseteq Tracked(Live, node)'
    BY <1>1, <1>7, <1>8 DEF Swaps, Tracked, Live
  <1>10. HoldsTracked'
    BY <1>2, <1>9, ReinsertKeepsTracked
  <1>11. \A ch \in Channels : more \cap DOMAIN info[ch] \subseteq T
    BY DEF DatabaseInvariant, StoreInvariant, ScaffoldUntracked, Tracked
  <1>12. ChannelsTypeOK' /\ WaitingUnknown' /\ MapsInSynch'
    BY <1>2, <1>3, <1>11, ReinsertKeepsMaps
  <1>13. ASSUME NEW ch \in Channels
        PROVE  Pending(ch)' \subseteq Pending(ch) \cup
               {classes[ch][c].tree_ordinal : c \in DOMAIN classes[ch] \ DOMAIN classes'[ch]}
    <2>1. ordinals_to_tear_down'[ch] = ordinals_to_tear_down[ch] \cup
               {classes[ch][c].tree_ordinal : c \in DOMAIN classes[ch] \ DOMAIN classes'[ch]}
      BY <1>2, DeleteFacts DEF Reinserts, DatabaseInvariant, StoreInvariant, MapsInSynch, TypeOK
    <2>2. QED BY <2>1, <1>3 DEF Pending
  <1>14. OwnersApart' /\ \A ch \in Channels : Owned(ch)' \subseteq Owned(ch)
    BY <1>2, <1>13, DropKeepsOwners DEF Reinserts
  <1>15. NothingDangles'
    <2>1. \A ch \in Channels : Owned(ch) \subseteq LiveTrees("DOMAIN_EXTENSION")
      BY DEF DatabaseInvariant, StoreInvariant, NothingDangles, Owned
    <2>2. \A ch \in Channels : Owned(ch)' \subseteq LiveTrees("DOMAIN_EXTENSION")'
      BY <2>1, <1>14, <1>5
    <2>3. Tracked(Live, node)' \subseteq Live'
      BY DEF Tracked
    <2>4. QED BY <2>2, <2>3, <1>10 DEF NothingDangles, Owned, HoldsTracked
  <1>16. OrdinalsKept'
    BY <1>1, <1>4, <1>7 DEF DatabaseInvariant, StoreInvariant, OrdinalsKept, Swaps
  <1>17. TypeOK'
    BY <1>1, <1>4, <1>12 DEF DatabaseInvariant, StoreInvariant, TypeOK, StoreTypeOK, Swaps
  <1>18. MainTreeStays'
    BY <1>3, <1>4, <1>5 DEF DatabaseInvariant, StoreInvariant, MainTreeStays
  <1>19. ScaffoldUntracked'
    <2>1. ASSUME NEW o \in LiveTrees("DOMAIN_EXTENSION")'
          PROVE  LinksOf(o)' = Tracked(LinksOf(o), node)'
      <3>1. o \in LiveTrees("DOMAIN_EXTENSION")
        BY <1>5
      <3>2. \A x \in S : owner'[x] # o
        BY <3>1, <1>1 DEF Swaps, LiveTrees
      <3>3. \A x \in LinksOf(o)' : x \in LinksOf(o) /\ node'[x] = node[x]
        BY <3>2, <1>1 DEF Swaps, LinksOf
      <3>4. LinksOf(o) = Tracked(LinksOf(o), node)
        BY <3>1 DEF DatabaseInvariant, StoreInvariant, ScaffoldUntracked
      <3>5. QED BY <3>3, <3>4 DEF Tracked
    <2>2. QED BY <2>1, <1>3, <1>10 DEF ScaffoldUntracked, HoldsTracked
  <1>20. QED BY <1>12, <1>14, <1>15, <1>16, <1>17, <1>18, <1>19 DEF DatabaseInvariant, StoreInvariant

-----------------------------------------------------------------------------
(* Building trees.                                                         *)

(* The tables gain the links of the new tree. *)
LEMMA BuiltView ==
    ASSUME DatabaseInvariant, NEW ord \in Ordinals, NEW type, NEW at, Built(ord, type, at),
           StoreTypeOK'
    PROVE  /\ at \subseteq Links /\ at \cap Live = {}
           /\ Live' = Live \cup at
           /\ \A x \in Live : node'[x] = node[x] /\ owner'[x] = owner[x]
           /\ \A x \in at : owner'[x] = ord
           /\ \A t : LiveTrees(t)' = LiveTrees(t) \cup {o \in {ord} : t = type}
           /\ \A o \in Trees : LinksOf(o)' = LinksOf(o)
           /\ LinksOf(ord)' = at
           /\ Tracked(Live, node)' = Tracked(Live, node) \cup Tracked(at, node')
           /\ ord \notin Trees
           /\ \A ch \in Channels : ord \notin Owned(ch)
  <1>1. /\ ord \notin Trees /\ Trees' = Trees \cup {ord} /\ trees_by_ordinal'[ord] = type
        /\ \A o \in Trees : trees_by_ordinal'[o] = trees_by_ordinal[o]
        /\ at \subseteq Freed
        /\ \A x \in Links : owner'[x] = IF x \in at THEN ord ELSE owner[x]
        /\ \A x \in Links \ at : node'[x] = node[x]
        /\ Deferred' = Deferred /\ ord \notin Deferred
    BY DEF Built
  <1>2. OrdinalsKept /\ StoreTypeOK /\ NothingDangles
    BY DEF DatabaseInvariant, StoreInvariant, TypeOK
  <1>3. ord # NoTree /\ NoTree \notin Trees
    <2>1. ord \in Nat /\ \A o \in Trees : o \in Nat
      BY <1>2, Numbers DEF StoreTypeOK
    <2>2. QED BY <2>1 DEF NoTree
  <1>4. at \subseteq Links /\ at \cap Live = {}
    BY <1>1 DEF Freed, Live
  <1>5. Live' = Live \cup at
    BY <1>1, <1>3, <1>4 DEF Live, Freed
  <1>6. \A x \in Live : node'[x] = node[x] /\ owner'[x] = owner[x]
    BY <1>1, <1>4 DEF Live
  <1>7. \A t : LiveTrees(t)' = LiveTrees(t) \cup {o \in {ord} : t = type}
    BY <1>1 DEF LiveTrees
  <1>8. \A o \in Trees : LinksOf(o)' = LinksOf(o)
    BY <1>1, <1>3 DEF LinksOf, Freed
  <1>9. LinksOf(ord)' = at
    BY <1>1, <1>2, <1>3, <1>4 DEF LinksOf, OrdinalsKept
  <1>10. Tracked(Live, node)' = Tracked(Live, node) \cup Tracked(at, node')
    BY <1>5, <1>6 DEF Tracked
  <1>11. \A ch \in Channels : ord \notin Owned(ch)
    BY <1>1, <1>2 DEF NothingDangles, LiveTrees, Owned
  <1>12. QED BY <1>1, <1>4, <1>5, <1>6, <1>7, <1>8, <1>9, <1>10, <1>11

(* Links of a tree that a channel owns are no place-holders. *)
LEMMA BuiltUntracked ==
    ASSUME DatabaseInvariant, NEW ord \in Ordinals, NEW type, NEW at, Built(ord, type, at),
           StoreTypeOK', HoldsTracked',
           type = "DOMAIN_EXTENSION" => \A x \in at : node'[x] # Scaffold,
           pc'.at # "update" => /\ LiveTrees("UPDATE")' = {}
                                /\ Live = Tracked(Live, node)
                                /\ \A x \in at : node'[x] # Scaffold
    PROVE  ScaffoldUntracked'
  <1>1. /\ Live' = Live \cup at
        /\ \A x \in Live : node'[x] = node[x]
        /\ \A t : LiveTrees(t)' = LiveTrees(t) \cup {o \in {ord} : t = type}
        /\ \A o \in Trees : LinksOf(o)' = LinksOf(o)
        /\ LinksOf(ord)' = at
        /\ Tracked(Live, node)' = Tracked(Live, node) \cup Tracked(at, node')
    BY BuiltView
  <1>2. pc'.at # "update" => Live' = Tracked(Live, node)'
    BY <1>1 DEF Tracked
  <1>3. ASSUME NEW o \in LiveTrees("DOMAIN_EXTENSION")'
        PROVE  LinksOf(o)' = Tracked(LinksOf(o), node)'
    <2>1. CASE o = ord /\ type = "DOMAIN_EXTENSION"
      BY <1>1, <2>1 DEF Tracked
    <2>2. CASE o \in LiveTrees("DOMAIN_EXTENSION")
      <3>1. LinksOf(o) = Tracked(LinksOf(o), node) /\ o \in Trees \ Deferred /\ o # NoTree
        <4>1. o \in Trees \ Deferred /\ o \in Nat
          BY <2>2, Numbers DEF LiveTrees, DatabaseInvariant, StoreInvariant, TypeOK, StoreTypeOK
        <4>2. QED BY <4>1, <2>2 DEF DatabaseInvariant, StoreInvariant, ScaffoldUntracked, NoTree
      <3>2. \A x \in LinksOf(o) : x \in Live
        BY <3>1 DEF LinksOf, Live
      <3>3. LinksOf(o)' = LinksOf(o)
        BY <3>1, <1>1
      <3>4. QED BY <3>1, <3>2, <3>3, <1>1 DEF Tracked
    <2>3. QED BY <2>1, <2>2, <1>1
  <1>4. QED BY <1>2, <1>3 DEF ScaffoldUntracked, HoldsTracked

(* A tree of an update, or the main tree, goes into every recheck set. *)
LEMMA InsertKeeps ==
    ASSUME DatabaseInvariant, NEW ord \in Ordinals, NEW type, type # "DOMAIN_EXTENSION",
           NEW at, Built(ord, type, at), StoreTypeOK', OrdinalsKept',
           stimulii_to_recheck' =
               [ch \in Channels |-> stimulii_to_recheck[ch] \cup Tracked(at, node')],
           UNCHANGED <<info, dep_to_all_stimulii, classes, ordinals_to_tear_down>>,
           pc.at = "update", pc' \in Phases,
           pc' = pc \/ (pc'.at = "check" /\ pc'.cursor = -1),
           built' \in 0..MaxBuilt,
           LiveTrees("MAIN")' # {},
           pc'.at # "update" => /\ LiveTrees("UPDATE")' = {}
                                /\ Live = Tracked(Live, node)
                                /\ \A x \in at : node'[x] # Scaffold
    PROVE  DatabaseInvariant'
  <1>1. /\ at \subseteq Links /\ at \cap Live = {}
        /\ Live' = Live \cup at
        /\ \A t : LiveTrees(t)' = LiveTrees(t) \cup {o \in {ord} : t = type}
        /\ Tracked(Live, node)' = Tracked(Live, node) \cup Tracked(at, node')
    BY BuiltView
  <1>2. ChannelsTypeOK /\ ScaffoldUntracked /\ WaitingUnknown /\ MapsInSynch
        /\ NothingDangles /\ OwnersApart
    BY DEF DatabaseInvariant, StoreInvariant, TypeOK
  <1>3. ASSUME NEW ch \in Channels
        PROVE  stimulii_to_recheck'[ch] = stimulii_to_recheck[ch] \cup Tracked(at, node')
    OBVIOUS
  <1>4. HoldsTracked'
    BY <1>1, <1>2, <1>3 DEF HoldsTracked, ScaffoldUntracked
  <1>5. ScaffoldUntracked'
    BY <1>4, BuiltUntracked
  <1>6. ChannelsTypeOK'
    <2>1. Tracked(at, node') \subseteq Links
      BY <1>1 DEF Tracked
    <2>2. stimulii_to_recheck' \in [Channels -> SUBSET Links]
      BY <2>1, <1>2 DEF ChannelsTypeOK
    <2>3. QED BY <2>2, <1>2 DEF ChannelsTypeOK
  <1>7. ASSUME NEW ch \in Channels
        PROVE  stimulii_to_recheck'[ch] \cap DOMAIN info'[ch] = {}
    <2>1. stimulii_to_recheck[ch] \cap DOMAIN info[ch] = {}
      BY <1>2 DEF WaitingUnknown, Waiting
    <2>2. DOMAIN info[ch] \subseteq Live
      BY <1>2 DEF NothingDangles
    <2>3. QED BY <2>1, <2>2, <1>1, <1>3 DEF Tracked
  <1>8. WaitingUnknown'
    <2>1. \A ch \in Channels : Waiting(ch)' \subseteq stimulii_to_recheck'[ch]
      BY DEF Waiting, Ahead
    <2>2. QED BY <2>1, <1>7 DEF WaitingUnknown
  <1>9. MapsInSynch'
    <2>1. ASSUME NEW ch \in Channels PROVE MapsAgree(ch)'
      BY <1>2 DEF MapsInSynch, MapsAgree
    <2>2. QED BY <2>1, <1>7 DEF MapsInSynch
  <1>10. \A ch \in Channels : Pending(ch)' = Pending(ch)
    BY DEF Pending
  <1>11. OwnersApart'
    BY <1>2, <1>10 DEF OwnersApart
  <1>12. NothingDangles'
    <2>1. Tracked(Live, node)' \subseteq Live'
      BY DEF Tracked
    <2>2. LiveTrees("DOMAIN_EXTENSION") \subseteq LiveTrees("DOMAIN_EXTENSION")'
      BY <1>1
    <2>3. ASSUME NEW ch \in Channels
          PROVE  /\ Pending(ch)' \subseteq LiveTrees("DOMAIN_EXTENSION")'
                 /\ \A c \in DOMAIN classes'[ch] :
                       classes'[ch][c].tree_ordinal \in LiveTrees("DOMAIN_EXTENSION")'
      BY <2>2, <1>2, <1>10 DEF NothingDangles
    <2>4. QED BY <2>1, <2>3, <1>4 DEF NothingDangles, HoldsTracked
  <1>13. MainTreeStays'
    BY DEF MainTreeStays
  <1>14. TypeOK'
    BY <1>6 DEF TypeOK
  <1>15. QED BY <1>5, <1>8, <1>9, <1>11, <1>12, <1>13, <1>14 DEF DatabaseInvariant, StoreInvariant

LEMMA BuildUpdateTreeStep == ASSUME DatabaseInvariant, BuildUpdateTree PROVE DatabaseInvariant'
  <1>1. /\ pc = Updating /\ LiveTrees("MAIN") # {} /\ built < MaxBuilt /\ built' = built + 1
        /\ UNCHANGED <<info, dep_to_all_stimulii, classes, ordinals_to_tear_down>> /\ pc' = pc
    BY DEF BuildUpdateTree
  <1>2. PICK base \in NewKinds, n \in 0..MaxInner : \E inner \in [1..n -> InnerKinds] :
        \E at \in Places(n + 1) :
           /\ BuildTree("UPDATE", <<base>> \o inner, at)
           /\ stimulii_to_recheck' =
                  [ch \in Channels |->
                      stimulii_to_recheck[ch] \cup Tracked(Range(at), node')]
    BY DEF BuildUpdateTree
  <1>3. PICK inner \in [1..n -> InnerKinds], at \in Places(n + 1) :
           /\ BuildTree("UPDATE", <<base>> \o inner, at)
           /\ stimulii_to_recheck' =
                  [ch \in Channels |->
                      stimulii_to_recheck[ch] \cup Tracked(Range(at), node')]
    BY <1>2
  <1>4. StoreTypeOK /\ OrdinalsKept /\ pc \in Phases /\ built \in 0..MaxBuilt
    BY DEF DatabaseInvariant, StoreInvariant, TypeOK
  <1> DEFINE kinds == <<base>> \o inner
  <1>5. kinds \in Seq(Kinds) /\ Len(kinds) = n + 1
    <2>1. base \in Kinds /\ n \in Nat /\ inner \in Seq(Kinds) /\ Len(inner) = n
      BY KindsAssumption, BoundsAssumption
    <2>2. QED BY <2>1
  <1> HIDE DEF kinds
  <1>6. at \in Places(Len(kinds)) /\ BuildTree("UPDATE", kinds, at) /\ "UPDATE" \in TreeTypes
    BY <1>3, <1>5 DEF kinds, TreeTypes
  <1>7. OrdinalsKept' /\ StoreTypeOK' /\ \E ord \in Ordinals : Built(ord, "UPDATE", Range(at))
    BY <1>4, <1>5, <1>6, BuildFacts
  <1>8. PICK ord \in Ordinals : Built(ord, "UPDATE", Range(at))
    BY <1>7
  <1>9. built' \in 0..MaxBuilt
    BY <1>1, <1>4, BoundsAssumption
  <1>10. pc.at = "update"
    BY <1>1, PhaseRecords
  <1>11. LiveTrees("MAIN")' # {}
    BY <1>1, <1>7, <1>8, BuiltView
  <1>12. QED BY <1>1, <1>3, <1>4, <1>7, <1>8, <1>9, <1>10, <1>11, InsertKeeps

LEMMA BuildMainTreeStep == ASSUME DatabaseInvariant, BuildMainTree PROVE DatabaseInvariant'
  <1>1. /\ Trees = {} /\ pc' = Checking(1, -1)
        /\ UNCHANGED <<info, dep_to_all_stimulii, classes, ordinals_to_tear_down>>
        /\ built' = built
    BY DEF BuildMainTree
  <1>2. PICK at \in Places(Len(MainKinds)) :
           /\ BuildTree("MAIN", MainKinds, at)
           /\ stimulii_to_recheck' = [ch \in Channels |-> Tracked(Range(at), node')]
    BY DEF BuildMainTree
  <1>3. StoreTypeOK /\ OrdinalsKept /\ built \in 0..MaxBuilt /\ "MAIN" \in TreeTypes
    BY DEF DatabaseInvariant, StoreInvariant, TypeOK, TreeTypes
  <1>4. MainKinds \in Seq(Kinds) /\ Range(MainKinds) \subseteq Kinds \ {Scaffold}
    BY KindsAssumption DEF Range
  <1>5. /\ OrdinalsKept' /\ StoreTypeOK'
        /\ \E ord \in Ordinals : Built(ord, "MAIN", Range(at))
        /\ \A x \in Range(at) : node'[x] \in Range(MainKinds)
    BY <1>2, <1>3, <1>4, BuildFacts
  <1>6. PICK ord \in Ordinals : Built(ord, "MAIN", Range(at))
    BY <1>5
  <1>7. pc.at = "update" /\ pc' \in Phases /\ pc'.at = "check" /\ pc'.cursor = -1
    <2>1. LiveTrees("MAIN") = {}
      BY <1>1 DEF LiveTrees
    <2>2. pc = Updating
      BY <2>1 DEF DatabaseInvariant, StoreInvariant, MainTreeStays
    <2>3. QED BY <1>1, <2>2, PhaseRecords, ChannelsAssumption, FS_CardinalityType DEF Checking, Phases
  <1>8. Live = {}
    BY <1>1 DEF Live, DatabaseInvariant, StoreInvariant, OrdinalsKept
  <1>9. stimulii_to_recheck' =
            [ch \in Channels |-> stimulii_to_recheck[ch] \cup Tracked(Range(at), node')]
    <2>1. \A ch \in Channels : stimulii_to_recheck[ch] = {}
      BY <1>8 DEF DatabaseInvariant, StoreInvariant, NothingDangles
    <2>2. QED BY <1>2, <2>1
  <1>10. LiveTrees("MAIN")' # {} /\ LiveTrees("UPDATE")' = {}
    <2>1. LiveTrees("UPDATE") = {}
      BY <1>1 DEF LiveTrees
    <2>2. /\ LiveTrees("MAIN")' = LiveTrees("MAIN") \cup {o \in {ord} : "MAIN" = "MAIN"}
          /\ LiveTrees("UPDATE")' = LiveTrees("UPDATE") \cup {o \in {ord} : "UPDATE" = "MAIN"}
      BY <1>5, <1>6, BuiltView
    <2>3. QED BY <2>1, <2>2
  <1>11. Live = Tracked(Live, node) /\ \A x \in Range(at) : node'[x] # Scaffold
    BY <1>8, <1>4, <1>5 DEF Tracked
  <1>12. QED BY <1>1, <1>3, <1>5, <1>6, <1>7, <1>9, <1>10, <1>11, InsertKeeps

-----------------------------------------------------------------------------
(* Checking a stimulus.                                                    *)

LEMMA RecordFacts ==
    ASSUME ChannelsTypeOK, pc.ch \in Channels, NEW x, NEW c, Record(x, c)
    PROVE  /\ DOMAIN info' = Channels
           /\ DOMAIN info'[pc.ch] = DOMAIN info[pc.ch] \cup {x}
           /\ info'[pc.ch][x] = [root |-> c, deps |-> Read(pc.ch, x)]
           /\ \A s \in DOMAIN info[pc.ch] : s # x => info'[pc.ch][s] = info[pc.ch][s]
           /\ DOMAIN dep_to_all_stimulii' = Channels
           /\ dep_to_all_stimulii'[pc.ch] =
                  dep_to_all_stimulii[pc.ch] \cup {<<d, x>> : d \in Read(pc.ch, x)}
           /\ \A ch \in Channels : ch # pc.ch =>
                  info'[ch] = info[ch] /\ dep_to_all_stimulii'[ch] = dep_to_all_stimulii[ch]
           /\ dep_to_all_stimulii' = [ch \in Channels |-> dep_to_all_stimulii'[ch]]
  BY DEF Record, ChannelsTypeOK

(* The class c of the channel being checked has one more stimulus. *)
ClassGains(c) ==
    /\ DOMAIN classes' = Channels
    /\ \A ch \in Channels : ch # pc.ch => classes'[ch] = classes[ch]
    /\ DOMAIN classes'[pc.ch] = DOMAIN classes[pc.ch] \cup {c}
    /\ \A d \in DOMAIN classes[pc.ch] : d # c => classes'[pc.ch][d] = classes[pc.ch][d]
    /\ classes'[pc.ch][c] \in [tree_ordinal : Ordinals, ref_count : Nat]
    /\ \/ /\ c \in DOMAIN classes[pc.ch]
          /\ classes'[pc.ch][c].ref_count = classes[pc.ch][c].ref_count + 1
          /\ classes'[pc.ch][c].tree_ordinal = classes[pc.ch][c].tree_ordinal
       \/ /\ c \notin DOMAIN classes[pc.ch]
          /\ classes'[pc.ch][c].ref_count = 1
          /\ \A ch \in Channels : classes'[pc.ch][c].tree_ordinal \notin Owned(ch)

LEMMA RecordAgrees ==
    ASSUME DatabaseInvariant, pc.ch \in Channels, NEW x \in Links, NEW c,
           x \notin DOMAIN info[pc.ch], Record(x, c), ClassGains(c),
           NEW ch \in Channels
    PROVE  MapsAgree(ch)'
  <1>0. ChannelsTypeOK /\ MapsAgree(ch)
    BY DEF DatabaseInvariant, StoreInvariant, TypeOK, MapsInSynch
  <1>1. CASE ch # pc.ch
    <2>1. info'[ch] = info[ch] /\ dep_to_all_stimulii'[ch] = dep_to_all_stimulii[ch]
          /\ classes'[ch] = classes[ch]
      BY <1>0, <1>1, RecordFacts DEF ClassGains
    <2>2. QED BY <2>1, <1>0 DEF MapsAgree
  <1>2. CASE ch = pc.ch
    <2>1. /\ DOMAIN info'[ch] = DOMAIN info[ch] \cup {x}
          /\ info'[ch][x] = [root |-> c, deps |-> Read(ch, x)]
          /\ \A s \in DOMAIN info[ch] : info'[ch][s] = info[ch][s]
          /\ dep_to_all_stimulii'[ch] =
                 dep_to_all_stimulii[ch] \cup {<<d, x>> : d \in Read(ch, x)}
      BY <1>0, <1>2, RecordFacts
    <2>2. /\ DOMAIN classes'[ch] = DOMAIN classes[ch] \cup {c}
          /\ \A d \in DOMAIN classes[ch] : d # c => classes'[ch][d] = classes[ch][d]
      BY <1>2 DEF ClassGains
    <2>3. dep_to_all_stimulii'[ch] =
              UNION {info'[ch][s].deps \X {s} : s \in DOMAIN info'[ch]}
      <3>1. dep_to_all_stimulii[ch] = UNION {info[ch][s].deps \X {s} : s \in DOMAIN info[ch]}
        BY <1>0 DEF MapsAgree
      <3>2. info'[ch][x].deps = Read(ch, x)
        BY <2>1
      <3>3. ASSUME NEW p
            PROVE  p \in dep_to_all_stimulii'[ch] <=>
                   p \in UNION {info'[ch][s].deps \X {s} : s \in DOMAIN info'[ch]}
        BY <2>1, <3>1, <3>2
      <3>4. QED BY <3>3
    <2>4. \A s \in DOMAIN info'[ch] : info'[ch][s].root \in DOMAIN classes'[ch]
      BY <2>1, <2>2, <1>0 DEF MapsAgree
    <2>5. ASSUME NEW d \in DOMAIN classes'[ch]
          PROVE  /\ classes'[ch][d].ref_count > 0
                 /\ classes'[ch][d].ref_count =
                      Cardinality({s \in DOMAIN info'[ch] : info'[ch][s].root = d})
      <3> DEFINE had == {s \in DOMAIN info[ch] : info[ch][s].root = d}
                 has == {s \in DOMAIN info'[ch] : info'[ch][s].root = d}
      <3>1. CASE d # c
        <4>1. has = had
          BY <2>1, <3>1
        <4>2. d \in DOMAIN classes[ch] /\ classes'[ch][d] = classes[ch][d]
          BY <2>2, <3>1
        <4>3. QED BY <4>1, <4>2, <1>0 DEF MapsAgree
      <3>2. CASE d = c
        <4>1. has = had \cup {x}
          BY <2>1, <3>2
        <4>2. IsFiniteSet(had) /\ x \notin had
          <5>1. had \subseteq Links
            BY <1>0 DEF ChannelsTypeOK
          <5>2. QED BY <5>1, LinksAssumption, FS_Subset, <1>2
        <4>3. Cardinality(has) = Cardinality(had) + 1 /\ Cardinality(had) \in Nat
          <5> HIDE DEF had, has
          <5>1. QED BY <4>1, <4>2, FS_AddElement, FS_CardinalityType
        <4>4. CASE c \in DOMAIN classes[ch]
          <5>1. classes'[ch][c].ref_count = classes[ch][c].ref_count + 1
            BY <4>4, <1>2 DEF ClassGains
          <5>2. classes[ch][c].ref_count = Cardinality(had)
            BY <4>4, <3>2, <1>0 DEF MapsAgree
          <5> HIDE DEF had, has
          <5>3. classes'[ch][d].ref_count = Cardinality(has) /\ Cardinality(has) > 0
            BY <5>1, <5>2, <4>3, <3>2
          <5>4. QED BY <5>3 DEF has
        <4>5. CASE c \notin DOMAIN classes[ch]
          <5>1. classes'[ch][c].ref_count = 1
            BY <4>5, <1>2 DEF ClassGains
          <5>2. had = {}
            BY <4>5, <3>2, <1>0 DEF MapsAgree
          <5>3. Cardinality(had) = 0
            BY <5>2, FS_EmptySet
          <5> HIDE DEF had, has
          <5>4. classes'[ch][d].ref_count = Cardinality(has) /\ Cardinality(has) > 0
            BY <5>1, <5>3, <4>3, <3>2
          <5>5. QED BY <5>4 DEF has
        <4>6. QED BY <4>4, <4>5
      <3>3. QED BY <3>1, <3>2
    <2>6. QED BY <2>3, <2>4, <2>5 DEF MapsAgree
  <1>3. QED BY <1>1, <1>2

(* A link has been checked, and a tree may have been built on the way. *)
LEMMA CheckKeeps ==
    ASSUME DatabaseInvariant, pc.at = "check", NEW x, NEW c \in Classes,
           x \in Waiting(pc.ch), x \in Live, x \in Links,
           \A S \in SUBSET Links : Ahead(S, x) \subseteq Ahead(S, pc.cursor) \ {x},
           pc' \in Phases, pc'.at = "check", pc'.ch = pc.ch, pc'.cursor = x,
           Record(x, c), ClassGains(c),
           NEW more \in SUBSET Links, more \cap Live = {},
           stimulii_to_recheck' = [ch \in Channels |-> stimulii_to_recheck[ch] \cup more],
           UNCHANGED <<ordinals_to_tear_down, built>>,
           StoreTypeOK', OrdinalsKept',
           Tracked(Live, node)' = Tracked(Live, node) \cup more,
           LiveTrees("DOMAIN_EXTENSION") \subseteq LiveTrees("DOMAIN_EXTENSION")',
           classes'[pc.ch][c].tree_ordinal \in LiveTrees("DOMAIN_EXTENSION")',
           LiveTrees("MAIN") \subseteq LiveTrees("MAIN")'
    PROVE  /\ TypeOK' /\ MainTreeStays' /\ HoldsTracked' /\ WaitingUnknown'
           /\ MapsInSynch' /\ NothingDangles' /\ OwnersApart'
  <1>0. /\ ChannelsTypeOK /\ ScaffoldUntracked /\ WaitingUnknown
        /\ NothingDangles /\ OwnersApart /\ built \in 0..MaxBuilt
    BY DEF DatabaseInvariant, StoreInvariant, TypeOK
  <1>1. pc.ch \in Channels /\ LiveTrees("MAIN") # {} /\ Live = Tracked(Live, node)
    BY NotUpdating
  <1>2. x \notin DOMAIN info[pc.ch]
    BY <1>0, <1>1 DEF WaitingUnknown
  <1>3. \A ch \in Channels : MapsAgree(ch)'
    BY <1>1, <1>2, RecordAgrees
  <1>4. MapsInSynch'
    BY <1>3 DEF MapsInSynch
  <1>5. /\ DOMAIN info' = Channels
        /\ DOMAIN info'[pc.ch] = DOMAIN info[pc.ch] \cup {x}
        /\ info'[pc.ch][x] = [root |-> c, deps |-> Read(pc.ch, x)]
        /\ \A s \in DOMAIN info[pc.ch] : s # x => info'[pc.ch][s] = info[pc.ch][s]
        /\ dep_to_all_stimulii'[pc.ch] =
               dep_to_all_stimulii[pc.ch] \cup {<<d, x>> : d \in Read(pc.ch, x)}
        /\ \A ch \in Channels : ch # pc.ch =>
               info'[ch] = info[ch] /\ dep_to_all_stimulii'[ch] = dep_to_all_stimulii[ch]
        /\ dep_to_all_stimulii' = [ch \in Channels |-> dep_to_all_stimulii'[ch]]
    BY <1>0, <1>1, RecordFacts
  <1>6. Read(pc.ch, x) \subseteq Live /\ Live \subseteq Links
    BY DEF Read, Live
  <1>7. ASSUME NEW ch \in Channels
        PROVE  /\ DOMAIN info'[ch] \subseteq Links
               /\ \A s \in DOMAIN info'[ch] :
                      info'[ch][s] \in [root : Classes, deps : SUBSET Links]
               /\ dep_to_all_stimulii'[ch] \in SUBSET (Links \X Links)
               /\ stimulii_to_recheck'[ch] = stimulii_to_recheck[ch] \cup more
               /\ stimulii_to_recheck[ch] \in SUBSET Links
    <2>0. /\ DOMAIN info[ch] \subseteq Links
          /\ \A s \in DOMAIN info[ch] :
                      info[ch][s] \in [root : Classes, deps : SUBSET Links]
          /\ dep_to_all_stimulii[ch] \in SUBSET (Links \X Links)
          /\ stimulii_to_recheck[ch] \in SUBSET Links
      BY <1>0 DEF ChannelsTypeOK
    <2>1. CASE ch # pc.ch
      BY <2>0, <2>1, <1>5
    <2>2. CASE ch = pc.ch
      <3>1. info'[ch][x] \in [root : Classes, deps : SUBSET Links]
        BY <2>2, <1>5, <1>6
      <3>2. dep_to_all_stimulii'[ch] \in SUBSET (Links \X Links)
        BY <2>0, <2>2, <1>5, <1>6
      <3>3. QED BY <2>0, <2>2, <3>1, <3>2, <1>5
    <2>3. QED BY <2>1, <2>2
  <1>8. ASSUME NEW ch \in Channels
        PROVE  /\ DOMAIN classes'[ch] \subseteq Classes
               /\ \A d \in DOMAIN classes'[ch] :
                      classes'[ch][d] \in [tree_ordinal : Ordinals, ref_count : Nat]
    BY <1>0 DEF ChannelsTypeOK, ClassGains
  <1>9. ChannelsTypeOK'
    <2>1. stimulii_to_recheck' \in [Channels -> SUBSET Links]
      BY <1>7
    <2>2. dep_to_all_stimulii' \in [Channels -> SUBSET (Links \X Links)]
      BY <1>5, <1>7
    <2>3. QED BY <2>1, <2>2, <1>0, <1>5, <1>7, <1>8 DEF ChannelsTypeOK, ClassGains
  <1>10. TypeOK'
    BY <1>0, <1>9 DEF TypeOK
  <1>11. MainTreeStays'
    BY <1>1 DEF MainTreeStays
  <1>12. HoldsTracked'
    <2> DEFINE T == Tracked(Live, node)
    <2>1. /\ x \in T /\ Read(pc.ch, x) \subseteq T
          /\ \A ch \in Channels :
               /\ DOMAIN info[ch] \subseteq T /\ stimulii_to_recheck[ch] \subseteq T
               /\ \A s \in DOMAIN info[ch] : info[ch][s].deps \subseteq T
      BY <1>0, <1>1, <1>6 DEF ScaffoldUntracked
    <2> HIDE DEF T
    <2>2. T' = T \cup more
      BY DEF T
    <2>3. ASSUME NEW ch \in Channels
          PROVE  /\ DOMAIN info'[ch] \subseteq T' /\ stimulii_to_recheck'[ch] \subseteq T'
                 /\ \A s \in DOMAIN info'[ch] : info'[ch][s].deps \subseteq T'
      BY <2>1, <2>2, <1>5, <1>7
    <2>4. QED BY <2>3 DEF HoldsTracked, T
  <1>13. WaitingUnknown'
    <2>1. ASSUME NEW ch \in Channels PROVE Waiting(ch)' \cap DOMAIN info'[ch] = {}
      <3>1. DOMAIN info[ch] \subseteq Live
        BY <1>0 DEF NothingDangles
      <3>2. CASE ch # pc.ch
        <4>1. Waiting(ch)' = stimulii_to_recheck[ch] \cup more
              /\ Waiting(ch) = stimulii_to_recheck[ch]
          BY <3>2, <1>7 DEF Waiting
        <4>2. QED BY <4>1, <3>1, <3>2, <1>0, <1>5 DEF WaitingUnknown
      <3>3. CASE ch = pc.ch
        <4>1. Waiting(ch)' = Ahead(stimulii_to_recheck'[ch], x)
          BY <3>3 DEF Waiting, Ahead
        <4>2. /\ stimulii_to_recheck[ch] \cup more \in SUBSET Links
              /\ stimulii_to_recheck'[ch] = stimulii_to_recheck[ch] \cup more
          BY <1>7
        <4>3. Ahead(stimulii_to_recheck[ch] \cup more, x) \subseteq
                Ahead(stimulii_to_recheck[ch] \cup more, pc.cursor) \ {x}
          BY <4>2
        <4>4. Ahead(stimulii_to_recheck[ch] \cup more, pc.cursor) \subseteq Waiting(ch) \cup more
          BY <3>3 DEF Waiting, Ahead
        <4>5. Waiting(ch) \cap DOMAIN info[ch] = {}
          BY <1>0 DEF WaitingUnknown
        <4>6. Waiting(ch)' \subseteq (Waiting(ch) \cup more) \ {x}
          BY <4>1, <4>2, <4>3, <4>4
        <4>7. DOMAIN info'[ch] = DOMAIN info[ch] \cup {x}
          BY <3>3, <1>5
        <4>8. QED BY <4>5, <4>6, <4>7, <3>1
      <3>4. QED BY <3>2, <3>3
    <2>2. QED BY <2>1 DEF WaitingUnknown
  <1>14. \A ch \in Channels : Pending(ch)' = Pending(ch)
    BY DEF Pending
  <1>15. NothingDangles'
    <2>1. ASSUME NEW ch \in Channels
          PROVE  /\ Pending(ch)' \subseteq LiveTrees("DOMAIN_EXTENSION")'
                 /\ \A d \in DOMAIN classes'[ch] :
                       classes'[ch][d].tree_ordinal \in LiveTrees("DOMAIN_EXTENSION")'
      BY <1>0, <1>14 DEF NothingDangles, ClassGains
    <2>2. Tracked(Live, node)' \subseteq Live'
      BY DEF Tracked
    <2>3. QED BY <2>1, <2>2, <1>12 DEF NothingDangles, HoldsTracked
  <1>16. OwnersApart'
    <2> DEFINE o == classes'[pc.ch][c].tree_ordinal
    <2>1. ASSUME NEW ch \in Channels, NEW d \in DOMAIN classes'[ch]
          PROVE  \/ /\ d \in DOMAIN classes[ch]
                    /\ classes'[ch][d].tree_ordinal = classes[ch][d].tree_ordinal
                 \/ /\ ch = pc.ch /\ d = c /\ c \notin DOMAIN classes[pc.ch]
                    /\ \A k \in Channels : classes'[ch][d].tree_ordinal \notin Owned(k)
      BY <2>1 DEF ClassGains
    <2>2. \A ch \in Channels : /\ Pending(ch) \subseteq Owned(ch)
                               /\ \A d \in DOMAIN classes[ch] :
                                     classes[ch][d].tree_ordinal \in Owned(ch)
      BY DEF Owned
    <2>3. QED BY <2>1, <2>2, <1>0, <1>14 DEF OwnersApart
  <1>17. QED BY <1>4, <1>10, <1>11, <1>12, <1>13, <1>15, <1>16

LEMMA CheckKnownClassStep ==
    ASSUME DatabaseInvariant, pc.at = "check",
           Ahead(stimulii_to_recheck[pc.ch], pc.cursor) # {},
           CheckKnownClass(Min(Ahead(stimulii_to_recheck[pc.ch], pc.cursor))),
           pc' = Checking(pc.ch, Min(Ahead(stimulii_to_recheck[pc.ch], pc.cursor)))
    PROVE  DatabaseInvariant'
  <1> DEFINE x == Min(Ahead(stimulii_to_recheck[pc.ch], pc.cursor))
             c == GetDomainExtension(pc.ch, x)
  <1>1. /\ c \in DOMAIN classes[pc.ch] /\ Record(x, c)
        /\ classes' = [classes EXCEPT ![pc.ch][c].ref_count = @ + 1]
        /\ UNCHANGED <<store, stimulii_to_recheck, ordinals_to_tear_down>>
    BY DEF CheckKnownClass
  <1>2. /\ x \in Waiting(pc.ch) /\ x \in Live /\ x \in Links
        /\ \A S \in SUBSET Links : Ahead(S, x) \subseteq Ahead(S, pc.cursor) \ {x}
        /\ pc' \in Phases /\ pc'.at = "check" /\ pc'.ch = pc.ch /\ pc'.cursor = x
    BY CheckedLink
  <1> HIDE DEF x, c
  <1>3. pc.ch \in Channels /\ ChannelsTypeOK /\ StoreTypeOK /\ OrdinalsKept /\ NothingDangles
    BY NotUpdating DEF DatabaseInvariant, StoreInvariant, TypeOK
  <1>4. c \in Classes /\ classes[pc.ch][c] \in [tree_ordinal : Ordinals, ref_count : Nat]
        /\ DOMAIN classes = Channels
    BY <1>1, <1>3 DEF ChannelsTypeOK
  <1>5. /\ DOMAIN classes' = Channels
        /\ \A ch \in Channels : ch # pc.ch => classes'[ch] = classes[ch]
        /\ classes'[pc.ch] = [classes[pc.ch] EXCEPT ![c].ref_count = @ + 1]
    BY <1>1, <1>3, <1>4
  <1>6. classes'[pc.ch][c] = [classes[pc.ch][c] EXCEPT !.ref_count = @ + 1]
    BY <1>1, <1>5
  <1>7. ClassGains(c)
    <2>1. /\ DOMAIN classes'[pc.ch] = DOMAIN classes[pc.ch] \cup {c}
          /\ \A d \in DOMAIN classes[pc.ch] : d # c => classes'[pc.ch][d] = classes[pc.ch][d]
      BY <1>1, <1>5
    <2>2. /\ classes'[pc.ch][c].ref_count = classes[pc.ch][c].ref_count + 1
          /\ classes'[pc.ch][c].tree_ordinal = classes[pc.ch][c].tree_ordinal
          /\ classes'[pc.ch][c] \in [tree_ordinal : Ordinals, ref_count : Nat]
      BY <1>4, <1>6
    <2>3. QED BY <2>1, <2>2, <1>1, <1>5 DEF ClassGains
  <1>8. UNCHANGED <<owner, node, trees_by_ordinal, next_tree_ordinal, free_tree_ordinals,
                    deferred_tree_ordinals, built>>
    BY <1>1 DEF store
  <1>9. /\ Trees' = Trees /\ Deferred' = Deferred /\ Live' = Live
        /\ ToSet(free_tree_ordinals)' = ToSet(free_tree_ordinals)
        /\ \A t : LiveTrees(t)' = LiveTrees(t)
        /\ \A o : LinksOf(o)' = LinksOf(o)
        /\ Tracked(Live, node)' = Tracked(Live, node)
        /\ \A o : Tracked(LinksOf(o), node)' = Tracked(LinksOf(o), node)
    BY <1>8 DEF Trees, Deferred, Live, ToSet, LiveTrees, LinksOf, Tracked, NoTree
  <1>10. StoreTypeOK' /\ OrdinalsKept'
    BY <1>3, <1>8, <1>9 DEF StoreTypeOK, OrdinalsKept
  <1>11. classes'[pc.ch][c].tree_ordinal \in LiveTrees("DOMAIN_EXTENSION")'
    <2>1. classes[pc.ch][c].tree_ordinal \in LiveTrees("DOMAIN_EXTENSION")
      BY <1>1, <1>3 DEF NothingDangles
    <2>2. QED BY <2>1, <1>1, <1>7, <1>9 DEF ClassGains
  <1>12. stimulii_to_recheck' = [ch \in Channels |-> stimulii_to_recheck[ch] \cup {}]
    BY <1>1, <1>3 DEF ChannelsTypeOK
  <1>13. /\ TypeOK' /\ MainTreeStays' /\ HoldsTracked' /\ WaitingUnknown'
         /\ MapsInSynch' /\ NothingDangles' /\ OwnersApart'
    <2>1. UNCHANGED <<ordinals_to_tear_down, built>>
      BY <1>1, <1>8
    <2>2. {} \in SUBSET Links /\ {} \cap Live = {}
          /\ Tracked(Live, node)' = Tracked(Live, node) \cup {}
          /\ LiveTrees("DOMAIN_EXTENSION") \subseteq LiveTrees("DOMAIN_EXTENSION")'
          /\ LiveTrees("MAIN") \subseteq LiveTrees("MAIN")'
      BY <1>9
    <2>3. QED BY <1>1, <1>2, <1>4, <1>7, <1>10, <1>11, <1>12, <2>1, <2>2, CheckKeeps
  <1>14. ScaffoldUntracked'
    <2>1. Live = Tracked(Live, node) /\ LiveTrees("UPDATE") = {}
      BY NotUpdating
    <2>2. \A o \in LiveTrees("DOMAIN_EXTENSION") : LinksOf(o) = Tracked(LinksOf(o), node)
      BY DEF DatabaseInvariant, StoreInvariant, ScaffoldUntracked
    <2>3. QED BY <2>1, <2>2, <1>9, <1>13 DEF ScaffoldUntracked, HoldsTracked
  <1>15. QED BY <1>10, <1>13, <1>14 DEF DatabaseInvariant, StoreInvariant

LEMMA CheckNewClassStep ==
    ASSUME DatabaseInvariant, pc.at = "check",
           Ahead(stimulii_to_recheck[pc.ch], pc.cursor) # {},
           CheckNewClass(Min(Ahead(stimulii_to_recheck[pc.ch], pc.cursor))),
           pc' = Checking(pc.ch, Min(Ahead(stimulii_to_recheck[pc.ch], pc.cursor)))
    PROVE  DatabaseInvariant'
  <1> DEFINE x == Min(Ahead(stimulii_to_recheck[pc.ch], pc.cursor))
             c == GetDomainExtension(pc.ch, x)
  <1>1. /\ c \in Classes \ DOMAIN classes[pc.ch] /\ Record(x, c)
        /\ UNCHANGED <<ordinals_to_tear_down, built>>
        /\ \E at \in Places(Len(Body[c])), ord \in 0..Cardinality(Links) :
            /\ BuildTree("DOMAIN_EXTENSION", Body[c], at)
            /\ ord \in DOMAIN trees_by_ordinal' \ Trees
            /\ classes' = [classes EXCEPT ![pc.ch] =
                              [d \in DOMAIN @ \cup {c} |->
                                  IF d = c THEN ExtensionClass(ord, 1) ELSE @[d]]]
            /\ stimulii_to_recheck' =
                   [ch \in Channels |->
                       stimulii_to_recheck[ch] \cup Tracked(Range(at), node')]
    BY DEF CheckNewClass
  <1>2. /\ x \in Waiting(pc.ch) /\ x \in Live /\ x \in Links
        /\ \A S \in SUBSET Links : Ahead(S, x) \subseteq Ahead(S, pc.cursor) \ {x}
        /\ pc' \in Phases /\ pc'.at = "check" /\ pc'.ch = pc.ch /\ pc'.cursor = x
    BY CheckedLink
  <1> HIDE DEF x, c
  <1>3. PICK at \in Places(Len(Body[c])), new \in 0..Cardinality(Links) :
            /\ BuildTree("DOMAIN_EXTENSION", Body[c], at)
            /\ new \in DOMAIN trees_by_ordinal' \ Trees
            /\ classes' = [classes EXCEPT ![pc.ch] =
                              [d \in DOMAIN @ \cup {c} |->
                                  IF d = c THEN ExtensionClass(new, 1) ELSE @[d]]]
            /\ stimulii_to_recheck' =
                   [ch \in Channels |->
                       stimulii_to_recheck[ch] \cup Tracked(Range(at), node')]
    BY <1>1
  <1>4. /\ pc.ch \in Channels /\ ChannelsTypeOK /\ StoreTypeOK /\ OrdinalsKept
        /\ Live = Tracked(Live, node) /\ LiveTrees("UPDATE") = {}
        /\ "DOMAIN_EXTENSION" \in TreeTypes
    BY NotUpdating DEF DatabaseInvariant, StoreInvariant, TypeOK, TreeTypes
  <1>5. Body[c] \in Seq(Kinds) /\ Range(Body[c]) \subseteq Kinds \ {Scaffold}
    <2>1. Body[c] \in Seq(Kinds \ {Scaffold})
      BY <1>1, KindsAssumption
    <2>2. QED BY <2>1 DEF Range
  <1>6. /\ OrdinalsKept' /\ StoreTypeOK'
        /\ \E o \in Ordinals : Built(o, "DOMAIN_EXTENSION", Range(at))
        /\ \A y \in Range(at) : node'[y] \in Range(Body[c])
    BY <1>3, <1>4, <1>5, BuildFacts
  <1>7. PICK ord \in Ordinals : Built(ord, "DOMAIN_EXTENSION", Range(at))
    BY <1>6
  <1>8. new = ord
    BY <1>3, <1>7 DEF Built, Trees
  <1> DEFINE more == Range(at)
  <1>9. /\ more \subseteq Links /\ more \cap Live = {}
        /\ \A t : LiveTrees(t)' = LiveTrees(t) \cup {o \in {ord} : t = "DOMAIN_EXTENSION"}
        /\ Tracked(Live, node)' = Tracked(Live, node) \cup Tracked(more, node')
        /\ \A ch \in Channels : ord \notin Owned(ch)
    BY <1>6, <1>7, BuiltView
  <1>10. Tracked(more, node') = more /\ \A y \in more : node'[y] # Scaffold
    BY <1>5, <1>6 DEF Tracked
  <1>11. /\ LiveTrees("DOMAIN_EXTENSION")' = LiveTrees("DOMAIN_EXTENSION") \cup {ord}
         /\ LiveTrees("MAIN")' = LiveTrees("MAIN")
         /\ LiveTrees("UPDATE")' = LiveTrees("UPDATE")
    BY <1>9
  <1>12. /\ DOMAIN classes' = Channels
         /\ \A ch \in Channels : ch # pc.ch => classes'[ch] = classes[ch]
         /\ classes'[pc.ch] = [d \in DOMAIN classes[pc.ch] \cup {c} |->
                                  IF d = c THEN ExtensionClass(ord, 1) ELSE classes[pc.ch][d]]
    BY <1>3, <1>4, <1>8 DEF ChannelsTypeOK
  <1>13. /\ DOMAIN classes'[pc.ch] = DOMAIN classes[pc.ch] \cup {c}
         /\ classes'[pc.ch][c] = ExtensionClass(ord, 1)
         /\ \A d \in DOMAIN classes[pc.ch] : d # c => classes'[pc.ch][d] = classes[pc.ch][d]
    BY <1>12
  <1>14. ClassGains(c) /\ classes'[pc.ch][c].tree_ordinal = ord
    <2>1. /\ classes'[pc.ch][c].ref_count = 1 /\ classes'[pc.ch][c].tree_ordinal = ord
          /\ classes'[pc.ch][c] \in [tree_ordinal : Ordinals, ref_count : Nat]
      BY <1>13 DEF ExtensionClass
    <2>2. QED BY <2>1, <1>1, <1>9, <1>12, <1>13 DEF ClassGains
  <1>15. /\ stimulii_to_recheck' = [ch \in Channels |-> stimulii_to_recheck[ch] \cup more]
         /\ Tracked(Live, node)' = Tracked(Live, node) \cup more
    BY <1>3, <1>9, <1>10
  <1> HIDE DEF more
  <1>16. /\ TypeOK' /\ MainTreeStays' /\ HoldsTracked' /\ WaitingUnknown'
         /\ MapsInSynch' /\ NothingDangles' /\ OwnersApart'
    <2>1. LiveTrees("DOMAIN_EXTENSION") \subseteq LiveTrees("DOMAIN_EXTENSION")'
          /\ classes'[pc.ch][c].tree_ordinal \in LiveTrees("DOMAIN_EXTENSION")'
          /\ LiveTrees("MAIN") \subseteq LiveTrees("MAIN")'
      BY <1>11, <1>14
    <2>2. QED BY <1>1, <1>2, <1>6, <1>9, <1>14, <1>15, <2>1, CheckKeeps
  <1>17. ScaffoldUntracked'
    BY <1>2, <1>4, <1>6, <1>7, <1>10, <1>11, <1>16, BuiltUntracked DEF more
  <1>18. QED BY <1>6, <1>16, <1>17 DEF DatabaseInvariant, StoreInvariant

-----------------------------------------------------------------------------

LEMMA InitInvariant == ASSUME Init PROVE DatabaseInvariant
  <1>1. pc = Updating /\ pc \in Phases /\ pc.at = "update"
    BY PhaseRecords DEF Init
  <1>2. Trees = {} /\ Deferred = {} /\ Live = {} /\ ToSet(free_tree_ordinals) = {}
    BY DEF Init, Trees, Empty, Deferred, Live, ToSet
  <1>3. \A ch \in Channels : /\ DOMAIN info[ch] = {} /\ DOMAIN classes[ch] = {}
                             /\ dep_to_all_stimulii[ch] = {} /\ stimulii_to_recheck[ch] = {}
                             /\ ordinals_to_tear_down[ch] = {}
    BY DEF Init, Empty
  <1>4. \A ch \in Channels : Waiting(ch) = {} /\ Pending(ch) = {}
    BY <1>1, <1>3 DEF Waiting, Pending
  <1>5. TypeOK
    <2>1. StoreTypeOK
      BY <1>2, KindsAssumption DEF Init, StoreTypeOK
    <2>2. ChannelsTypeOK
      BY <1>3 DEF Init, ChannelsTypeOK
    <2>3. built \in 0..MaxBuilt
      BY BoundsAssumption DEF Init
    <2>4. QED BY <1>1, <2>1, <2>2, <2>3 DEF TypeOK
  <1>6. OrdinalsKept
    BY <1>2 DEF Init, OrdinalsKept, IsInjective
  <1>7. MainTreeStays
    BY <1>1, <1>2 DEF MainTreeStays
  <1>8. ScaffoldUntracked
    BY <1>1, <1>2, <1>3 DEF ScaffoldUntracked, LiveTrees
  <1>9. WaitingUnknown
    BY <1>4 DEF WaitingUnknown
  <1>10. MapsInSynch
    BY <1>3 DEF MapsInSynch, MapsAgree
  <1>11. NothingDangles
    BY <1>3, <1>4 DEF NothingDangles
  <1>12. OwnersApart
    BY <1>3, <1>4 DEF OwnersApart
  <1>13. QED BY <1>5, <1>6, <1>7, <1>8, <1>9, <1>10, <1>11, <1>12 DEF DatabaseInvariant, StoreInvariant

LEMMA StutterInvariant == ASSUME DatabaseInvariant, UNCHANGED vars PROVE DatabaseInvariant'
  <1>1. /\ UNCHANGED <<owner, node, trees_by_ordinal>>
        /\ UNCHANGED <<next_tree_ordinal, free_tree_ordinals, deferred_tree_ordinals>>
        /\ UNCHANGED <<info, dep_to_all_stimulii, classes, built>>
        /\ UNCHANGED <<stimulii_to_recheck, ordinals_to_tear_down>>
        /\ pc' = pc
    BY DEF vars, store, channels
  <1>2. \A ch \in Channels : Waiting(ch)' = Waiting(ch) /\ Pending(ch)' = Pending(ch)
    BY <1>1 DEF Waiting, Pending, Ahead
  <1>3. ChannelsTypeOK /\ pc \in Phases /\ ScaffoldUntracked
    BY DEF DatabaseInvariant, StoreInvariant, TypeOK
  <1>4. QED BY <1>1, <1>2, <1>3, PhaseChange DEF ChannelsTypeOK, ScaffoldUntracked

LEMMA StepInvariant == ASSUME DatabaseInvariant, Next PROVE DatabaseInvariant'
  <1>1. CASE CheckStimulusXLink
    <2>1. /\ pc.at = "check" /\ Ahead(stimulii_to_recheck[pc.ch], pc.cursor) # {}
          /\ pc' = Checking(pc.ch, Min(Ahead(stimulii_to_recheck[pc.ch], pc.cursor)))
          /\ \/ CheckNonStimulus(Min(Ahead(stimulii_to_recheck[pc.ch], pc.cursor)))
             \/ CheckKnownClass(Min(Ahead(stimulii_to_recheck[pc.ch], pc.cursor)))
             \/ CheckNewClass(Min(Ahead(stimulii_to_recheck[pc.ch], pc.cursor)))
      BY <1>1 DEF CheckStimulusXLink
    <2>2. QED BY <2>1, CheckNonStimulusStep, CheckKnownClassStep, CheckNewClassStep
  <1>2. QED BY <1>1, BuildMainTreeStep, BeginUpdateStep, BuildUpdateTreeStep, SwapStep,
               TeardownOldContentStep, TeardownMovedStep, EndUpdateStep,
               ClearRecheckStep, EndStepStep, TeardownExtensionStep, ClearTearDownStep
            DEF Next

(* The store of trees and the maps of the channels stay well-formed through *)
(* updates, checks and the ends of steps, for any extenders.                *)
THEOREM DatabaseInvariantHolds == Spec => []DatabaseInvariant
  BY InitInvariant, StepInvariant, StutterInvariant, PTL DEF Spec

(* Every map, set and queue of the database holds what its C++ type holds, *)
(* and every ordinal stays within the number of links.                     *)
THEOREM TypesKept == Spec => []TypeOK
  <1>1. DatabaseInvariant => TypeOK
    BY DEF DatabaseInvariant, StoreInvariant
  <1>2. QED BY <1>1, DatabaseInvariantHolds, PTL

(* The store of trees stays well-formed: ordinals are allocated and freed  *)
(* once, only an update has place-holders and trees of its own, no channel *)
(* holds a place-holder or waits for a link it has recorded, and no tree   *)
(* of the domain extension belongs to two of its classes or channels.      *)
THEOREM StoreKept == Spec => []StoreInvariant
  <1>1. DatabaseInvariant => StoreInvariant
    BY DEF DatabaseInvariant, StoreInvariant
  <1>2. QED BY <1>1, DatabaseInvariantHolds, PTL

(* What DomainExtensionChannel::Validate() asserts is always so: the three *)
(* maps of a channel agree, each class counts its stimulii, and no link is *)
(* both recorded and waiting for a recheck, as InsertSolo() asserts.       *)
THEOREM MapsStayInSynch == Spec => []MapsInSynch
  <1>1. DatabaseInvariant => MapsInSynch
    BY DEF DatabaseInvariant, StoreInvariant
  <1>2. QED BY <1>1, DatabaseInvariantHolds, PTL

(* No channel ever holds a link or a tree ordinal that the database has    *)
(* let go of: what TeardownTree() and FreeTree() free, DeleteAction() has  *)
(* taken out of every map of every channel first.                          *)
THEOREM NothingEverDangles == Spec => []NothingDangles
  <1>1. DatabaseInvariant => NothingDangles
    BY DEF DatabaseInvariant, StoreInvariant
  <1>2. QED BY <1>1, DatabaseInvariantHolds, PTL
=============================================================================
