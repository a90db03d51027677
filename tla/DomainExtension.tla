--------------------------- MODULE DomainExtension ---------------------------
(***************************************************************************)
(* The X tree database as a store of trees (vn/db/x_tree_database.cpp) and *)
(* its domain extension (vn/db/domain_extension.cpp).                      *)
(*                                                                         *)
(* An extender is a pattern node, such as "the type of this expression",   *)
(* whose value may be a node that is in no tree.  Constraint variables     *)
(* range over links of the database only, so every such value must have    *)
(* been added to the database, in an extra tree of its own, before a       *)
(* search begins.  A link whose value is induced this way is a stimulus.   *)
(* One channel per kind of extender keeps, for each stimulus, the value    *)
(* and the links it was computed from; links that are new, or that lost    *)
(* one of those, wait in a recheck set for the end of the tree update.     *)
(*                                                                         *)
(* Nodes are abstracted to their kind.  An extender is a pure function     *)
(* that reads links and returns a value up to SimpleCompare (a class): it  *)
(* is the constants Reads and Induces.  A link is named by the address of  *)
(* its TreePtr, and addresses are ordered as std::set<XLink> orders them.  *)
(* Scaffold is the kind of the place-holders a tree update puts in a tree. *)
(***************************************************************************)
EXTENDS Integers, Sequences, FiniteSets, FiniteSetsExt, SequencesExt

CONSTANTS
    Links,        \* addresses a TreePtr can have
    Channels,     \* equivalence classes of extenders, in map order
    Kinds,        \* what a node can be, as far as extenders tell
    Sort,         \* [Kinds -> the C++ type of pointer that can hold it]
    Classes,      \* values an extender can induce, up to SimpleCompare
    NoClass,      \* the extender fails here, or its value is already in a tree
    Reads,        \* [Channels -> [Kinds -> kinds of links read, maybe Self]]
    Self,         \* in Reads: the stimulus link itself is read
    Induces(_, _, _), \* channel, kind, kinds seen: the value's class
    Body,         \* [Classes -> the kinds of the links in the value's tree]
    Scaffold,     \* kind of the place-holder nodes of a tree update
    MainKinds,    \* kinds of the links of the main tree, when it is built
    NewKinds,     \* kinds of node a tree update can put at a base
    InnerKinds,   \* and below one
    Heap(_, _),   \* bound: of a set of addresses, those offered for n pointers
    MaxInner,     \* bound: links of a tree it builds, besides the root
    Reserve,      \* bound: addresses free when it builds one
    MaxBuilt      \* bound: trees built by the updates of a behaviour

ASSUME LinksAssumption == Links \subseteq Nat /\ IsFiniteSet(Links)
ASSUME ChannelsAssumption ==
    IsFiniteSet(Channels) /\ Channels = 1..Cardinality(Channels) /\ Channels # {}
ASSUME KindsAssumption ==
    /\ Scaffold \in Kinds
    /\ DOMAIN Sort = Kinds
    /\ Reads \in [Channels -> [Kinds -> SUBSET (Kinds \cup {Self})]]
    /\ \A ch \in Channels, k \in Kinds, seen \in SUBSET Kinds :
           Induces(ch, k, seen) \in Classes \cup {NoClass}
    /\ NoClass \notin Classes
    /\ \A c \in Classes : Body[c] \in Seq(Kinds \ {Scaffold})
    /\ MainKinds \in Seq(Kinds \ {Scaffold})
    /\ NewKinds \subseteq Kinds /\ InnerKinds \subseteq Kinds
ASSUME BoundsAssumption == MaxInner \in Nat /\ Reserve \in Nat /\ MaxBuilt \in Nat

VARIABLES
    owner,      \* [Links -> the ordinal of the tree the TreePtr is in]
    node,       \* [Links -> Kinds]: the kind of the node pointed to
    trees_by_ordinal,       \* ordinal -> type of the tree
    next_tree_ordinal,
    free_tree_ordinals,     \* queue of ordinals to use again
    deferred_tree_ordinals, \* queue of trees torn down but not yet freed
    info,       \* per channel: stimulus_to_induced_root_and_deps
    dep_to_all_stimulii,    \* per channel, as a set of pairs <<dep, stimulus>>
    stimulii_to_recheck,    \* per channel
    classes,    \* per channel: induced_root_to_tree_ordinal_and_ref_count
    ordinals_to_tear_down,  \* per channel
    pc,         \* the phase, and where its loops are
    built       \* trees built by updates, to bound them

store == <<owner, node, trees_by_ordinal, next_tree_ordinal,
           free_tree_ordinals, deferred_tree_ordinals, built>>
channels == <<info, dep_to_all_stimulii, stimulii_to_recheck, classes,
              ordinals_to_tear_down>>
vars == <<store, channels, pc>>

NoTree == -1

Empty == [x \in {} |-> x]

Trees == DOMAIN trees_by_ordinal
Freed == {x \in Links : owner[x] = NoTree}
Deferred == ToSet(deferred_tree_ordinals)
LinksOf(ord) == {x \in Links : owner[x] = ord}

(* The links that are in the tables of the database. *)
Live == {x \in Links : owner[x] # NoTree /\ owner[x] \notin Deferred}

LiveTrees(type) == {ord \in Trees \ Deferred : trees_by_ordinal[ord] = type}

Searching == [at |-> "search", ch |-> 1, cursor |-> -1]
Updating  == [at |-> "update", ch |-> 1, cursor |-> -1]
Checking(ch, cursor) == [at |-> "check", ch |-> ch, cursor |-> cursor]
EndingStep(ch, cursor) == [at |-> "step", ch |-> ch, cursor |-> cursor]

-----------------------------------------------------------------------------
(* Extenders: GetDomainExtension().                                        *)

Read(ch, x) ==
    {y \in Live : IF y = x THEN Self \in Reads[ch][node[x]]
                           ELSE node[y] \in Reads[ch][node[x]]}

(* The class of the value at x, which exists only if it was induced. *)
GetDomainExtension(ch, x) ==
    Induces(ch, node[x], {node[y] : y \in Read(ch, x)})

-----------------------------------------------------------------------------
(* Tree ordinals and addresses.                                            *)

(* Mutant of Allocated: the ordinal is read off the queue and stays there. *)
AllocatedNotPopped(ord, frees, next) ==
    IF free_tree_ordinals = <<>>
    THEN ord = next_tree_ordinal /\ frees = <<>> /\ next = ord + 1
    ELSE /\ ord = Head(free_tree_ordinals)
         /\ frees = free_tree_ordinals
         /\ next = next_tree_ordinal

Allocated(ord, frees, next) ==
    IF free_tree_ordinals = <<>>
    THEN ord = next_tree_ordinal /\ frees = <<>> /\ next = ord + 1
    ELSE /\ ord = Head(free_tree_ordinals)
         /\ frees = Tail(free_tree_ordinals)
         /\ next = next_tree_ordinal

(* Where the heap may have put n pointers. *)
Places(n) == {at \in [1..n -> Freed \cap Heap(Freed, n)] : IsInjective(at)}

(* BuildTree() up to its call of DomainExtension::InsertTree(): a tree of  *)
(* the given kinds, one link each, at whatever addresses the heap gave.    *)
BuildTree(type, kinds, at) ==
    /\ \E ord \in 0..Cardinality(Links) :
        /\ Allocated(ord, free_tree_ordinals', next_tree_ordinal')
        /\ owner' = [x \in Links |-> IF x \in Range(at) THEN ord ELSE owner[x]]
        /\ node' = [x \in Links |->
                        IF x \in Range(at) THEN kinds[CHOOSE i \in DOMAIN at : at[i] = x]
                                           ELSE node[x]]
        /\ trees_by_ordinal' =
               [o \in Trees \cup {ord} |-> IF o = ord THEN type ELSE trees_by_ordinal[o]]
    /\ UNCHANGED deferred_tree_ordinals

(* FreeTree() of every ordinal of a sequence, in turn. *)
FreeTrees(ords) ==
    /\ trees_by_ordinal' = [o \in Trees \ ToSet(ords) |-> trees_by_ordinal[o]]
    /\ free_tree_ordinals' = free_tree_ordinals \o ords
    /\ owner' = [x \in Links |-> IF owner[x] \in ToSet(ords) THEN NoTree ELSE owner[x]]
    /\ node' = [x \in Links |-> IF owner[x] \in ToSet(ords) THEN Scaffold ELSE node[x]]
    /\ UNCHANGED next_tree_ordinal

-----------------------------------------------------------------------------
(* DomainExtension::InsertTree() and DeleteTree() over a set of links, for *)
(* every channel.  Scaffold links are passed over.  The walk's order makes *)
(* no difference: a stimulus that is dropped because of a dependency waits *)
(* in the recheck set only if the walk does not delete it too.             *)

Tracked(S, kind) == {x \in S : kind[x] # Scaffold}

(* DropStimulusXLink() on each of a set of stimulii.                       *)
RefsLeft(ch, gone, c) ==
    classes[ch][c].ref_count
        - Cardinality({s \in gone \cap DOMAIN info[ch] : info[ch][s].root = c})
Emptied(ch, gone) == {c \in DOMAIN classes[ch] : RefsLeft(ch, gone, c) <= 0}

(* Mutants of DropStimulusXLink: the dependencies stay; the tree does. *)
DropKeepsDeps(ch, gone) ==
    [info    |-> [s \in DOMAIN info[ch] \ gone |-> info[ch][s]],
     deps    |-> dep_to_all_stimulii[ch],
     classes |-> [c \in DOMAIN classes[ch] \ Emptied(ch, gone) |->
                     [classes[ch][c] EXCEPT !.ref_count = RefsLeft(ch, gone, c)]],
     tear    |-> ordinals_to_tear_down[ch]
                     \cup {classes[ch][c].tree_ordinal : c \in Emptied(ch, gone)}]
DropForgetsTree(ch, gone) ==
    [DropKeepsDeps(ch, gone) EXCEPT
        !.deps = {p \in @ : p[2] \notin gone},
        !.tear = ordinals_to_tear_down[ch]]

DropStimulusXLink(ch, gone) ==
    [info    |-> [s \in DOMAIN info[ch] \ gone |-> info[ch][s]],
     deps    |-> dep_to_all_stimulii[ch] \
                     UNION {info[ch][s].deps \X {s} : s \in gone \cap DOMAIN info[ch]},
     classes |-> [c \in DOMAIN classes[ch] \ Emptied(ch, gone) |->
                     [classes[ch][c] EXCEPT !.ref_count = RefsLeft(ch, gone, c)]],
     tear    |-> ordinals_to_tear_down[ch]
                     \cup {classes[ch][c].tree_ordinal : c \in Emptied(ch, gone)}]

(* The stimulii that DeleteAction() on the links of S drops: those in S    *)
(* and those that depend on a link of S.                                   *)
DroppedWith(ch, S) ==
    (S \cap DOMAIN info[ch])
        \cup {s \in Links : \E d \in S : <<d, s>> \in dep_to_all_stimulii[ch]}

(* Mutants of RecheckAfter: deleted links stay; dependents are not added. *)
RecheckKeepsDeleted(ch, S) ==
    stimulii_to_recheck[ch] \cup (DroppedWith(ch, S) \ S)
RecheckForgetsDependents(ch, S) == stimulii_to_recheck[ch] \ S

RecheckAfter(ch, S) ==
    (stimulii_to_recheck[ch] \ S) \cup (DroppedWith(ch, S) \ S)

(* All of DeleteAction() except what it does to the recheck sets. *)
DeleteAction(S) ==
    LET after == [ch \in Channels |-> DropStimulusXLink(ch, DroppedWith(ch, S))]
    IN  /\ info' = [ch \in Channels |-> after[ch].info]
        /\ dep_to_all_stimulii' = [ch \in Channels |-> after[ch].deps]
        /\ classes' = [ch \in Channels |-> after[ch].classes]
        /\ ordinals_to_tear_down' = [ch \in Channels |-> after[ch].tear]

-----------------------------------------------------------------------------
(* Tree updates.                                                           *)

Init ==
    /\ owner = [x \in Links |-> NoTree]
    /\ node = [x \in Links |-> Scaffold]
    /\ trees_by_ordinal = Empty
    /\ next_tree_ordinal = 0
    /\ free_tree_ordinals = <<>>
    /\ deferred_tree_ordinals = <<>>
    /\ info = [ch \in Channels |-> Empty]
    /\ dep_to_all_stimulii = [ch \in Channels |-> {}]
    /\ stimulii_to_recheck = [ch \in Channels |-> {}]
    /\ classes = [ch \in Channels |-> Empty]
    /\ ordinals_to_tear_down = [ch \in Channels |-> {}]
    /\ pc = Updating
    /\ built = 0

(* TreeUpdater::BuildMainTree() *)
BuildMainTree ==
    /\ Trees = {}
    /\ \E at \in Places(Len(MainKinds)) :
           /\ BuildTree("MAIN", MainKinds, at)
           /\ stimulii_to_recheck' =
                  [ch \in Channels |-> Tracked(Range(at), node')]
    /\ pc' = Checking(1, -1)
    /\ UNCHANGED <<info, dep_to_all_stimulii, classes, ordinals_to_tear_down, built>>

(* A match was found; TreeUpdater::UpdateMainTree() begins to apply it. *)
BeginUpdate ==
    /\ pc = Searching
    /\ Cardinality(Freed) >= Reserve
    /\ pc' = Updating
    /\ UNCHANGED <<store, channels>>

(* ScaffoldOps::FreeZoneIntoExtraTree(): new content, or a place-holder    *)
(* for content that is to move, in a tree of its own.                      *)
BuildUpdateTree ==
    /\ pc = Updating /\ LiveTrees("MAIN") # {}
    /\ built < MaxBuilt
    /\ built' = built + 1
    /\ Cardinality(Freed) >= Reserve
    /\ \E base \in NewKinds, n \in 0..MaxInner : \E inner \in [1..n -> InnerKinds] :
       \E at \in Places(n + 1) :
           /\ BuildTree("UPDATE", <<base>> \o inner, at)
           /\ stimulii_to_recheck' =
                  [ch \in Channels |->
                      stimulii_to_recheck[ch] \cup Tracked(Range(at), node')]
    /\ UNCHANGED <<info, dep_to_all_stimulii, classes, ordinals_to_tear_down, pc>>

(* SwapTreeToTree() of a zone of the main tree and a zone of an update     *)
(* tree.  The pointers to the bases stay in their trees and exchange what  *)
(* they point to; the pointers inside a zone go with it to the other tree, *)
(* and those at its terminii exchange what they point to as well.          *)
Exchanged(pairs) ==
    [x \in Links |-> IF \E p \in pairs : x \in Range(p)
                     THEN LET p == CHOOSE p \in pairs : x \in Range(p)
                          IN  node[IF x = p[1] THEN p[2] ELSE p[1]]
                     ELSE node[x]]

MayExchange(x, y) ==
    Sort[node[x]] = Sort[node[y]] \/ Scaffold \in {node[x], node[y]}

(* A place-holder stands in the main tree for a zone that was moved out to *)
(* an update tree and is still to be moved in (MoveOutPass, MoveInPass).   *)
PlacesHeld(kind, own, updates) ==
    LET held(o) == {x \in Links : own[x] = o /\ kind[x] = Scaffold}
        kept(o) == {x \in Links : own[x] = o /\ kind[x] # Scaffold}
    IN  \A m \in LiveTrees("MAIN") :
            Cardinality(held(m)) <= Cardinality({o \in updates : kept(o) # {}})

(* The zones have bases b1 and b2, pointers inside in1 and in2. *)
SwapZones(o1, o2, b1, b2, in1, in2, terminii) ==
    LET S == {b1, b2} \cup in1 \cup in2
        pairs == terminii \cup {<<b1, b2>>}
    IN  /\ \A p, q \in terminii : p[1] = q[1] <=> p[2] = q[2]
        /\ \A p \in pairs : MayExchange(p[1], p[2])
        /\ node' = Exchanged(pairs)
        /\ owner' = [x \in Links |-> CASE x \in in1 -> o2
                                       [] x \in in2 -> o1
                                       [] OTHER -> owner[x]]
        /\ PlacesHeld(node', owner', LiveTrees("UPDATE"))
        /\ DeleteAction(Tracked(S, node))
        /\ stimulii_to_recheck' =
               [ch \in Channels |-> RecheckAfter(ch, Tracked(S, node))
                                        \cup Tracked(S, node')]

SwapTreeToTree ==
    /\ pc = Updating
    /\ \E o1 \in LiveTrees("MAIN"), o2 \in LiveTrees("UPDATE") :
       \E b1 \in LinksOf(o1), b2 \in LinksOf(o2) :
       \E in1 \in SUBSET (LinksOf(o1) \ {b1}), in2 \in SUBSET (LinksOf(o2) \ {b2}) :
       \E terminii \in SUBSET (in1 \X in2) :
           SwapZones(o1, o2, b1, b2, in1, in2, terminii)
    /\ UNCHANGED <<trees_by_ordinal, next_tree_ordinal, free_tree_ordinals,
                   deferred_tree_ordinals, built, pc>>

(* TeardownTree(): out of the channels and the tables, then freed.  *)
TeardownTree(ord) ==
    LET S == Tracked(LinksOf(ord), node)
    IN  /\ DeleteAction(S)
        /\ stimulii_to_recheck' = [ch \in Channels |-> RecheckAfter(ch, S)]

(* InversionPass::Invert() has swapped new content in, and tears down the  *)
(* tree that now holds the old, keeping the nodes until the step's end.    *)
TeardownOldContent ==
    /\ pc = Updating
    /\ \E ord \in LiveTrees("UPDATE") :
           /\ PlacesHeld(node, owner, LiveTrees("UPDATE") \ {ord})
           /\ TeardownTree(ord)
           /\ deferred_tree_ordinals' = Append(deferred_tree_ordinals, ord)
    /\ UNCHANGED <<owner, node, trees_by_ordinal, next_tree_ordinal,
                   free_tree_ordinals, built, pc>>

(* MoveInPass::Run() has swapped the moved zones in, and tears down every  *)
(* tree they came from, nodes and all.  It does not look what is in them:  *)
(* that it is scaffold only is up to the passes (TreeUpdate).              *)
TeardownMoved ==
    /\ pc = Updating
    /\ \E ord \in LiveTrees("UPDATE") :
           /\ PlacesHeld(node, owner, LiveTrees("UPDATE") \ {ord})
           /\ TeardownTree(ord)
           /\ FreeTrees(<<ord>>)
    /\ UNCHANGED <<deferred_tree_ordinals, built, pc>>

(* The update is applied; DeferredActionsEndOfUpdate() follows. *)
EndUpdate ==
    /\ pc = Updating /\ LiveTrees("MAIN") # {} /\ LiveTrees("UPDATE") = {}
    /\ \A ord \in LiveTrees("MAIN") : Tracked(LinksOf(ord), node) = LinksOf(ord)
    /\ pc' = Checking(1, -1)
    /\ UNCHANGED <<store, channels>>

-----------------------------------------------------------------------------
(* DomainExtension::DeferredActionsEndOfUpdate(): for each channel, a loop *)
(* over its recheck set in address order.  The body of the loop may build  *)
(* a tree and so insert into the set; a std::set's iterator goes on to the *)
(* next greater element.                                                   *)

Ahead(S, cursor) == {e \in S : e > cursor}

(* What CheckStimulusXLink() records of a stimulus x of class c. *)
Record(x, c) ==
    LET ch == pc.ch
        deps == Read(ch, x)
    IN  /\ info' = [info EXCEPT ![ch] = [s \in DOMAIN info[ch] \cup {x} |->
                        IF s = x THEN [root |-> c, deps |-> deps] ELSE info[ch][s]]]
        /\ dep_to_all_stimulii' = [dep_to_all_stimulii EXCEPT ![ch] =
                        @ \cup {<<d, x>> : d \in deps}]

ExtensionClass(ord, n) == [tree_ordinal |-> ord, ref_count |-> n]

CheckNonStimulus(x) ==
    /\ GetDomainExtension(pc.ch, x) = NoClass
    /\ UNCHANGED <<store, channels>>

CheckKnownClass(x) ==
    LET c == GetDomainExtension(pc.ch, x)
    IN  /\ c \in DOMAIN classes[pc.ch]
        /\ Record(x, c)
        /\ classes' = [classes EXCEPT ![pc.ch][c].ref_count = @ + 1]
        /\ UNCHANGED <<store, stimulii_to_recheck, ordinals_to_tear_down>>

(* CreateExtraTree(): the new tree's links enter every recheck set,        *)
(* including the one that is being iterated over.                          *)
CheckNewClass(x) ==
    LET c == GetDomainExtension(pc.ch, x)
    IN  /\ c \in Classes \ DOMAIN classes[pc.ch]
        /\ Record(x, c)
        /\ \E at \in Places(Len(Body[c])), ord \in 0..Cardinality(Links) :
            /\ BuildTree("DOMAIN_EXTENSION", Body[c], at)
            /\ ord \in DOMAIN trees_by_ordinal' \ Trees
            /\ classes' = [classes EXCEPT ![pc.ch] =
                              [d \in DOMAIN @ \cup {c} |->
                                  IF d = c THEN ExtensionClass(ord, 1) ELSE @[d]]]
            /\ stimulii_to_recheck' =
                   [ch \in Channels |->
                       stimulii_to_recheck[ch] \cup Tracked(Range(at), node')]
        /\ UNCHANGED <<ordinals_to_tear_down, built>>

CheckStimulusXLink ==
    /\ pc.at = "check"
    /\ Ahead(stimulii_to_recheck[pc.ch], pc.cursor) # {}
    /\ LET x == Min(Ahead(stimulii_to_recheck[pc.ch], pc.cursor))
       IN  /\ CheckNonStimulus(x) \/ CheckKnownClass(x) \/ CheckNewClass(x)
           /\ pc' = Checking(pc.ch, x)

ClearRecheck ==
    /\ pc.at = "check"
    /\ Ahead(stimulii_to_recheck[pc.ch], pc.cursor) = {}
    /\ stimulii_to_recheck' = [stimulii_to_recheck EXCEPT ![pc.ch] = {}]
    /\ pc' = IF pc.ch + 1 \in Channels THEN Checking(pc.ch + 1, -1) ELSE Searching
    /\ UNCHANGED <<store, info, dep_to_all_stimulii, classes, ordinals_to_tear_down>>

-----------------------------------------------------------------------------
(* VNStep::Transform() is over: XTreeDatabase::DeferredActionsEndOfStep(). *)

EndStep ==
    /\ pc = Searching
    /\ FreeTrees(deferred_tree_ordinals)
    /\ deferred_tree_ordinals' = <<>>
    /\ pc' = EndingStep(1, -1)
    /\ UNCHANGED <<channels, built>>

TeardownExtension ==
    /\ pc.at = "step"
    /\ Ahead(ordinals_to_tear_down[pc.ch], pc.cursor) # {}
    /\ LET ord == Min(Ahead(ordinals_to_tear_down[pc.ch], pc.cursor))
       IN  /\ TeardownTree(ord)
           /\ FreeTrees(<<ord>>)
           /\ pc' = EndingStep(pc.ch, ord)
    /\ UNCHANGED <<deferred_tree_ordinals, built>>

ClearTearDown ==
    /\ pc.at = "step"
    /\ Ahead(ordinals_to_tear_down[pc.ch], pc.cursor) = {}
    /\ ordinals_to_tear_down' = [ordinals_to_tear_down EXCEPT ![pc.ch] = {}]
    /\ pc' = IF pc.ch + 1 \in Channels THEN EndingStep(pc.ch + 1, -1) ELSE Searching
    /\ UNCHANGED <<store, info, dep_to_all_stimulii, stimulii_to_recheck, classes>>

-----------------------------------------------------------------------------
Next ==
    \/ BuildMainTree \/ BeginUpdate \/ BuildUpdateTree \/ SwapTreeToTree
    \/ TeardownOldContent \/ TeardownMoved \/ EndUpdate
    \/ CheckStimulusXLink \/ ClearRecheck
    \/ EndStep \/ TeardownExtension \/ ClearTearDown

Spec == Init /\ [][Next]_vars

-----------------------------------------------------------------------------
(* Properties.                                                             *)

Ordinals == 0..Cardinality(Links)

TreeTypes == {"MAIN", "UPDATE", "DOMAIN_EXTENSION"}

StoreTypeOK ==
    /\ owner \in [Links -> Ordinals \cup {NoTree}]
    /\ node \in [Links -> Kinds]
    /\ Trees \subseteq Ordinals
    /\ \A ord \in Trees : trees_by_ordinal[ord] \in TreeTypes
    /\ next_tree_ordinal \in Nat
    /\ free_tree_ordinals \in Seq(Ordinals)
    /\ deferred_tree_ordinals \in Seq(Ordinals)

ChannelsTypeOK ==
    /\ DOMAIN info = Channels
    /\ dep_to_all_stimulii \in [Channels -> SUBSET (Links \X Links)]
    /\ stimulii_to_recheck \in [Channels -> SUBSET Links]
    /\ DOMAIN classes = Channels
    /\ ordinals_to_tear_down \in [Channels -> SUBSET Ordinals]
    /\ \A ch \in Channels :
        /\ DOMAIN info[ch] \subseteq Links
        /\ \A s \in DOMAIN info[ch] :
               info[ch][s] \in [root : Classes, deps : SUBSET Links]
        /\ DOMAIN classes[ch] \subseteq Classes
        /\ \A c \in DOMAIN classes[ch] :
               classes[ch][c] \in [tree_ordinal : Ordinals, ref_count : Nat]

Phases == [at : {"search", "update", "check", "step"}, ch : Channels,
           cursor : Links \cup Ordinals \cup {-1}]

(* Every map and set holds what its C++ type holds. *)
TypeOK ==
    /\ StoreTypeOK
    /\ ChannelsTypeOK
    /\ pc \in Phases
    /\ built \in 0..MaxBuilt

(* The three maps of a channel agree: the dependencies are the exact       *)
(* inverse, every stimulus has its class, and a class counts its stimulii. *)
MapsAgree(ch) ==
    /\ dep_to_all_stimulii[ch] =
           UNION {info[ch][s].deps \X {s} : s \in DOMAIN info[ch]}
    /\ \A s \in DOMAIN info[ch] : info[ch][s].root \in DOMAIN classes[ch]
    /\ \A c \in DOMAIN classes[ch] :
           /\ classes[ch][c].ref_count > 0
           /\ classes[ch][c].ref_count =
                  Cardinality({s \in DOMAIN info[ch] : info[ch][s].root = c})

(* What Validate() asserts, and more: the maps of every channel agree and, *)
(* as InsertSolo(stimulii_to_recheck, x) asserts, a link with a recorded   *)
(* value is not also waiting for a check.                                  *)
MapsInSynch ==
    \A ch \in Channels :
        /\ MapsAgree(ch)
        /\ pc.at \in {"search", "update"} =>
               stimulii_to_recheck[ch] \cap DOMAIN info[ch] = {}

(* Ordinals a channel still has to tear down. *)
Pending(ch) ==
    IF pc.at = "step" /\ pc.ch = ch
    THEN Ahead(ordinals_to_tear_down[ch], pc.cursor)
    ELSE ordinals_to_tear_down[ch]

(* No channel holds a link or a tree that the database has let go of: an   *)
(* XLink is the address of a pointer, which would be dangling.             *)
NothingDangles ==
    \A ch \in Channels :
        /\ DOMAIN info[ch] \cup stimulii_to_recheck[ch] \subseteq Live
        /\ \A s \in DOMAIN info[ch] : info[ch][s].deps \subseteq Live
        /\ \A c \in DOMAIN classes[ch] :
               classes[ch][c].tree_ordinal \in LiveTrees("DOMAIN_EXTENSION")
        /\ Pending(ch) \subseteq LiveTrees("DOMAIN_EXTENSION")

(* Every extra tree of the domain extension has exactly one owner, a class *)
(* or a channel's list for the end of the step: so it is torn down, once.  *)
ExtraTreeHasOneOwner ==
    \A ord \in LiveTrees("DOMAIN_EXTENSION") :
        Cardinality({ch \in Channels : \E c \in DOMAIN classes[ch] :
                                           classes[ch][c].tree_ordinal = ord})
          + Cardinality({ch \in Channels : ord \in Pending(ch)}) = 1

(* When RelocateOperator::Evaluate() asks for the value at any link during *)
(* a search, the assertions of GetUniqueDomainExtension() hold: a value    *)
(* that is induced is the recorded value of that stimulus.                 *)
ExtensionsKnown ==
    pc = Searching =>
        \A ch \in Channels : \A x \in Tracked(Live, node) :
            LET c == GetDomainExtension(ch, x)
            IN  c # NoClass => /\ x \in DOMAIN info[ch]
                               /\ info[ch][x].root = c

-----------------------------------------------------------------------------
(* What holds the above together: the inductive invariant.                 *)

(* An ordinal is in use, in the queue to be used again, or neither, and in *)
(* a queue at most once: a tree is not built over another, nor freed twice.*)
OrdinalsKept ==
    /\ \A ord \in Trees \cup ToSet(free_tree_ordinals) : ord < next_tree_ordinal
    /\ Trees \cap ToSet(free_tree_ordinals) = {}
    /\ IsInjective(free_tree_ordinals)
    /\ IsInjective(deferred_tree_ordinals)
    /\ \A ord \in Deferred : ord \in Trees /\ trees_by_ordinal[ord] = "UPDATE"
    /\ \A x \in Links : owner[x] # NoTree => owner[x] \in Trees

(* The main tree is built first and stays; before it there is nothing.     *)
MainTreeStays == LiveTrees("MAIN") # {} \/ (Trees = {} /\ pc = Updating)

(* Only an update has trees of its own and place-holders, and a channel    *)
(* never holds a place-holder.                                             *)
ScaffoldUntracked ==
    /\ pc.at # "update" => LiveTrees("UPDATE") = {} /\ Live = Tracked(Live, node)
    /\ \A ord \in LiveTrees("DOMAIN_EXTENSION") :
           LinksOf(ord) = Tracked(LinksOf(ord), node)
    /\ \A ch \in Channels :
        /\ DOMAIN info[ch] \subseteq Tracked(Live, node)
        /\ stimulii_to_recheck[ch] \subseteq Tracked(Live, node)
        /\ \A s \in DOMAIN info[ch] : info[ch][s].deps \subseteq Tracked(Live, node)

(* Links a channel still has to check. *)
Waiting(ch) ==
    IF pc.at = "check" /\ pc.ch = ch
    THEN Ahead(stimulii_to_recheck[ch], pc.cursor)
    ELSE stimulii_to_recheck[ch]

WaitingUnknown == \A ch \in Channels : Waiting(ch) \cap DOMAIN info[ch] = {}

(* Trees that belong to a channel. *)
Owned(ch) == {classes[ch][c].tree_ordinal : c \in DOMAIN classes[ch]} \cup Pending(ch)

(* No tree has two owners. *)
OwnersApart ==
    \A ch1, ch2 \in Channels :
        /\ \A c1 \in DOMAIN classes[ch1], c2 \in DOMAIN classes[ch2] :
               classes[ch1][c1].tree_ordinal = classes[ch2][c2].tree_ordinal
                   => ch1 = ch2 /\ c1 = c2
        /\ \A c1 \in DOMAIN classes[ch1] :
               classes[ch1][c1].tree_ordinal \notin Pending(ch2)
        /\ ch1 # ch2 => Pending(ch1) \cap Pending(ch2) = {}

(* The store of trees is well-formed, and agrees with the channels on whose *)
(* a tree is and what may be in it.                                        *)
StoreInvariant ==
    /\ TypeOK
    /\ OrdinalsKept
    /\ MainTreeStays
    /\ ScaffoldUntracked
    /\ WaitingUnknown
    /\ OwnersApart

(* The store of trees and the channels' maps are well-formed, together.    *)
DatabaseInvariant ==
    /\ StoreInvariant
    /\ MapsInSynch
    /\ NothingDangles

-----------------------------------------------------------------------------
(* What holds of any extenders, though their own trees are extended again, *)
(* or they refuse a value and later give one.                              *)

(* Extra trees that nobody will tear down. *)
Unowned ==
    {ord \in LiveTrees("DOMAIN_EXTENSION") : \A ch \in Channels : ord \notin Owned(ch)}

(* A tree is lost to its owner in one way only.  Tearing down a tree at    *)
(* the end of a step may take the last stimulus of a class with it, whose  *)
(* tree DropStimulusXLink() adds to the set being iterated over: a tree of *)
(* the same channel, with an ordinal the iterator has passed, is not met   *)
(* again.  Nothing else that updates, checks or ends of steps do loses one.*)
LostOnlyBehind ==
    [][\A ord \in Unowned' \ Unowned :
           /\ pc.at = "step" /\ ord < pc'.cursor
           /\ \E c \in DOMAIN classes[pc.ch] : classes[pc.ch][c].tree_ordinal = ord]_vars

(* The kinds of the links in the extra trees of a channel. *)
BuiltKinds(ch) ==
    UNION {Range(Body[c]) : c \in {d \in Classes :
               \E k \in Kinds, seen \in SUBSET Kinds : Induces(ch, k, seen) = d}}

(* What an update or an extension can add to the trees. *)
AddedKinds == NewKinds \cup InnerKinds \cup UNION {BuiltKinds(ch) : ch \in Channels}

(* A recorded value is that of what was read, all of which is still there  *)
(* and would be read again; what could be read besides was added later.    *)
ValuesCurrent ==
    \A ch \in Channels : \A s \in DOMAIN info[ch] :
        /\ info[ch][s].root = Induces(ch, node[s], {node[d] : d \in info[ch][s].deps})
        /\ info[ch][s].deps \subseteq Read(ch, s)
        /\ \A y \in Read(ch, s) \ info[ch][s].deps : node[y] \in AddedKinds

(* An extender is a function of the links it follows: a value it has found *)
(* it finds again while those are there, whatever is added elsewhere.      *)
InducedStays ==
    \A ch \in Channels, k \in Kinds, seen \in SUBSET Kinds :
        Induces(ch, k, seen) # NoClass =>
            \A more \in SUBSET AddedKinds :
                Induces(ch, k, seen \cup more) = Induces(ch, k, seen)

(* No recorded value is stale: where GetUniqueDomainExtension() finds a    *)
(* stimulus, the value it compares with is the recorded one.               *)
RecordedCurrent ==
    \A ch \in Channels : \A s \in DOMAIN info[ch] :
        info[ch][s].root = GetDomainExtension(ch, s)
=============================================================================
