----------------------------- MODULE XTreeTables -----------------------------
(****************************************************************************)
(* The tables that XTreeDatabase keeps of its trees: the domain, the link   *)
(* and node tables, and the orderings the searches run on (vn/db). Each     *)
(* operation on the database takes them in a fixed order; a swap of two     *)
(* zones takes out what it is going to disturb, in one order, and puts it   *)
(* back in the reverse. An ordering is a std::set whose relation reads the  *)
(* other tables (depth first) or the trees themselves (simple compare): it  *)
(* may be used only while its elements are in order by that relation. An    *)
(* ordering here is its elements, and the pairs of them of which the one    *)
(* comes before the other in the std::set.                                  *)
(*                                                                          *)
(* The trees are a memory as in TreeZones. Leaves, and no other nodes, may  *)
(* have several parents (rule #217). All children of a node are in one      *)
(* sequence.                                                                *)
(****************************************************************************)
EXTENDS TreeZones

CONSTANTS
  Identifiers, \* labels of the leaves that any number of parents may share
  Shapes,      \* the free zones built into trees: [root, label, kids]
  Declarer,    \* label of the nodes whose first child is a declaration of it
  MaxTerminii, \* of the zones that are swapped
  MaxBuilt,    \* trees built in a behaviour
  MaxSwaps     \* swaps in a behaviour

\* Nodes are numbers in a shape: first the identifiers, behind them the new
\* nodes from the root down. label and kids are those of the new nodes.
IsShape(shape) ==
  LET shared == Len(Identifiers)
      fresh == 1..Len(shape.label) IN
  /\ shape.label \in Seq(Nat)
  /\ shape.kids \in Seq(Seq(1..(shared + Len(shape.label))))
  /\ Len(shape.kids) = Len(shape.label)
  /\ \/ shape.label # <<>> /\ shape.root = shared + 1
     \/ shape.label = <<>> /\ shape.root \in DOMAIN Identifiers
  /\ \A k \in fresh : \A i \in DOMAIN shape.kids[k] :
       LET kid == shape.kids[k][i] IN
       kid > shared =>
         /\ kid > shared + k
         /\ \A l \in fresh : \A j \in DOMAIN shape.kids[l] :
              shape.kids[l][j] = kid => l = k /\ j = i
  /\ \A k \in fresh \ {1} :
       \E l \in fresh : \E j \in DOMAIN shape.kids[l] : shape.kids[l][j] = shared + k

\* Only leaves, and no other nodes, have more than one parent.
ASSUME ShapesAssumption ==
  /\ Identifiers \in Seq(Nat) /\ MaxTerminii \in Nat
  /\ \A shape \in Shapes : IsShape(shape)

VARIABLES
  mem,     \* the nodes, and the trees in trees_by_ordinal
  domain,  \* Domain::unordered_domain
  rows,    \* LinkTable::rows: [parent, pos, ord]
  nodes,   \* NodeTable::rows: [incoming, declaring]
  dfo,     \* depth_first_ordering, of links: [has, before]
  sc,      \* simple_compare_ordering, of nodes: [has, before]
  cat,     \* category_ordering (a set: its relation never changes)
  todo,    \* the tables the operation has still to take
  zones,   \* the zone, or two zones, it is about
  info,    \* terminus_info of LinkTable::SwapTransaction, one sequence a zone
  fault,   \* "" or the ASSERT, or misuse of a std::set, that was met
  count    \* trees built and swaps done

vars == <<mem, domain, rows, nodes, dfo, sc, cat, todo, zones, info, fault, count>>

NoFault == ""

NoElements == [has |-> {}, before |-> {}]

Init ==
  /\ mem = [label |-> Identifiers, slots |-> [n \in DOMAIN Identifiers |-> <<>>],
            at |-> <<>>, type |-> <<>>, freed |-> {}]
  /\ domain = {} /\ rows = <<>> /\ nodes = <<>> /\ cat = {}
  /\ dfo = NoElements /\ sc = NoElements
  /\ todo = <<>> /\ zones = <<>> /\ info = <<>> /\ fault = NoFault
  /\ count = [built |-> 0, swaps |-> 0]

Idle == todo = <<>> /\ fault = NoFault

-----------------------------------------------------------------------------
(* The links and nodes of a zone, and the relations. *)

\* DBWalk::WalkTreeZone(): base, inside and terminii.
ZoneLinks(m, s, stop) ==
  LET links[q \in DOMAIN m.at] ==
        IF q \in stop THEN {q}
        ELSE {q} \cup UNION {links[r] : r \in ToSet(m.slots[m.at[q]])}
  IN links[s]

Links(z) == ZoneLinks(mem, z.base, ToSet(z.term))

WholeTree(t) == [base |-> <<0, t>>, term |-> <<>>, ord |-> t]

\* XTreeDatabase::TryGetParentXLink(), from the tables. The answer is a set:
\* the link, or none for a root. Two would break rule #217.
ParentLinks(s) ==
  IF rows[s].parent = Null THEN {} ELSE nodes[rows[s].parent].incoming

\* DepthFirstRelation: tree ordinal of the root, then positions on the way down,
\* as far as the tables tell; <<>> when a row is missing on the way (GetRow()
\* would ASSERT).
TablePath(s) ==
  LET path[q \in DOMAIN mem.at] ==
        IF q \notin DOMAIN rows THEN <<>>
        ELSE IF rows[q].parent = Null THEN <<rows[q].ord>>
        ELSE IF rows[q].parent \notin DOMAIN nodes \/ Cardinality(ParentLinks(q)) # 1 THEN <<>>
        ELSE LET up == path[CHOOSE r \in ParentLinks(q) : TRUE] IN
             IF up = <<>> THEN <<>> ELSE Append(up, rows[q].pos)
  IN path[s]

\* The links above link s, by TryGetParentXLink() again and again.
Ancestors(s) ==
  LET above[q \in DOMAIN mem.at] ==
        IF q \notin DOMAIN rows \/ ParentLinks(q) = {} THEN {}
        ELSE LET up == CHOOSE r \in ParentLinks(q) : TRUE IN {up} \cup above[up]
  IN above[s]

\* The first of the answers d that is not 0, if one is.
FirstDifference(d) ==
  LET differ == {i \in DOMAIN d : d[i] # 0} IN
  IF differ = {} THEN 0 ELSE d[CHOOSE i \in differ : \A k \in differ : i <= k]

\* SimpleCompare::Compare3Way(): label, number of children, then the children
\* one after the other.
SimpleCompare(m, l, r) ==
  LET compare[p \in (DOMAIN m.label) \X (DOMAIN m.label)] ==
        LET a == p[1]
            b == p[2]
        IN IF a = b THEN 0
           ELSE IF m.label[a] # m.label[b] THEN m.label[a] - m.label[b]
           ELSE IF Len(m.slots[a]) # Len(m.slots[b]) THEN Len(m.slots[a]) - Len(m.slots[b])
           ELSE FirstDifference([i \in DOMAIN m.slots[a] |->
                                   compare[<<m.at[m.slots[a][i]], m.at[m.slots[b][i]]>>]])
  IN compare[<<l, r>>]

\* SimpleCompareRelation: nodes of equal content by their address.
SCLess(m, l, r) == LET d == SimpleCompare(m, l, r) IN IF d = 0 THEN l < r ELSE d < 0

\* Which of the links S come before which, and which of the nodes S.
DFOrder(S) ==
  LET keys == {<<s, TablePath(s)>> : s \in S} IN
  {<<k[1][1], k[2][1]>> : k \in {k \in keys \X keys : PathLess(k[1][2], k[2][2])}}

SCOrder(S) == {p \in S \X S : SCLess(mem, p[1], p[2])}

\* std::set::insert() of the elements S, by the order that they and those
\* there are should have, and std::set::erase().
Inserted(o, S, Order(_)) ==
  [has    |-> o.has \cup S,
   before |-> o.before \cup {p \in Order(o.has \cup S) : p[1] \in S \/ p[2] \in S}]

Erased(o, S) ==
  [has    |-> o.has \ S,
   before |-> {p \in o.before : p[1] \notin S /\ p[2] \notin S}]

-----------------------------------------------------------------------------
(* The operations begin. *)

\* The nodes of a free zone. An identifier is the same node wherever it is used.
Place(m, c) == IF c \in DOMAIN Identifiers THEN c ELSE Len(m.label) + (c - Len(Identifiers))

Grow(m, shape) ==
  LET node(k) == Len(m.label) + k
      row(k) == [i \in DOMAIN shape.kids[k] |-> <<node(k), i>>]
      below == [s \in UNION {ToSet(row(k)) : k \in DOMAIN shape.kids} |->
                  Place(m, shape.kids[s[1] - Len(m.label)][s[2]])]
  IN [m EXCEPT !.label = @ \o shape.label,
               !.slots = @ \o [k \in DOMAIN shape.kids |-> row(k)],
               !.at = Overlay(@, below)]

\* XTreeDatabase::BuildTree(): what it does, in this order.
BuildSteps == <<"insert domain", "insert rows", "insert nodes", "insert orderings">>

BuildTree(shape) ==
  /\ Idle /\ count.built < MaxBuilt
  /\ LET m == NewTree(Grow(mem, shape), "UPDATE", Place(mem, shape.root)) IN
     mem' = m /\ zones' = <<WholeTree(NewestTree(m))>>
  /\ todo' = BuildSteps
  /\ count' = [count EXCEPT !.built = @ + 1]
  /\ UNCHANGED <<domain, rows, nodes, dfo, sc, cat, info, fault>>

\* XTreeDatabase::TeardownTree()
TeardownSteps ==
  <<"delete orderings", "delete nodes", "delete rows", "delete domain", "free tree">>

TeardownTree(t) ==
  /\ Idle
  /\ zones' = <<WholeTree(t)>> /\ todo' = TeardownSteps
  /\ UNCHANGED <<mem, domain, rows, nodes, dfo, sc, cat, info, fault, count>>

\* The suspensions of SwapTreeToTree() and their expiry in reverse order.
SwapSteps == <<"suspend orderings", "suspend nodes", "suspend rows", "swap",
               "resume rows", "resume nodes", "resume orderings">>

\* The zones of tree t, but for empty ones.
ZonesOf(t) ==
  LET zone(s, q) == [base |-> s, term |-> q, ord |-> t]
      below(s) == Links(zone(s, <<>>)) \ {s}
      at(s) == {zone(s, q) : q \in UNION {[1..k -> below(s)] : k \in 0..MaxTerminii}}
  IN {z \in UNION {at(s) : s \in Links(WholeTree(t))} : ValidZone(mem, z)}

SwapTreeToTree(x, y) ==
  /\ Idle /\ count.swaps < MaxSwaps
  /\ Len(x.term) = Len(y.term)
  /\ zones' = <<x, y>> /\ todo' = SwapSteps
  /\ count' = [count EXCEPT !.swaps = @ + 1]
  /\ UNCHANGED <<mem, domain, rows, nodes, dfo, sc, cat, info, fault>>

-----------------------------------------------------------------------------
(* The steps. Each is a walk of the zone, or of two, by one table; a walk   *)
(* leaves alone what its own relations read, so it is one action. A step    *)
(* that meets an ASSERT, or a std::set out of order, leaves a fault.        *)

Step(name, ok) ==
  /\ fault = NoFault /\ todo # <<>> /\ Head(todo) = name
  /\ todo' = Tail(todo)
  /\ fault' = IF ok THEN NoFault ELSE name

Without(f, S) == [x \in DOMAIN f \ S |-> f[x]]

AllLinks == UNION {Links(z) : z \in ToSet(zones)}

AllBoundaries == UNION {ToSet(Boundary(z)) : z \in ToSet(zones)}

\* Domain::InsertTree() and DeleteTree()
InsertDomain ==
  /\ Step("insert domain", AllLinks \cap domain = {})
  /\ domain' = domain \cup AllLinks
  /\ UNCHANGED <<mem, rows, nodes, dfo, sc, cat, zones, info, count>>

DeleteDomain ==
  /\ Step("delete domain", AllLinks \subseteq domain)
  /\ domain' = domain \ AllLinks
  /\ UNCHANGED <<mem, rows, nodes, dfo, sc, cat, zones, info, count>>

\* The row DBWalk and GenerateRow() make for a link.
RowOf(m, s) ==
  IF s[1] = 0 THEN [parent |-> Null, pos |-> 0, ord |-> s[2]]
  ELSE [parent |-> s[1], pos |-> Position(s, m.slots[s[1]]), ord |-> Null]

\* LinkTable::InsertTree() and DeleteTree()
InsertRows ==
  /\ Step("insert rows", AllLinks \cap DOMAIN rows = {})
  /\ rows' = Overlay([s \in AllLinks |-> RowOf(mem, s)], rows)
  /\ UNCHANGED <<mem, domain, nodes, dfo, sc, cat, zones, info, count>>

DeleteRows ==
  /\ Step("delete rows", AllLinks \subseteq DOMAIN rows)
  /\ rows' = Without(rows, AllLinks)
  /\ UNCHANGED <<mem, domain, nodes, dfo, sc, cat, zones, info, count>>

\* NodeTable::IsDeclarer(), by the row of the link.
IsDeclarer(s) ==
  /\ rows[s].parent # Null
  /\ mem.label[rows[s].parent] = Declarer /\ rows[s].pos = 1

\* NodeTable::InsertLink() for the links S.
CanInsertLinks(S) ==
  \A s \in S : /\ s \in DOMAIN rows
               /\ mem.at[s] \in DOMAIN nodes => s \notin nodes[mem.at[s]].incoming

InsertLinks(S) ==
  LET old(n) == IF n \in DOMAIN nodes THEN nodes[n] ELSE [incoming |-> {}, declaring |-> {}]
      new(n) == {s \in S : mem.at[s] = n}
      row(n) == [incoming |-> old(n).incoming \cup new(n),
                 declaring |-> old(n).declaring \cup {s \in new(n) : IsDeclarer(s)}]
  IN Overlay([n \in {mem.at[s] : s \in S} |-> row(n)], nodes)

\* NodeTable::DeleteLink() for the links S: a row without links goes.
CanDeleteLinks(S) ==
  \A s \in S : /\ s \in DOMAIN rows /\ mem.at[s] \in DOMAIN nodes
               /\ s \in nodes[mem.at[s]].incoming
               /\ IsDeclarer(s) => s \in nodes[mem.at[s]].declaring

DeleteLinks(S) ==
  LET left == {n \in DOMAIN nodes : ~(nodes[n].incoming \subseteq S)} IN
  [n \in left |-> [incoming |-> nodes[n].incoming \ S, declaring |-> nodes[n].declaring \ S]]

\* NodeTable::InsertTree() and DeleteTree()
InsertNodes ==
  /\ Step("insert nodes", CanInsertLinks(AllLinks))
  /\ nodes' = IF CanInsertLinks(AllLinks) THEN InsertLinks(AllLinks) ELSE nodes
  /\ UNCHANGED <<mem, domain, rows, dfo, sc, cat, zones, info, count>>

DeleteNodes ==
  /\ Step("delete nodes", CanDeleteLinks(AllLinks))
  /\ nodes' = DeleteLinks(AllLinks)
  /\ UNCHANGED <<mem, domain, rows, dfo, sc, cat, zones, info, count>>

-----------------------------------------------------------------------------
(* The orderings. *)

\* Whether the depth first ordering can be asked about the links S: every
\* ancestor has its row, and what is in the ordering is in order.
DFOUsable(S) ==
  /\ \A s \in S \cup dfo.has : TablePath(s) # <<>>
  /\ dfo.before = DFOrder(dfo.has)

SCUsable == sc.before = SCOrder(sc.has)

\* Orderings::InsertTree(): a node that is already there has another parent.
\* GetTerminusAndBaseAncestors() of a root is empty.
CanInsertTree == AllLinks \cap dfo.has = {} /\ DFOUsable(AllLinks) /\ SCUsable

InsertOrderings ==
  /\ Step("insert orderings", CanInsertTree)
  /\ IF CanInsertTree
     THEN LET new == {mem.at[s] : s \in AllLinks} IN
          /\ dfo' = Inserted(dfo, AllLinks, DFOrder)
          /\ sc' = Inserted(sc, new \ sc.has, SCOrder)
          /\ cat' = cat \cup new
     ELSE UNCHANGED <<dfo, sc, cat>>
  /\ UNCHANGED <<mem, domain, rows, nodes, zones, info, count>>

\* Mutant of LastReached: a node goes with the first link to it.
AnyReached(S) == {mem.at[s] : s \in S}

\* DeleteActionSCAndCAT(): the nodes that have been reached, in this walk of
\* the links S, as often as they have incoming links.
LastReached(S) ==
  {n \in {mem.at[s] : s \in S} :
     Cardinality({s \in S : mem.at[s] = n}) >= Cardinality(nodes[n].incoming)}

\* Orderings::DeleteTree()
CanDeleteTree ==
  /\ AllLinks \subseteq dfo.has /\ DFOUsable(AllLinks)
  /\ \A s \in AllLinks : mem.at[s] \in DOMAIN nodes
  /\ SCUsable /\ LastReached(AllLinks) \subseteq sc.has \cap cat

DeleteOrderings ==
  /\ Step("delete orderings", CanDeleteTree)
  /\ IF CanDeleteTree
     THEN /\ dfo' = Erased(dfo, AllLinks)
          /\ sc' = Erased(sc, LastReached(AllLinks))
          /\ cat' = cat \ LastReached(AllLinks)
     ELSE UNCHANGED <<dfo, sc, cat>>
  /\ UNCHANGED <<mem, domain, rows, nodes, zones, info, count>>

\* XTreeDatabase::FreeTree()
FreeTree ==
  /\ Step("free tree", TRUE)
  /\ mem' = [mem EXCEPT !.type = Without(@, {z.ord : z \in ToSet(zones)})]
  /\ zones' = <<>>
  /\ UNCHANGED <<domain, rows, nodes, dfo, sc, cat, info, count>>

-----------------------------------------------------------------------------
(* A swap: what is suspended, the swap, and what is put back. *)

\* Mutant of TerminusAndBaseAncestors: nothing changes above a terminus.
BaseAncestors(z) == {mem.at[a] : a \in Ancestors(z.base)}

\* Orderings::GetTerminusAndBaseAncestors(): the nodes whose content the swap
\* changes.
TerminusAndBaseAncestors(z) ==
  {mem.at[a] : a \in UNION {Ancestors(s) : s \in ToSet(Boundary(z))}}

Disturbed == UNION {TerminusAndBaseAncestors(z) : z \in ToSet(zones)}

\* Orderings::SwapTransaction::SwapTransaction()
CanSuspendOrderings ==
  /\ AllLinks \subseteq dfo.has /\ DFOUsable(AllLinks)
  /\ SCUsable /\ Disturbed \subseteq sc.has

SuspendOrderings ==
  /\ Step("suspend orderings", CanSuspendOrderings)
  /\ IF CanSuspendOrderings
     THEN dfo' = Erased(dfo, AllLinks) /\ sc' = Erased(sc, Disturbed)
     ELSE UNCHANGED <<dfo, sc>>
  /\ UNCHANGED <<mem, domain, rows, nodes, cat, zones, info, count>>

\* NodeTable::SwapTransaction::SwapTransaction()
SuspendNodes ==
  /\ Step("suspend nodes", CanDeleteLinks(AllBoundaries))
  /\ nodes' = DeleteLinks(AllBoundaries)
  /\ UNCHANGED <<mem, domain, rows, dfo, sc, cat, zones, info, count>>

\* LinkTable::SwapTransaction::SwapTransaction()
SuspendRows ==
  /\ Step("suspend rows", AllBoundaries \subseteq DOMAIN rows)
  /\ info' = [i \in DOMAIN zones |-> [k \in DOMAIN Boundary(zones[i]) |-> rows[Boundary(zones[i])[k]]]]
  /\ rows' = Without(rows, AllBoundaries)
  /\ UNCHANGED <<mem, domain, nodes, dfo, sc, cat, zones, count>>

\* MutableZone::Swap(). The zones take over each other's terminii.
SwapZones ==
  /\ Step("swap", SwapAsserts(mem, zones[1], zones[2]))
  /\ mem' = Swap(mem, zones[1], zones[2])
  /\ zones' = <<[zones[1] EXCEPT !.term = zones[2].term], [zones[2] EXCEPT !.term = zones[1].term]>>
  /\ UNCHANGED <<domain, rows, nodes, dfo, sc, cat, info, count>>

\* Mutant of RowInfo: the zones keep the rows of their own terminii.
RowInfoKept(i) == info[i]

\* The rows to put back for zone i: its own base's, and those the terminii had
\* before they came to zone i.
RowInfo(i) == <<info[i][1]>> \o Tail(info[3 - i])

\* LinkTable::SwapTransaction::~SwapTransaction(). The tree ordinal is filled
\* in for a root only, from the zone.
ResumeRows ==
  /\ Step("resume rows", AllBoundaries \cap DOMAIN rows = {})
  /\ rows' = LET row(s) ==
                   LET i == CHOOSE i \in {1, 2} : s \in ToSet(Boundary(zones[i]))
                       core == RowInfo(i)[Position(s, Boundary(zones[i]))]
                   IN [core EXCEPT !.ord = IF core.parent = Null THEN zones[i].ord ELSE Null]
             IN Overlay([s \in AllBoundaries |-> row(s)], rows)
  /\ info' = <<>>
  /\ UNCHANGED <<mem, domain, nodes, dfo, sc, cat, zones, count>>

\* NodeTable::SwapTransaction::~SwapTransaction()
ResumeNodes ==
  /\ Step("resume nodes", CanInsertLinks(AllBoundaries))
  /\ nodes' = IF CanInsertLinks(AllBoundaries) THEN InsertLinks(AllBoundaries) ELSE nodes
  /\ UNCHANGED <<mem, domain, rows, dfo, sc, cat, zones, info, count>>

\* Orderings::SwapTransaction::~SwapTransaction()
CanResumeOrderings ==
  /\ AllLinks \cap dfo.has = {} /\ DFOUsable(AllLinks)
  /\ SCUsable /\ Disturbed \cap sc.has = {}

ResumeOrderings ==
  /\ Step("resume orderings", CanResumeOrderings)
  /\ IF CanResumeOrderings
     THEN /\ dfo' = Inserted(dfo, AllLinks, DFOrder)
          /\ sc' = Inserted(sc, Disturbed, SCOrder)
     ELSE UNCHANGED <<dfo, sc>>
  /\ zones' = <<>>
  /\ UNCHANGED <<mem, domain, rows, nodes, cat, info, count>>

-----------------------------------------------------------------------------
Operation ==
  /\ Idle
  /\ \/ \E shape \in Shapes : BuildTree(shape)
     \/ \E t \in DOMAIN mem.type : TeardownTree(t)
     \/ \E t, u \in DOMAIN mem.type :
          /\ t < u /\ count.swaps < MaxSwaps
          /\ \E x \in ZonesOf(t), y \in ZonesOf(u) : SwapTreeToTree(x, y)

\* ~XTreeDatabase(), once the trees have been torn down.
Destroyed == Idle /\ mem.type = <<>> /\ count.built = MaxBuilt /\ UNCHANGED vars

Next ==
  \/ Operation \/ Destroyed
  \/ InsertDomain \/ InsertRows \/ InsertNodes \/ InsertOrderings
  \/ DeleteOrderings \/ DeleteNodes \/ DeleteRows \/ DeleteDomain \/ FreeTree
  \/ SuspendOrderings \/ SuspendNodes \/ SuspendRows \/ SwapZones
  \/ ResumeRows \/ ResumeNodes \/ ResumeOrderings

Spec == Init /\ [][Next]_vars

-----------------------------------------------------------------------------
(* Properties. *)

\* The links the trees have.
LiveLinks == UNION {Links(WholeTree(t)) : t \in DOMAIN mem.type}

\* No operation meets a missing row, takes out what is not in or puts in what
\* is, or uses an ordering whose relation has changed under its elements: this
\* is what the order of the suspensions in SwapTreeToTree(), and of the tables
\* in BuildTree() and TeardownTree(), is for.
NeverFaults == fault = NoFault

\* After any operations the domain, the link table and the node table are what
\* building them from the trees would give, shared leaves included: what
\* CheckAssets() compares a reference with. The rows of links inside swapped
\* zones, which no swap touches, are right too.
TablesMatchTrees ==
  Idle =>
    /\ domain = LiveLinks
    /\ rows = [s \in LiveLinks |-> RowOf(mem, s)]
    /\ nodes = [n \in {mem.at[s] : s \in LiveLinks} |->
                  LET to == {s \in LiveLinks : mem.at[s] = n} IN
                  [incoming |-> to,
                   declaring |-> {s \in to : s[1] # 0 /\ mem.label[s[1]] = Declarer
                                               /\ Position(s, mem.slots[s[1]]) = 1}]]

\* Every two elements of ordering o come one before the other, transitively.
Sorted(o) ==
  /\ \A a, b \in o.has : a # b <=> <<a, b>> \in o.before \/ <<b, a>> \in o.before
  /\ \A p, q \in o.before : p[2] = q[1] => <<p[1], q[2]>> \in o.before

\* After any operations the depth first ordering is all the links in the order
\* of their paths in the trees, and the simple compare and category orderings
\* have every node of the trees once, the former by content: a search for a
\* range finds all that is in it. A swap takes out and puts back only some of
\* the elements; the others must have stayed in order although the nodes above
\* and below them have changed.
OrderingsMatchTrees ==
  Idle =>
    LET reached == {mem.at[s] : s \in LiveLinks} IN
    /\ dfo = [has    |-> LiveLinks,
              before |-> {p \in LiveLinks \X LiveLinks : Before(mem, p[1], p[2])}]
    /\ sc = [has    |-> reached,
             before |-> {p \in reached \X reached : SCLess(mem, p[1], p[2])}]
    /\ cat = reached
    /\ Sorted(dfo) /\ Sorted(sc)

=============================================================================
