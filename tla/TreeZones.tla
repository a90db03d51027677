------------------------------ MODULE TreeZones ------------------------------
(****************************************************************************)
(* The store of trees that the update passes work on, and the zones they    *)
(* cut it into (vn/db: x_tree_database, tree_zone, free_zone, mutable_zone, *)
(* mutator, df_relation, duplicate; vn/up: scaffold_ops).                   *)
(*                                                                          *)
(* A memory m is a record:                                                  *)
(*   label[n]  what node n is (its type and data)                           *)
(*   slots[n]  the child pointers of node n, in the order Itemise() gives   *)
(*   at[s]     the node slot s points to, Null for a placeholder            *)
(*   type[t]   MAIN, DE or UPDATE for every tree t that is in the tables    *)
(*   freed     the nodes whose storage has been given back                  *)
(* A slot <<n, i>> is a TreePtr inside node n, and <<0, t>> the root        *)
(* pointer of tree t; an XLink is a slot. A tree zone is a base slot and    *)
(* the slots it stops at (its terminii).                                    *)
(****************************************************************************)
EXTENDS Naturals, Sequences, FiniteSets, SequencesExt

Null == 0

Scaffold == "scaffold"

\* The label of a free zone whose base is a bare container (see StarAgent).
Container == "container"

Position(s, seq) == CHOOSE i \in DOMAIN seq : seq[i] = s

\* Function f, and g for what f says nothing of.
Overlay(f, g) == [x \in DOMAIN f \cup DOMAIN g |-> IF x \in DOMAIN f THEN f[x] ELSE g[x]]

-----------------------------------------------------------------------------
(* Nodes and trees. *)

\* A new node with k placeholders.
NewNode(m, lab, k) ==
  LET n == Len(m.label) + 1 IN
  [m EXCEPT !.label = Append(@, lab),
            !.slots = Append(@, [i \in 1..k |-> <<n, i>>]),
            !.at = Overlay(@, [s \in {<<n, i>> : i \in 1..k} |-> Null])]

\* Tree ordinals are never used again here; the code recycles them.
NewTree(m, kind, n) ==
  LET t == Cardinality({s \in DOMAIN m.at : s[1] = 0}) + 1 IN
  [m EXCEPT !.at = Overlay(@, [s \in {<<0, t>>} |-> n]),
            !.type = Overlay(@, [u \in {t} |-> kind])]

NewestTree(m) == Cardinality({s \in DOMAIN m.at : s[1] = 0})

\* The nodes from slot s down to, and without what is below, the slots stop.
NodesFrom(m, s, stop) ==
  LET nodes[q \in DOMAIN m.at] ==
        IF q \in stop \/ m.at[q] = Null THEN <<>>
        ELSE LET row == m.slots[m.at[q]] IN
             <<m.at[q]>> \o FlattenSeq([i \in DOMAIN row |-> nodes[row[i]]])
  IN nodes[s]

\* XTreeDatabase::TeardownTree(): the tree leaves every table; its nodes go
\* now (FreeTree) or, when deferred, at the end of the step.
Teardown(m, t, defer) ==
  [m EXCEPT !.type = [u \in DOMAIN @ \ {t} |-> @[u]],
            !.freed = IF defer THEN @ ELSE @ \cup ToSet(NodesFrom(m, <<0, t>>, {}))]

-----------------------------------------------------------------------------
(* Depth-first order. *)

\* The tree and the child positions that lead to slot s; <<>> when no live
\* tree leads to s, that is when the link table has no row for it.
Path(m, s) ==
  LET path[q \in DOMAIN m.at] ==
        IF q[1] = 0 THEN (IF q[2] \in DOMAIN m.type THEN <<q[2]>> ELSE <<>>)
        ELSE LET incoming == {r \in DOMAIN m.at : m.at[r] = q[1]} IN
             IF incoming = {} THEN <<>>
             ELSE LET up == path[CHOOSE r \in incoming : TRUE] IN
                  IF up = <<>> THEN <<>> ELSE Append(up, Position(q, m.slots[q[1]]))
  IN path[s]

HasRow(m, s) == Path(m, s) # <<>>

PathLess(p, q) ==
  \/ IsStrictPrefix(p, q)
  \/ \E i \in DOMAIN p \cap DOMAIN q : p[i] < q[i] /\ \A j \in 1..(i-1) : p[j] = q[j]

\* Before and IsAncestor are what CompareHierarchical() of DepthFirst answers,
\* by RelationIsDepthFirst of TreeUpdate.
Before(m, a, b) == PathLess(Path(m, a), Path(m, b))

IsAncestor(m, a, b) == IsStrictPrefix(Path(m, a), Path(m, b))

IsWeakAncestor(m, a, b) == a = b \/ IsAncestor(m, a, b)

\* XTreeDatabase::GetLastDescendantXLink()
LastDescendant(m, s) ==
  LET last[q \in DOMAIN m.at] ==
        LET below == m.slots[m.at[q]] IN IF below = <<>> THEN q ELSE last[Last(below)]
  IN last[s]

-----------------------------------------------------------------------------
(* Zones. *)

IsEmptyZone(z) == z.term = <<z.base>>

\* TreeZone::Validate(), and what a walk of the zone asserts: the terminii
\* are met below the base, in depth-first order, none below another.
ValidZone(m, z) ==
  /\ \A s \in {z.base} \cup ToSet(z.term) : HasRow(m, s) /\ m.at[s] # Null
  /\ \/ IsEmptyZone(z)
     \/ /\ \A i \in DOMAIN z.term : IsAncestor(m, z.base, z.term[i])
        /\ \A i \in 1..(Len(z.term) - 1) :
              /\ Before(m, z.term[i], z.term[i+1])
              /\ ~IsAncestor(m, z.term[i], z.term[i+1])

\* The pairs of slots whose contents a swap of two zones exchanges.
Boundary(z) == <<z.base>> \o z.term

\* XTreeDatabase::SwapTreeToTree(): what the zones hold changes places. Each
\* zone keeps its base and takes over the other's terminii, because those are
\* inside what was swapped in.
SwapAsserts(m, x, y) ==
  /\ x.ord # y.ord
  /\ Len(x.term) = Len(y.term)
  /\ ValidZone(m, x) /\ ValidZone(m, y)

SwapContents(at, x, y) ==
  LET xs == Boundary(x)
      ys == Boundary(y) IN
  [s \in DOMAIN at |->
     IF s \in ToSet(xs) THEN at[ys[Position(s, xs)]]
     ELSE IF s \in ToSet(ys) THEN at[xs[Position(s, ys)]] ELSE at[s]]

Swap(m, x, y) == [m EXCEPT !.at = SwapContents(@, x, y)]

\* TreeZone::Duplicate(): new nodes for the inside of the zone, placeholders
\* at its terminii.
Duplicate(m, z) ==
  LET old == NodesFrom(m, z.base, ToSet(z.term))
      k == Len(m.label)
      new == [s \in UNION {ToSet(m.slots[old[i]]) : i \in DOMAIN old} |->
                <<k + Position(s[1], old), Position(s, m.slots[s[1]])>>]
      child(s) == IF s \in ToSet(z.term) THEN Null ELSE k + Position(m.at[s], old)
  IN [m |-> [m EXCEPT
               !.label = @ \o [i \in DOMAIN old |-> m.label[old[i]]],
               !.slots = @ \o [i \in DOMAIN old |->
                                 [j \in DOMAIN m.slots[old[i]] |-> <<k + i, j>>]],
               !.at = @ @@ [t \in Range(new) |->
                              child(CHOOSE s \in DOMAIN new : new[s] = t)]],
      node |-> k + 1,
      term |-> [i \in DOMAIN z.term |-> new[z.term[i]]]]

-----------------------------------------------------------------------------
(* Free zones: a base node and the placeholders its terminii are. *)

\* FreeZone::MergeTerminus(): child zone z goes where terminus t is. A bare
\* container dissolves: its elements take the place of t in t's own container.
MergeTerminus(m, t, z) ==
  IF m.label[z.node] # Container
  THEN [m |-> [m EXCEPT !.at[t] = z.node], term |-> z.term]
  ELSE LET n == t[1]
           elts == m.slots[z.node]
           used == {s[2] : s \in {s \in DOMAIN m.at : s[1] = n}}
           fresh == CHOOSE f \in used : \A u \in used : u <= f
           moved(s) == <<n, fresh + Position(s, elts)>>
           p == Position(t, m.slots[n])
           row == m.slots[n]
       IN [m |-> [m EXCEPT
                    !.slots[n] = SubSeq(row, 1, p-1) \o [i \in DOMAIN elts |-> moved(elts[i])]
                                   \o SubSeq(row, p+1, Len(row)),
                    !.at = [s \in DOMAIN @ \ {t} |-> @[s]]
                             @@ [s \in {moved(e) : e \in ToSet(elts)} |->
                                   @[elts[s[2] - fresh]]]],
           term |-> [i \in DOMAIN z.term |->
                       IF z.term[i] \in ToSet(elts) THEN moved(z.term[i]) ELSE z.term[i]]]

\* ScaffoldOps::FreeZoneIntoExtraTree(): scaffold plugs fill the terminii so
\* that the free zone can stand as a tree of its own.
IntoExtraTree(m, n, term) ==
  LET plug(acc, t) == LET new == NewNode(acc, Scaffold, 0) IN
                      [new EXCEPT !.at[t] = Len(new.label)]
  IN NewTree(FoldLeft(plug, m, term), "UPDATE", n)

\* The zone of that extra tree that has the terminii unplugged.
ExtraZone(m, term) == [base |-> <<0, NewestTree(m)>>, term |-> term, ord |-> NewestTree(m)]

=============================================================================
