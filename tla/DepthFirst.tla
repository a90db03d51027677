----------------------------- MODULE DepthFirst -----------------------------
(****************************************************************************)
(* DepthFirstRelation (vn/db/df_relation.cpp): which of two links comes     *)
(* first in a depth-first walk, found by climbing from both at once. That   *)
(* the answer is the order of their paths in TreeZones is the property      *)
(* RelationIsDepthFirst of TreeUpdate.                                      *)
(****************************************************************************)
EXTENDS TreeZones

NoParent == <<>>

\* Mutant of ParentXLink: a child of the root node has no parent.
ParentBelowRoot(m, s) ==
  LET up == {q \in DOMAIN m.at : q[1] # 0 /\ m.at[q] = s[1] /\ HasRow(m, q)} IN
  IF s[1] = 0 \/ up = {} THEN NoParent ELSE CHOOSE q \in up : TRUE

\* XTreeDatabase::TryGetParentXLink(), NoParent for a root.
ParentXLink(m, s) ==
  IF s[1] = 0 THEN NoParent ELSE CHOOSE q \in DOMAIN m.at : m.at[q] = s[1] /\ HasRow(m, q)

\* Two links with one parent, by their rows of the link table.
CompareSiblings(m, a, b) ==
  LET row == m.slots[a[1]] IN <<Position(a, row) - Position(b, row), "SIBLINGS">>

\* The loop of CompareHierarchical(): l and r climb together, lc and rc being
\* where they are. candidate_mutuals is ls and rs: for the parents l (or r) has
\* come through, the child it came from.
RECURSIVE Climb(_, _, _, _, _, _, _)
Climb(m, l, r, lc, rc, ls, rs) ==
  LET lp == ParentXLink(m, lc)
      rp == ParentXLink(m, rc)
      ls2 == IF lp = NoParent THEN ls ELSE ls @@ (lp :> lc)
      rs2 == IF rp = NoParent THEN rs ELSE rs @@ (rp :> rc)
      up(c, parent) == IF parent = NoParent THEN c ELSE parent
  IN CASE lp = NoParent /\ rp = NoParent -> <<lc[2] - rc[2], "ROOT_SIBLINGS">>
       [] lp # NoParent /\ lp = r -> <<1, "RIGHT_IS_ANCESTOR">>
       [] lp # NoParent /\ lp # r /\ lp \in DOMAIN rs -> CompareSiblings(m, lc, rs[lp])
       [] OTHER ->
            IF rp # NoParent /\ rp = l THEN <<-1, "LEFT_IS_ANCESTOR">>
            ELSE IF rp # NoParent /\ rp \in DOMAIN ls2 THEN CompareSiblings(m, ls2[rp], rc)
            ELSE Climb(m, l, r, up(lc, lp), up(rc, rp), ls2, rs2)

\* DepthFirstRelation::CompareHierarchical()
CompareHierarchical(m, l, r) ==
  IF l = r THEN <<0, "EQUAL">> ELSE Climb(m, l, r, l, r, <<>>, <<>>)

=============================================================================
