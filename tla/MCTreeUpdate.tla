---------------------------- MODULE MCTreeUpdate ----------------------------
(* Updates for TLC: small trees, and every layout of a few shapes over them. *)
EXTENDS TreeUpdate

CONSTANT Family  \* which updates: "layouts" or "origin"

NoTrees == [label |-> <<>>, slots |-> <<>>, at |-> <<>>, type |-> <<>>, freed |-> {}]

\* Trees are written <<label, subtrees>>. Nodes are numbered in preorder.
RECURSIVE WithTree(_, _)
WithTree(m, t) ==
  LET n == Len(m.label) + 1
      add(acc, i) == [WithTree(acc, t[2][i]) EXCEPT !.at[<<n, i>>] = Len(acc.label) + 1]
  IN FoldLeft(add, NewNode(m, t[1], Len(t[2])), [i \in DOMAIN t[2] |-> i])

Trees(main) == NewTree(WithTree(NoTrees, main), "MAIN", 1)
WithDE(m, t) == NewTree(WithTree(m, t), "DE", Len(m.label) + 1)

\* Layouts are written with these; a patch is its own
\* originator, except that StarAgent gives the elements none.
Sub(s) == [k |-> "tree", base |-> s, term |-> <<>>, kids |-> <<>>]
Stuff(s, t, kid) == [k |-> "tree", base |-> s, term |-> <<t>>, kids |-> <<kid>>]
New(kids) == [k |-> "free", lab |-> "new", kids |-> kids]
Star(ss) == [k |-> "free", lab |-> Container, kids |-> [i \in DOMAIN ss |-> [Sub(ss[i]) EXCEPT !.k = "elt"]]]

RECURSIVE WithPatch(_, _)
WithPatch(acc, p) ==
  LET c == Len(acc.ps) + 1
      m == IF p.k = "free" THEN NewNode(acc.m, p.lab, Len(p.kids)) ELSE acc.m
      n == Len(m.label)
      self == IF p.k = "free" THEN FreePatch(n, m.slots[n], <<>>, {c})
              ELSE TreePatch([base |-> p.base, term |-> p.term, ord |-> 0], <<>>,
                             IF p.k = "elt" THEN {} ELSE {c})
      add(a, kid) == LET b == WithPatch(a, kid) IN
                     [b EXCEPT !.ps[c].kids = Append(@, Len(a.ps) + 1)]
  IN FoldLeft(add, [m |-> m, ps |-> Append(acc.ps, self)], p.kids)

Job(m, origin, layout, mode) ==
  LET j == WithPatch([m |-> m, ps |-> <<>>], layout) IN
  [mem |-> j.m, patch |-> j.ps, origin |-> origin, mode |-> mode]

KSeqs(S, n) == UNION {[1..k -> S] : k \in 0..n}
R == <<0, 1>>

\* r(z1, z2, s(y)): the children of a new root are z1, z2, s, y, all of r, or
\* s with something else below it.
Flat == Trees(<<"r", << <<"z1", <<>>>>, <<"z2", <<>>>>, <<"s", << <<"y", <<>>>> >> >> >> >>)
z1 == <<1, 1>>
z2 == <<1, 2>>
s == <<1, 3>>
y == <<4, 1>>
FlatKids == {Sub(z1), Sub(z2), Sub(s), Sub(y), Sub(R), New(<<>>)}
              \cup {Stuff(s, y, k) : k \in {Sub(z1), Sub(y), New(<<>>), New(<<Sub(z2)>>)}}
FlatJobs == {Job(Flat, R, New(ks), "update") : ks \in KSeqs(FlatKids, 3)}
BuildJobs == {Job(Flat, R, New(ks), "build") : ks \in KSeqs(FlatKids, 2)}
               \cup {Job(Flat, R, Stuff(R, x, New(<<Sub(z1)>>)), "build") : x \in {R, s}}

\* r(p(c(x))): a zone over part of the chain, empty ones included, over another.
Chain == Trees(<<"r", << <<"p", << <<"c", << <<"x", <<>>>> >> >> >> >> >> >>)
C == <<R, <<1, 1>>, <<2, 1>>, <<3, 1>> >>
ChainEnds == {Sub(C[i]) : i \in 1..4} \cup {New(<<Sub(C[i])>>) : i \in 1..4} \cup {New(<<>>)}
Pieces(S) == {Stuff(C[i], C[j], k) : i \in 1..4, j \in 1..4, k \in S}
Downward(S) == {p \in S : p.base = p.term[1] \/ PathLess(Path(Chain, p.base), Path(Chain, p.term[1]))}
ChainJobs == {Job(Chain, R, l, "update") :
                l \in Downward(Pieces(ChainEnds \cup Downward(Pieces(ChainEnds))))}

\* The origin is below the root: r(q(a, b), w).
Inner == Trees(<<"r", << <<"q", << <<"a", <<>>>>, <<"b", <<>>>> >> >>, <<"w", <<>>>> >> >>)
InnerJobs == {Job(Inner, <<1, 1>>, l, "update") :
                l \in {New(ks) : ks \in KSeqs({Sub(<<2, 1>>), Sub(<<2, 2>>), New(<<>>)}, 2)}
                        \cup {Sub(<<2, 1>>), Stuff(<<1, 1>>, <<2, 2>>, New(<<>>))}}

\* A tree e(f(g)) of the domain extension beside r(a, b): one zone of it among
\* zones of the main tree, and two of it that may overlap.
Two == WithDE(Trees(<<"r", << <<"a", <<>>>>, <<"b", <<>>>> >> >>),
              <<"e", << <<"f", << <<"g", <<>>>> >> >> >> >>)
a == <<1, 1>>
b == <<1, 2>>
e == <<0, 2>>
f == <<4, 1>>
g == <<5, 1>>
DEZones == {Sub(e), Sub(f), Sub(g)}
             \cup {Stuff(x, z, k) : x \in {e, f}, z \in {f, g}, k \in {New(<<>>), Sub(b), Sub(e), Sub(g)}}
Proper(ds) == {d \in ds : d.term = <<>> \/ d.base # d.term[1]}
DEJobs == {Job(Two, R, New(<<i, d, j>>), "update") :
             d \in Proper(DEZones), i \in {Sub(a), Sub(b), New(<<>>)}, j \in {Sub(a), New(<<>>)}}
           \cup {Job(Two, R, New(<<d, j, c>>), "update") :
             d, c \in Proper(DEZones), j \in {Sub(a), New(<<>>)}}

\* Stars: the elements z1, z2 in any number between other children, or where
\* only one node can go.
StarJobs == {Job(Flat, R, New(<<i, Star(ss), j>>), "update") :
               i, j \in {Sub(z1), New(<<Sub(y)>>), Star(<<s>>)}, ss \in KSeqs({z1, z2}, 2)}
            \cup {Job(Flat, R, New(<<i, Stuff(s, y, Star(ss)), j>>), "update") :
               i, j \in {Sub(z1), Sub(s), New(<<>>)}, ss \in KSeqs({z1, z2}, 2)}

\* Inversion never looks above the layout: it takes a tree patch at the top to
\* be at the origin already. The layouts for which that is so, once the empty
\* zones are gone:
RECURSIVE AtOrigin(_, _)
AtOrigin(j, c) ==
  LET p == j.patch[c] IN
  \/ p.kind = "free" \/ j.mode = "build"
  \/ IF IsEmptyZone(p) THEN AtOrigin(j, p.kids[1]) ELSE p.base = j.origin

Layouts == FlatJobs \cup BuildJobs \cup ChainJobs \cup InnerJobs \cup DEJobs \cup StarJobs

AllUpdates == CASE Family = "layouts" -> {j \in Layouts : AtOrigin(j, Root)}
                [] Family = "origin" -> {j \in InnerJobs : ~AtOrigin(j, Root)}
=============================================================================
