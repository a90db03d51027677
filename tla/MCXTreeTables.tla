---------------------------- MODULE MCXTreeTables ----------------------------
(****************************************************************************)
(* Trees for XTreeTables. Labels are numbers, in the order that             *)
(* SimpleCompare has of the types. 9 is an identifier, shared by all its    *)
(* uses (node 1), and 3 declares its first child.                           *)
(****************************************************************************)
EXTENDS XTreeTables

OneIdentifier == <<9>>

\* A block with two uses of one identifier, one of which declares it.
Block == [root |-> 2, label |-> <<2, 3>>, kids |-> << <<3, 1>>, <<1>> >>]

\* The same label deeper down, so that content decides the order of nodes.
Nested == [root |-> 2, label |-> <<2, 2, 1, 1>>, kids |-> << <<3, 5>>, <<4, 1>>, <<>>, <<>> >>]

\* An identifier may also be all there is to a tree.
Bare == [root |-> 1, label |-> <<>>, kids |-> <<>>]

SomeShapes == {Block, Nested, Bare}

=============================================================================
