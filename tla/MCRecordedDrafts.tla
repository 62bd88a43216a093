-------------------------- MODULE MCRecordedDrafts --------------------------
(***************************************************************************)
(* Two tables, the second refers to the first; between them the            *)
(* declarations add, drop, require, relax and default a column, add and    *)
(* remove an index and a CHECK over it, and stop managing a table.         *)
(***************************************************************************)
EXTENDS RecordedDrafts

a == Column("a", "int", FALSE, None, TRUE)
b(nullable, default) == Column("b", "int", nullable, default, FALSE)
c == Column("c", "text", TRUE, None, FALSE)
on_b(name) == [name |-> name, on |-> {"b"}]
t(columns, checks, indexes) == Table("t", columns, checks, indexes)
r == Referring(Column("r", "int", TRUE, None, FALSE), <<"t", "a">>)
u == Table("u", <<a, c, r>>, <<>>, <<[name |-> "iu", on |-> {"c"}]>>)

MCModelSets ==
    {<<t(<<a>>, <<>>, <<>>)>>,
     <<t(<<a, b(TRUE, None)>>, <<>>, <<>>), u>>,
     <<t(<<a, b(TRUE, 1)>>, <<>>, <<on_b("i")>>)>>,
     <<t(<<a, b(FALSE, None)>>, <<>>, <<on_b("i")>>)>>,
     <<t(<<a, b(FALSE, 1), c>>, <<on_b("k")>>, <<>>)>>}
=============================================================================
