-------------------------- MODULE MCRecordedTarget --------------------------
(***************************************************************************)
(* Two packages: one creates a table; the other adds a column, fills it    *)
(* and requires it.                                                        *)
(***************************************************************************)
EXTENDS RecordedTarget

a == Column("a", "int", FALSE, None, TRUE)
b(nullable) == Column("b", "int", nullable, None, FALSE)
t(columns) == [n \in {"t"} |-> Table("t", columns, <<>>, <<>>)]
Draft(backend, before, target, operations) ==
    [backend |-> backend, before |-> before, target |-> target,
     operations |-> operations, unresolved |-> {}]

Created(backend) == Draft(backend, <<>>, t(<<a>>), <<CreateTable(t(<<a>>)["t"])>>)
Filled(backend) ==
    Draft(backend, t(<<a>>), t(<<a, b(FALSE)>>),
          <<AddColumn("t", b(TRUE)), Checkpoint("p"),
            DataChange("p", t(<<a, b(TRUE)>>), backend, 1), RequireNotNull("t", "b")>>)

MCLineages ==
    {<<compile_v1(Created(backend)), compile_v1(Filled(backend))>> :
        backend \in {"sqlite", "mariadb"}}
    \cup {<<compile_v1(Created(backend))>> : backend \in {"sqlite", "mariadb"}}
=============================================================================
