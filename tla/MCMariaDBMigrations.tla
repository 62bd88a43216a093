------------------------ MODULE MCMariaDBMigrations ------------------------
(***************************************************************************)
(* Two deployments with the same declaration, a DDL and a transactional    *)
(* migration, and one whose first body was edited, on a fresh database or  *)
(* on one with a legacy history.                                           *)
(***************************************************************************)
EXTENDS MariaDBMigrations, TLC

CONSTANTS r1, r2, r3

a == [name |-> "a", sum |-> 1]
b == [name |-> "b", sum |-> 1]
edited == [name |-> "a", sum |-> 2]

Declared == (r1 :> <<a, b>>) @@ (r2 :> <<a, b>>) @@ (r3 :> <<edited>>)
LegacyNames == {{}, {"a"}, {"b"}}
CommitsImplicitly == {a}
=============================================================================
