------------------------- MODULE MCSQLiteMigrations -------------------------
(***************************************************************************)
(* Two processes with the same declaration and one whose first body was    *)
(* edited, on a new or foreign file or on one with a legacy history.       *)
(***************************************************************************)
EXTENDS SQLiteMigrations, TLC

CONSTANTS r1, r2, r3

Migration(name, sum) == [name |-> name, sum |-> sum]
a == Migration("a", 1)
b == Migration("b", 1)
edited == Migration("a", 2)

Declared == (r1 :> <<a, b>>) @@ (r2 :> <<a, b>>) @@ (r3 :> <<edited>>)
LegacyNames == {{}, {"a"}, {"b"}}
=============================================================================
