-------------------------- MODULE MigrationHistory --------------------------
(***************************************************************************)
(* The backend-neutral rules of snekql/_migrations.py.  A migration is a   *)
(* record [name, sum]: its name and the checksum of its body.  A           *)
(* declaration and a history are sequences of migrations; a row's position *)
(* is its index.                                                           *)
(***************************************************************************)
EXTENDS Naturals, Sequences, FiniteSets

\* The names of a sequence of migrations.
Names(plan) == {plan[i].name : i \in DOMAIN plan}

\* The first n migrations of a plan.
Take(plan, n) == SubSeq(plan, 1, n)

\* validate_history_prefix: the history is an unchanged prefix of the
\* declaration and contains every mandatory migration.
ValidHistoryPrefix(actual, expected, minimum) ==
    /\ Len(actual) <= Len(expected)
    /\ \A i \in DOMAIN actual : actual[i] = expected[i]
    /\ Len(actual) >= minimum

\* validate_legacy_history: the unordered names are exactly one declared prefix.
ValidLegacyHistory(legacy, expected) ==
    /\ Cardinality(legacy) \in 0..Len(expected)
    /\ legacy = Names(Take(expected, Cardinality(legacy)))
=============================================================================
