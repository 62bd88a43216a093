--------------------------- MODULE MigrationLedger ---------------------------
(***************************************************************************)
(* What migrate() promises about a database, whoever calls it and whenever *)
(* callers fail: the history only grows, one migration at a time and only  *)
(* by migrations that a declaration puts next, and a migration is recorded *)
(* only after its body ran.  With Atomic, body and row are one step, so    *)
(* every body runs exactly once; without it a body may have run and not    *)
(* been recorded, and runs again.                                          *)
(***************************************************************************)
EXTENDS Naturals, Sequences

CONSTANTS Plans,    \* the declarations in use
          Atomic    \* body and history row are committed together

VARIABLES recorded, \* the history
          executed, \* bodies that took effect, in order
          adopted   \* the part of the history taken over from a legacy table

ledger == <<recorded, executed, adopted>>

\* A declaration that has the history as a proper prefix puts m next.
IsNext(m) ==
    \E plan \in Plans :
        /\ Len(recorded) < Len(plan)
        /\ recorded = SubSeq(plan, 1, Len(recorded))
        /\ m = plan[Len(recorded) + 1]

Init == recorded = <<>> /\ executed = <<>> /\ adopted = <<>>

Apply(m) ==
    /\ IsNext(m)
    /\ recorded' = Append(recorded, m) /\ executed' = Append(executed, m)
    /\ UNCHANGED adopted

RunUnrecorded(m) ==
    /\ ~Atomic /\ IsNext(m)
    /\ executed' = Append(executed, m)
    /\ UNCHANGED <<recorded, adopted>>

Record(m) ==
    /\ ~Atomic /\ IsNext(m)
    /\ executed # <<>> /\ executed[Len(executed)] = m
    /\ recorded' = Append(recorded, m)
    /\ UNCHANGED <<executed, adopted>>

\* A legacy table is taken over before anything ran, possibly with the
\* first migration that follows it.
Adopt(plan, n, m) ==
    /\ recorded = <<>> /\ adopted = <<>> /\ n \in 1..Len(plan)
    /\ adopted' = SubSeq(plan, 1, n)
    /\ \/ recorded' = adopted' /\ UNCHANGED executed
       \/ /\ n < Len(plan) /\ m = plan[n + 1]
          /\ recorded' = Append(adopted', m) /\ executed' = Append(executed, m)

Migrations == UNION {{plan[i] : i \in DOMAIN plan} : plan \in Plans}

Next ==
    \E m \in Migrations :
        \/ Apply(m) \/ RunUnrecorded(m) \/ Record(m)
        \/ \E plan \in Plans : \E n \in 1..Len(plan) : Adopt(plan, n, m)

Spec == Init /\ [][Next]_ledger
=============================================================================
