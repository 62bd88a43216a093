-------------------------- MODULE SQLiteMigrations --------------------------
(***************************************************************************)
(* Concurrent calls of migrate() on one SQLite file, from any number of    *)
(* processes (snekql/sqlite/migrations.py).  Each pending body and its     *)
(* history row are one BEGIN IMMEDIATE transaction; SQLite's single writer *)
(* lock serializes them and rolls back what a dead process left open.      *)
(***************************************************************************)
EXTENDS MigrationHistory

CONSTANTS
    Runners,    \* calls of migrate(), each in a process of its own
    Plan,       \* their declarations
    Consent,    \* runners that pass adopt_legacy=True
    Legacies,   \* the sets of names a legacy table may hold
    MaxRetries, \* busy_retry_policy.max_retries
    NoRunner

\* Every declared migration.
Migrations == UNION {{Plan[r][i] : i \in DOMAIN Plan[r]} : r \in Runners}

ASSUME BoundsAssumption ==
    /\ NoRunner \notin Runners
    /\ Consent \subseteq Runners
    /\ MaxRetries \in Nat

\* Declarations are sequences of migrations.
ASSUME PlanAssumption == Plan \in [Runners -> Seq(Migrations)]

\* A declaration is a dict, so no name comes twice (prepare_migrations).
ASSUME DistinctAssumption ==
    \A r \in Runners : \A i, j \in DOMAIN Plan[r] :
        Plan[r][i].name = Plan[r][j].name => i = j

VARIABLES
    db,         \* the committed file: history shape, names or rows, bodies run
    work,       \* the file as the open write transaction sees it
    writer,     \* who holds the writer lock
    late,       \* runners whose abandoned BEGIN the worker thread may still run
    step,       \* where each runner is
    tries,      \* retries of BEGIN IMMEDIATE
    reusable,   \* connection_state.reusable
    uncertain,  \* connection_state.authorizer_uncertain
    applied, already,   \* the names in the result, by declaration order
    returned,   \* how the last call ended
    mine,       \* history rows the current call committed itself
    lease       \* what became of the pooled connection

session == <<tries, reusable, uncertain>>
result == <<applied, already, returned, mine>>
vars == <<db, work, writer, late, step, session, result, lease>>

Shapes == {"absent", "v1", "v2", "unknown"}
Steps == {"new", "done", "begin", "ensure", "inspect", "body", "record", "commit",
          "finish", "settle"}

Files == [shape : Shapes, legacy : SUBSET UNION Legacies,
          rows : Seq(Migrations), bodies : Seq(Migrations), adopted : Seq(Migrations)]

Empty == [shape |-> "absent", legacy |-> {}, rows |-> <<>>, bodies |-> <<>>, adopted |-> <<>>]

Init ==
    /\ db \in {Empty, [Empty EXCEPT !.shape = "unknown"]}
          \cup {[Empty EXCEPT !.shape = "v1", !.legacy = names] : names \in Legacies}
    /\ work = db /\ writer = NoRunner /\ late = {}
    /\ step = [r \in Runners |-> "new"]
    /\ tries = [r \in Runners |-> 0]
    /\ reusable = [r \in Runners |-> FALSE]
    /\ uncertain = [r \in Runners |-> FALSE]
    /\ applied = [r \in Runners |-> <<>>] /\ already = [r \in Runners |-> <<>>]
    /\ returned = [r \in Runners |-> "none"] /\ mine = [r \in Runners |-> <<>>]
    /\ lease = [r \in Runners |-> "none"]

InTransaction(r) == writer = r

\* ROLLBACK, closing the connection or the death of its process: an open
\* transaction leaves no trace and frees the writer lock.
RollbackIfOpen(r) ==
    IF InTransaction(r) THEN writer' = NoRunner /\ work' = db ELSE UNCHANGED <<writer, work>>

\* Control moves on, the connection's flags and the result stay.
Goto(r, s) == step' = [step EXCEPT ![r] = s]

(***************************************************************************)
(* One call                                                                *)
(***************************************************************************)
\* migrate() leases a connection; its state is not known to be reusable.
Migrate(r) ==
    /\ step[r] = "new"
    /\ Goto(r, "begin")
    /\ lease' = [lease EXCEPT ![r] = "held"]
    /\ UNCHANGED <<late, db, work, writer, session, result>>

\* BEGIN IMMEDIATE succeeds: the transaction reads the last commit.
Begin(r) ==
    /\ step[r] = "begin" /\ writer = NoRunner
    /\ writer' = r /\ work' = db
    /\ tries' = [tries EXCEPT ![r] = 0]
    /\ Goto(r, "ensure")
    /\ UNCHANGED <<late, db, reusable, uncertain, result, lease>>

\* SQLITE_BUSY: retried max_retries times, then MigrationLockTimeoutError.
RetryBusy(r) ==
    /\ step[r] = "begin" /\ writer \notin {NoRunner, r}
    /\ IF tries[r] < MaxRetries
       THEN tries' = [tries EXCEPT ![r] = @ + 1] /\ UNCHANGED <<step, returned>>
       ELSE /\ Goto(r, "settle") /\ tries' = [tries EXCEPT ![r] = 0]
            /\ returned' = [returned EXCEPT ![r] = "locked"]
    /\ UNCHANGED <<late, db, work, writer, reusable, uncertain, applied,
                   already, mine, lease>>

\* BEGIN fails, or its caller is cancelled while the worker has yet to run it.
BeginFails(r) ==
    /\ step[r] = "begin"
    /\ late' \in {late, late \cup {r}}
    /\ Goto(r, "settle")
    /\ returned' = [returned EXCEPT ![r] = "failed"]
    /\ tries' = [tries EXCEPT ![r] = 0]
    /\ UNCHANGED <<db, work, writer, reusable, uncertain, applied, already, mine, lease>>

\* An error or cancellation ends the call: what is open is rolled back, and
\* if even that fails the connection keeps its transaction for Settle.
RaiseWith(r, unsure) ==
    /\ Goto(r, "settle")
    /\ returned' = [returned EXCEPT ![r] = "failed"]
    /\ uncertain' = [uncertain EXCEPT ![r] = unsure]
    /\ \/ RollbackIfOpen(r) /\ reusable' = [reusable EXCEPT ![r] = ~unsure]
       \/ UNCHANGED <<writer, work, reusable>>
    /\ UNCHANGED <<late, db, tries, applied, already, mine, lease>>

Raise(r) == RaiseWith(r, uncertain[r])

\* _upgrade_legacy_history: the declared prefix takes the names' place.
Adopted(r) ==
    [work EXCEPT !.shape = "v2", !.legacy = {},
                 !.rows = Take(Plan[r], Cardinality(work.legacy)),
                 !.adopted = Take(Plan[r], Cardinality(work.legacy))]

MayAdopt(r) ==
    /\ work.legacy # {} => r \in Consent
    /\ ValidLegacyHistory(work.legacy, Plan[r])

\* _ensure_v2_history: create, keep or upgrade the history table.
Ensure(r) ==
    /\ step[r] = "ensure"
    /\ \/ work.shape = "absent" /\ work' = [work EXCEPT !.shape = "v2"]
       \/ work.shape = "v2" /\ UNCHANGED work
       \/ work.shape = "v1" /\ MayAdopt(r) /\ work' = Adopted(r)
    /\ Goto(r, "inspect")
    /\ UNCHANGED <<late, db, writer, session, result, lease>>

\* The rows whose names are not in seen, in order: the k-th one is the new row
\* with k new rows up to it.
Unseen(rows, seen) ==
    LET new == {i \in DOMAIN rows : rows[i].name \notin seen}
    IN  [k \in 1..Cardinality(new) |->
            rows[CHOOSE i \in new : Cardinality({j \in new : j <= i}) = k]]

\* Rows nobody reported yet are reported as already applied.
Unreported(r, rows) == Unseen(rows, Names(applied[r]) \cup Names(already[r]))

\* The history is read and must be a prefix of the declaration.
Inspect(r) ==
    /\ step[r] = "inspect"
    /\ ValidHistoryPrefix(work.rows, Plan[r], 0)
    /\ already' = [already EXCEPT ![r] = @ \o Unreported(r, work.rows)]
    /\ Goto(r, IF Len(work.rows) = Len(Plan[r]) THEN "finish" ELSE "body")
    /\ UNCHANGED <<late, db, work, writer, session, applied, returned, mine, lease>>

Pending(r) == Plan[r][Len(work.rows) + 1]

\* Every statement of the body runs, then the authorizer is removed.
ApplyBody(r) ==
    /\ step[r] = "body"
    /\ work' = [work EXCEPT !.bodies = Append(@, Pending(r))]
    /\ Goto(r, "record")
    /\ UNCHANGED <<late, db, writer, session, result, lease>>

\* The body fails or is cancelled; removing the authorizer may fail as well.
BodyFails(r) == step[r] = "body" /\ \E unsure \in BOOLEAN : RaiseWith(r, unsure)

\* Mutant of RecordHistory: the row is committed without its unit.
RecordHistoryAlone(r) ==
    /\ step[r] = "record"
    /\ work' = [work EXCEPT !.rows = Append(@, Pending(r))]
    /\ db' = [db EXCEPT !.shape = "v2", !.rows = Append(work.rows, Pending(r))]
    /\ Goto(r, "commit")
    /\ UNCHANGED <<late, writer, session, result, lease>>

\* _record_history: the row joins the body's transaction.
RecordHistory(r) ==
    /\ step[r] = "record"
    /\ work' = [work EXCEPT !.rows = Append(@, Pending(r))]
    /\ Goto(r, "commit")
    /\ UNCHANGED <<late, db, writer, session, result, lease>>

\* COMMIT publishes the transaction and frees the writer lock.
Publish == db' = work /\ writer' = NoRunner /\ UNCHANGED work

NewRow(r) == work.rows[Len(work.rows)]

\* Mutant of Commit: a committed unit is not reported as this call's own.
CommitForgetting(r) ==
    /\ step[r] = "commit"
    /\ Publish
    /\ mine' = [mine EXCEPT ![r] = Append(@, NewRow(r))]
    /\ Goto(r, "begin")
    /\ UNCHANGED <<late, session, applied, already, returned, lease>>

\* The unit is committed and reported; the next one is a new transaction.
Commit(r) ==
    /\ step[r] = "commit"
    /\ Publish
    /\ mine' = [mine EXCEPT ![r] = Append(@, NewRow(r))]
    /\ applied' = [applied EXCEPT ![r] = Append(@, NewRow(r))]
    /\ Goto(r, "begin")
    /\ UNCHANGED <<late, session, already, returned, lease>>

\* Nothing is pending: the result is returned.
Finish(r) ==
    /\ step[r] = "finish"
    /\ Publish
    /\ reusable' = [reusable EXCEPT ![r] = TRUE]
    /\ returned' = [returned EXCEPT ![r] = "ok"]
    /\ Goto(r, "settle")
    /\ UNCHANGED <<late, tries, uncertain, applied, already, mine, lease>>

\* Cancellation surfaces at the checkpoint after a shielded COMMIT: the unit
\* is in the file although the call fails.
CancelledAfterCommit(r) ==
    /\ step[r] \in {"commit", "finish"}
    /\ Publish
    /\ mine' = IF step[r] = "commit" THEN [mine EXCEPT ![r] = Append(@, NewRow(r))] ELSE mine
    /\ reusable' = [reusable EXCEPT ![r] = ~uncertain[r]]
    /\ returned' = [returned EXCEPT ![r] = "failed"]
    /\ Goto(r, "settle")
    /\ UNCHANGED <<late, tries, uncertain, applied, already, lease>>

\* Any step of an open transaction fails, is refused or is cancelled.
UnitFails(r) == step[r] \in {"ensure", "inspect", "record", "commit", "finish"} /\ Raise(r)

\* The worker runs a BEGIN that nobody waits for.
LateBegin(r) ==
    /\ r \in late /\ writer = NoRunner
    /\ writer' = r /\ work' = db
    /\ late' = late \ {r}
    /\ UNCHANGED <<db, step, session, result, lease>>

\* Mutant of Settle: a failed rollback does not prevent the return.
SettleLeavingOpen(r) ==
    /\ step[r] = "settle"
    /\ lease' = [lease EXCEPT ![r] = IF reusable[r] \/ InTransaction(r) THEN "released"
                                     ELSE "discarded"]
    /\ Goto(r, "done")
    /\ UNCHANGED <<db, work, writer, late, session, result>>

\* _release_migration_connection: roll back what is open; return the
\* connection if that worked and it is known to be clean, or discard it.
Settle(r) ==
    /\ step[r] = "settle"
    /\ \/ /\ RollbackIfOpen(r)
          /\ lease' = [lease EXCEPT ![r] = IF reusable[r] THEN "released" ELSE "discarded"]
       \/ /\ InTransaction(r)
          /\ lease' = [lease EXCEPT ![r] = "discarded"]
          /\ UNCHANGED <<work, writer>>
    /\ Goto(r, "done")
    /\ UNCHANGED <<db, late, session, result>>

\* The pool's background task closes a discarded connection.
CloseDiscarded(r) ==
    /\ lease[r] = "discarded" /\ (r \in late \/ InTransaction(r))
    /\ RollbackIfOpen(r)
    /\ late' = late \ {r}
    /\ UNCHANGED <<db, step, session, result, lease>>

\* The process dies: SQLite rolls its open transaction back.
Crash(r) ==
    /\ step[r] \notin {"new", "done"}
    /\ RollbackIfOpen(r) /\ late' = late \ {r}
    /\ lease' = [lease EXCEPT ![r] = "none"]
    /\ returned' = [returned EXCEPT ![r] = "crashed"] /\ tries' = [tries EXCEPT ![r] = 0]
    /\ Goto(r, "done")
    /\ UNCHANGED <<db, reusable, uncertain, applied, already, mine>>

Advance(r) ==
    \/ Begin(r) \/ RetryBusy(r) \/ BeginFails(r) \/ Ensure(r) \/ Inspect(r)
    \/ ApplyBody(r) \/ BodyFails(r) \/ RecordHistory(r) \/ Commit(r) \/ Finish(r)
    \/ CancelledAfterCommit(r) \/ UnitFails(r) \/ Settle(r)

Next ==
    \E r \in Runners :
        \/ Migrate(r) \/ Advance(r) \/ Crash(r) \/ LateBegin(r) \/ CloseDiscarded(r)

Spec == Init /\ [][Next]_vars

\* A runner that can go on does, and discarded connections are closed; nothing
\* forces a runner to succeed.
FairSpec ==
    Spec /\ \A r \in Runners : WF_vars(Advance(r)) /\ WF_vars(CloseDiscarded(r))

\* Whatever fails or dies in between, the history is the adopted prefix
\* followed by exactly the bodies that ran, each once and in order.
ExactlyOnce == db.rows = db.adopted \o db.bodies

\* A returned MigrationResult tells the truth although other processes
\* migrate between this call's transactions: it is the whole declaration,
\* "applied" is what this call committed, and no migration is in both parts.
ResultIsTruthful ==
    \A r \in Runners : returned[r] = "ok" =>
        /\ applied[r] = mine[r]
        /\ Names(applied[r]) \cap Names(already[r]) = {}
        /\ Names(applied[r]) \cup Names(already[r]) = Names(Plan[r])
        /\ Len(applied[r]) + Len(already[r]) = Len(Plan[r])

\* The writer lock is never left behind, also not by a call that does not
\* know whether its BEGIN took effect.
WriterLockIsFreed == \A r \in Runners : writer = r ~> writer # r

Promise == INSTANCE MigrationLedger WITH
    Plans <- {Plan[r] : r \in Runners}, Atomic <- TRUE,
    recorded <- db.rows, executed <- db.bodies, adopted <- db.adopted

\* The file implements the atomic ledger: histories only grow, by the next
\* declared migration, in the same step as its body.
KeepsLedger == Promise!Spec
=============================================================================
