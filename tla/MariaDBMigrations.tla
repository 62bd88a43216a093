------------------------- MODULE MariaDBMigrations -------------------------
(***************************************************************************)
(* Concurrent calls of migrate() on one MariaDB database                   *)
(* (snekql/mariadb/migrations.py).  One advisory lock covers a whole call. *)
(* DDL commits implicitly, so the upgrade of a legacy history is resumable *)
(* and a DDL body may take effect without its history row.  The server     *)
(* learns late that a connection is gone: until then the connection keeps  *)
(* its lock, and the statement it had sent may still take effect.          *)
(***************************************************************************)
EXTENDS MigrationHistory

CONSTANTS
    Runners,    \* calls of migrate(), each on a connection of its own
    Plan,       \* their declarations
    Consent,    \* runners that pass adopt_legacy=True
    Legacies,   \* the sets of names a legacy table may hold
    Ddl,        \* migrations whose body commits implicitly
    NoRunner

\* Every declared migration.
Migrations == UNION {{Plan[r][i] : i \in DOMAIN Plan[r]} : r \in Runners}

ASSUME RunnersAssumption == NoRunner \notin Runners /\ Consent \subseteq Runners

\* Declarations are sequences of migrations.
ASSUME PlanAssumption == Plan \in [Runners -> Seq(Migrations)]

\* A declaration is a dict, so no name comes twice (prepare_migrations).
ASSUME DistinctAssumption ==
    \A r \in Runners : \A i, j \in DOMAIN Plan[r] : Plan[r][i] = Plan[r][j] => i = j

VARIABLES
    db,         \* the committed database
    holder,     \* the connection that has the advisory lock
    inflight,   \* the step whose statement the server had when the client left
    step,       \* where each runner is
    reusable,   \* backend.connection_reusable
    applied, already,   \* the result
    mine,       \* rows committed while the call ran
    returned,   \* how the call ended
    lease       \* what became of the pooled connection

server == <<db, holder, inflight>>
outcome == <<applied, already, mine>>
vars == <<server, step, reusable, outcome, returned, lease>>

Working == {"ensure", "fill", "finalize", "read", "body", "record"}
Steps == Working \cup {"new", "lock", "release", "confirm", "settle", "done"}

Shapes == {"absent", "v1", "staging", "v2", "unknown"}

Databases == [shape : Shapes, legacy : SUBSET UNION Legacies, filled : Seq(Migrations),
              rows : Seq(Migrations), bodies : Seq(Migrations), adopted : Seq(Migrations)]

Empty == [shape |-> "absent", legacy |-> {}, filled |-> <<>>, rows |-> <<>>,
          bodies |-> <<>>, adopted |-> <<>>]

\* A new database, one with a foreign table of that name, or a legacy one.
Init ==
    /\ db \in {Empty, [Empty EXCEPT !.shape = "unknown"]}
          \cup {[Empty EXCEPT !.shape = "v1", !.legacy = names] : names \in Legacies}
    /\ holder = NoRunner /\ inflight = [r \in Runners |-> "none"]
    /\ step = [r \in Runners |-> "new"]
    /\ reusable = [r \in Runners |-> FALSE]
    /\ applied = [r \in Runners |-> <<>>] /\ already = [r \in Runners |-> <<>>]
    /\ mine = [r \in Runners |-> <<>>]
    /\ returned = [r \in Runners |-> "none"]
    /\ lease = [r \in Runners |-> "none"]

Goto(r, s) == step' = [step EXCEPT ![r] = s]
Return(r, how) == returned' = [returned EXCEPT ![r] = how]

(***************************************************************************)
(* The statements: the database after each of them                         *)
(***************************************************************************)
Pending(r) == Plan[r][Len(already[r]) + Len(applied[r]) + 1]
Prefix(r) == Take(Plan[r], Cardinality(db.legacy))

MayAdopt(r) ==
    /\ db.legacy # {} => r \in Consent
    /\ ValidLegacyHistory(db.legacy, Plan[r])

\* _ensure_v2_history: create the table, or add the staging columns.
Ensured(r) ==
    [db EXCEPT !.shape = IF @ = "absent" THEN "v2"
                         ELSE IF @ = "v1" /\ MayAdopt(r) THEN "staging" ELSE @]

\* _fill_staging_history: rows that an earlier call populated must agree
\* with this declaration.
MayFill(r) ==
    /\ ValidLegacyHistory(db.legacy, Plan[r])
    /\ db.filled # <<>> => db.filled = Prefix(r)

Filled(r) == IF MayFill(r) THEN [db EXCEPT !.filled = Prefix(r)] ELSE db

Finalized ==
    [db EXCEPT !.shape = "v2", !.legacy = {}, !.filled = <<>>,
               !.rows = db.filled, !.adopted = db.filled]

\* Mutant of BodySent: without begin() every body is committed by itself.
BodySentAutocommit(r) == [db EXCEPT !.bodies = Append(@, Pending(r))]

\* The body runs after begin(); the effect of DDL is committed all the same.
BodySent(r) ==
    IF Pending(r) \in Ddl THEN [db EXCEPT !.bodies = Append(@, Pending(r))] ELSE db

MayRecord(r) ==
    ValidHistoryPrefix(Append(db.rows, Pending(r)), Plan[r],
                       Len(already[r]) + Len(applied[r]) + 1)

\* COMMIT of the history row, and of the body unless that was DDL.
Recorded(r) ==
    IF MayRecord(r)
    THEN [db EXCEPT !.rows = Append(@, Pending(r)),
                    !.bodies = IF Pending(r) \in Ddl THEN @ ELSE Append(@, Pending(r))]
    ELSE db

\* What the statements of a step make of the database.
Effect(r, s) ==
    CASE s = "ensure" -> Ensured(r)
      [] s = "fill" -> Filled(r)
      [] s = "finalize" -> Finalized
      [] s = "body" -> BodySent(r)
      [] s = "record" -> Recorded(r)
      [] OTHER -> db

\* A row that appeared is credited to the call.
Credit(r) ==
    mine' = [mine EXCEPT ![r] =
                IF step[r] = "record" /\ db'.rows # db.rows THEN Append(@, Pending(r)) ELSE @]

(***************************************************************************)
(* The advisory lock                                                       *)
(***************************************************************************)
\* apply_migrations leases a connection and asks for the lock.
Migrate(r) ==
    /\ step[r] = "new"
    /\ lease' = [lease EXCEPT ![r] = "held"]
    /\ Goto(r, "lock")
    /\ UNCHANGED <<server, reusable, outcome, returned>>

\* Mutant of LockGranted: every caller has a lock of its own.
LockGrantedAnyway(r) ==
    /\ step[r] = "lock"
    /\ holder' = r
    /\ Goto(r, "ensure")
    /\ UNCHANGED <<db, inflight, reusable, outcome, returned, lease>>

\* GET_LOCK answers 1.
LockGranted(r) ==
    /\ step[r] = "lock" /\ holder = NoRunner
    /\ holder' = r
    /\ Goto(r, "ensure")
    /\ UNCHANGED <<db, inflight, reusable, outcome, returned, lease>>

\* GET_LOCK answers 0: the connection is as it was.
LockTimesOut(r) ==
    /\ step[r] = "lock" /\ holder # NoRunner
    /\ reusable' = [reusable EXCEPT ![r] = TRUE]
    /\ Return(r, "locked") /\ Goto(r, "settle")
    /\ UNCHANGED <<server, outcome, lease>>

\* GET_LOCK fails, is cancelled or answers NULL: the lock may still come.
LockFails(r) ==
    /\ step[r] = "lock"
    /\ inflight' = [inflight EXCEPT ![r] = "lock"]
    /\ Return(r, "failed") /\ Goto(r, "settle")
    /\ UNCHANGED <<db, holder, reusable, outcome, lease>>

\* RELEASE_LOCK answers 1, and is sent again until it does not.
ReleaseLock(r) ==
    /\ step[r] = "release" /\ holder = r
    /\ holder' = NoRunner
    /\ Goto(r, "confirm")
    /\ UNCHANGED <<db, inflight, reusable, outcome, returned, lease>>

\* The second answer is 0 or NULL; a cancellation may surface after it.
ConfirmRelease(r) ==
    /\ step[r] = "confirm"
    /\ reusable' = [reusable EXCEPT ![r] = TRUE]
    /\ returned' \in {returned, [returned EXCEPT ![r] = "failed"]}
    /\ Goto(r, "settle")
    /\ UNCHANGED <<server, outcome, lease>>

(***************************************************************************)
(* The call under the lock                                                 *)
(***************************************************************************)
Ensure(r) ==
    /\ step[r] = "ensure"
    /\ db' = Ensured(r)
    /\ \/ db'.shape = "v2" /\ Goto(r, "read")
       \/ db'.shape = "staging" /\ Goto(r, "fill")
    /\ UNCHANGED <<holder, inflight, reusable, outcome, returned, lease>>

\* Positions and checksums of all legacy rows, in one commit.
FillStaging(r) ==
    /\ step[r] = "fill" /\ MayFill(r)
    /\ db' = Filled(r)
    /\ Goto(r, "finalize")
    /\ UNCHANGED <<holder, inflight, reusable, outcome, returned, lease>>

FinalizeStaging(r) ==
    /\ step[r] = "finalize"
    /\ db' = Finalized
    /\ Goto(r, "read")
    /\ UNCHANGED <<holder, inflight, reusable, outcome, returned, lease>>

\* The next pending migration, or the result.
GoOn(r, n) ==
    IF n < Len(Plan[r]) THEN Goto(r, "body") /\ UNCHANGED returned
    ELSE Goto(r, "release") /\ Return(r, "ok")

\* Mutant of ReadHistory: the history is counted, not compared.
ReadHistoryUnchecked(r) ==
    /\ step[r] = "read" /\ Len(db.rows) <= Len(Plan[r])
    /\ already' = [already EXCEPT ![r] = db.rows]
    /\ GoOn(r, Len(db.rows))
    /\ UNCHANGED <<server, reusable, applied, mine, lease>>

\* Mutant of ReadHistory: the lock covers the inspection only.
ReadHistoryUnlocking(r) ==
    /\ step[r] = "read" /\ ValidHistoryPrefix(db.rows, Plan[r], 0)
    /\ already' = [already EXCEPT ![r] = db.rows]
    /\ holder' = NoRunner
    /\ GoOn(r, Len(db.rows))
    /\ UNCHANGED <<db, inflight, reusable, applied, mine, lease>>

\* What is pending is decided once, from the history read here.
ReadHistory(r) ==
    /\ step[r] = "read" /\ ValidHistoryPrefix(db.rows, Plan[r], 0)
    /\ already' = [already EXCEPT ![r] = db.rows]
    /\ GoOn(r, Len(db.rows))
    /\ UNCHANGED <<server, reusable, applied, mine, lease>>

RunBody(r) ==
    /\ step[r] = "body"
    /\ db' = BodySent(r)
    /\ Goto(r, "record")
    /\ UNCHANGED <<holder, inflight, reusable, outcome, returned, lease>>

\* The row is inserted, the history compared up to this migration, and both
\* are committed.
RecordHistory(r) ==
    /\ step[r] = "record" /\ MayRecord(r)
    /\ db' = Recorded(r)
    /\ Credit(r)
    /\ applied' = [applied EXCEPT ![r] = Append(@, Pending(r))]
    /\ GoOn(r, Len(already[r]) + Len(applied[r]) + 1)
    /\ UNCHANGED <<holder, inflight, reusable, already, lease>>

(***************************************************************************)
(* Failures                                                                *)
(***************************************************************************)
\* A step is refused, fails or, after a shielded commit, is cancelled, on a
\* connection that lives: its statement may have taken effect.  What is not
\* committed is rolled back and the lock is given up.
StepFails(r) ==
    /\ step[r] \in Working
    /\ db' \in {db, Effect(r, step[r])}
    /\ Credit(r)
    /\ Return(r, "failed") /\ Goto(r, "release")
    /\ UNCHANGED <<holder, inflight, reusable, applied, already, lease>>

\* The connection is lost, or the driver closes it because its statement was
\* cancelled: rollback and release fail as well.
ConnectionLost(r) ==
    /\ step[r] \in Working \cup {"release", "confirm"}
    /\ inflight' = [inflight EXCEPT ![r] = step[r]]
    /\ Return(r, "failed") /\ Goto(r, "settle")
    /\ UNCHANGED <<db, holder, reusable, outcome, lease>>

\* Mutant of Settle: the connection always goes back to the pool.
SettleReleasing(r) ==
    /\ step[r] = "settle"
    /\ lease' = [lease EXCEPT ![r] = "released"]
    /\ Goto(r, "done")
    /\ UNCHANGED <<server, reusable, outcome, returned>>

\* The finally clause of apply_migrations.
Settle(r) ==
    /\ step[r] = "settle"
    /\ lease' = [lease EXCEPT ![r] = IF reusable[r] THEN "released" ELSE "discarded"]
    /\ Goto(r, "done")
    /\ UNCHANGED <<server, reusable, outcome, returned>>

\* The process dies.
Crash(r) ==
    /\ step[r] \notin {"new", "done"}
    /\ inflight' = [inflight EXCEPT ![r] = IF step[r] = "settle" THEN @ ELSE step[r]]
    /\ lease' = [lease EXCEPT ![r] = "crashed"]
    /\ Return(r, "crashed") /\ Goto(r, "done")
    /\ UNCHANGED <<db, holder, reusable, outcome>>

\* The server grants the lock to a connection that no longer waits for it.
ServerGrantsLate(r) ==
    /\ inflight[r] = "lock" /\ holder = NoRunner
    /\ holder' = r
    /\ inflight' = [inflight EXCEPT ![r] = "none"]
    /\ UNCHANGED <<db, step, reusable, outcome, returned, lease>>

\* The server finds a connection closed: the statement it had may take
\* effect, open work is rolled back, and then the lock is free.
ServerNotices(r) ==
    /\ lease[r] \in {"discarded", "crashed"}
    /\ holder = r \/ inflight[r] # "none"
    /\ db' \in IF holder = r THEN {db, Effect(r, inflight[r])} ELSE {db}
    /\ holder' = IF holder = r THEN NoRunner ELSE holder
    /\ inflight' = [inflight EXCEPT ![r] = "none"]
    /\ UNCHANGED <<step, reusable, outcome, returned, lease>>

Advance(r) ==
    \/ LockGranted(r) \/ LockTimesOut(r) \/ LockFails(r) \/ ReleaseLock(r) \/ ConfirmRelease(r)
    \/ Ensure(r) \/ FillStaging(r) \/ FinalizeStaging(r) \/ ReadHistory(r)
    \/ RunBody(r) \/ RecordHistory(r) \/ StepFails(r) \/ ConnectionLost(r) \/ Settle(r)

Next ==
    \E r \in Runners :
        \/ Migrate(r) \/ Advance(r) \/ Crash(r) \/ ServerGrantsLate(r) \/ ServerNotices(r)

Spec == Init /\ [][Next]_vars

\* A call that can go on does, and the server notices closed connections.
FairSpec ==
    Spec /\ \A r \in Runners : WF_vars(Advance(r)) /\ WF_vars(ServerNotices(r))

\* m stands at exactly one position of s.
Once(m, s) == \E i \in DOMAIN s : \A j \in DOMAIN s : s[j] = m <=> j = i

\* A transactional body takes effect exactly once, together with its history
\* row, whatever fails or dies around _apply_body_and_history's commit; only
\* DDL may have run without a row.
TransactionalOnce ==
    \A i \in DOMAIN db.bodies :
        LET m == db.bodies[i]
        IN  m \notin Ddl => Once(m, db.bodies) /\ Once(m, db.rows)

\* Whatever changes the database is done by or for the connection that holds
\* the advisory lock, statements of connections that are gone included.
OnlyHolderWrites ==
    [][db' # db => \E r \in Runners :
          /\ holder = r
          /\ \A q \in Runners \ {r} : step'[q] = step[q] /\ inflight'[q] = inflight[q]]_vars

\* A MigrationResult accounts for the whole declaration, and "applied" is
\* exactly what this call committed, with others migrating beside it.
ResultIsTruthful ==
    \A r \in Runners : returned[r] = "ok" =>
        applied[r] = mine[r] /\ already[r] \o applied[r] = Plan[r]

\* The advisory lock is never left behind, whichever step fails.
LockIsFreed == holder # NoRunner ~> holder = NoRunner

Promise == INSTANCE MigrationLedger WITH
    Plans <- {Plan[r] : r \in Runners}, Atomic <- FALSE,
    recorded <- db.rows, executed <- db.bodies, adopted <- db.adopted

\* The database implements the ledger whose bodies may run again: the history
\* only grows, by the next declared migration, right after its body ran.
KeepsLedger == Promise!Spec
=============================================================================
