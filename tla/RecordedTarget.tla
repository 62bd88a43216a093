--------------------------- MODULE RecordedTarget ---------------------------
(***************************************************************************)
(* Executing recorded packages (snekql/experimental/_migration_target.py): *)
(* prepare, apply, inspect_recovery, reconcile and resume, called by       *)
(* several executors on one database, with failing statements, abandoned   *)
(* sessions whose last statement the server may still run, and writers     *)
(* outside the migration.                                                  *)
(*                                                                         *)
(* MariaDB runs under an advisory lock with one transaction per UPDATE;    *)
(* SQLite runs a whole package in one IMMEDIATE transaction.  Reads made   *)
(* under the lock are one step with the check that uses them: whoever      *)
(* writes the ledger or the catalog for a package holds the same lock.     *)
(***************************************************************************)
EXTENDS RecordedPlans

CONSTANTS
    Executors,  \* processes that migrate the database
    Lineages,   \* sequences of packages, each the predecessor of the next
    MaxCalls,   \* bound on calls to a Target
    MaxFaults   \* bound on failures, abandoned sessions and outside writes

VARIABLES
    lineage,    \* the packages of this database
    db,         \* committed: catalog, ledger, nulls (rows that have no value
                \* in the new column), ran (how often each step took effect)
    lock,       \* who holds the writer or advisory lock: an executor, one of
                \* the abandoned sessions ("abandoned"), or None
    tx,         \* each executor's open transaction: a private db, or None
    abandoned,  \* discarded sessions the server has not ended yet
    at,         \* where each executor is
    call,       \* the call it is in
    held,       \* the prepared plan it keeps, or None
    evidence,   \* the Recovery it keeps, or None
    prog,       \* statements it has still to run
    told,       \* the "applied" results returned so far, by package
    calls, faults

vars == <<lineage, db, lock, tx, abandoned, at, call, held, evidence, prog,
          told, calls, faults>>

Backend == lineage[1].draft.backend
SQLite == Backend = "sqlite"
Steps(k) == lineage[k].steps

(***************************************************************************)
(* The ledger                                                              *)
(***************************************************************************)
\* _check_history: linear ancestry, no uncertain progress.
_check_history(k, ledger) ==
    CASE \E n \in DOMAIN ledger : ledger[n].phase # "complete" -> Refused
      [] k \in DOMAIN ledger -> "already_applied"
      [] DOMAIN ledger = 1..(k - 1) -> "next"
      [] OTHER -> Refused

\* _check_catalog_history: nothing moved since the last accepted execution.
_check_catalog_history(ledger, catalog) ==
    DOMAIN ledger # {} => ledger[Max(DOMAIN ledger)].catalog = catalog

\* Admission of a package, with the preservation review (SQLite) or without.
Admitted(k, ledger, catalog, preserve) ==
    LET p == lineage[k]
        history == _check_history(k, ledger)
    IN  /\ history # Refused
        /\ IF preserve /\ history = "next"
           THEN SQLite /\ validate_managed(p.draft.before, catalog)
           ELSE _check_catalog_history(ledger, catalog)
        /\ history = "next" =>
            _index_removal_environment(p, catalog) /\ validate_adopted(p, catalog)

\* No object has the name of a table that the package would create.
NoConflicts(p, catalog) ==
    \A op \in ToSet(p.draft.operations) : op.kind = "create_table" =>
        /\ op.table \notin DOMAIN catalog.tables \cup {v.name : v \in catalog.views}
        /\ SQLite => /\ op.table \notin {g.name : g \in catalog.triggers}
                     /\ \A t \in Range(catalog.tables) : op.table \notin Names(t.indexes)

\* _check_required: nothing is NULL in a column about to be required.
_check_required(step, nulls) ==
    step.contraction # None /\ step.contraction.required # <<>> => ~nulls

_transactional_obstacles(catalog) == catalog.triggers # {}

(***************************************************************************)
(* Statements                                                              *)
(***************************************************************************)
\* Mutants of Program: an UPDATE is acknowledged after its commit; the package
\* is never committed.
ProgramUnframed(k, start) ==
    LET first == IF start = None THEN 0 ELSE start
        Body(i) == <<[do |-> "step", step |-> i], [do |-> "ack", step |-> i]>>
        bodies == [i \in 1..(Len(Steps(k)) - first) |-> Body(first + i)]
    IN  (IF start = None THEN <<[do |-> "start", step |-> 0]>> ELSE <<>>)
        \o FlattenSeq(bodies)
        \o <<[do |-> "complete", step |-> 0], [do |-> "commit", step |-> 0]>>
ProgramUncommitted(k, start) ==
    LET all == ProgramUnframed(k, start) IN SubSeq(all, 1, Len(all) - 1)

\* _execute_package, from its first statement or from an acknowledged step.
Program(k, start) ==
    LET Do(what, i) == [do |-> what, step |-> i]
        Framed(i, body) == IF Steps(k)[i].transactional /\ ~SQLite
                           THEN <<Do("begin", i)>> \o body \o <<Do("commit", i)>> ELSE body
        Body(i) == Framed(i, <<Do("step", i), Do("ack", i)>>)
        first == IF start = None THEN 0 ELSE start
        bodies == [i \in 1..(Len(Steps(k)) - first) |-> Body(first + i)]
    IN  (IF start = None THEN <<Do("start", 0)>> ELSE <<>>)
        \o FlattenSeq(bodies) \o <<Do("complete", 0), Do("commit", 0)>>

\* _start_package inserts the row that later acknowledgements update.
_start_package(view, plan) ==
    [view EXCEPT !.ledger = (plan.package :>
        [phase |-> "started", acknowledged |-> 0, catalog |-> view.catalog,
         plan |-> plan, accepted |-> {}]) @@ @]

\* _execute_step: checks, then the statement; the engine backs the check up.
_execute_step(view, plan, i) ==
    LET p == lineage[plan.package]
        catalog == Performed(p, plan.steps, i, view.catalog)
    IN  IF \/ ~_check_required(p.steps[i], view.nulls) \/ catalog = Refused
           \/ p.steps[i].transactional /\ ~SQLite /\ _transactional_obstacles(view.catalog)
        THEN Refused
        ELSE [view EXCEPT !.catalog = catalog,
                          !.nulls = @ /\ p.steps[i].action # "update",
                          !.ran[plan.package][i] = @ + 1]

Acknowledge(view, k, i) ==
    [view EXCEPT !.ledger[k].acknowledged = i, !.ledger[k].catalog = view.catalog]

\* Completion is recorded only when the managed endpoint is observed.
CompletePackage(view, k) ==
    IF ~Complete(lineage[k], view.catalog) THEN Refused
    ELSE [view EXCEPT !.ledger[k].phase = "complete", !.ledger[k].catalog = view.catalog]

\* reconcile: acknowledge one more step on structural evidence.
Accept(view, k, i) ==
    [Acknowledge(view, k, i) EXCEPT !.ledger[k].accepted = @ \cup {i}]

Effect(view, plan, s) ==
    CASE s.do = "start" -> _start_package(view, plan)
      [] s.do = "step" -> _execute_step(view, plan, s.step)
      [] s.do = "ack" -> Acknowledge(view, plan.package, s.step)
      [] s.do = "complete" -> CompletePackage(view, plan.package)
      [] s.do = "accept" -> Accept(view, plan.package, s.step)
      [] OTHER -> view

(***************************************************************************)
(* Recovery (MariaDB)                                                      *)
(***************************************************************************)
\* _assess_recovery: what the acknowledgement and the catalog prove together.
_assess_recovery(plan, state) ==
    LET k == plan.package
        pending == {n \in DOMAIN state.ledger : state.ledger[n].phase # "complete"}
        row == state.ledger[k]
        n == row.acknowledged
        unsafe == _transactional_obstacles(state.catalog)
        disposition ==
            CASE state.catalog = row.catalog /\ ~unsafe /\ n < Len(Steps(k)) -> "retry_remaining"
              [] /\ state.catalog = row.catalog /\ ~unsafe
                 /\ ~_mariadb_presence_obstacle(lineage[k], state.catalog) -> "finish"
              [] /\ state.catalog # row.catalog /\ ~unsafe /\ n < Len(Steps(k))
                 /\ matches_contraction(Steps(k)[n + 1].contraction, row.catalog,
                                        state.catalog) -> "reconcile_structural"
              [] OTHER -> "ambiguous"
    IN  IF \/ pending # {k} \/ DOMAIN state.ledger # 1..k
           \/ ~_index_removal_environment(lineage[k], state.catalog) THEN Refused
        ELSE IF row.plan # plan THEN Refused
        ELSE [plan |-> plan, acknowledged |-> n, catalog |-> state.catalog,
              before |-> row.catalog, disposition |-> disposition]

(***************************************************************************)
(* Calls                                                                   *)
(***************************************************************************)
\* A database that the first packages of the lineage have brought up to date.
Migrated(done) ==
    LET Target(k) == lineage[k].draft.target
        plan(k) == [package |-> k, catalog |-> Catalog(lineage[k].draft.before, {}, {}),
                    steps |-> [i \in DOMAIN Steps(k) |-> None], preserve |-> FALSE]
    IN  [catalog |-> Catalog(IF done = 0 THEN <<>> ELSE Target(done), {}, {}),
         ledger |-> [k \in 1..done |->
            [phase |-> "complete", acknowledged |-> Len(Steps(k)),
             catalog |-> Catalog(Target(k), {}, {}), plan |-> plan(k), accepted |-> {}]],
         nulls |-> FALSE,
         ran |-> [k \in DOMAIN lineage |->
                    [i \in DOMAIN Steps(k) |-> IF k <= done THEN 1 ELSE 0]]]

Init ==
    /\ lineage \in Lineages
    /\ db = Migrated(Len(lineage) - 1)
    /\ lock = None /\ abandoned = {}
    /\ tx = [e \in Executors |-> None]
    /\ at = [e \in Executors |-> "idle"] /\ call = [e \in Executors |-> None]
    /\ held = [e \in Executors |-> None] /\ evidence = [e \in Executors |-> None]
    /\ prog = [e \in Executors |-> <<>>]
    /\ told = {} /\ calls = 0 /\ faults = 0

Go(e, where) == at' = [at EXCEPT ![e] = where]
Return(e) == Go(e, "idle") /\ call' = [call EXCEPT ![e] = None]
Calls(e, name, where) ==
    /\ at[e] = "idle" /\ calls < MaxCalls
    /\ Go(e, where) /\ calls' = calls + 1
    /\ call' = [call EXCEPT ![e] = name]

\* prepare reads the catalog first (held here until the plan is made) ...
PrepareReads(e, k, preserve) ==
    /\ Calls(e, "prepare", "observed")
    /\ held' = [held EXCEPT ![e] = [package |-> k, catalog |-> db.catalog,
                                    steps |-> Refused, preserve |-> preserve]]
    /\ UNCHANGED <<lineage, db, lock, tx, abandoned, evidence, prog, told, faults>>

\* ... and the history next, without any lock; a refusal leaves no plan.
PrepareChecks(e) ==
    /\ at[e] = "observed"
    /\ LET k == held[e].package
           seen == held[e].catalog
           history == _check_history(k, db.ledger)
           steps == CASE history = "already_applied" -> <<>>
                      [] NoConflicts(lineage[k], seen) -> prepare_steps(lineage[k], seen)
                      [] OTHER -> Refused
       IN  held' = [held EXCEPT ![e] =
                IF Admitted(k, db.ledger, seen, held[e].preserve) /\ steps # Refused
                THEN [@ EXCEPT !.steps = steps] ELSE None]
    /\ Return(e)
    /\ UNCHANGED <<lineage, db, lock, tx, abandoned, evidence, prog, told, calls, faults>>

\* The other calls start by asking for the lock.
Ask(e, name) ==
    /\ held[e] # None
    /\ name # "apply" => ~SQLite
    /\ name \in {"reconcile", "resume"} => evidence[e] # None
    /\ Calls(e, name, "asking")
    /\ UNCHANGED <<lineage, db, lock, tx, abandoned, held, evidence, prog, told, faults>>

\* _begin: BEGIN IMMEDIATE or GET_LOCK.
_begin(e) ==
    /\ at[e] = "asking" /\ lock = None
    /\ lock' = e /\ Go(e, "checking")
    /\ tx' = [tx EXCEPT ![e] = IF SQLite THEN db ELSE None]
    /\ UNCHANGED <<lineage, db, abandoned, call, held, evidence, prog, told, calls, faults>>

LockTimesOut(e) ==
    /\ at[e] = "asking" /\ lock # None
    /\ Return(e)
    /\ UNCHANGED <<lineage, db, lock, tx, abandoned, held, evidence, prog, told, calls, faults>>

\* The work a call is allowed to do, decided under the lock; Refused if none.
Allowed(e) ==
    LET plan == held[e]
        k == plan.package
        now == _assess_recovery(plan, db)
        Resumable == {"retry_remaining", "finish"}
        FirstMayRun(n) == n < Len(Steps(k)) => _check_required(Steps(k)[n + 1], db.nulls)
        Do(what, i) == [do |-> what, step |-> i]
    IN  CASE call[e] = "apply" ->
                IF ~Admitted(k, db.ledger, db.catalog, plan.preserve) THEN Refused
                ELSE IF k \in DOMAIN db.ledger THEN <<>>
                ELSE IF \/ plan.catalog # db.catalog
                        \/ plan.steps # prepare_steps(lineage[k], db.catalog)
                        \/ ~FirstMayRun(0)
                THEN Refused ELSE Program(k, None)
          [] now = Refused -> Refused
          [] call[e] = "inspect" -> <<>>
          [] now # evidence[e] -> Refused
          [] call[e] = "reconcile" ->
                IF now.disposition # "reconcile_structural" THEN Refused
                ELSE <<Do("begin", 0), Do("accept", now.acknowledged + 1), Do("commit", 0)>>
          [] call[e] = "resume" ->
                IF now.disposition \in Resumable /\ FirstMayRun(now.acknowledged)
                THEN Program(k, now.acknowledged) ELSE Refused

\* A refusal rolls back; so does SQLite's apply of an applied package.
Check(e) ==
    /\ at[e] = "checking"
    /\ LET work == Allowed(e)
       IN  /\ prog' = [prog EXCEPT ![e] = IF work = Refused THEN <<>> ELSE work]
           /\ Go(e, IF work = Refused THEN "failing"
                    ELSE IF work = <<>> THEN "releasing" ELSE "running")
           /\ evidence' = [evidence EXCEPT ![e] =
                IF call[e] = "inspect" /\ work # Refused
                THEN _assess_recovery(held[e], db) ELSE @]
    /\ UNCHANGED <<lineage, db, lock, tx, abandoned, call, held, told, calls, faults>>

View(e) == IF tx[e] = None THEN db ELSE tx[e]

\* One statement of the package: begin and commit frame a transaction, any
\* other takes effect in it, or at once when there is none.
Statement(e) ==
    /\ at[e] = "running"
    /\ LET s == Head(prog[e])
           new == Effect(View(e), held[e], s)
       IN  /\ new # Refused
           /\ CASE s.do = "begin" -> tx' = [tx EXCEPT ![e] = db] /\ UNCHANGED db
                [] s.do = "commit" -> db' = View(e) /\ tx' = [tx EXCEPT ![e] = None]
                [] tx[e] # None -> tx' = [tx EXCEPT ![e] = new] /\ UNCHANGED db
                [] OTHER -> db' = new /\ UNCHANGED tx
           /\ lock' = IF SQLite /\ s.do = "commit" THEN None ELSE lock
    /\ prog' = [prog EXCEPT ![e] = Tail(@)]
    /\ IF Len(prog[e]) = 1 THEN Go(e, "releasing") ELSE UNCHANGED at
    /\ UNCHANGED <<lineage, abandoned, call, held, evidence, told, calls, faults>>

\* A statement raises: its check or the engine refuses it, or the driver fails.
StatementFails(e) ==
    /\ at[e] = "running"
    /\ LET refused == Effect(View(e), held[e], Head(prog[e])) = Refused
       IN  /\ refused \/ faults < MaxFaults
           /\ faults' = IF refused THEN faults ELSE faults + 1
    /\ Go(e, "failing") /\ prog' = [prog EXCEPT ![e] = <<>>]
    /\ UNCHANGED <<lineage, db, lock, tx, abandoned, call, held, evidence, told, calls>>

\* Mutant of Rollback: the lock is released on success only.
RollbackKeepsLock(e) ==
    /\ at[e] = "failing"
    /\ tx' = [tx EXCEPT ![e] = None]
    /\ Return(e)
    /\ UNCHANGED <<lineage, db, lock, abandoned, held, evidence, prog, told, calls, faults>>

\* The failure path of _coordinated: roll back, then restore and release.
Rollback(e) ==
    /\ at[e] = "failing"
    /\ tx' = [tx EXCEPT ![e] = None]
    /\ lock' = None
    /\ Return(e)
    /\ UNCHANGED <<lineage, db, abandoned, held, evidence, prog, told, calls, faults>>

\* _release_lock and the return: only now does the caller hear of it.
_release_lock(e) ==
    /\ at[e] = "releasing"
    /\ lock' = IF lock = e THEN None ELSE lock
    /\ tx' = [tx EXCEPT ![e] = None]
    /\ told' = IF call[e] \in {"apply", "resume"} THEN told \cup {held[e].package} ELSE told
    /\ evidence' = [evidence EXCEPT ![e] =
            IF call[e] = "reconcile" THEN _assess_recovery(held[e], db) ELSE @]
    /\ Return(e)
    /\ UNCHANGED <<lineage, db, abandoned, held, prog, calls, faults>>

\* _discard: a timeout or a cancellation gives the session up with whatever it
\* has in flight; the executor keeps its plan and its evidence.
_discard(e) ==
    /\ at[e] \in {"checking", "running", "failing", "releasing"}
    /\ faults < MaxFaults /\ faults' = faults + 1
    /\ abandoned' = abandoned \cup
            {[statement |-> IF at[e] = "running" THEN Head(prog[e]) ELSE None,
              view |-> tx[e], plan |-> held[e], holds |-> lock = e, id |-> faults]}
    /\ lock' = IF lock = e THEN "abandoned" ELSE lock
    /\ tx' = [tx EXCEPT ![e] = None] /\ prog' = [prog EXCEPT ![e] = <<>>]
    /\ Return(e)
    /\ UNCHANGED <<lineage, db, held, evidence, told, calls>>

\* The engine ends an abandoned session: its last statement took effect or not,
\* an open transaction is rolled back, its lock is free.
SessionEnds(z, ran) ==
    /\ abandoned' = abandoned \ {z}
    /\ lock' = IF z.holds THEN None ELSE lock
    /\ db' = IF ~ran \/ z.statement = None THEN db
             ELSE IF z.statement.do = "commit" THEN (IF z.view = None THEN db ELSE z.view)
             ELSE IF z.view # None \/ Effect(db, z.plan, z.statement) = Refused THEN db
             ELSE Effect(db, z.plan, z.statement)
    /\ UNCHANGED <<lineage, tx, at, call, held, evidence, prog, told, calls, faults>>

\* Outside the migration (environment): the application writes a row without
\* the new column, which a NOT NULL column would refuse ...
Nullable(catalog) ==
    \E n \in DOMAIN catalog.tables : \E c \in ToSet(catalog.tables[n].columns) :
        c.nullable /\ c.default = None
ApplicationWrites ==
    /\ faults < MaxFaults /\ faults' = faults + 1
    /\ Nullable(db.catalog)
    /\ SQLite => lock = None
    /\ LET Seen(view) == IF view = None THEN None ELSE [view EXCEPT !.nulls = TRUE]
       IN  /\ db' = Seen(db)
           /\ tx' = [e \in Executors |-> Seen(tx[e])]
           /\ abandoned' = {[z EXCEPT !.view = Seen(@)] : z \in abandoned}
    /\ UNCHANGED <<lineage, lock, at, call, held, evidence, prog, told, calls>>

\* ... and somebody creates a table nobody manages (SQLite: MariaDB's callers
\* exclude other schema writers).
Drift ==
    /\ SQLite /\ lock = None
    /\ faults < MaxFaults /\ faults' = faults + 1
    /\ "stranger" \notin DOMAIN db.catalog.tables
    /\ db' = [db EXCEPT !.catalog = WithTable(@, Table("stranger", <<>>, <<>>, <<>>))]
    /\ UNCHANGED <<lineage, lock, tx, abandoned, at, call, held, evidence, prog, told, calls>>

Proceed(e) ==
    \/ PrepareChecks(e) \/ _begin(e) \/ LockTimesOut(e) \/ Check(e) \/ Statement(e)
    \/ StatementFails(e) \/ Rollback(e) \/ _release_lock(e)

Next ==
    \/ \E e \in Executors :
        \/ \E k \in DOMAIN lineage, preserve \in {FALSE, SQLite} : PrepareReads(e, k, preserve)
        \/ \E name \in {"apply", "inspect", "reconcile", "resume"} : Ask(e, name)
        \/ Proceed(e) \/ _discard(e)
    \/ \E z \in abandoned, ran \in BOOLEAN : SessionEnds(z, ran)
    \/ ApplicationWrites \/ Drift

\* Fairness: an executor's own steps happen (every driver call has a deadline)
\* and the engine ends a session whose client has gone.
\* Weak fairness of each is written out: the first is enabled exactly when the
\* executor is not idle, the second when there is such a session.
Fairness ==
    /\ \A e \in Executors :
        []<>(at[e] = "idle") \/ []<><<at'[e] # at[e] \/ prog'[e] # prog[e]>>_vars
    /\ []<>(abandoned = {}) \/ []<><<\E z \in abandoned : z \notin abandoned'>>_vars

Spec == Init /\ [][Next]_vars /\ Fairness

(***************************************************************************)
(* Properties                                                              *)
(***************************************************************************)
\* The ledger tells the truth about what ran, whatever was lost on the way:
\* acknowledged steps took effect exactly once, at most the next one has, and
\* that one only if it is not a transactional UPDATE (_execute_package,
\* _assess_recovery, reconcile, resume).
EvidenceIsTrue ==
    \A k \in DOMAIN lineage, i \in 1..Max({Len(Steps(n)) : n \in DOMAIN lineage}) :
        i \in DOMAIN Steps(k) =>
            LET n == IF k \in DOMAIN db.ledger THEN db.ledger[k].acknowledged ELSE -1
                next == n >= 0 /\ i = n + 1 /\ ~Steps(k)[i].transactional
            IN  db.ran[k][i] \in IF i <= n THEN {1} ELSE IF next THEN {0, 1} ELSE {0}

Strangers(k, catalog) ==
    {catalog.tables[n] : n \in DOMAIN catalog.tables
        \ (DOMAIN lineage[k].draft.before \cup DOMAIN lineage[k].draft.target)}

\* A caller that is told "applied" or "already_applied" can rely on it: the row
\* is complete and durable; what the package does not manage is what the plan
\* was prepared against (the check of the prepared catalog in apply); and, until
\* the next package starts, the database is at the package's recorded end.
AppliedIsDurable ==
    \A k \in told :
        /\ k \in DOMAIN db.ledger
        /\ db.ledger[k].phase = "complete"
        /\ Strangers(k, db.ledger[k].catalog) = Strangers(k, db.ledger[k].plan.catalog)
        /\ k + 1 \notin DOMAIN db.ledger => Complete(lineage[k], db.catalog)

\* The lock is given back: by the call that took it, however it ends, or with
\* the session that call abandoned.
LockIsFreed == lock # None ~> lock = None
=============================================================================
