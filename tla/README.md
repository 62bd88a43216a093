# A verification of snekql

snekql is an asynchronous query builder and runtime for SQLite and MariaDB. The
modules here model it in two halves:

- the concurrent core, where steps of several tasks, connections, processes and
  servers meet: admission to a connection pool, the two pools, one `Transaction`
  shared by tasks, `migrate()` on both backends, the executor of recorded
  migrations, the temporary test server;
- the algorithms whose output a database has to understand: the query builder
  and compiler with its codecs and decoders, scaffolding and schema
  verification, the authoring of recorded migrations. These are operators,
  driven by a caller and checked against a reference definition.

TLC checks all of it on small instances. TLAPS proves the safety of the gate,
both pools, `Transaction` and both migration runners for every number of tasks,
connections, processes and declarations.

Line references are to `src/snekql/`.

## The parts and how they interact

| Part | State | Operations that change it | What is hard |
|---|---|---|---|
| Admission gate, `_pool_gate.py` | ticket queue, slot counter | `admit`, `release`, `notify_all` | wake-ups, overtaking, a slot lost in a cancellation |
| SQLite pool, `sqlite/pool.py` | idle list, retained handles, closing flags, detached tasks | `acquire`, `release`, `discard`, `close` | ownership while opening and closing race |
| MariaDB pool, `mariadb/runtime.py`, `mariadb/_pool.py` | the driver's books, settled sessions, closing flags | the same, with probe and configuration | two bounds in series |
| Transaction, `runtime.py` | connection, lock, nested contexts, stream, outcome | enter, query, stream, nest, exit | exit beside queries of other tasks, lost COMMIT answers |
| Migrations, `_migrations.py`, `*/migrations.py` | history table, write or advisory lock, result | `migrate` | crashes between steps, several processes |
| Recorded migrations, `experimental/` | draft, package, target catalog, ledger | generate, resolve, freeze; prepare, apply, inspect, reconcile, resume | what ran before a connection was lost |
| Test server, `testing/mariadb/` | data directory, child processes | enter, leave, cancel | processes that outlive their context |
| Schema, `*/schema.py`, `_schema_*.py` | none; reads a catalog that others change | scaffold, verify | two engines that rewrite what they are told |
| Query builder, `query.py`, `_query_*.py` | none | build, compile, decode | names, scopes, NULL, order of parameters |

A pool owns a gate. A `Transaction` leases a connection from a pool and gives it
back or discards it; so does `migrate()`. The runners of several processes meet
only in the database. A query is compiled before it reaches a `Transaction`.

## Modules

| Module | Role |
|---|---|
| `Queues` | FIFO queues of tickets and of a lock's waiters |
| `AdmissionGate` | state and steps of `FairAdmissionGate`, used by the next four |
| `AdmissionGateSpec` | the gate with arbitrary clients and a pool that may refuse work |
| `FifoSemaphore` | abstract: a first-come first-served semaphore |
| `SQLitePool`, `MariaDBPool` | each pool, composed with the gate |
| `Transaction` | one `Transaction` shared by tasks |
| `MigrationHistory` | the rules about histories that both backends use |
| `MigrationLedger` | abstract: what `migrate()` promises about a database |
| `SQLiteMigrations`, `MariaDBMigrations` | concurrent runners on one database |
| `RecordedTables`, `RecordedPackages`, `RecordedPlans` | recorded structure and its operations; drafts compiled to packages; packages projected on a catalog |
| `RecordedDrafts` | authoring a revision, up to a prepared plan |
| `RecordedTarget` | executors that apply and recover packages on one target |
| `TestServer` | the context manager of the temporary server and its child processes |
| `CheckExpressions`, `SchemaPlans`, `SchemaCatalogs` | the CHECK grammar; declarations, plans and DDL; catalogs and their readers |
| `SchemaVerification` | scaffold, drift, and verification query by query |
| `StorageCodecs` | what a column encodes, refuses and decodes |
| `QueryStates`, `QueryScopes`, `QueryBuild`, `QueryCompile` | from operations to a statement |
| `QueryEngine` (external) | which statements the engines accept and what they answer |
| `QueryResults`, `QueryMeaning` | decoding; what a query means, without names, text or wire values |
| `QueryWrites`, `QueryExecution`, `Queries` | writes; running both kinds; the caller |
| `SequenceLemmas` | facts about queues and about prefixes of histories |
| `TransactionLemmas`, `*Proofs` | proofs about the module they extend |
| `MC*` | constants for TLC |

A definition whose comment begins with `Mutant of X` is `X` with a plausible
mistake. No specification uses it; putting it in the place of `X` must violate a
property.

### Steps and atomicity

All Python code runs on one event loop, so the code between two suspension
points is one step. Taking a lock that is free does not suspend. An action is
therefore a piece of a coroutine from one real suspension to the next, and a
cancellation or timeout can arrive exactly at those points. A driver call may
fail before or after it had its effect. Detached tasks are actors of their own.

### Admission gate

`where` is the place of an acquisition in `_admit`: `fresh` and `woken` stand for
the checkpoint at the top of its loop, `parked` for `condition.wait()`. Tickets
are unique, so the deque is the sequence of their owners. The counters that
`snapshot()` reports are left out.

### Pools

`phase` and `conn` say what an admitted acquisition has in hand. `SQLitePool`
has the opening task, the reaper of an abandoned opening, the background close
of a discarded connection, the quarantine of a handle that would not close, and
the task of `close()`. `MariaDBPool` has the driver pool's free and used sets
and fill lock as `_pool.py` adapts them, the health probe and the settings of a
session; a connection whose opening ends while another was given back stays
free, without settings, because aiomysql hands out the older one. Physical I/O
succeeds or fails.

### Transaction

`doing` is the call each task is in, `lock` the FIFO `anyio.Lock`, `levels` the
server's savepoint stack with the writes made at each level, `close` the owned
close task of `__aexit__`. A write has completed when its driver call returned
(`_execute_buffered`). What follows may still raise: `execute()` materializes the
returned rows afterwards (`runtime.py:1370`), and a failure there leaves the write
in place and the transaction usable, to be committed like any other. Ghost state
(`issued`, `completed`, `unread`, `undone`, `decided`) records what was asked, what
completed, which of it raised in that way, and what the server did. The extra
policy of a read-only transaction (`runtime.py:1529`) is one flag, restored before
release.

### Migrations

A migration is its name and checksum. In `SQLiteMigrations`, `db` is the
committed file and `work` what the open write transaction sees; a BEGIN whose
caller was cancelled may run later on the driver's worker thread (`late`), and a
discarded connection gives the writer lock up when it is closed. In
`MariaDBMigrations` DDL bodies and history DDL are durable at once, the advisory
lock belongs to a connection, and a server that has not noticed a lost
connection may still finish its statement, or grant it the lock (`inflight`).

### Recorded migrations

A table is its columns, their references to columns of other tables, its named
CHECKs and its indexes; `type` stands for the rest of a column's text, and a digest
is the value it is taken of. A draft is
edited by the operations of `migrations.py` and compiled by `compile_v1` to
numbered steps. `RecordedPlans` projects a package on a catalog that may carry
more than the managed tables: unmanaged columns and tables, views, triggers. A
plan is refused where a foreign key, managed or not, depends on an index or a
column that the package removes. The properties of `RecordedDrafts` are stated in the states where a revision was just frozen.
`RecordedTarget` runs packages under the advisory lock (MariaDB, one transaction
per UPDATE) or in one IMMEDIATE transaction (SQLite).

### Test server

The coroutine is a stack of `owned_process` frames. Leaving a frame, in whatever
way, stops and reaps its child: terminate, wait, kill, wait. `orphans` are
children that were let go of while they still ran. A cancellation comes in two
kinds. One of the task (`Task.cancel`) is raised at the next suspension, and
`_finish_cleanup` keeps it and raises it when the cleanup is done. One of an AnyIO
scope around the context is not delivered inside the shield of `_finish_cleanup`:
it stays pending (`scoped`) and is raised at the next suspension outside a shield.
So a server may be handed out while such a cancellation is pending; it is stopped
when the caller, at its next suspension, is cancelled.

### Schema

A declaration is bound, planned, rendered to DDL, carried out by an engine
(external), and read back from its catalog by the readers of each backend.
CHECKs, partial-index predicates and literal defaults are sequences of tokens.

### Queries

A statement is kept as its syntax tree, with the parameters in the order in which
the compiler collects them. `QueryEngine` executes the tree over wire values;
`QueryMeaning` evaluates the query's state over logical values, reading every
operand from the very source it was taken from. A read is right when decoding
the engine's rows gives the rows of the meaning.

## Runs

| Run | Instance | What it shows |
|---|---|---|
| `gate` | 4 acquisitions, 2 slots | the counter is the number of slot owners, no wake-up is lost, the gate implements `FifoSemaphore` with its progress, every `admit()` ends |
| `sqlite_pool` | 3 acquisitions, 2 slots, 3 connections | one owner per connection, a clean shutdown; `acquire()` and `close()` end |
| `mariadb_pool` | the same | the driver's books agree with the gate's, the driver never makes an admitted acquisition wait, leased sessions are configured; `close()` ends |
| `transaction` | 2 tasks, 2 contexts, 1 write | a reported commit holds exactly the completed writes that nobody undid, also those whose rows `execute()` could not materialize; the outcome is evidence, only clean connections are reused, nesting is exclusive; an exit ends, and returns the lease unless another task's savepoint refuses it |
| `transaction_foreign_nesting` | another task may nest | violated: see below |
| `sqlite_migrations` | 3 runners, 2 migrations, 1 retry | every body takes effect once, with its row; results are truthful; the atomic ledger is implemented; the writer lock is given up |
| `mariadb_migrations` | 3 runners, a DDL and a transactional migration | only the lock holder writes, transactional bodies take effect once, results are truthful, the ledger is implemented, the advisory lock is freed |
| `recorded_drafts` | 5 sets of models, 2 revisions, 3 edits each | what is generated and resolved compiles; a package reaches its target on plain and on laden catalogs, unless a reference to what it removes stands in the way; a data change sees the structure its checkpoint names |
| `recorded_target` | 2 executors, 4 lineages, 5 calls, 2 faults | progress records say what ran; what was reported applied stays and was done to the catalog the plan was made for; the migration lock comes free |
| `test_server` | 2 starts, 2 cancellations of the task and 1 of a scope each | no child outlives its context unreported, a server is handed out only when it is the caller's and no cancellation of the task was lost; leaving ends |
| `schemas` | declarations of both backends, one drift each | silence of verification means that the table was as declared at one moment, but for constraints that are not managed; what is scaffolded is accepted and recognised |
| `queries` | seven kinds of queries, both backends | what compiles is accepted by the engine, but for texts longer than their MariaDB column; reads return the rows they mean, writes leave what they mean |

Every property of a passing run has a mutant, a plausible mistake in the mapped
code that the property finds.

### Bounds

*Gate and pools.* More acquisitions than slots give a full pool with a queue
behind it; the gate's four give a queue of two, whose tickets wake, look and park
in any order. One connection more than the pool may have would show an excess.

*Transaction.* Two contexts allow nesting and leaving out of order, two tasks a
caller beside the owner. No step depends on a second write: the properties speak
of each write by itself, and the proofs cover any number.

*Migrations.* Two migrations give a prefix that is neither empty nor complete;
the third runner declares an edited first body. Legacy tables hold no name, a
declared prefix, or a name that is no prefix. One busy retry is the smallest
budget that is neither absent nor exhausted at once. Each runner calls `migrate()`
once; a retry after a crash is the call of another runner.

*Recorded migrations.* Between the five sets of models a column comes and goes,
becomes required or optional and gains a default, an index and a CHECK over it
come and go, a foreign key refers to it, and a table stops being managed; two
revisions can undo each other. A laden catalog has views, triggers, unmanaged
columns, or an unmanaged table that refers to a managed one. `recorded_target`
allows a call to fail, another to recover, and a fault in the recovery.

*Test server.* A second start finds the directory of the first. A second
cancellation arrives while the first is being handled.

*Schemas and queries.* Each declaration and each kind of query (`nest`, `groups`,
`joins`, `ctes`, `unions`, `keys`, `types`) is a case with a vocabulary of its
own, three to six operations long. Values are small, and `IntMax` 9, `TextMax` 20
and `MaxRecursion` 4 put the limits of the codecs and of the engines within
reach. Tables have a few rows, with NULLs and duplicates; in `joins` one may be
empty.

Deadlock is checked for the gate and the pools, where something can always
happen. The other systems come to an end.

### Fairness

The event loop runs every task that is ready, so steps that wait for nothing but
the loop are weakly fair. Besides:

- *gate and pools*: the application leaves its `async with`, so leases are given
  back. An `acquire()` that waits for the driver gets an answer or its deadline
  passes (`fail_after` in `_acquire`). A driver's `close` of a connection ends;
  that has no deadline in the code and is an assumption. Nothing is assumed of the
  deadline of the pool's `close()`: `CloseEnds` holds without it.
- *transaction*: a driver call ends in an answer or in its deadline
  (`operation_timeout`, `runtime.py:1680`). The application leaves a stream it has
  opened; this is strong fairness, because fetches in between disable the step.
  Nobody is made to begin a call or an exit.
- *SQLite migrations*: a statement ends, in success or failure, and the pool's
  task closes a discarded connection.
- *MariaDB migrations and recorded targets*: a statement ends, in success or
  failure or with the connection, and the server in the end notices a closed
  connection. `migrate()` has no deadline of its own for statements; this is an
  assumption about the driver. `RecordedTarget` writes its fairness out instead of
  using WF, because what enables a step is plain from the state.
- *test server*: spawning a process ends, timers fire, a killed process is
  reaped, and AnyIO delivers the cancellation of a scope (it retries on every turn
  of the loop) unless the task leaves the scope first. Nothing is assumed of the children: they may hang and ignore SIGTERM.

No operation is made to succeed, and no property depends on a cancellation
arriving.

### A disagreement between code and documentation

`transaction_foreign_nesting` finds eight steps after which the lease is never
returned. The exit is accepted, its close task waits for the lock; another
task's `SAVEPOINT`, already under way, completes and makes that task the owner
of the nesting; the close task, granted the lock, repeats the owner check
(`runtime.py:855`), raises and ends. The connection is neither released nor
discarded, although `docs/error-handling.md:462` says that an outer Transaction
closed with unfinished nested contexts discards its connection, and
`docs/transactions.md:113` that the exit retains ownership. `ExitEnds`, in the
run `transaction`, shows that this is the only way to lose a lease.

## Proofs

Every safety property that the runs `gate`, `sqlite_pool`, `mariadb_pool`,
`transaction`, `sqlite_migrations` and `mariadb_migrations` check is also proved,
for every value of the constants. `SequenceLemmas` has the facts about queues
(without repetition, head, removal) and about prefixes that the others share.
The proofs that a step preserves an invariant have one lemma per action, or per
group of actions that touch the same state, and `MigrationCorrect`,
`PoolCorrect`, `TransactionCorrect` and `GateCorrect` combine them.

### Gate: `AdmissionGateProofs`

Assumed: `Acquirers` is finite and `Capacity` a positive natural number.

`GateInv` joins the type, `SlotsOwned` (the counter is the number of holders),
`TicketsOwned` (the queue is exactly those that wait, without repetition) and
`NoLostWakeup` (the head is awake when a slot is free). None is inductive alone:
that an admission leaves the counter right needs that the head of the queue is
not a holder, and that a step wakes the next head needs that every queued ticket
is parked or woken. There is one lemma per step, which the pools use too.

`GateImplementsFifo` says that every step of the gate is a step of the semaphore
or leaves it alone; the semaphore's progress is liveness and left to TLC. The
argument is in two parts. `WaitMoves`, `AdmitMoves`, `ReleaseMoves` and
`NotifyMoves` say what a step changes of the line and of the set of holders: that
somebody joins, quits, enters from the head or leaves. They do not speak of the
pool behind the gate, so the pools build on the same four.

### Pools: `SQLitePoolProofs`, `MariaDBPoolProofs`

Assumed besides: `Conns` is finite and `NoConn` not one of them.

`PoolInv` of SQLite joins `GateInv`, `OneOwner`, the bound on connections and
`ShutdownInv`. That opening one more connection stays within `pool_size` needs
that whoever opens owns a slot and has no connection yet, and that those who have
one have different ones: `FreeSlotKeepsOwner` and the counting lemmas turn that
into an inequality between cardinalities. `ShutdownInv` is what the close task
knows at each of its suspension points; `ClosedIsEmpty` is its last case.

`PoolInv` of MariaDB has the driver's books in place of the idle list. What the
driver counts as used is what slot owners have in hand, so at most
`pool_size` minus one of it is used when an admitted acquisition asks: therefore
`DriverNeverBlocks`. `LeasedIsSettled` is inductive only with the statement that
every connection marked as configured is: the mark outlives no session.

Two theorems are about what a caller of `acquire()` sees of a whole pool.
`PoolServesInOrder`: through the detached tasks, the driver's lock, failed probes,
the quarantine of a handle and the shutdown, the pool is still `FifoSemaphore`,
with `open` read as what `check_accepting_work()` answers. It needs `GateInv` and
that whatever gives a slot back, or opens and shuts the pool, does so in one of
the gate's own steps. `PoolRefusesPromptly`: nobody sleeps in the queue of a pool
that refuses work, so a waiting `acquire()` is refused without its deadline. For
MariaDB this needs besides that the task of `_close()` runs only while work is
refused, because its later steps notify nobody.

### Transaction: `TransactionLemmas`, `TransactionProofs`

Assumed: `NoTask` and `Closer` are no tasks. The numbers of tasks, contexts and
writes are arbitrary, infinite included.

`CommitIsExact` compares what the server made durable with what completed at the
driver and what was undone; `UnreadInv` adds that a write whose rows could not be
materialized is one that completed. Its strengthening `LevelInv` relates the two before the commit: while
the connection is reusable the server has one level more than the client has
contexts, a write stands at the level of the innermost open context it was issued
in, only the level of a failed context holds writes that did not complete, and
every completed write that nobody undid is at some level. It is kept only because
one statement at a time runs and nobody else's runs inside a nesting, so it needs

- `LockInv`: the queue of the lock is exactly the calls at the lock, and a call at
  the driver is its head;
- `NestInv`: whoever drives or unwinds owns the nesting, and unwinds its top;
- `EntryInv`, `CloseInv`: what the entry and the close task know where they
  suspend;
- `ContextInv`: contexts are entered once, and a write belongs to the contexts its
  task had open.

`TransactionLemmas` defines the invariant and shows that calls which wait, begin or
end, and the close task, keep it; `TransactionProofs` does so for the driver calls
under the lock, and combines both. `OutcomeIsEvidence`, `ReleasedIsClean` and
`NestedIsExclusive` follow.

### SQLite migrations: `SQLiteMigrationsProofs`

Assumed: `NoRunner` is no runner, declarations are sequences without repeated
names (they are dicts, `prepare_migrations`).

`ExactlyOnce` speaks of the committed file only and is not inductive: what COMMIT
publishes depends on the open transaction. `MigrationInv` adds what the runner
inside it knows at each step (`WorkInv`): the transaction started from the
committed history or from a declared prefix that replaced a legacy table, and has
since gained nothing, the next declared body, or that body and its row. `LockInv`
says that only the owner of the writer lock is inside a transaction, so a step of
another runner cannot disturb this; it needs that a discarded connection, which
the pool may close at any time, belongs to a call that has ended. From it follow
`BodiesRunOnce`, and `FileKeepsLedger`: every commit is one step of the atomic
`MigrationLedger`.

`ResultsAreTruthful` is about a caller that takes a fresh look at the history in
each of its transactions while others migrate in between. `ResultInv` is its
account: the names it has reported, as applied or as found, are exactly those of a
prefix of its declaration, none twice, and that prefix is no longer than the
committed history between transactions, and inside one the working history but
for the row being added. So what it finds new next time is the rest of the prefix (`UnseenIsRest`).
`Unseen` says which rows are new without filtering a list recursively, so that
this can be proved; TLC found it equal to the filter.

### MariaDB migrations: `MariaDBMigrationsProofs`

Assumed: as above, with the records of a declaration distinct.

`RunnerInv` says of each runner which statement may be under way for it and what
it has counted; while it holds the advisory lock its count is that of the table
(`Ready`), because nobody else's statement can take effect: `LockIsExclusive`,
lost connections and late statements included. `DatabaseKeepsLedger` maps each
durable statement, the staged upgrade of a legacy table included, to a step of
the ledger whose bodies may run again. `TransactionalBodiesRunOnce` needs
`BodyInv`: no row comes twice, and a durable body without implicit commits has a
row.

### Only model-checked

- Liveness, out of the prover's reach: the progress in `ImplementsFifo`,
  `NobodyStarves`, `AcquireEnds`, `CloseEnds`, `ExitEnds`, `WriterLockIsFreed`,
  `LockIsFreed`, `LeavingEnds`.
- Recorded migrations, schema and queries: what they compute is defined by
  recursion over trees and sequences, and its correctness is an induction over
  data, which the prover cannot instantiate. TLC enumerates inputs.
- The test server's safety, `OrphansAreReported` and `PublishIsEarned`. No proof
  was attempted. Its only parameters are the passwords and the bounds on starts
  and cancellations; what matters are the interleavings, which TLC covers.

## Assumptions and limits

Engines and libraries are modelled from how the code uses them: SQLite's locking
and crash recovery, MariaDB's implicit commits and `GET_LOCK`, `asyncio.Condition`,
`anyio.Lock`, aiomysql's pool, the operating system's processes. `ROLLBACK` on a
living MariaDB connection succeeds; a connection closed by the driver on
cancellation is a lost connection.

*Migrations.* The tokenizers that split and vet bodies, and SQLite's authorizer,
are a body that runs or fails.

*Recorded migrations.* The validators of identifiers and of claims about SQL text
(`_validate_draft`, `validate_mariadb_declarations`), the checks of a MariaDB
server's settings and privileges (`_check_addition_environment`,
`_check_removal_authority`), byte budgets, and the counts of copied rows and
sequence values in a rebuild are left out; they only refuse. INSTEAD OF triggers on
a dependent view are not in the catalogs of the run: planning accepts them, and the
step that drops and recreates the view fails at the engine and is rolled back.

*Test server.* An installer that is interrupted leaves a directory that the next
start takes for an initialised one (`server.py:348`). The model does as the code
does, and leaves it to `mariadbd` to fail there. An `OSError` that `communicate()`
itself raises in `_run_command` (`server.py:544`) is not modelled; the error that
replaces it does not carry the note about a child that could not be stopped.

*Schema.* One table is verified per case. MariaDB's catalog is read without a
snapshot (`schema.py:621`), so silence is claimed for a table as it was at one
moment of the reads. Two differences between the backends are kept: against a live
clock default, a literal one is drift on SQLite and unchecked on MariaDB; and
MariaDB refuses a CHECK on an AUTO_INCREMENT column, which is not declared here.
A foreign key that references its own table by a unique index that is not the
primary key is scaffolded before that index, which MariaDB refuses
(`_scaffold.py:44`, CHANGELOG.md:430); such models are not in the run. What the
readers leave out is no issue: on SQLite, indexes that come from a UNIQUE
constraint (`sqlite/schema.py:337`; snekql declares uniqueness by indexes), so such
a constraint added to a live table goes unnoticed, and on MariaDB an undeclared
index that may be the one InnoDB made for a foreign key. `SilenceIsEarned` names
both.

*Queries.* Not in the vocabulary: LIKE, LOWER, CHAR_LENGTH, AVG, CurrentTimestamp
in assignments, comparisons of DECIMALs and the check on comparing temporal
meanings, MariaDB's refusal of LIMIT in IN subqueries, subqueries that read the
table being written, overflow in SET arithmetic. Tables have one unique key, so
MariaDB's `on_conflict`, which applies to any of them, agrees with SQLite's.
`rowcount` counts matched rows on SQLite and changed ones on MariaDB
(`verbs.py:670`). ORDER BY binds to an output label before a column of the
source (`query.py:455`); labels of the instance do not collide with columns.
JSON, enums, booleans, bytes and UUIDs have no codec in the model, and only
integers and dates are read back. `Text(length=n)` bounds the column that MariaDB
creates, not what the encoder accepts: the encoder compares with the ceiling of 255
when n is at most that and with nothing otherwise (`storage.py`, `_encode_primitive`),
so the server refuses the text that is too long. `WhatCompilesRuns` excepts that
refusal.

*Not modelled:* the `Database` facade, session configuration, observers (except
where one that raises matters), raw SQL and EXPLAIN, the command line, error
classes and argument checks. `PROJECT.json` says why, and gives for each
definition the lines it stands for: about a third of the implementation.
