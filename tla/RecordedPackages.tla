-------------------------- MODULE RecordedPackages --------------------------
(***************************************************************************)
(* Drafts compiled to frozen packages: _migration_execution_v1.py, the     *)
(* format gates of _migration_package.py and the checkpoint contracts of   *)
(* migrations.py.  A digest is the value it is taken of.  A managed state  *)
(* is a function from table names to tables.                               *)
(***************************************************************************)
EXTENDS RecordedTables, TLC

\* dict.fromkeys: the distinct elements in order of first appearance.
Distinct(seq) ==
    FoldLeft(LAMBDA acc, x : IF Contains(acc, x) THEN acc ELSE Append(acc, x), <<>>, seq)
Kinds(ops) == {ops[i].kind : i \in DOMAIN ops}

(***************************************************************************)
(* The route of a draft: what each operation does to the managed tables    *)
(***************************************************************************)
Replacing(tables, name, t) == IF t = Refused THEN Refused ELSE [tables EXCEPT ![name] = t]

\* An operation on the managed tables, as both checkpoint readers replay it.
Routed(tables, op) ==
    CASE op.kind = "relinquish_table" ->
            IF op.table \notin DOMAIN tables THEN Refused
            ELSE Restrict(tables, DOMAIN tables \ {op.table})
      [] op.kind \in {"create_table", "adopt_table"} -> (op.table :> op.value) @@ tables
      [] op.kind \in {"checkpoint", "data_change"} -> tables
      [] OTHER ->
            IF op.table \notin DOMAIN tables THEN Refused
            ELSE Replacing(tables, op.table, Changed(tables[op.table], op))

\* contract_digest: replay up to the first checkpoint of that name.
contract_digest(draft, point) ==
    LET first == SelectInSeq(draft.operations,
                             LAMBDA op : op.kind = "checkpoint" /\ op.item = point)
    IN  IF first = 0 THEN Refused
        ELSE FoldLeft(LAMBDA acc, op : IF acc = Refused THEN Refused ELSE Routed(acc, op),
                      draft.before, SubSeq(draft.operations, 1, first))

(***************************************************************************)
(* _Emission                                                               *)
(***************************************************************************)
\* A grouped transition of one table; the names are in order of appearance.
Contraction(before, after) ==
    [before |-> before, after |-> after, required |-> <<>>, dropped |-> <<>>,
     defaults |-> <<>>, relaxed |-> <<>>, added |-> <<>>, removed |-> <<>>]

\* One frozen statement: what it asks the engine to do.
Step(action, on, value, transactional, contraction) ==
    [action |-> action, on |-> on, value |-> value,
     transactional |-> transactional, contraction |-> contraction]

Emission(draft) ==
    [ok |-> TRUE, tables |-> draft.before, steps |-> <<>>, pending |-> None,
     relinquished |-> {}, checkpoints |-> <<>>]

Failed(e) == [e EXCEPT !.ok = FALSE]

\* The clauses of MariaDB's one ALTER TABLE, in the order they are written.
AlterClauses(p) ==
    LET Def(name) == Named(p.after.columns, name)
        modified == SelectSeq(Distinct(p.required \o p.relaxed),
                              LAMBDA c : c \notin ToSet(p.dropped))
        defaulted == SelectSeq(Distinct(p.defaults), LAMBDA c :
                        c \notin ToSet(p.required) \cup ToSet(p.relaxed) \cup ToSet(p.dropped))
        Clauses(names, C(_)) == [i \in DOMAIN names |-> C(names[i])]
    IN  Clauses(modified, LAMBDA c : [do |-> "modify", value |-> Def(c)])
        \o Clauses(p.dropped, LAMBDA c : [do |-> "drop", value |-> c])
        \o Clauses(defaulted, LAMBDA c : [do |-> "default", value |-> Def(c)])
        \o Clauses(p.added, LAMBDA c : [do |-> "add_check", value |-> c])
        \o Clauses(p.removed, LAMBDA c : [do |-> "drop_check", value |-> c])

\* flush: SQLite defers the statement to preparation, MariaDB freezes it.
flush(e, backend) ==
    IF e.pending = None THEN e
    ELSE [e EXCEPT
            !.steps = Append(@, Step("contract", e.pending.before.name,
                                     IF backend = "sqlite" THEN None
                                     ELSE AlterClauses(e.pending),
                                     FALSE, e.pending)),
            !.pending = None]

emit(e, backend, step) == [flush(e, backend) EXCEPT !.steps = Append(@, step)]

\* One more operation in the pending contraction p; opposing nullability refuses.
Grouped(f, p, after, op) ==
    LET opposed == \/ op.kind = "allow_null" /\ op.item \in ToSet(p.required)
                   \/ op.kind = "require_not_null" /\ op.item \in ToSet(p.relaxed)
        With(names, kind) == IF op.kind = kind THEN Append(names, op.item) ELSE names
    IN  IF opposed THEN Failed(f)
        ELSE [f EXCEPT !.pending =
                [p EXCEPT !.after = after,
                          !.required = With(@, "require_not_null"),
                          !.dropped = With(@, "drop_column"),
                          !.relaxed = With(@, "allow_null"),
                          !.defaults = With(@, "change_default")]]

\* contract: one pending contraction, of one table.
contract(e, backend, before, after, op) ==
    IF e.pending # None /\ e.pending.before.name = before.name
    THEN Grouped(e, e.pending, after, op)
    ELSE Grouped(flush(e, backend), Contraction(before, after), after, op)

\* AddCheck and DropCheck are contractions of their own.
EmitCheck(e, backend, before, after, op) ==
    LET p == [Contraction(before, after) EXCEPT
                !.added = IF op.kind = "add_check" THEN <<op.value>> ELSE <<>>,
                !.removed = IF op.kind = "drop_check" THEN <<op.item>> ELSE <<>>]
    IN  flush([flush(e, backend) EXCEPT !.pending = p], backend)

\* A created table is one statement, and one more for each of its indexes.
EmitCreation(e, backend, t) ==
    IF t.name \in e.relinquished \cup DOMAIN e.tables THEN Failed(e)
    ELSE FoldLeft(LAMBDA acc, index :
                    emit(acc, backend, Step("create_index", t.name, index, FALSE, None)),
                  emit(e, backend, Step("create_table", t.name, [t EXCEPT !.indexes = <<>>],
                                        FALSE, None)),
                  t.indexes)

\* _emit_adoption: SQLite only, of a table new to this route; no statement.
_emit_adoption(e, backend, t) ==
    IF backend # "sqlite" \/ t.name \in DOMAIN e.tables \cup e.relinquished
    THEN Failed(e)
    ELSE flush(e, backend)

_emit_table(e, backend, after, op) ==
    CASE op.kind \in {"add_check", "drop_check"} ->
            EmitCheck(e, backend, e.tables[op.table], after, op)
      [] op.kind \in {"create_index", "drop_index"} ->
            emit(e, backend, Step(op.kind, op.table,
                                  IF op.kind = "create_index" THEN op.value ELSE op.item,
                                  FALSE, None))
      [] op.kind = "adopt_table" -> _emit_adoption(e, backend, op.value)
      [] op.kind = "create_table" -> EmitCreation(e, backend, op.value)

\* Mutant of _validate_data_change: any checkpoint passed so far will do.
_validate_known_checkpoint(e, backend, op) ==
    /\ op.item \in DOMAIN e.checkpoints
    /\ e.checkpoints[op.item] = op.value.contract
    /\ op.value.backend = backend

\* _validate_data_change: written against a checkpoint that is still the state.
_validate_data_change(e, backend, op) ==
    /\ op.item \in DOMAIN e.checkpoints
    /\ e.checkpoints[op.item] = op.value.contract
    /\ e.tables = op.value.contract
    /\ op.value.backend = backend

\* What one operation makes compile_v1 emit, before the tables move on.
Emitted(e, backend, op, tables) ==
    CASE op.kind = "relinquish_table" ->
            [flush(e, backend) EXCEPT !.relinquished = @ \cup {op.table}]
      [] op.kind \in Contractions ->
            contract(e, backend, e.tables[op.table], tables[op.table], op)
      [] op.kind = "checkpoint" ->
            IF op.item \in DOMAIN e.checkpoints THEN Failed(e)
            ELSE [flush(e, backend) EXCEPT !.checkpoints = (op.item :> e.tables) @@ @]
      [] op.kind = "data_change" ->
            IF ~_validate_data_change(e, backend, op) THEN Failed(e)
            ELSE emit(e, backend, Step("update", None, op.value.update, TRUE, None))
      [] op.kind = "add_column" ->
            emit(e, backend, Step("add_column", op.table, op.value, FALSE, None))
      [] OTHER -> _emit_table(e, backend, tables[op.table], op)

\* One turn of compile_v1's loop.
MovedOn(e, backend, op, tables) ==
    IF tables = Refused THEN Failed(e)
    ELSE [Emitted(e, backend, op, tables) EXCEPT !.tables = tables]
Compiled(e, backend, op) ==
    IF e.ok THEN MovedOn(e, backend, op, Routed(e.tables, op)) ELSE e

\* The newest format that one of the draft's operations needs.
Version(ops) ==
    LET Format(kind) == CASE kind = "drop_check" -> 8
                          [] kind = "add_check" -> 7
                          [] kind = "drop_index" -> 6
                          [] kind = "create_index" -> 5
                          [] kind = "allow_null" -> 4
                          [] kind = "change_default" -> 3
                          [] OTHER -> 2
    IN  Max({2} \cup {Format(kind) : kind \in Kinds(ops)})

Frozen(draft, e) ==
    IF draft.unresolved # {} \/ ~e.ok \/ e.tables # draft.target THEN Refused
    ELSE [version |-> Version(draft.operations), draft |-> draft,
          steps |-> flush(e, draft.backend).steps]

compile_v1(draft) ==
    Frozen(draft, FoldLeft(LAMBDA acc, op : Compiled(acc, draft.backend, op),
                           Emission(draft), draft.operations))

\* read_package: a format below the one that introduced an operation or a
\* contraction field refuses it.
read_package(version, ops, steps) ==
    LET contractions == {steps[i].contraction : i \in DOMAIN steps} \ {None}
    IN  /\ version \in 2..8
        /\ version < 5 => "create_index" \notin Kinds(ops)
        /\ version < 6 => "drop_index" \notin Kinds(ops)
        /\ version < 7 => /\ "add_check" \notin Kinds(ops)
                          /\ \A c \in contractions : c.added = <<>>
        /\ version < 8 => /\ "drop_check" \notin Kinds(ops)
                          /\ \A c \in contractions : c.removed = <<>>
        /\ version = 2 => /\ "change_default" \notin Kinds(ops)
                          /\ \A c \in contractions : c.defaults = <<>>
        /\ version < 4 => /\ "allow_null" \notin Kinds(ops)
                          /\ \A c \in contractions : c.relaxed = <<>>

\* Package.load: the reader admits the format and compiling gives it back.
load(package) ==
    IF /\ read_package(package.version, package.draft.operations, package.steps)
       /\ compile_v1(package.draft) = package
    THEN package ELSE Refused
=============================================================================
