--------------------------- MODULE RecordedTables ---------------------------
(***************************************************************************)
(* Recorded managed structure and the operations on one table, from        *)
(* snekql/experimental/migrations.py, _migration_checks.py and             *)
(* _migration_indexes.py.  The frozen SQL of a table is its columns, its   *)
(* named CHECKs and its indexes, each in declaration order; "type" stands  *)
(* for the rest of a column's text.  A PackageError is the value Refused.  *)
(***************************************************************************)
EXTENDS Naturals, Sequences, FiniteSets, SequencesExt

CONSTANTS
    None,       \* no value
    Refused     \* what an operation that raises PackageError yields

\* key: the definition carries PRIMARY KEY, UNIQUE or REFERENCES; parent: the
\* <<table, column>> it references, or None.
Column(name, type, nullable, default, key) ==
    [name |-> name, type |-> type, nullable |-> nullable, default |-> default,
     key |-> key, parent |-> None]
Referring(column, parent) == [column EXCEPT !.key = TRUE, !.parent = parent]

\* checks and indexes: sequences of [name, on], "on" the columns they mention.
Table(name, columns, checks, indexes) ==
    [name |-> name, columns |-> columns, checks |-> checks, indexes |-> indexes]

Names(things) == {things[i].name : i \in DOMAIN things}
Named(things, name) == things[CHOOSE i \in DOMAIN things : things[i].name = name]
Mentions(things, name) == \E i \in DOMAIN things : name \in things[i].on
Without(things, names) == SelectSeq(things, LAMBDA x : x.name \notin names)
References(t) == {t.columns[i].parent : i \in DOMAIN t.columns} \ {None}

\* The names that the columns and CHECKs of a table mention.
Mentioned(t) ==
    Names(t.columns) \cup Names(t.checks) \cup UNION {ToSet(r) : r \in References(t)}
        \cup UNION {t.checks[i].on : i \in DOMAIN t.checks}
Words(t) == {t.name} \cup Mentioned(t)
ReplacedBy(things, new) ==
    [i \in DOMAIN things |-> IF things[i].name = new.name THEN new ELSE things[i]]

\* Operations, as the frozen values an author writes.
Op(kind, table, item, value) ==
    [kind |-> kind, table |-> table, item |-> item, value |-> value]
CreateTable(t) == Op("create_table", t.name, None, t)
AdoptTable(t) == Op("adopt_table", t.name, None, t)
RelinquishTable(name) == Op("relinquish_table", name, None, None)
AddColumn(name, column) == Op("add_column", name, column.name, column)
RequireNotNull(name, column) == Op("require_not_null", name, column, None)
AllowNull(name, column) == Op("allow_null", name, column, None)
ChangeDefault(name, column) == Op("change_default", name, column.name, column)
DropColumn(name, column) == Op("drop_column", name, column, None)
CreateIndex(name, index) == Op("create_index", name, index.name, index)
DropIndex(name, index) == Op("drop_index", name, index, None)
AddCheck(name, check) == Op("add_check", name, check.name, check)
DropCheck(name, check) == Op("drop_check", name, check, None)
Checkpoint(name) == Op("checkpoint", None, name, None)
DataChange(point, contract, backend, update) ==
    Op("data_change", None, point,
       [contract |-> contract, backend |-> backend, update |-> update])

Contractions == {"require_not_null", "allow_null", "change_default", "drop_column"}
Auxiliary == {"create_index", "drop_index", "add_check", "drop_check"}
Removals == {"drop_column", "drop_index", "drop_check", "relinquish_table"}

(***************************************************************************)
(* One table                                                               *)
(***************************************************************************)
\* _add_column: only an unconstrained nullable column with a new name.
_add_column(t, column) ==
    IF \/ ~column.nullable \/ column.default # None \/ column.key
       \/ column.name \in Names(t.columns)
    THEN Refused
    ELSE [t EXCEPT !.columns = Append(@, column)]

\* _relaxed_column: an ordinary required column no table constraint mentions.
_relaxed_column(t, column) ==
    IF column.nullable \/ column.key \/ Mentions(t.checks, column.name) THEN Refused
    ELSE [column EXCEPT !.nullable = TRUE]

\* _changed_default_column: the default changes and nothing else.
_changed_default_column(column, replacement) ==
    IF \/ column = replacement
       \/ [column EXCEPT !.default = replacement.default] # replacement
    THEN Refused
    ELSE replacement

\* The requiring branch of _contract_table.
_required_column(column) ==
    IF ~column.nullable THEN Refused ELSE [column EXCEPT !.nullable = FALSE]

\* The dropping branch: nothing else may depend on the column.
_without_column(t, column) ==
    IF \/ column.key \/ Mentions(t.checks, column.name)
       \/ Mentions(t.indexes, column.name) \/ Len(t.columns) = 1
    THEN Refused
    ELSE [t EXCEPT !.columns = Without(@, {column.name})]

_contract_table(t, op) ==
    LET column == Named(t.columns, op.item)
        new == CASE op.kind = "change_default" ->
                       _changed_default_column(column, op.value)
                 [] op.kind = "allow_null" -> _relaxed_column(t, column)
                 [] OTHER -> _required_column(column)
    IN  IF op.item \notin Names(t.columns) THEN Refused
        ELSE IF op.kind = "drop_column" THEN _without_column(t, column)
        ELSE IF new = Refused THEN Refused
        ELSE [t EXCEPT !.columns = ReplacedBy(@, new)]

\* add_index, drop_index: a new name over managed columns; exactly one to drop.
add_index(t, index) ==
    IF index.name \in Names(t.indexes) \/ ~(index.on \subseteq Names(t.columns))
    THEN Refused
    ELSE [t EXCEPT !.indexes = Append(@, index)]

drop_index(t, name) ==
    IF name \notin Names(t.indexes) THEN Refused
    ELSE [t EXCEPT !.indexes = Without(@, {name})]

\* add_check, drop_check: the same for named table CHECKs.
add_check(t, check) ==
    IF check.name \in Names(t.checks) \/ ~(check.on \subseteq Names(t.columns))
    THEN Refused
    ELSE [t EXCEPT !.checks = Append(@, check)]

drop_check(t, name) ==
    IF name \notin Names(t.checks) THEN Refused
    ELSE [t EXCEPT !.checks = Without(@, {name})]

_auxiliary_change(t, op) ==
    CASE op.kind = "drop_check" -> drop_check(t, op.item)
      [] op.kind = "add_check" -> add_check(t, op.value)
      [] op.kind = "drop_index" -> drop_index(t, op.item)
      [] op.kind = "create_index" -> add_index(t, op.value)

\* Any operation on one managed table.
Changed(t, op) ==
    CASE op.kind = "add_column" -> _add_column(t, op.value)
      [] op.kind \in Contractions -> _contract_table(t, op)
      [] op.kind \in Auxiliary -> _auxiliary_change(t, op)

\* Operations in order on one table; a refusal stays a refusal.
ChangedBy(t, ops) ==
    FoldLeft(LAMBDA acc, op : IF acc = Refused THEN Refused ELSE Changed(acc, op),
             t, ops)
=============================================================================
