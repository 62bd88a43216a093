---------------------------- MODULE SchemaPlans ----------------------------
(***************************************************************************)
(* What a table model may declare and what becomes of the declaration:     *)
(* binding (model.py, indexes.py, constraints.py, _checks.py,              *)
(* _server_defaults.py), the schema plan (_schema_plan.py) and the         *)
(* CREATE TABLE / CREATE INDEX statements scaffolded from it               *)
(* (_scaffold.py, _schema_compile.py and the two dialects).                *)
(*                                                                         *)
(* A DDL statement is a record of its clauses; the clauses whose SQL the   *)
(* verification reads back (defaults, checks, predicates) hold tokens.     *)
(***************************************************************************)
EXTENDS CheckExpressions, FiniteSets

-----------------------------------------------------------------------------
(* Declarations.  A column carries the constructor's arguments, whether    *)
(* its annotation admits None and whether it is a generated (GenCol) one.  *)

Column(name, storage) ==
    [name |-> name, storage |-> storage, pk |-> FALSE, declared |-> "unset",
     admits |-> FALSE, generated |-> FALSE, auto |-> FALSE, unique |-> FALSE,
     index |-> FALSE, default |-> None, collation |-> None, length |-> None,
     precision |-> None, target |-> None, on_delete |-> None, on_update |-> None]

StorageClass == ("Integer" :> "INTEGER") @@ ("Boolean" :> "INTEGER") @@ ("Text" :> "TEXT")
                @@ ("LongText" :> "TEXT") @@ ("Json" :> "TEXT") @@ ("Real" :> "REAL")
                @@ ("DateTime" :> "TEXT")
Keyable(column) == column.storage # "LongText"
IsTextual(column) == column.storage \in {"Text", "LongText"}
LogicalKind(column) == IF IsTextual(column) THEN "text" ELSE "int"

ColumnNames(columns) == {columns[i].name : i \in DOMAIN columns}
ColumnNamed(columns, name) == columns[CHOOSE i \in DOMAIN columns : columns[i].name = name]
KeyColumns(columns) ==
    LET isKey(column) == column.pk
        key == SelectSeq(columns, isKey)
    IN  [i \in DOMAIN key |-> key[i].name]

Clock == <<"clock">>

\* _validate_column_declaration.
ColumnBinds(c) ==
    /\ ~(c.unique /\ c.pk)
    /\ ~(c.index /\ c.unique)
    /\ ~(c.index /\ c.pk)
    /\ c.auto => c.pk /\ c.storage = "Integer"
    /\ c.default # None => c.generated

\* _validate_column_nullability: the annotation decides, a flag must agree.
NullabilityBinds(c) ==
    /\ ~(c.pk /\ c.admits)
    /\ c.admits => c.declared \in {"unset", "yes"}
    /\ ~c.admits => c.declared # "yes"
Nullable(c) == c.admits

\* bind_literal_default.
DefaultBinds(c) ==
    c.default \notin {None, Clock} =>
    /\ c.storage \in {"Integer", "Boolean", "Text", "LongText"}
    /\ ~c.auto
    /\ c.default = Null => Nullable(c) /\ ~c.pk
    /\ c.default # Null => c.default[1] = LogicalKind(c)
    /\ (c.default[1] = "text" /\ c.length # None) => TextLength[c.default[2]] <= c.length

-----------------------------------------------------------------------------
(* Table-level indexes: [columns, unique, name, prefixes, where].          *)

Index(columns) == [columns |-> columns, unique |-> FALSE, name |-> None,
                   prefixes |-> None, where |-> None]

\* _validate_index_storage, for one member.
MemberIndexable(column, prefix) ==
    /\ prefix # None => /\ IsTextual(column)
                        /\ column.length # None => prefix <= column.length
    /\ Keyable(column) \/ (column.storage = "LongText" /\ prefix # None)

PrefixLengths(index) ==
    IF index.prefixes = None THEN [i \in DOMAIN index.columns |-> None] ELSE index.prefixes

\* require_index_declaration, with Index.__init__'s argument checks.
IndexBinds(index, columns, backend) ==
    /\ index.columns # <<>>
    /\ Cardinality(ToSet(index.columns)) = Len(index.columns)
    /\ \A i \in DOMAIN index.columns :
           /\ index.columns[i] \in ColumnNames(columns)
           /\ MemberIndexable(ColumnNamed(columns, index.columns[i]), PrefixLengths(index)[i])
    /\ index.where # None => backend = "sqlite"
    /\ index.prefixes # None => backend = "mariadb"

\* The name an index has when none was declared.
IndexName(table, unique, names) ==
    <<IF unique THEN "ux" ELSE "ix", table, names>>

Normalized(model, index) ==
    [index EXCEPT !.name = IF @ = None THEN IndexName(model.table, index.unique, index.columns)
                           ELSE @]

\* The normalised table-level indexes (__snekql_indexes__).
TableIndexes(model) == [i \in DOMAIN model.indexes |-> Normalized(model, model.indexes[i])]

\* _column_indexes: one single-column index per unique= or index= column.
_column_indexes(model) ==
    LET flagged(c) == c.unique \/ c.index
        cs == SelectSeq(model.columns, flagged)
    IN  [i \in DOMAIN cs |->
           [Index(<<cs[i].name>>) EXCEPT
                !.unique = cs[i].unique,
                !.name = IndexName(model.table, cs[i].unique, <<cs[i].name>>)]]

_model_indexes(model) == _column_indexes(model) \o TableIndexes(model)

\* _validate_index_set: neither a name nor an indexed column list twice.
_validate_index_set(indexes) ==
    \A i, j \in DOMAIN indexes : i # j =>
        /\ indexes[i].name # indexes[j].name
        /\ <<indexes[i].columns, PrefixLengths(indexes[i]), indexes[i].where>>
               # <<indexes[j].columns, PrefixLengths(indexes[j]), indexes[j].where>>

-----------------------------------------------------------------------------
(* Foreign keys: [columns, table, references, on_delete, on_update].       *)

\* A full-column unique index without predicate on exactly these columns.
UniqueIndexOn(model, names) ==
    \E i \in DOMAIN TableIndexes(model) :
        LET index == TableIndexes(model)[i]
        IN  /\ index.unique /\ index.columns = names
            /\ \A k \in DOMAIN PrefixLengths(index) : PrefixLengths(index)[k] = None
            /\ index.where = None

SameStorage(c, d) ==
    /\ c.storage = d.storage /\ c.length = d.length
    /\ c.collation = d.collation /\ c.precision = d.precision

\* ForeignKeyConstraint.__init__ and _validate_foreign_key_target.
ConstraintBinds(fk, columns, target) ==
    /\ fk.columns # <<>> /\ Len(fk.columns) = Len(fk.references)
    /\ Cardinality(ToSet(fk.columns)) = Len(fk.columns)
    /\ Cardinality(ToSet(fk.references)) = Len(fk.references)
    /\ ToSet(fk.columns) \subseteq ColumnNames(columns)
    /\ ToSet(fk.references) \subseteq ColumnNames(target.columns)
    /\ \/ fk.references = KeyColumns(target.columns)
       \/ /\ Len(fk.references) = 1
          /\ ColumnNamed(target.columns, fk.references[1]).unique
       \/ UniqueIndexOn(target, fk.references)
    /\ \A i \in DOMAIN fk.columns :
           LET local == ColumnNamed(columns, fk.columns[i])
           IN  /\ Keyable(local)
               /\ SameStorage(local, ColumnNamed(target.columns, fk.references[i]))
               /\ "SET NULL" \in {fk.on_delete, fk.on_update} => ~local.pk /\ Nullable(local)

\* _validate_referential_actions and _resolve_target_column, for FKCol columns.
ScalarTargetResolves(column, target) ==
    LET named == ColumnNamed(target.columns, column.target)
    IN  /\ column.target \in ColumnNames(target.columns)
        /\ \/ KeyColumns(target.columns) = <<column.target>>
           \/ named.unique
           \/ UniqueIndexOn(target, <<column.target>>)
        /\ "SET NULL" \in {column.on_delete, column.on_update} => ~column.pk /\ Nullable(column)

\* _plan_foreign_keys: the FKCol columns' constraints, then the declared ones.
_plan_foreign_keys(model, target) ==
    LET scalar(c) == c.target # None
        cs == SelectSeq(model.columns, scalar)
    IN  [i \in DOMAIN cs |->
            [columns |-> <<cs[i].name>>, table |-> target.table, references |-> <<cs[i].target>>,
             on_delete |-> cs[i].on_delete, on_update |-> cs[i].on_update]]
        \o model.fks

-----------------------------------------------------------------------------
(* CHECK constraints: [name, expr].                                        *)

\* _CheckBinder.bind: local columns of plain storage, literals of their type.
RECURSIVE ExpressionBinds(_, _)
ExpressionBinds(e, columns) ==
    IF e.op \in {"AND", "OR", "NOT"}
    THEN \A i \in DOMAIN e.args : ExpressionBinds(e.args[i], columns)
    ELSE LET local(a) == ColumnNamed(columns, a.val[2])
         IN  /\ e.args[1].op = "column" /\ e.args[1].val[2] \in ColumnNames(columns)
             /\ local(e.args[1]).storage \in {"Integer", "Boolean", "Text"}
             /\ \A i \in 2 .. Len(e.args) :
                    IF e.args[i].op = "column"
                    THEN /\ e.args[i].val[2] \in ColumnNames(columns)
                         /\ local(e.args[i]).storage = local(e.args[1]).storage
                         /\ local(e.args[i]).collation = local(e.args[1]).collation
                    ELSE e.args[i].val[1] = LogicalKind(local(e.args[1]))

bind_checks(model) ==
    /\ \A i, j \in DOMAIN model.checks : i # j => model.checks[i].name # model.checks[j].name
    /\ \A i \in DOMAIN model.checks : ExpressionBinds(model.checks[i].expr, model.columns)

\* ModelMeta.__new__ binds a class: columns, then indexes, keys and checks.
ModelBinds(model, target, backend) ==
    /\ \A i \in DOMAIN model.columns :
           /\ ColumnBinds(model.columns[i])
           /\ NullabilityBinds(model.columns[i])
           /\ DefaultBinds(model.columns[i])
    /\ \A i \in DOMAIN model.indexes :
           /\ IndexBinds(model.indexes[i], model.columns, backend)
           /\ model.indexes[i].where # None
                  => ExpressionBinds(model.indexes[i].where, model.columns)
    /\ _validate_index_set(_model_indexes(model))
    /\ \A i \in DOMAIN model.fks : ConstraintBinds(model.fks[i], model.columns, target)
    /\ bind_checks(model)

-----------------------------------------------------------------------------
(* The plan.                                                               *)

Composite(model) == Len(KeyColumns(model.columns)) > 1

_plan_columns(model) ==
    [i \in DOMAIN model.columns |->
        model.columns[i] @@ ("composite_pk" :> (Composite(model) /\ model.columns[i].pk))]

\* The refusals of _plan_columns and _plan_foreign_keys.
Planable(model, target) ==
    /\ Composite(model) => \A i \in DOMAIN model.columns :
           model.columns[i].pk => ~model.columns[i].auto /\ ~Nullable(model.columns[i])
    /\ \A i \in DOMAIN model.columns :
           model.columns[i].target # None => ScalarTargetResolves(model.columns[i], target)

_plan_model(model, target) ==
    [table |-> model.table, columns |-> _plan_columns(model), checks |-> model.checks,
     fks |-> _plan_foreign_keys(model, target), indexes |-> _model_indexes(model)]

\* build_schema_plan over a list of models with the same targets.
PlanBuilds(models, target) ==
    /\ \A i \in DOMAIN models : Planable(models[i], target)
    /\ \A i, j \in DOMAIN models : i # j =>
           /\ models[i].table # models[j].table
           /\ {x.name : x \in ToSet(_model_indexes(models[i]))}
                  \cap {x.name : x \in ToSet(_model_indexes(models[j]))} = {}

build_schema_plan(models, target) ==
    [i \in DOMAIN models |-> _plan_model(models[i], target)]

-----------------------------------------------------------------------------
(* The DDL of one planned model.                                           *)

\* _requires_not_null of each dialect.
RequiresNotNull(column, backend) ==
    IF backend = "mariadb" THEN ~Nullable(column) \/ column.pk
    ELSE \/ column.composite_pk
         \/ column.pk /\ StorageClass[column.storage] # "INTEGER"
         \/ ~column.pk /\ ~Nullable(column)

\* Tokens of current_timestamp_sql; SQLite's strftime is one opaque word.
current_timestamp_sql(column, backend) ==
    IF backend = "sqlite" THEN <<Word("STRFTIME_NOW")>>
    ELSE IF column.storage = "DateTime"
         THEN <<Word("CURRENT_TIMESTAMP"), Sym("("), <<"number", Number[column.precision]>>, Sym(")")>>
         ELSE <<Word("CONCAT_REPLACE_CURRENT_TIMESTAMP_6")>>

DefaultSQL(column, backend) ==
    CASE column.default = None -> None
      [] column.default = Clock ->
             IF backend = "sqlite" THEN Parens(current_timestamp_sql(column, backend))
             ELSE current_timestamp_sql(column, backend)
      [] OTHER -> render_literal_default(column.default, backend)

MariaDBType == ("Text" :> "VARCHAR") @@ ("Integer" :> "BIGINT") @@ ("Real" :> "DOUBLE")
               @@ ("Boolean" :> "BOOLEAN") @@ ("LongText" :> "LONGTEXT") @@ ("Json" :> "JSON")
               @@ ("DateTime" :> "DATETIME")

\* _compile_column_type of MariaDB; SQLite declares its storage class.
TypeSQL(column, backend) ==
    IF backend = "sqlite"
    THEN [type |-> StorageClass[column.storage], length |-> None, precision |-> None]
    ELSE [type |-> MariaDBType[column.storage],
          length |-> IF column.storage = "Text" THEN column.length ELSE None,
          precision |-> column.precision]

CollateSQL(column, backend) ==
    IF backend = "sqlite" THEN IF column.collation = "BINARY" THEN None ELSE column.collation
    ELSE IF ~IsTextual(column) THEN None
    ELSE IF column.collation = None THEN "utf8mb4_bin" ELSE column.collation

compile_column_definition(column, backend) ==
    TypeSQL(column, backend) @@
    [name |-> column.name, collate |-> CollateSQL(column, backend),
     pk |-> column.pk /\ ~column.composite_pk, auto |-> column.auto,
     notnull |-> RequiresNotNull(column, backend), unsigned |-> FALSE,
     default |-> DefaultSQL(column, backend)]

compile_foreign_key_constraint(fk) == fk

compile_create_table_sql(plan, backend) ==
    LET inKey(c) == c.composite_pk
        key == SelectSeq(plan.columns, inKey)
    IN  [table |-> plan.table,
         columns |-> [i \in DOMAIN plan.columns |->
                         compile_column_definition(plan.columns[i], backend)],
         key |-> [i \in DOMAIN key |-> key[i].name],
         fks |-> [i \in DOMAIN plan.fks |-> compile_foreign_key_constraint(plan.fks[i])],
         checks |-> [i \in DOMAIN plan.checks |->
                        [name |-> plan.checks[i].name,
                         sql |-> render_check(plan.checks[i].expr, backend)]],
         options |-> {IF backend = "sqlite" THEN "STRICT" ELSE "ENGINE=InnoDB"}]

compile_create_index_sql(index) ==
    [name |-> index.name, columns |-> index.columns, unique |-> index.unique,
     prefixes |-> PrefixLengths(index), btree |-> TRUE,
     where |-> IF index.where = None THEN None ELSE render_check(index.where, "sqlite")]

\* scaffold_statements: a table, then its indexes.
scaffold_statements(plan, backend) ==
    [create |-> compile_create_table_sql(plan, backend),
     indexes |-> [i \in DOMAIN plan.indexes |-> compile_create_index_sql(plan.indexes[i])]]
=============================================================================
