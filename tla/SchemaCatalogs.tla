--------------------------- MODULE SchemaCatalogs ---------------------------
(***************************************************************************)
(* What a database makes of scaffolded DDL, what its catalog says of a     *)
(* table afterwards, and how the two schema backends read that catalog     *)
(* into table shapes (sqlite/schema.py, mariadb/schema.py).                *)
(*                                                                         *)
(* A live table is the engine's own record of a table: its columns with    *)
(* their declared types, keys, constraints, the SQL of its checks and, on  *)
(* SQLite, the columns of its UNIQUE constraints.  The engines are         *)
(* external; their rules below are the ones the readers rely on.           *)
(***************************************************************************)
EXTENDS SchemaPlans

-----------------------------------------------------------------------------
(* An engine reads a predicate by precedence: OR, then AND, then NOT, then *)
(* a comparison.  This is the reference the parser is compared with.       *)

Opened(ts, i) ==
    Cardinality({j \in 1 .. i - 1 : ts[j] = Sym("(")})
    - Cardinality({j \in 1 .. i - 1 : ts[j] = Sym(")")})

TopLevel(ts, word) == {i \in DOMAIN ts : ts[i] = word /\ Opened(ts, i) = 0}

\* The ANDs that are not the middle of a BETWEEN.
Conjunctions(ts) ==
    LET ands == TopLevel(ts, Word("AND"))
        betweens == TopLevel(ts, Word("BETWEEN"))
    IN  {i \in ands : ~\E b \in betweens : b < i /\ ~\E k \in ands : b < k /\ k < i}

OperandRead(ts) ==
    CASE Len(ts) = 1 /\ ts[1][1] = "identifier" -> Col(ts[1][2])
      [] Len(ts) = 1 /\ ts[1][1] = "number" -> Lit(IntVal(CHOOSE n \in DOMAIN Number : Number[n] = ts[1][2]))
      [] Len(ts) = 2 -> Lit(IntVal(-(CHOOSE n \in DOMAIN Number : Number[n] = ts[2][2])))
      [] Len(ts) = 1 /\ ts[1][1] = "literal" -> Lit(TextVal(ts[1][2]))
      [] OTHER -> Lit(TextVal(FromHex(ts[4][2])))

ListRead(ts) ==
    LET commas == TopLevel(ts, Sym(","))
        ends == SetToSortSeq(commas \cup {Len(ts) + 1}, <)
    IN  [i \in DOMAIN ends |->
            OperandRead(SubSeq(ts, IF i = 1 THEN 1 ELSE ends[i - 1] + 1, ends[i] - 1))]

ComparisonRead(ts) ==
    LET at(word) == CHOOSE i \in TopLevel(ts, word) : TRUE
        has(word) == TopLevel(ts, word) # {}
        negated == has(Word("NOT"))
        left(i) == OperandRead(SubSeq(ts, 1, IF negated THEN i - 2 ELSE i - 1))
        sign == CHOOSE s \in DOMAIN Spelling : has(Sym(Spelling[s]))
    IN  CASE has(Word("IS")) ->
               Expr(IF negated THEN "IS NOT NULL" ELSE "IS NULL",
                    <<OperandRead(SubSeq(ts, 1, at(Word("IS")) - 1))>>)
          [] has(Word("IN")) ->
               Expr(IF negated THEN "NOT IN" ELSE "IN",
                    <<left(at(Word("IN")))>>
                    \o ListRead(SubSeq(ts, at(Word("IN")) + 2, Len(ts) - 1)))
          [] has(Word("BETWEEN")) ->
               LET b == at(Word("BETWEEN"))
                   e == Expr("BETWEEN",
                             <<left(b), OperandRead(SubSeq(ts, b + 1, at(Word("AND")) - 1)),
                               OperandRead(SubSeq(ts, at(Word("AND")) + 1, Len(ts)))>>)
               IN  IF negated THEN Expr("NOT", <<e>>) ELSE e
          [] OTHER ->
               LET i == at(Sym(Spelling[sign]))
               IN  Expr(sign, <<OperandRead(SubSeq(ts, 1, i - 1)),
                                OperandRead(SubSeq(ts, i + 1, Len(ts)))>>)

RECURSIVE EngineReads(_)
EngineReads(ts) ==
    LET ors == TopLevel(ts, Word("OR"))
        ands == Conjunctions(ts)
        split(i, op) == Expr(op, <<EngineReads(SubSeq(ts, 1, i - 1)),
                                   EngineReads(SubSeq(ts, i + 1, Len(ts)))>>)
    IN  CASE ors # {} -> split(Max(ors), "OR")
          [] ors = {} /\ ands # {} -> split(Max(ands), "AND")
          [] ors = {} /\ ands = {} /\ ts[1] = Word("NOT") -> Expr("NOT", <<EngineReads(Tail(ts))>>)
          [] ors = {} /\ ands = {} /\ ts[1] = Sym("(") -> EngineReads(SubSeq(ts, 2, Len(ts) - 1))
          [] OTHER -> ComparisonRead(ts)

\* MariaDB moves a negation inwards when it stores an expression.
RECURSIVE Pushed(_, _)
Pushed(e, negate) ==
    CASE e.op \in {"AND", "OR"} ->
           Expr(IF ~negate THEN e.op ELSE IF e.op = "AND" THEN "OR" ELSE "AND",
                [i \in DOMAIN e.args |-> Pushed(e.args[i], negate)])
      [] e.op = "NOT" -> Pushed(e.args[1], ~negate)
      [] e.op = "BETWEEN" -> IF negate THEN Expr("NOT", <<e>>) ELSE e
      [] OTHER -> IF negate THEN [e EXCEPT !.op = Complement[e.op]] ELSE e

\* An expression printed with no more parentheses than it needs.
RECURSIVE Printed(_, _)
Printed(e, backend) ==
    LET child(i) == Printed(e.args[i], backend)
        inner(i) == IF (e.op = "AND" /\ e.args[i].op = "OR")
                       \/ (e.op = "NOT" /\ e.args[i].op \in {"AND", "OR"})
                    THEN Parens(child(i)) ELSE child(i)
    IN  CASE e.op \in {"AND", "OR"} -> inner(1) \o <<Word(e.op)>> \o inner(2)
          [] e.op = "NOT" /\ e.args[1].op = "BETWEEN" ->
               LET b == e.args[1]
               IN  Printed(b.args[1], backend) \o Words(<<"NOT", "BETWEEN">>)
                   \o Printed(b.args[2], backend) \o <<Word("AND")>> \o Printed(b.args[3], backend)
          [] e.op = "NOT" /\ e.args[1].op # "BETWEEN" -> <<Word("NOT")>> \o inner(1)
          [] OTHER -> render_check(e, backend)

\* The SQL of a check as the catalog keeps it.
StoredCheck(sql, backend) ==
    IF backend = "sqlite" THEN sql ELSE Printed(Pushed(EngineReads(sql), FALSE), backend)

-----------------------------------------------------------------------------
(* The live table a scaffold's statements create.                          *)

IsKey(create, column) == column.pk \/ Contains(create.key, column.name)

\* SQLite's STRICT tables make every key column but the rowid alias NOT NULL.
StoredNotNull(create, c, backend) ==
    \/ c.notnull
    \/ IsKey(create, c) /\ (backend = "mariadb" \/ c.type # "INTEGER" \/ ~c.pk)

Unwrapped(ts) == IF Len(ts) > 2 /\ ts[1] = Sym("(") THEN SubSeq(ts, 2, Len(ts) - 1) ELSE ts

StoredDefault(create, c, backend) ==
    CASE c.default # None -> Unwrapped(c.default)
      [] c.default = None /\ backend = "mariadb" /\ ~StoredNotNull(create, c, backend) -> <<Word("NULL")>>
      [] OTHER -> None

CatalogType == ("BIGINT" :> "bigint") @@ ("BOOLEAN" :> "tinyint") @@ ("VARCHAR" :> "varchar")
               @@ ("LONGTEXT" :> "longtext") @@ ("JSON" :> "longtext") @@ ("DOUBLE" :> "double")
               @@ ("DATETIME" :> "datetime")

StoredColumn(create, c, backend) ==
    [name |-> c.name, type |-> IF backend = "sqlite" THEN c.type ELSE CatalogType[c.type],
     length |-> c.length, precision |-> c.precision, unsigned |-> c.unsigned,
     pk |-> IsKey(create, c), auto |-> c.auto, notnull |-> StoredNotNull(create, c, backend),
     default |-> StoredDefault(create, c, backend),
     collate |-> IF c.type = "JSON" THEN "utf8mb4_bin" ELSE c.collate]

StoredAction(action) == IF action = None THEN "NO ACTION" ELSE action
StoredKey(fk, i) == [fk EXCEPT !.on_delete = StoredAction(@), !.on_update = StoredAction(@)] @@ ("name" :> i)

\* MariaDB drops a prefix that spans its whole VARCHAR column.
StoredIndex(create, index) ==
    [index EXCEPT !.prefixes =
        [k \in DOMAIN @ |-> IF @[k] = ColumnNamed(create.columns, index.columns[k]).length
                            THEN None ELSE @[k]]]

Covers(names, key) == Len(key) <= Len(names) /\ SubSeq(names, 1, Len(key)) = key

\* InnoDB's own index for a foreign key that no declared key can serve.
ImplicitIndexes(create, indexes) ==
    LET keys == {create.key} \cup {<<c.name>> : c \in {x \in ToSet(create.columns) : x.pk}}
        served(fk) == \/ \E k \in keys : Covers(k, fk.columns)
                      \/ \E x \in ToSet(indexes) :
                             Covers(x.columns, fk.columns) /\ \A p \in ToSet(x.prefixes) : p = None
        unserved == {i \in DOMAIN create.fks : ~served(create.fks[i])}
    IN  [n \in 1 .. Cardinality(unserved) |->
            LET i == SetToSortSeq(unserved, <)[n]
            IN  [name |-> <<"fk", i>>, columns |-> create.fks[i].columns, unique |-> FALSE,
                 prefixes |-> [k \in DOMAIN create.fks[i].columns |-> None], btree |-> TRUE,
                 where |-> None]]

\* MariaDB's own check for a JSON column, named after the column.
JsonChecks(create) ==
    LET isJson(c) == c.type = "JSON"
        cs == SelectSeq(create.columns, isJson)
    IN  [i \in DOMAIN cs |->
           [name |-> cs[i].name,
            sql |-> <<Word("json_valid")>> \o Parens(<<Name(cs[i].name)>>)]]

Created(ddl, backend) ==
    LET create == ddl.create
        mariadb == backend = "mariadb"
        indexes == IF mariadb
                   THEN [i \in DOMAIN ddl.indexes |-> StoredIndex(create, ddl.indexes[i])]
                   ELSE ddl.indexes
    IN  [columns |-> [i \in DOMAIN create.columns |-> StoredColumn(create, create.columns[i], backend)],
         indexes |-> indexes \o (IF mariadb THEN ImplicitIndexes(create, indexes) ELSE <<>>),
         fks |-> [i \in DOMAIN create.fks |-> StoredKey(create.fks[i], i)],
         checks |-> [i \in DOMAIN create.checks |->
                        [create.checks[i] EXCEPT !.sql = StoredCheck(@, backend)]]
                    \o (IF mariadb THEN JsonChecks(create) ELSE <<>>),
         uniques |-> <<>>, options |-> create.options]

\* The engines' demands on DDL whose table can be created and written to.
EngineAccepts(ddl, parent, backend) ==
    LET create == ddl.create
        column(name) == ColumnNamed(create.columns, name)
        unique(names) ==
            \/ names = KeyColumns(parent.columns)
            \/ \E i \in DOMAIN _model_indexes(parent) :
                   /\ _model_indexes(parent)[i].unique
                   /\ _model_indexes(parent)[i].columns = names
        keys == Cardinality({c \in ToSet(create.columns) : c.pk}) + (IF create.key = <<>> THEN 0 ELSE 1)
    IN  /\ keys <= 1
        /\ \A c \in ToSet(create.columns) :
               /\ c.auto => c.pk /\ c.type \in {"INTEGER", "BIGINT"} /\ c.default = None
               /\ c.notnull => c.default # <<Word("NULL")>>
        /\ \A fk \in ToSet(create.fks) :
               /\ unique(fk.references)
               /\ "SET NULL" \in {fk.on_delete, fk.on_update}
                      => \A n \in ToSet(fk.columns) : ~column(n).notnull /\ ~IsKey(create, column(n))
        /\ \A i, j \in DOMAIN ddl.indexes : i # j => ddl.indexes[i].name # ddl.indexes[j].name
        /\ \A x \in ToSet(ddl.indexes) : \A k \in DOMAIN x.columns :
               /\ x.columns[k] \in ColumnNames(create.columns)
               /\ column(x.columns[k]).type = "LONGTEXT" => x.prefixes[k] # None
               /\ (x.prefixes[k] # None /\ column(x.columns[k]).length # None)
                      => x.prefixes[k] <= column(x.columns[k]).length

-----------------------------------------------------------------------------
(* SQLite: the stored CREATE TABLE text of a live table, as tokens.        *)

KeyedBy(live) ==
    LET isKey(c) == c.pk
    IN  SelectSeq(live.columns, isKey)

ColumnText(live, c) ==
    <<Name(c.name), Word(c.type)>>
    \o (IF c.collate = None THEN <<>> ELSE Words(<<"COLLATE", c.collate>>))
    \o (IF c.pk /\ Len(KeyedBy(live)) = 1 THEN Words(<<"PRIMARY", "KEY">>) ELSE <<>>)
    \o (IF c.auto THEN Words(<<"AUTOINCREMENT">>) ELSE <<>>)
    \o (IF c.notnull THEN Words(<<"NOT", "NULL">>) ELSE <<>>)
    \o (IF c.default = None THEN <<>> ELSE <<Word("DEFAULT")>> \o Parens(c.default))

NameList(names) == Parens(Joined([i \in DOMAIN names |-> <<Name(names[i])>>], <<Sym(",")>>))

KeyText(live) ==
    IF Len(KeyedBy(live)) < 2 THEN <<>>
    ELSE <<Words(<<"PRIMARY", "KEY">>)
           \o NameList([i \in DOMAIN KeyedBy(live) |-> KeyedBy(live)[i].name])>>

ForeignKeyText(fk) ==
    Words(<<"FOREIGN", "KEY">>) \o NameList(fk.columns)
    \o <<Word("REFERENCES"), Name(fk.table)>> \o NameList(fk.references)
    \o Words(<<"ON", "DELETE", fk.on_delete, "ON", "UPDATE", fk.on_update>>)

CheckText(check) ==
    (IF check.name = None THEN <<>> ELSE <<Word("CONSTRAINT"), Name(check.name)>>)
    \o <<Word("CHECK")>> \o Parens(check.sql)

TableText(live) ==
    Words(<<"CREATE", "TABLE">>) \o <<Name("t")>>
    \o Parens(Joined([i \in DOMAIN live.columns |-> ColumnText(live, live.columns[i])]
                     \o KeyText(live)
                     \o [i \in DOMAIN live.uniques |-> <<Word("UNIQUE")>> \o NameList(live.uniques[i])]
                     \o [i \in DOMAIN live.fks |-> ForeignKeyText(live.fks[i])]
                     \o [i \in DOMAIN live.checks |-> CheckText(live.checks[i])],
                     <<Sym(",")>>))
    \o Words(SetToSeq(live.options))

IndexText(index) ==
    Words(<<"CREATE", "INDEX">>) \o <<Name("i"), Word("ON"), Name("t")>> \o NameList(index.columns)
    \o (IF index.where = None THEN <<>> ELSE <<Word("WHERE")>> \o index.where)

\* _sqlite_tokens keeps names, words, literals and the structure of lists.
_sqlite_tokens(ts) ==
    LET kept(t) == t[1] \in {"identifier", "literal", "word"}
                   \/ t \in {Sym("("), Sym(")"), Sym(",")}
    IN  SelectSeq(ts, kept)

\* _sqlite_column_definitions: the body split at its own commas.
_sqlite_column_definitions(sql) ==
    LET ts == _sqlite_tokens(sql)
        opening == SelectInSeq(ts, LAMBDA t : t = Sym("("))
        closing == CHOOSE i \in opening + 1 .. Len(ts) :
                       /\ ts[i] = Sym(")") /\ Opened(ts, i) = 1
                       /\ \A j \in opening + 1 .. i - 1 : ~(ts[j] = Sym(")") /\ Opened(ts, j) = 1)
        body == SubSeq(ts, opening + 1, closing - 1)
        ends == SetToSortSeq(TopLevel(body, Sym(",")) \cup {Len(body) + 1}, <)
    IN  IF opening = 0 THEN <<>>
        ELSE [i \in DOMAIN ends |->
                 SubSeq(body, IF i = 1 THEN 1 ELSE ends[i - 1] + 1, ends[i] - 1)]

\* _sqlite_definition_collation: the last top-level COLLATE of a column.
_sqlite_definition_collation(definition) ==
    LET clauses == {i \in TopLevel(definition, Word("COLLATE")) : i < Len(definition)}
    IN  IF definition[1][1] = "word" THEN None
        ELSE <<definition[1][2],
               IF clauses = {} THEN "BINARY" ELSE definition[Max(clauses) + 1][2]>>

_sqlite_column_collations(sql) ==
    LET found == {_sqlite_definition_collation(d) : d \in ToSet(_sqlite_column_definitions(sql))}
    IN  [name \in {p[1] : p \in found \ {None}} |->
            (CHOOSE p \in found \ {None} : p[1] = name)[2]]

_sqlite_top_level_words(definition) ==
    {i \in DOMAIN definition : definition[i][1] = "word" /\ Opened(definition, i) = 0}

_table_uses_autoincrement(sql) ==
    \E d \in ToSet(_sqlite_column_definitions(sql)) :
        \E i, j, k \in _sqlite_top_level_words(d) :
            /\ i < j /\ j < k
            /\ d[i] = Word("PRIMARY") /\ d[j] = Word("KEY") /\ d[k] = Word("AUTOINCREMENT")

\* sqlite_checks: the CHECK clauses at the table's own depth, with their names.
sqlite_checks(sql) ==
    LET heads == {i \in DOMAIN sql : sql[i] = Word("CHECK") /\ Opened(sql, i) = 1}
        closing(i) == CHOOSE j \in i + 1 .. Len(sql) :
                          /\ sql[j] = Sym(")") /\ Opened(sql, j) = 2
                          /\ \A k \in i + 1 .. j - 1 : ~(sql[k] = Sym(")") /\ Opened(sql, k) = 2)
        ordered == SetToSortSeq(heads, <)
    IN  [n \in DOMAIN ordered |->
           LET i == ordered[n]
           IN  [name |-> IF i > 2 /\ sql[i - 2] = Word("CONSTRAINT") THEN sql[i - 1][2] ELSE None,
                expression |-> Parse(SubSeq(sql, i + 2, closing(i) - 1), FALSE)]]

\* sqlite_index_predicate: the WHERE after the indexed columns, over known columns.
RECURSIVE OnlyColumns(_, _)
OnlyColumns(e, names) ==
    IF e.op = "column" THEN e.val[2] \in names
    ELSE \A i \in DOMAIN e.args : OnlyColumns(e.args[i], names)

sqlite_index_predicate(sql, names) ==
    LET at == CHOOSE i \in TopLevel(sql, Word("WHERE")) : sql[i - 1] = Sym(")")
        e == Parse(SubSeq(sql, at + 1, Len(sql)), FALSE)
    IN  IF e # None /\ OnlyColumns(e, names) THEN e ELSE None

Affinity(type) ==
    CASE type \in {"INTEGER", "INT", "BIGINT"} -> "INTEGER"
      [] type \in {"TEXT", "VARCHAR", "CLOB"} -> "TEXT"
      [] type \in {"BLOB", ""} -> "BLOB"
      [] type \in {"REAL", "DOUBLE", "FLOAT"} -> "REAL"
      [] OTHER -> "NUMERIC"
sqlite_type_affinity(type) == <<Affinity(type)>>

\* _normalize_server_default of each dialect: a clock, or the SQL as it is.
_normalize_server_default(default, backend) ==
    CASE default = None -> None
      [] default = <<Word("STRFTIME_NOW")>> /\ backend = "sqlite" -> <<"clock">>
      [] default = <<Word("CONCAT_REPLACE_CURRENT_TIMESTAMP_6")>> /\ backend = "mariadb" -> <<"clock", "text">>
      [] default[1] = Word("CURRENT_TIMESTAMP") /\ backend = "mariadb" -> <<"clock", default[3][2]>>
      [] OTHER -> <<"sql", default>>

SQLiteColumns(live, sql) ==
    LET collations == _sqlite_column_collations(sql)
        autoincrement == _table_uses_autoincrement(sql)
    IN  [i \in DOMAIN live.columns |->
           LET c == live.columns[i]
           IN  [name |-> c.name, type |-> sqlite_type_affinity(c.type), nullable |-> ~c.notnull,
                primary_key |-> c.pk, auto_increment |-> c.pk /\ autoincrement,
                server_default |-> _normalize_server_default(c.default, "sqlite"),
                collation |-> IF c.name \in DOMAIN collations THEN collations[c.name] ELSE "BINARY",
                datetime_precision |-> None, unsigned |-> None]]

\* PRAGMA index_list: an index has the origin "c" when CREATE INDEX made it, "u"
\* when a UNIQUE constraint did, and "pk" when a key other than the rowid did.
IndexList(live) ==
    LET keyed == KeyedBy(live)
        automatic(i, columns, origin) ==
            [name |-> <<"automatic", i>>, columns |-> columns, unique |-> TRUE,
             where |-> None, origin |-> origin]
    IN  [i \in DOMAIN live.indexes |-> live.indexes[i] @@ ("origin" :> "c")]
        \o [i \in DOMAIN live.uniques |-> automatic(i, live.uniques[i], "u")]
        \o (IF keyed = <<>> \/ (Len(keyed) = 1 /\ keyed[1].type = "INTEGER") THEN <<>>
            ELSE <<automatic(0, [i \in DOMAIN keyed |-> keyed[i].name], "pk")>>)

\* _fetch_index_shapes skips what CREATE INDEX did not make.
SQLiteIndexes(live, names) ==
    LET explicit == SelectSeq(IndexList(live), LAMBDA x : x.origin = "c")
    IN  [i \in DOMAIN explicit |->
           LET x == explicit[i]
           IN  [name |-> x.name, columns |-> x.columns, unique |-> x.unique,
                partial |-> x.where # None, prefixes |-> None, type |-> None,
                where |-> IF x.where = None THEN None
                          ELSE sqlite_index_predicate(IndexText(x), names)]]

\* One row per member of a foreign key, with the key's identity and position.
ForeignKeyRows(fks) ==
    FlattenSeq([i \in DOMAIN fks |->
        [k \in DOMAIN fks[i].columns |->
            [id |-> fks[i].name, position |-> k, column |-> fks[i].columns[k],
             table |-> fks[i].table, target |-> fks[i].references[k],
             on_delete |-> fks[i].on_delete, on_update |-> fks[i].on_update]]])

-----------------------------------------------------------------------------
(* MariaDB: the rows of INFORMATION_SCHEMA.                                *)

_format_storage_type(type, length) == IF type = "varchar" THEN <<type, length>> ELSE <<type>>

MariaDBColumns(live) ==
    [i \in DOMAIN live.columns |->
       LET c == live.columns[i]
           nullable == ~c.notnull
           default == IF nullable /\ c.default = <<Word("NULL")>> THEN None ELSE c.default
       IN  [name |-> c.name, type |-> _format_storage_type(c.type, c.length), nullable |-> nullable,
            primary_key |-> c.pk, auto_increment |-> c.auto,
            server_default |-> _normalize_server_default(default, "mariadb"),
            collation |-> IF c.type \in {"varchar", "longtext"} THEN c.collate ELSE None,
            datetime_precision |-> c.precision,
            unsigned |-> IF c.type \in {"bigint", "double", "tinyint"} THEN c.unsigned ELSE None]]

MariaDBIndexes(live) ==
    [i \in DOMAIN live.indexes |->
       LET x == live.indexes[i]
       IN  [name |-> x.name, columns |-> x.columns, unique |-> x.unique, partial |-> None,
            prefixes |-> x.prefixes, type |-> IF x.btree THEN "BTREE" ELSE "HASH", where |-> None]]

MariaDBChecks(live) ==
    [i \in DOMAIN live.checks |->
        [name |-> live.checks[i].name, expression |-> parse_check(live.checks[i].sql)]]

_normalize_foreign_key_action(action, backend) ==
    CASE action = None -> "NO ACTION"
      [] action = "RESTRICT" /\ backend = "mariadb" -> "NO ACTION"
      [] OTHER -> action

\* KEY_COLUMN_USAGE joined with REFERENTIAL_CONSTRAINTS by constraint name.
JoinActions(rows, actions) ==
    IF \E i \in DOMAIN rows : rows[i].id \notin DOMAIN actions THEN None
    ELSE [i \in DOMAIN rows |->
            [rows[i] EXCEPT
                !.on_delete = _normalize_foreign_key_action(actions[rows[i].id][1], "mariadb"),
                !.on_update = _normalize_foreign_key_action(actions[rows[i].id][2], "mariadb")]]

\* group_foreign_keys: the rows of each constraint, by position.
group_foreign_keys(rows) ==
    {SetToSortSeq({rows[i] : i \in {j \in DOMAIN rows : rows[j].id = id}},
                  LAMBDA r, s : r.position < s.position)
        : id \in {rows[i].id : i \in DOMAIN rows}}

_exclude_implicit_foreign_key_indexes(indexes, rows, declared) ==
    LET keys == {[k \in DOMAIN g |-> g[k].column] : g \in group_foreign_keys(rows)}
        supports(x) == /\ \E key \in keys : Covers(x.columns, key)
                       /\ \A k \in DOMAIN x.prefixes : x.prefixes[k] = None
                       /\ x.type = "BTREE"
        kept(x) == x.name \in declared \/ ~supports(x)
    IN  SelectSeq(indexes, kept)
=============================================================================
