------------------------- MODULE SchemaVerification -------------------------
(***************************************************************************)
(* A model is bound, its scaffold is applied, the live table drifts, and   *)
(* startup verification reads the catalog and reports (_schema_shape.py,   *)
(* _schema_startup.py and the two backends' inspect_shapes).               *)
(*                                                                         *)
(* Reading takes several queries.  SQLite's are in one transaction and see *)
(* the snapshot of the first of them; MariaDB's each see the current       *)
(* catalog.  Other connections may change the table between two queries.   *)
(***************************************************************************)
EXTENDS SchemaCatalogs

CONSTANTS Cases,        \* [backend, model, second]: the declarations to verify
          Parent,       \* the model that foreign keys refer to
          Drifts(_, _), \* the tables one change makes of a live table
          Races(_, _),  \* the tables a change during the reads makes of it
          Rows          \* the rows on which two predicates are compared

VARIABLES case,         \* the declaration, its backend and a second model
          phase,        \* "declared", "live", "reading", "done" or "refused"
          live,         \* the live table, or None once dropped
          snapshot,     \* the table SQLite's open transaction sees, or None
          tx,           \* TRUE while the verification transaction is open
          got,          \* what the catalog queries have returned so far
          seen,         \* the live tables there have been while reading
          policy, outcome

vars == <<case, phase, live, snapshot, tx, got, seen, policy, outcome>>

Models == IF case.second = None THEN <<case.model>> ELSE <<case.model, case.second>>
Plan == build_schema_plan(Models, Parent)[1]
Fresh == Created(scaffold_statements(Plan, case.backend), case.backend)

-----------------------------------------------------------------------------
(* The expected shape.                                                     *)

ExpectedDefault(c, backend) ==
    CASE c.default = None -> None
      [] c.default = Clock -> _normalize_server_default(current_timestamp_sql(c, backend), backend)
      [] OTHER -> <<"literal", c.default>>

_expected_column_shape(c, backend) ==
    IF backend = "sqlite"
    THEN [name |-> c.name, type |-> <<StorageClass[c.storage]>>,
          nullable |-> ~RequiresNotNull(c, backend), primary_key |-> c.pk, auto_increment |-> c.auto,
          server_default |-> ExpectedDefault(c, backend),
          collation |-> IF c.collation = None THEN "BINARY" ELSE c.collation,
          datetime_precision |-> None, unsigned |-> None]
    ELSE [name |-> c.name,
          type |-> _format_storage_type(CatalogType[MariaDBType[c.storage]], c.length),
          nullable |-> ~RequiresNotNull(c, backend), primary_key |-> c.pk, auto_increment |-> c.auto,
          server_default |-> ExpectedDefault(c, backend),
          collation |-> CollateSQL(c, backend), datetime_precision |-> c.precision,
          unsigned |-> IF c.storage \in {"Boolean", "Integer", "Real"} THEN FALSE ELSE None]

\* The dialects' index shapes; MariaDB's expected_shape drops full-width prefixes.
_expected_index_shape(index, plan, backend) ==
    LET capacity(k) == ColumnNamed(plan.columns, index.columns[k]).length
    IN  [name |-> index.name, columns |-> index.columns, unique |-> index.unique,
         partial |-> IF backend = "mariadb" THEN None ELSE index.where # None,
         prefixes |-> IF backend = "sqlite" THEN None
                      ELSE [k \in DOMAIN index.columns |->
                              IF PrefixLengths(index)[k] = capacity(k) THEN None
                              ELSE PrefixLengths(index)[k]],
         type |-> IF backend = "mariadb" THEN "BTREE" ELSE None, where |-> index.where]

expected_table_shape(plan, backend) ==
    [columns |-> [i \in DOMAIN plan.columns |-> _expected_column_shape(plan.columns[i], backend)],
     indexes |-> [i \in DOMAIN plan.indexes |->
                     _expected_index_shape(plan.indexes[i], plan, backend)],
     fks |-> LET named == [i \in DOMAIN plan.fks |->
                     [plan.fks[i] EXCEPT
                         !.on_delete = _normalize_foreign_key_action(@, backend),
                         !.on_update = _normalize_foreign_key_action(@, backend)] @@ ("name" :> i)]
             IN  ForeignKeyRows(named),
     options |-> {IF backend = "sqlite" THEN "STRICT" ELSE "ENGINE=InnoDB"},
     checks |-> [i \in DOMAIN plan.checks |->
                    [name |-> plan.checks[i].name, expression |-> plan.checks[i].expr]]]

-----------------------------------------------------------------------------
(* The comparison.  A fact is [kind, object, status]; the issues are the   *)
(* <<kind, object>> pairs a message is written about.                      *)

Fact(kind, object, status) == [kind |-> kind, object |-> object, status |-> status]
Compared(kind, object, matches) == Fact(kind, object, IF matches THEN "matched" ELSE "drift")
DriftOf(facts) == {<<f.kind, f.object>> : f \in {g \in facts : g.status = "drift"}}

TableObject == <<"table">>
ByName(things) == {x.name : x \in ToSet(things)}
Named(things, name) == things[CHOOSE i \in DOMAIN things : things[i].name = name]

compare_literal_default(value, actual, nullable, backend) ==
    CASE actual = None ->
           IF backend = "mariadb" /\ value = Null /\ nullable THEN "matched" ELSE "drift"
      [] actual # None /\ actual[1] = "clock" -> IF backend = "sqlite" THEN "drift" ELSE "unchecked"
      [] OTHER -> LET parsed == parse_default_literal(actual[2])
                  IN  IF parsed = None THEN "unchecked"
                      ELSE IF parsed = value THEN "matched" ELSE "drift"

ColumnKinds == {"type", "nullable", "primary_key", "auto_increment", "server_default",
                "collation", "datetime_precision", "unsigned"}
OptionalKinds == {"collation", "datetime_precision", "unsigned"}

_column_differences(expected, actual, backend) ==
    LET object == <<"column", expected.name>>
        literal == expected.server_default # None /\ expected.server_default[1] = "literal"
        plain == {k \in ColumnKinds :
                     /\ ~(k = "server_default" /\ literal)
                     /\ ~(k \in OptionalKinds /\ expected[k] = None /\ actual[k] = None)}
    IN  {Compared(k, object, expected[k] = actual[k]) : k \in plain}
        \cup (IF literal
              THEN {Fact("server_default", object,
                         compare_literal_default(expected.server_default[2], actual.server_default,
                                                 actual.nullable, backend))}
              ELSE {})

_diff_columns(expected, actual, backend) ==
    LET both == ByName(expected.columns) \cap ByName(actual.columns)
    IN  {Compared("presence", <<"column", n>>, n \in both)
            : n \in ByName(expected.columns) \cup ByName(actual.columns)}
        \cup UNION {_column_differences(Named(expected.columns, n), Named(actual.columns, n), backend)
                       : n \in both}

SameExpression(e, f) == normalize_check(e) = normalize_check(f)

_index_differences(expected, actual) ==
    LET object == <<"index", expected.name>>
        kinds == {k \in {"columns", "unique", "partial", "prefixes", "type"} :
                     ~(expected[k] = None /\ actual[k] = None)}
    IN  {Compared(k, object, expected[k] = actual[k]) : k \in kinds}
        \cup (IF expected.where = None THEN {}
              ELSE IF actual.partial = None \/ (actual.partial /\ actual.where = None)
              THEN {Fact("predicate", object, "unchecked")}
              ELSE {Compared("predicate", object,
                             actual.where # None /\ SameExpression(expected.where, actual.where))})

_diff_indexes(expected, actual) ==
    LET both == ByName(expected.indexes) \cap ByName(actual.indexes)
    IN  {Compared("presence", <<"index", n>>, n \in both)
            : n \in ByName(expected.indexes) \cup ByName(actual.indexes)}
        \cup UNION {_index_differences(Named(expected.indexes, n), Named(actual.indexes, n)) : n \in both}

Occurrences(s, x) == Cardinality({i \in DOMAIN s : s[i] = x})
SameBag(s, t) == \A x \in ToSet(s) \cup ToSet(t) : Occurrences(s, x) = Occurrences(t, x)

_foreign_key_facts(row) == <<row.column, row.table, row.target, row.on_delete, row.on_update>>

\* The ordered members of every constraint, catalog identities left out.
_foreign_key_groups(rows) ==
    LET groups == SetToSeq(group_foreign_keys(rows))
    IN  [g \in DOMAIN groups |-> [k \in DOMAIN groups[g] |-> _foreign_key_facts(groups[g][k])]]

_diff_foreign_keys(expected, actual) ==
    LET of(rows, c) == SelectSeq([i \in DOMAIN rows |-> _foreign_key_facts(rows[i])], LAMBDA f : f[1] = c)
        columns == {r.column : r \in ToSet(expected.fks) \cup ToSet(actual.fks)}
    IN  {Compared("relationships", <<"column", c>>, SameBag(of(expected.fks, c), of(actual.fks, c)))
            : c \in columns}
        \cup {Compared("grouping", TableObject,
                       SameBag(_foreign_key_groups(expected.fks), _foreign_key_groups(actual.fks)))}

\* A grouping difference is an issue of its own only when nothing else differs.
ForeignKeyIssues(facts) ==
    LET drift == DriftOf(facts)
        scalar == {d \in drift : d[1] = "relationships"}
    IN  IF scalar # {} THEN scalar ELSE drift

_diff_checks(expected, actual) ==
    LET matches(n) == SelectSeq(actual.checks, LAMBDA c : c.name = n)
        judged(c) ==
            LET object == <<"check", c.name>>
                m == matches(c.name)
            IN  IF m = <<>> THEN {Fact("presence", object, "drift")}
                ELSE {Fact("presence", object, "matched"),
                      IF Len(m) # 1 \/ m[1].expression = None
                      THEN Fact("expression", object, "unchecked")
                      ELSE Compared("expression", object,
                                    SameExpression(m[1].expression, c.expression))}
    IN  UNION {judged(c) : c \in ToSet(expected.checks)}
        \cup {Fact("unmanaged", <<"check", n>>, "unchecked")
                 : n \in ByName(actual.checks) \ ByName(expected.checks)}

Findings(facts, keys) ==
    [issues |-> DriftOf(facts) \cup ForeignKeyIssues(keys), facts |-> facts \cup keys]

\* The result of compare_table_shapes: issues and facts.
compare_table_shapes(expected, actual, backend) ==
    Findings({Fact("presence", TableObject, "matched"),
              Compared("options", TableObject, expected.options = actual.options)}
             \cup _diff_columns(expected, actual, backend) \cup _diff_indexes(expected, actual)
             \cup _diff_checks(expected, actual),
             _diff_foreign_keys(expected, actual))

\* verification_limits of MariaDB's JSON columns, where nothing was compared.
Limits(plan, facts, backend) ==
    LET json == {c \in ToSet(plan.columns) : c.storage = "Json" /\ backend = "mariadb"}
        limits == {Fact(k, <<"column", c.name>>, "unchecked") : k \in {"collation", "json_check"}, c \in json}
    IN  {l \in limits : ~\E f \in facts : f.kind = l.kind /\ f.object = l.object}

\* verify_schema's result for the planned table and the shape that was read.
Judgement(plan, shape, backend) ==
    IF shape = None
    THEN [issues |-> {<<"presence", TableObject>>}, facts |-> {Fact("presence", TableObject, "drift")}]
    ELSE [compare_table_shapes(expected_table_shape(plan, backend), shape, backend)
             EXCEPT !.facts = @ \cup Limits(plan, @, backend)]

-----------------------------------------------------------------------------
(* Reading the catalog, query by query.                                    *)

SQLiteReads == <<"storage", "sql", "columns", "indexes", "fks">>
MariaDBReads == <<"storage", "columns", "indexes", "fks", "actions", "checks">>
Reads == IF case.backend = "sqlite" THEN SQLiteReads ELSE MariaDBReads

Read(query, table) ==
    CASE table = None -> None
      [] query = "storage" -> table.options
      [] query = "sql" -> TableText(table)
      [] query = "columns" ->
             IF case.backend = "mariadb" THEN MariaDBColumns(table) ELSE SQLiteColumns(table, got.sql)
      [] query = "indexes" ->
             IF case.backend = "mariadb" THEN MariaDBIndexes(table)
             ELSE SQLiteIndexes(table, ByName(got.columns))
      [] query = "fks" -> ForeignKeyRows(table.fks)
      [] query = "actions" ->
             [n \in ByName(table.fks) |-> <<Named(table.fks, n).on_delete, Named(table.fks, n).on_update>>]
      [] query = "checks" -> MariaDBChecks(table)

OrElse(value, default) == IF value = None THEN default ELSE value

\* MariaDB drops the collation of JSON's backing LONGTEXT from the comparison.
WithoutJsonCollation(columns, plan) ==
    [i \in DOMAIN columns |->
        IF /\ columns[i].type = <<"longtext">>
           /\ \E c \in ToSet(plan.columns) : c.name = columns[i].name /\ c.storage = "Json"
        THEN [columns[i] EXCEPT !.collation = None] ELSE columns[i]]

\* The TableShape of inspect_shapes.
Inspected ==
    IF got.storage = None THEN None
    ELSE IF case.backend = "sqlite"
    THEN [columns |-> got.columns, indexes |-> got.indexes, fks |-> got.fks,
          options |-> got.storage, checks |-> sqlite_checks(got.sql)]
    ELSE LET keys == JoinActions(OrElse(got.fks, <<>>), OrElse(got.actions, <<>>))
         IN  [columns |-> WithoutJsonCollation(OrElse(got.columns, <<>>), Plan),
              indexes |-> _exclude_implicit_foreign_key_indexes(OrElse(got.indexes, <<>>), keys,
                                                                ByName(Plan.indexes)),
              fks |-> keys, options |-> got.storage, checks |-> OrElse(got.checks, <<>>)]

-----------------------------------------------------------------------------

NoOutcome == [result |-> "none", issues |-> {}, facts |-> {}]

Init ==
    /\ case \in Cases
    /\ phase = "declared" /\ live = None /\ snapshot = None /\ tx = FALSE
    /\ got = <<>> /\ seen = {} /\ policy = "strict" /\ outcome = NoOutcome

Refused == ~(ModelBinds(case.model, Parent, case.backend) /\ PlanBuilds(Models, Parent))

\* The declaration or the plan raises.
Refuse ==
    /\ phase = "declared" /\ Refused
    /\ phase' = "refused"
    /\ UNCHANGED <<case, live, snapshot, tx, got, seen, policy, outcome>>

\* The scaffolded statements are applied by a migration.
Scaffold ==
    /\ phase = "declared" /\ ~Refused
    /\ phase' = "live" /\ live' = Fresh
    /\ UNCHANGED <<case, snapshot, tx, got, seen, policy, outcome>>

\* The table drifts once, by hand or by a later migration, before startup.
Change ==
    /\ phase = "live" /\ live = Fresh
    /\ \E table \in Drifts(live, case) : table # live /\ live' = table
    /\ UNCHANGED <<case, phase, snapshot, tx, got, seen, policy, outcome>>

\* verify_schema with a policy it knows; another one raises before any query.
Begin(p) ==
    /\ phase = "live"
    /\ policy' = p
    /\ IF p \in {"strict", "warn"}
       THEN /\ phase' = "reading" /\ tx' = (case.backend = "sqlite") /\ seen' = {live}
            /\ UNCHANGED outcome
       ELSE phase' = "done" /\ outcome' = [NoOutcome EXCEPT !.result = "policy"] /\ UNCHANGED <<tx, seen>>
    /\ UNCHANGED <<case, live, snapshot, got>>

NextRead == Reads[Cardinality(DOMAIN got) + 1]

\* Mutant of Visible: every query sees the newest committed table.
Visible_current == live

\* The table a query sees: the transaction's snapshot, once there is one.
Visible == IF snapshot # None THEN snapshot ELSE live

\* SQLite skips the other queries for a missing table.
Complete == \/ Cardinality(DOMAIN got) = Len(Reads)
            \/ case.backend = "sqlite" /\ DOMAIN got = {"storage", "sql"} /\ got.storage = None

\* A key's members were read and its actions were not.
Torn == /\ case.backend = "mariadb" /\ "actions" \in DOMAIN got
        /\ JoinActions(OrElse(got.fks, <<>>), OrElse(got.actions, <<>>)) = None

\* One catalog query.
ReadStep ==
    /\ phase = "reading" /\ ~Complete /\ ~Torn
    /\ got' = got @@ (NextRead :> Read(NextRead, Visible))
    /\ snapshot' = IF tx THEN Visible ELSE None
    /\ UNCHANGED <<case, phase, live, tx, seen, policy, outcome>>

\* Another connection changes the table between two queries.
Race ==
    /\ phase = "reading" /\ got # <<>> /\ ~Complete /\ Cardinality(seen) = 1
    /\ \E table \in Races(Fresh, case) :
           table # live /\ live' = table /\ seen' = seen \cup {table}
    /\ UNCHANGED <<case, phase, snapshot, tx, got, policy, outcome>>

\* A query or the caller's cancellation interrupts: roll back, then raise.
Interrupt ==
    /\ phase = "reading"
    /\ phase' = "done" /\ tx' = FALSE /\ snapshot' = None
    /\ outcome' = [NoOutcome EXCEPT !.result = "interrupted"]
    /\ UNCHANGED <<case, live, got, seen, policy>>

\* _report_schema_drift: strict raises on any drift, warn only logs it.
Reported(judged, p) ==
    [result |-> IF p = "strict" /\ judged.issues # {} THEN "raised" ELSE "returned",
     issues |-> judged.issues, facts |-> judged.facts]

\* The shapes are compared, the transaction is rolled back, the result reported.
Finish ==
    /\ phase = "reading" /\ Complete /\ ~Torn
    /\ phase' = "done" /\ tx' = FALSE /\ snapshot' = None
    /\ outcome' = Reported(Judgement(Plan, Inspected, case.backend), policy)
    /\ UNCHANGED <<case, live, got, seen, policy>>

Next == \/ Refuse \/ Scaffold \/ Change \/ \E p \in {"strict", "warn", "other"} : Begin(p)
        \/ ReadStep \/ Race \/ Interrupt \/ Finish

Spec == Init /\ [][Next]_vars

-----------------------------------------------------------------------------
(* The reference: the <<kind, object>> pairs in which a live table does    *)
(* not mean what the model declares, beyond the documented limits.         *)

\* SQL whose meaning the models leave open: a function call.
Opaque(sql) == sql[1] = Word("LENGTH")

Means(sql, e) == ~Opaque(sql) /\ SameMeaning(EngineReads(sql), e, Rows)

DefaultMeaning(ts) ==
    IF ts = None THEN Null
    ELSE IF ts = <<Word("NULL")>> THEN Null
    ELSE IF ts[1][1] # "word" \/ ts[1][2] \in {"CONVERT", "CAST"} THEN OperandRead(ts).val
    ELSE <<"sql", ts>>

ColumnMeaning(c, backend) ==
    [type |-> IF backend = "sqlite" THEN <<Affinity(c.type)>> ELSE <<c.type, c.length>>,
     nullable |-> ~c.notnull, primary_key |-> c.pk, auto_increment |-> c.auto,
     server_default |-> DefaultMeaning(c.default),
     collation |-> IF backend = "sqlite" /\ c.collate = None THEN "BINARY" ELSE c.collate,
     datetime_precision |-> c.precision, unsigned |-> c.unsigned]

ColumnsDiffer(fresh, table, backend) ==
    LET both == ByName(fresh.columns) \cap ByName(table.columns)
    IN  {<<"presence", <<"column", n>>>> : n \in (ByName(fresh.columns) \cup ByName(table.columns)) \ both}
        \cup {<<k, <<"column", n>>>> : <<k, n>> \in
                 {d \in ColumnKinds \X both :
                     ColumnMeaning(Named(fresh.columns, d[2]), backend)[d[1]]
                         # ColumnMeaning(Named(table.columns, d[2]), backend)[d[1]]}}

\* An undeclared index that serves a foreign key may be MariaDB's own.
Supporting(table, x) ==
    \E fk \in ToSet(table.fks) : /\ Covers(x.columns, fk.columns) /\ x.btree
                                 /\ \A p \in ToSet(x.prefixes) : p = None

IndexDiffers(declared, made, x) ==
    {k \in {"columns", "unique", "prefixes"} : made[k] # x[k]}
    \cup (IF made.btree = x.btree THEN {} ELSE {"type"})
    \cup (IF (declared.where = None) = (x.where = None) THEN {} ELSE {"partial"})
    \cup (IF declared.where = None \/ x.where = None \/ Means(x.where, declared.where) THEN {}
          ELSE {"predicate"})

IndexesDiffer(plan, fresh, table) ==
    LET extra == {x \in ToSet(table.indexes) : x.name \notin ByName(plan.indexes)}
    IN  {<<"presence", <<"index", n>>>> : n \in ByName(plan.indexes) \ ByName(table.indexes)}
        \cup {<<"presence", <<"index", x.name>>>> :
                 x \in extra}
        \cup UNION {{<<k, <<"index", n>>>> : k \in IndexDiffers(Named(plan.indexes, n),
                                                  Named(fresh.indexes, n), Named(table.indexes, n))}
                       : n \in ByName(plan.indexes) \cap ByName(table.indexes)}

\* The constraints of a table, their names left out.
Constraints(table, backend) ==
    [i \in DOMAIN table.fks |->
        LET fk == table.fks[i]
        IN  <<fk.columns, fk.table, fk.references,
              _normalize_foreign_key_action(fk.on_delete, backend),
              _normalize_foreign_key_action(fk.on_update, backend)>>]

ChecksDiffer(plan, table) ==
    UNION {LET same == {c \in ToSet(table.checks) : c.name = d.name}
           IN  IF same = {} THEN {<<"presence", <<"check", d.name>>>>}
               ELSE IF \E c \in same : ~Means(c.sql, d.expr) THEN {<<"expression", <<"check", d.name>>>>}
               ELSE {}
              : d \in ToSet(plan.checks)}

Differences(plan, fresh, table, backend) ==
    IF table = None THEN {<<"presence", TableObject>>}
    ELSE (IF fresh.options = table.options THEN {} ELSE {<<"options", TableObject>>})
         \cup ColumnsDiffer(fresh, table, backend)
         \cup IndexesDiffer(plan, fresh, table)
         \cup {<<"presence", <<"unique", u>>>> : u \in ToSet(table.uniques)}
         \cup (IF SameBag(Constraints(fresh, backend), Constraints(table, backend)) THEN {}
               ELSE {<<"grouping", TableObject>>})
         \cup ChecksDiffer(plan, table)

\* What the inspection leaves out: on SQLite the UNIQUE constraints, which a
\* model cannot declare (its unique columns are indexes), and on MariaDB an
\* undeclared index that may be the engine's own.
Unmanaged(plan, table, backend) ==
    IF table = None THEN {}
    ELSE IF backend = "sqlite" THEN {<<"presence", <<"unique", u>>>> : u \in ToSet(table.uniques)}
    ELSE {<<"presence", <<"index", x.name>>>> :
             x \in {y \in ToSet(table.indexes) : y.name \notin ByName(plan.indexes) /\ Supporting(table, y)}}

\* Up to the parentheses of its checks the table is the scaffolded one.
Respelled(fresh, table) ==
    /\ table # None
    /\ [table EXCEPT !.checks = fresh.checks] = fresh
    /\ Len(table.checks) = Len(fresh.checks)
    /\ \A i \in DOMAIN table.checks :
           \/ table.checks[i] = fresh.checks[i]
           \/ /\ table.checks[i].name = fresh.checks[i].name /\ ~Opaque(table.checks[i].sql)
              /\ EngineReads(table.checks[i].sql) = EngineReads(fresh.checks[i].sql)

Verified == phase = "done" /\ outcome.result \in {"returned", "raised"}

(***************************************************************************)
(* Startup goes on only with a table that was as declared.  When           *)
(* verify_schema reports nothing, or returns under the strict policy, then *)
(* at some moment of the reads the live table meant what the model says in *)
(* every respect, except those the result itself lists as unchecked and    *)
(* two that the inspection leaves out without a word: an undeclared UNIQUE *)
(* constraint of a SQLite table, and an undeclared MariaDB index that      *)
(* serves a foreign key.  For MariaDB, whose queries share no snapshot,    *)
(* this is claimed when nothing changed during the reads.                  *)
(***************************************************************************)
SilenceIsEarned ==
    /\ Verified
    /\ outcome.issues = {} \/ (outcome.result = "returned" /\ policy = "strict")
    /\ case.backend = "sqlite" \/ Cardinality(seen) = 1
    => LET unchecked == {<<f.kind, f.object>> : f \in {g \in outcome.facts : g.status = "unchecked"}}
       IN  \E table \in seen :
               Differences(Plan, Fresh, table, case.backend)
                   \subseteq unchecked \cup Unmanaged(Plan, table, case.backend)

(***************************************************************************)
(* What the library scaffolds it also recognises.  The engine accepts the  *)
(* statements of every model that binds and plans, and a table that is     *)
(* still what they created (its checks perhaps written with fewer          *)
(* parentheses) verifies with no issue and with nothing declared left      *)
(* unchecked, but for MariaDB's JSON columns.                              *)
(***************************************************************************)
ScaffoldVerifies ==
    /\ phase = "live" => EngineAccepts(scaffold_statements(Plan, case.backend), Parent, case.backend)
    /\ (Verified /\ \A table \in seen : Respelled(Fresh, table)) =>
           /\ outcome.issues = {}
           /\ \A f \in outcome.facts :
                 f.status = "unchecked" => f.kind \in {"collation", "json_check", "unmanaged"}
=============================================================================
