----------------------------- MODULE MCSchemas -----------------------------
(***************************************************************************)
(* Declarations of a table t(id, a, b) that exercise every clause, and the *)
(* ways one statement can make its live table differ.                      *)
(***************************************************************************)
EXTENDS SchemaVerification

Capacity(backend) == IF backend = "mariadb" THEN 5 ELSE None
TextColumn(name, backend) == [Column(name, "Text") EXCEPT !.length = Capacity(backend)]
Generated(column, default) == [column EXCEPT !.generated = TRUE, !.default = default]
Optional(column) == [column EXCEPT !.admits = TRUE]

Key == [Column("id", "Integer") EXCEPT !.pk = TRUE, !.auto = TRUE]
A == Optional(Column("a", "Integer"))
B == Optional(Column("b", "Integer"))

Model(columns) == [table |-> "t", columns |-> columns, indexes |-> <<>>, fks |-> <<>>, checks |-> <<>>]
Payload(a) == Model(<<Key, a, B>>)
Case(backend, model, family) == [backend |-> backend, model |-> model, second |-> None, family |-> family]

MCParent ==
    [Model(<<[Key EXCEPT !.auto = FALSE], [Column("k", "Integer") EXCEPT !.unique = TRUE],
             Column("n", "Integer"), Column("u", "Integer"), Column("v", "Integer")>>)
        EXCEPT !.table = "p", !.indexes = <<[Index(<<"u", "v">>) EXCEPT !.unique = TRUE]>>]

-----------------------------------------------------------------------------
(* Payload columns: types, nullability, defaults, flags and scalar keys.   *)

Reference(target, on_delete, on_update) ==
    [A EXCEPT !.target = target, !.on_delete = on_delete, !.on_update = on_update]

Payloads(backend) ==
    LET int == Column("a", "Integer")
        text == TextColumn("a", backend)
        nocase == IF backend = "sqlite" THEN "NOCASE" ELSE "utf8mb4_ci"
    IN  {int, A, text, Optional(text), Column("a", "Real"), Column("a", "Json"), Column("a", "Boolean"),
         [int EXCEPT !.declared = "yes"], [A EXCEPT !.declared = "no"], [A EXCEPT !.declared = "yes"],
         [int EXCEPT !.unique = TRUE], [int EXCEPT !.index = TRUE], [int EXCEPT !.index = TRUE, !.unique = TRUE],
         [text EXCEPT !.collation = nocase, !.unique = TRUE], [text EXCEPT !.collation = nocase],
         Generated(int, IntVal(1)), Generated(int, IntVal(-1)), Generated(A, Null), Generated(int, Null),
         Generated(int, TextVal("x")), [int EXCEPT !.default = IntVal(1)],
         Generated(text, TextVal("x")), Generated(text, TextVal("nul")), Generated(text, Clock),
         Generated([text EXCEPT !.length = 1], TextVal("nul")),
         Generated(Column("a", "Boolean"), IntVal(1)), Generated(Column("a", "Real"), IntVal(1)),
         Generated([Column("a", "DateTime") EXCEPT
                        !.precision = IF backend = "mariadb" THEN 6 ELSE None], Clock),
         Reference("id", None, None), Reference("id", "CASCADE", "SET NULL"),
         Reference("k", "RESTRICT", "NO ACTION"), Reference("n", None, None),
         Reference("u", None, None), [Reference("id", "SET NULL", None) EXCEPT !.admits = FALSE],
         [Reference("id", None, None) EXCEPT !.index = TRUE]}
        \cup (IF backend = "sqlite" THEN {}
              ELSE {Column("a", "LongText")})

Keys(backend) ==
    {<<Key, A>>, <<[Key EXCEPT !.auto = FALSE], A>>,
     <<[TextColumn("id", backend) EXCEPT !.pk = TRUE], A>>,
     <<[TextColumn("id", backend) EXCEPT !.pk = TRUE, !.auto = TRUE], A>>,
     <<[Key EXCEPT !.auto = FALSE], [Column("a", "Integer") EXCEPT !.pk = TRUE]>>,
     <<Key, [Column("a", "Integer") EXCEPT !.pk = TRUE]>>,
     <<[Key EXCEPT !.auto = FALSE], [Reference("id", "CASCADE", None) EXCEPT !.pk = TRUE, !.admits = FALSE]>>,
     <<[Key EXCEPT !.unique = TRUE], A>>}

Positive == Expr("gt", <<Col("a"), Lit(IntVal(0))>>)

IndexLists(backend) ==
    {<<Index(<<"a">>)>>, <<[Index(<<"a", "b">>) EXCEPT !.unique = TRUE]>>,
     <<Index(<<"a", "b">>), Index(<<"b", "a">>)>>, <<Index(<<"a">>), Index(<<"a">>)>>,
     <<Index(<<"a">>), [Index(<<"a">>) EXCEPT !.unique = TRUE]>>,
     <<Index(<<"a", "a">>)>>, <<Index(<<"c">>)>>,
     <<[Index(<<"a">>) EXCEPT !.where = Positive]>>,
     <<[Index(<<"a">>) EXCEPT !.where = Expr("NOT", <<Expr("AND", <<Positive, Expr("IS NULL", <<Col("b")>>)>>)>>)],
       [Index(<<"a">>) EXCEPT !.name = <<"name", "whole">>]>>}

TextIndexes ==
    {<<[Index(<<"a">>) EXCEPT !.prefixes = <<p>>]>> : p \in {2, 5, 6}}
    \cup {<<Index(<<"a">>), [Index(<<"a">>) EXCEPT !.prefixes = <<2>>, !.name = <<"name", "short">>]>>,
          <<[Index(<<"a", "b">>) EXCEPT !.prefixes = <<2, None>>]>>}

Constraint(columns, references, action) ==
    [columns |-> columns, table |-> "p", references |-> references, on_delete |-> action, on_update |-> None]

ConstraintLists ==
    {<<Constraint(<<"a", "b">>, <<"u", "v">>, None)>>, <<Constraint(<<"b", "a">>, <<"u", "v">>, "SET NULL")>>,
     <<Constraint(<<"a", "b">>, <<"v", "u">>, None)>>, <<Constraint(<<"a", "b">>, <<"u", "u">>, None)>>,
     <<Constraint(<<"a">>, <<"id">>, None), Constraint(<<"a", "b">>, <<"u", "v">>, "CASCADE")>>,
     <<Constraint(<<"id">>, <<"id">>, "SET NULL")>>, <<Constraint(<<"a">>, <<"u">>, None)>>,
     <<Constraint(<<"a">>, <<"id">>, None), Constraint(<<"b">>, <<"k">>, "RESTRICT")>>}

-----------------------------------------------------------------------------
(* Predicates over a and b.                                                *)

Atoms == {Positive, Expr("lte", <<Col("a"), Lit(IntVal(0))>>), Expr("eq", <<Col("a"), Lit(IntVal(1))>>),
          Expr("ne", <<Col("b"), Lit(IntVal(1))>>), Expr("IS NULL", <<Col("b")>>),
          Expr("IN", <<Col("a"), Lit(IntVal(0)), Lit(IntVal(1))>>),
          Expr("BETWEEN", <<Col("b"), Lit(IntVal(0)), Lit(IntVal(1))>>),
          Expr("lt", <<Col("a"), Col("b")>>)}
X == Positive
Y == Expr("IS NULL", <<Col("b")>>)
Z == Expr("BETWEEN", <<Col("b"), Lit(IntVal(0)), Lit(IntVal(1))>>)
Both(e, f) == Expr("AND", <<e, f>>)
Either(e, f) == Expr("OR", <<e, f>>)
Not(e) == Expr("NOT", <<e>>)

Predicates ==
    Atoms \cup {Not(e) : e \in Atoms}
    \cup {Both(X, Y), Either(X, Y), Not(Both(X, Y)), Not(Either(X, Y)), Either(Not(X), Not(Y)),
          Both(Not(X), Not(Y)), Not(Not(X)), Not(Not(Both(X, Y))), Both(Both(X, Y), Z), Both(X, Both(Y, Z)),
          Either(X, Both(Y, Z)), Both(Either(X, Y), Z), Either(Both(X, Y), Z), Both(X, Either(Y, Z)),
          Both(Not(X), Z), Not(Both(X, Z)), Either(Y, X), Both(Z, Not(Either(X, Y)))}

Refusals ==
    {Expr("eq", <<Col("a"), Lit(TextVal("x"))>>), Expr("eq", <<Col("c"), Lit(IntVal(0))>>),
     Expr("gt", <<Lit(IntVal(0)), Col("a")>>)}

Check(e) == [name |-> "c", expr |-> e]
Checked(e) == [Model(<<Key, A, B>>) EXCEPT !.checks = <<Check(e)>>]

-----------------------------------------------------------------------------

Columned(backend) == {Case(backend, Payload(a), "columns") : a \in Payloads(backend)}
Keyed(backend) == {Case(backend, Model(k \o <<B>>), "columns") : k \in Keys(backend)}
Indexed(backend) ==
    {Case(backend, [Payload(A) EXCEPT !.indexes = l], "columns") : l \in IndexLists(backend)}
    \cup {Case(backend, [Payload(TextColumn("a", backend)) EXCEPT !.indexes = l], "columns") : l \in TextIndexes}
    \cup {Case(backend, [Payload([A EXCEPT !.index = TRUE]) EXCEPT !.indexes = <<Index(<<"a">>)>>], "columns")}
Long == {Case("mariadb", [Payload(Column("a", "LongText")) EXCEPT !.indexes = l], "columns")
            : l \in TextIndexes \cup {<<Index(<<"a">>)>>}}
Constrained(backend) ==
    {Case(backend, [Payload(A) EXCEPT !.fks = l], "columns") : l \in ConstraintLists}
    \cup {Case(backend, [Payload(A) EXCEPT !.fks = <<Constraint(<<"a", "b">>, <<"u", "v">>, None)>>,
                                           !.indexes = <<Index(<<"a", "b">>)>>], "columns")}
Checking(backend) ==
    {Case(backend, Checked(e), "checks") : e \in Predicates \cup Refusals}
    \cup {Case(backend, [Checked(X) EXCEPT !.checks = <<Check(X), Check(Y)>>], "checks"),
          Case(backend, [Payload(TextColumn("a", backend)) EXCEPT
                  !.checks = <<Check(Expr("eq", <<Col("a"), Lit(TextVal("nul"))>>))>>], "text")}
Paired(backend) ==
    {[Case(backend, Payload(A), "columns") EXCEPT !.second = second]
        : second \in {Payload(A), [Payload(A) EXCEPT !.table = "s"]}}
    \cup {[Case(backend, [Payload(A) EXCEPT !.indexes = <<[Index(<<"a">>) EXCEPT !.name = <<"name", "i">>]>>], "columns")
             EXCEPT !.second = [Payload(A) EXCEPT !.table = "s",
                                  !.indexes = <<[Index(<<"b">>) EXCEPT !.name = <<"name", "i">>]>>]]}

MCCases == UNION {Columned(d) \cup Keyed(d) \cup Indexed(d) \cup Constrained(d) \cup Checking(d)
                  \cup Paired(d) : d \in {"sqlite", "mariadb"}}
           \cup Long

-----------------------------------------------------------------------------
(* Drift: the tables one change makes of a live table.                     *)

Without(s, i) == SubSeq(s, 1, i - 1) \o SubSeq(s, i + 1, Len(s))
Unsupported_ == <<Word("LENGTH"), Sym("("), Name("a"), Sym(")"), Sym(">"), <<"number", "1">>>>

ColumnChanges(c, backend) ==
    {[c EXCEPT !.notnull = ~@], [c EXCEPT !.auto = FALSE], [c EXCEPT !.pk = FALSE, !.auto = FALSE]}
    \cup {[c EXCEPT !.default = d] : d \in {None, <<<<"number", "2">>>>, <<Sym("-"), <<"number", "1">>>>,
                                            <<<<"literal", "x">>>>, <<Word("NULL")>>, Unsupported_}}
    \cup (IF backend = "sqlite"
          THEN {[c EXCEPT !.type = y] : y \in {"INT", "TEXT", "ANY"}}
               \cup {[c EXCEPT !.collate = y] : y \in {None, "BINARY", "NOCASE"}}
               \cup {[c EXCEPT !.default = <<Word("STRFTIME_NOW")>>]}
          ELSE {[c EXCEPT !.type = "bigint", !.length = None, !.collate = None, !.precision = None],
                [c EXCEPT !.type = "longtext", !.length = None, !.collate = "utf8mb4_bin",
                          !.precision = None, !.unsigned = FALSE]}
               \cup (IF c.type \in {"bigint", "double", "tinyint"} THEN {[c EXCEPT !.unsigned = TRUE]} ELSE {})
               \cup (IF c.type \in {"varchar", "longtext"} THEN {[c EXCEPT !.collate = "utf8mb4_ci"]} ELSE {})
               \cup (IF c.length = None THEN {} ELSE {[c EXCEPT !.length = 4]})
               \cup (IF c.precision = None THEN {} ELSE {[c EXCEPT !.precision = 3]}))

Plain(columns) == [name |-> <<"name", "extra">>, columns |-> columns, unique |-> FALSE,
                   prefixes |-> [k \in DOMAIN columns |-> None], btree |-> TRUE, where |-> None]

IndexChanges(x, backend) ==
    {[x EXCEPT !.unique = ~@], [x EXCEPT !.columns = Reverse(@)], [x EXCEPT !.columns = <<"b">>, !.prefixes = <<None>>],
     [x EXCEPT !.name = <<"name", "renamed">>]}
    \cup (IF backend = "sqlite"
          THEN {[x EXCEPT !.where = w] :
                   w \in {None, Unsupported_} \cup {Printed(e, "sqlite") : e \in {X, Y, Not(X), Either(Not(X), Not(Y))}}}
          ELSE {[x EXCEPT !.btree = FALSE], [x EXCEPT !.prefixes = [k \in DOMAIN @ |-> IF k = 1 THEN 3 ELSE @[k]]]})

KeyChanges(fk) ==
    {[fk EXCEPT !.on_delete = y] : y \in {"NO ACTION", "RESTRICT", "CASCADE"}}
    \cup {[fk EXCEPT !.on_update = "CASCADE"], [fk EXCEPT !.columns = Reverse(@)],
          [fk EXCEPT !.references = Reverse(@)], [fk EXCEPT !.references[1] = "k"]}

\* One key of several columns becomes one key per column.
Split(fk) == [k \in DOMAIN fk.columns |->
                [fk EXCEPT !.columns = <<fk.columns[k]>>, !.references = <<fk.references[k]>>, !.name = 7 + k]]

\* A UNIQUE constraint is added, or takes the place of an index.
UniqueDrifts(t) ==
    {[t EXCEPT !.uniques = <<<<"b">>>>]}
    \cup {[t EXCEPT !.indexes = Without(@, i), !.uniques = <<t.indexes[i].columns>>]
             : i \in {j \in DOMAIN t.indexes : t.indexes[j].where = None}}

StructureDrifts(t, backend) ==
    {[t EXCEPT !.options = {}],
     [t EXCEPT !.columns = Append(@, [t.columns[3] EXCEPT !.name = "z"])],
     [t EXCEPT !.indexes = Append(@, Plain(<<"b">>))], [t EXCEPT !.indexes = Append(@, Plain(<<"a", "b">>))]}
    \cup {[t EXCEPT !.columns = Without(@, 3)]}
    \cup (IF backend = "sqlite" THEN UniqueDrifts(t) ELSE {})
    \cup UNION {{[t EXCEPT !.columns[i] = c] : c \in ColumnChanges(t.columns[i], backend)} : i \in 1 .. 2}
    \cup {[t EXCEPT !.indexes = Without(@, i)] : i \in DOMAIN t.indexes}
    \cup UNION {{[t EXCEPT !.indexes[i] = x] : x \in IndexChanges(t.indexes[i], backend)} : i \in DOMAIN t.indexes}
    \cup {[t EXCEPT !.fks = Without(@, i)] : i \in DOMAIN t.fks}
    \cup {[t EXCEPT !.fks = Append(@, [@[i] EXCEPT !.name = 7])] : i \in DOMAIN t.fks}
    \cup {[t EXCEPT !.fks = Without(@, i) \o Split(@[i])] : i \in DOMAIN t.fks}
    \cup UNION {{[t EXCEPT !.fks[i] = fk] : fk \in KeyChanges(t.fks[i])} : i \in DOMAIN t.fks}

CheckDrifts(t, backend) ==
    {[t EXCEPT !.checks = <<>>], [t EXCEPT !.checks[1].name = "d"], [t EXCEPT !.checks = Append(@, @[1])],
     [t EXCEPT !.checks = <<[name |-> None, sql |-> Unsupported_]>> \o @], [t EXCEPT !.checks[1].sql = Unsupported_]}
    \cup {[t EXCEPT !.checks[1].sql = StoredCheck(Printed(e, backend), backend)] : e \in Predicates}
    \cup {[t EXCEPT !.checks[1].sql = StoredCheck(render_check(e, backend), backend)] : e \in Predicates}

MCDrifts(table, c) ==
    {None} \cup CASE c.family = "columns" -> StructureDrifts(table, c.backend)
                  [] c.family = "checks" -> CheckDrifts(table, c.backend)
                  [] OTHER -> {[table EXCEPT !.checks = <<>>]}

\* Changes during the reads, for tables with a default, an index and a key.
MCRaces(table, c) ==
    IF c.model.fks = <<>> \/ Len(c.model.fks[1].columns) # 2 \/ c.family # "columns" THEN {}
    ELSE {table, [table EXCEPT !.columns = Without(@, 3)], [table EXCEPT !.fks = <<>>],
          [table EXCEPT !.indexes = Append(@, Plain(<<"id">>))]}
         \cup (IF c.backend = "mariadb" THEN {None} ELSE {})

Values == {Null, IntVal(0), IntVal(1), IntVal(2)}
MCRows == [{"a", "b"} -> Values] \cup [{"a", "b"} -> {TextVal("x"), TextVal("nul"), Null}]
=============================================================================
