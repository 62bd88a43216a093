----------------------------- MODULE MCQueries -----------------------------
(***************************************************************************)
(* The instance of Queries that is model-checked: five tables, and for     *)
(* every kind of question the sources, operands and rows it is asked with. *)
(***************************************************************************)
EXTENDS Queries

Fold(name) == CASE name = "C" -> "c" [] name = "U" -> "u" [] OTHER -> name

IntType == [kind |-> "int"]
DayType == [kind |-> "day"]
ColumnDef(name, type, null) ==
  [name |-> name, type |-> type, nullable |-> null, unique |-> FALSE,
   generated |-> FALSE, default |-> None]

U(b) == TableSource("u", b, <<ColumnDef("id", IntType, FALSE), ColumnDef("d", DayType, FALSE),
                              ColumnDef("m", IntType, TRUE)>>)
N(b) == TableSource("n", b, <<ColumnDef("a", IntType, TRUE), ColumnDef("b", DayType, TRUE)>>)
X(b) == build_alias(U(b), "other", "x")
F(b) == TableSource("f", IF b = "sqlite" THEN "mariadb" ELSE "sqlite",
                    <<ColumnDef("a", IntType, FALSE)>>)

(* A table of keyed counters, and one of every type that refuses values. *)
K(b) == TableSource("k", b,
  <<[ColumnDef("id", IntType, FALSE) EXCEPT !.unique = TRUE, !.generated = TRUE],
    [ColumnDef("key", IntType, FALSE) EXCEPT !.unique = TRUE],
    [ColumnDef("v", IntType, FALSE) EXCEPT !.default = 0], ColumnDef("w", IntType, TRUE)>>)
T(b) == TableSource("t", b,
  <<ColumnDef("i", IntType, TRUE), ColumnDef("e", [kind |-> "dec", precision |-> 4, scale |-> 2], TRUE),
    ColumnDef("at", [kind |-> "time", precision |-> 3], TRUE), ColumnDef("o", [kind |-> "offset"], TRUE),
    ColumnDef("r", [kind |-> "real"], TRUE), ColumnDef("s", [kind |-> "text", length |-> TextMax], TRUE),
    ColumnDef("day", DayType, TRUE), ColumnDef("short", [kind |-> "text", length |-> 2], TRUE),
    ColumnDef("long", [kind |-> "text", length |-> TextMax + 10], TRUE)>>)

Col(source, name) == <<"col", source, name>>
Lit(n) == <<"lit", None, n>>
Eq(o, other) == column_predicate(o, "eq", other)
Asc(o) == [column |-> o, direction |-> "ASC"]
Desc(o) == [column |-> o, direction |-> "DESC"]
From(lib, name) == {s \in Items(lib) : s.name = name}
The(lib, name) == CHOOSE s \in Items(lib) : s.name = name

(* Result models: an integer p and a day q, each with or without None. *)
Result(p, q) == [l \in {"p", "q"} |-> IF l = "p" THEN [kind |-> "int", none |-> p]
                                                 ELSE [kind |-> "day", none |-> q]]
MCFieldOrder(result) == <<"p", "q">>
Named(s, result, p, q) == _project_state(s, result, <<"p", "q">>, <<p, q>>)
Where(s, p) == IF s = Refused THEN Refused ELSE _select_where(s, p)

MCCases == {"nest", "groups", "joins", "ctes", "unions", "keys", "types"}
MCMaxOps(c) == CASE c = "types" -> 3 [] c \in {"groups", "joins"} -> 4 [] c = "unions" -> 6 [] OTHER -> 5

MCTables(b) == {U(b), N(b), K(b), T(b)}

(* A cte of a LEFT JOIN, whose outputs are nullable though q's column is not. *)
Cte(b) ==
  build_cte(Where(Named(_select_join(SelectSource(U(b)), X(b),
                                     Eq(Col(X(b), "m"), Col(U(b), "id")), "LEFT", FALSE),
                        Result(TRUE, TRUE), Col(X(b), "id"), Col(X(b), "d")),
                  literal_predicate(Col(U(b), "id"), "gte", <<2>>)), "left", "c")

NotesCte(b) == build_cte(Named(SelectSource(N(b)), Result(TRUE, TRUE), Col(N(b), "a"), Col(N(b), "b")), "notes", "c")

MCLibrary(c, b) ==
  CASE c = "nest" -> <<U(b), X(b), N(b), F(b)>>
    [] c = "groups" -> <<U(b), N(b)>>
    [] c = "joins" -> <<U(b), X(b), N(b)>>
    [] c = "ctes" -> <<U(b), Cte(b)>>
    [] c = "unions" -> <<U(b), N(b)>>
    [] c = "keys" -> <<K(b), N(b), NotesCte(b), F(b)>>
    [] c = "types" -> <<T(b)>>

MCKept(c, b) ==
  IF c # "unions" THEN {}
  ELSE {[class |-> "named", state |-> _project_state(SelectSource(N(b)), Result(TRUE, TRUE), <<"q", "p">>,
                                                     <<Col(N(b), "b"), Col(N(b), "a")>>)],
        [class |-> "named", state |-> Where(Named(SelectSource(U(b)), Result(TRUE, TRUE), Col(U(b), "m"), Col(U(b), "d")),
                                            literal_predicate(Col(U(b), "id"), "gte", <<2>>))]}

NoRows == [t \in {"u", "n", "k", "t"} |-> <<>>]
People == << <<1, 5, None>>, <<2, 6, 1>>, <<3, 5, 1>> >>
Notes == << <<1, 5>>, <<None, None>> >>
MCData(c) ==
  CASE c = "keys" -> {[NoRows EXCEPT !["k"] = << <<1, 1, 1, None>>, <<2, 2, 2, 1>> >>, !["n"] = Notes]}
    [] c = "types" -> {[NoRows EXCEPT !["t"] = <<[i \in 1 .. 9 |-> None]>>]}
    [] OTHER -> {[NoRows EXCEPT !["u"] = People, !["n"] = Notes]}
                  \cup (IF c = "joins" THEN {[NoRows EXCEPT !["u"] = People]} ELSE {})
-----------------------------------------------------------------------------
(* Reads. *)

(* How many notes a person has, and the notes of the person of an outer query. *)
CountNotes(u, n, by) == Where(SelectFields(<<_Aggregate("COUNT", Col(n, "a"))>>), Eq(Col(n, "a"), Col(u, by)))
NotesOf(u, n) == Where(SelectFields(<<Col(n, "a")>>), Eq(Col(n, "a"), Col(u, "id")))

MCSelectArgs(c, lib) ==
  LET u == The(lib, "u") x == The(lib, "x") n == The(lib, "n")
  IN CASE c = "nest" -> {<<"source", u>>, <<"fields", <<Col(x, "m")>>>>, <<"fields", <<Col(u, "id")>>>>,
                         <<"fields", <<Col(The(lib, "f"), "a")>>>>}
       [] c = "groups" ->
            {<<"fields", <<Col(u, "m"), _Aggregate("COUNT", Col(u, "id"))>>>>,
             <<"fields", <<_Aggregate("MAX", Col(u, "d"))>>>>,
             <<"fields", <<_Aggregate("SUM", Col(u, "id"))>>>>,
             <<"fields", <<Col(u, "m"), scalar(CountNotes(u, n, "m"))>>>>,
             <<"fields", <<Col(u, "m"), scalar(CountNotes(u, n, "id"))>>>>}
       [] c = "joins" -> {<<"source", u>>, <<"source", x>>, <<"fields", <<Col(u, "id"), Col(u, "d")>>>>}
       [] c = "ctes" -> {<<"source", s>> : s \in Items(lib)}
       [] c = "unions" -> {<<"source", s>> : s \in Items(lib)}
       [] OTHER -> {}

MCProjections(c, lib) ==
  LET u == The(lib, "u") x == The(lib, "x") n == The(lib, "n")
      both(p, q, o, r) == <<Result(p, q), <<"p", "q">>, <<o, r>>>>
  IN CASE c = "joins" ->
            {both(FALSE, FALSE, Col(x, "id"), Col(x, "d")), both(TRUE, TRUE, Col(x, "id"), Col(x, "d")),
             both(FALSE, TRUE, _compose(Col(n, "a"), "COALESCE", Lit(0)), Col(n, "b"))}
       [] c = "ctes" -> {both(TRUE, FALSE, Col(u, "m"), Col(u, "d"))}
                         \cup {both(TRUE, FALSE, Col(u, "id"), <<"out", s, 2>>) : s \in From(lib, "c")}
       [] c = "unions" -> {both(FALSE, FALSE, Col(u, "id"), Col(u, "d")), both(TRUE, TRUE, Col(u, "m"), Col(u, "d")),
                           both(TRUE, TRUE, _Aggregate("COUNT", Col(u, "id")), _Aggregate("MAX", Col(u, "d")))}
       [] OTHER -> {}

Nests(lib, saved_) ==
  LET u == The(lib, "u")
  IN {exists(s.state) : s \in saved_} \cup {not_exists(s.state) : s \in saved_}
       \cup {subquery_predicate(Col(u, "m"), s.state, neg) : s \in saved_, neg \in BOOLEAN}
       \cup {Eq(Col(u, "m"), scalar(s.state)) : s \in {k \in saved_ : k.class = "value"}}

MCPredicates(c, lib, saved_) ==
  LET u == The(lib, "u") x == The(lib, "x") n == The(lib, "n") f == The(lib, "f") k == The(lib, "k")
  IN CASE c = "nest" -> {Eq(Col(x, "m"), Col(u, "id")), literal_predicate(Col(u, "id"), "gte", <<2>>), literal_predicate(Col(u, "m"), "ne", <<None>>),
                         exists(NotesOf(u, n)), not_exists(SelectFields(<<Col(f, "a")>>))}
                        \cup Nests(lib, saved_)
       [] c = "groups" -> {literal_predicate(Col(u, "d"), "lt", <<6>>), literal_predicate(Col(u, "d"), "eq", <<3>>)}
       [] c = "joins" -> {literal_predicate(Col(n, "a"), "is_null", <<>>), <<"or", literal_predicate(Col(x, "id"), "eq", <<2>>), Eq(Col(u, "id"), Col(n, "a"))>>}
       [] c = "ctes" -> {literal_predicate(<<"out", s, 1>>, "lt", <<4>>) : s \in {t \in Items(lib) : IsOutputs(t)}}
                        \cup {exists(Where(SelectSource(s), Eq(<<"out", s, 1>>, Col(u, "id")))) :
                                s \in From(lib, "c")}
       [] c = "unions" -> {literal_predicate(Col(u, "id"), "in_", <<1, 3>>)}
       [] c = "keys" -> {literal_predicate(Col(k, "v"), "between", <<2, 3>>), subquery_predicate(Col(k, "key"), SelectFields(<<Col(n, "a")>>), FALSE),
                         <<"not", subquery_predicate(Col(k, "key"), SelectFields(<<<<"out", The(lib, "c"), 1>>>>), TRUE)>>}
       [] OTHER -> {}

MCHavings(c, lib) ==
  LET u == The(lib, "u") n == The(lib, "n")
  IN IF c # "groups" THEN {}
     ELSE {literal_predicate(_Aggregate("COUNT", Col(u, "id")), "gte", <<2>>), literal_predicate(Col(u, "m"), "is_not_null", <<>>),
           literal_predicate(_Aggregate("SUM", Col(u, "id")), "lt", <<IntMax + 1>>),
           <<"not", Eq(_Aggregate("COUNT", Col(u, "m")), scalar(CountNotes(u, n, "m")))>>}

MCOrderings(c, lib) ==
  LET u == The(lib, "u") x == The(lib, "x") n == The(lib, "n")
  IN CASE c = "groups" -> {Desc(Col(u, "m")), Asc(_Aggregate("COUNT", Col(u, "id")))}
       [] c = "joins" -> {Desc(Col(x, "id"))}
       [] c = "ctes" -> {Desc(<<"out", s, 2>>) : s \in {t \in Items(lib) : IsOutputs(t)}}
       [] OTHER -> {}

MCGroupings(c, lib) ==
  LET u == The(lib, "u")
  IN IF c = "groups" THEN {Col(u, "m")} ELSE {}

MCJoins(c, lib) ==
  LET u == The(lib, "u") x == The(lib, "x") n == The(lib, "n")
      key(s) == IF IsOutputs(s) THEN <<"out", s, 1>> ELSE Col(s, "id")
  IN CASE c = "joins" -> {<<x, Eq(Col(x, "m"), Col(u, "id"))>>, <<x, <<"references", Col(x, "m"), Col(u, "id")>>>>,
                          <<n, Eq(Col(n, "a"), Col(u, "id"))>>, <<n, Eq(Col(n, "a"), Col(x, "id"))>>, <<n, literal_predicate(Col(n, "b"), "is_null", <<>>)>>}
       [] c = "ctes" -> {<<s, Eq(key(s), key(t))>> : s \in Items(lib), t \in From(lib, "c")}
       [] OTHER -> {}

MCBounds(c) == IF c \in {"unions", "joins"} THEN {1} ELSE {}
MCWaits(c) == IF c \in {"groups", "joins"} THEN {"wait"} ELSE {}
MCAliasArgs(c) == IF c = "nest" THEN {<<"second", "U">>} ELSE {}
MCCteArgs(c) == IF c \in {"ctes", "unions"} THEN {<<"first", "C">>, <<"second", "e">>} ELSE {}
MCRecursiveArgs(c) == IF c = "unions" THEN {<<"tree", "r">>} ELSE {}

(* The people of the people already found. *)
MCRecursiveStep(c, seed) ==
  LET u == U(seed.backend)
      joined == _select_join(SelectSource(u), seed, Eq(Col(u, "m"), <<"out", seed, 1>>), "INNER", FALSE)
  IN Named(joined, Result(FALSE, FALSE), Col(u, "id"), Col(u, "d"))
-----------------------------------------------------------------------------
(* Writes. *)

KeyRow(key, v, w) == [n \in {"id", "key", "v", "w"} |->
                        CASE n = "id" -> Pending [] n = "key" -> key [] n = "v" -> v [] n = "w" -> w]
Blank == [n \in {"i", "e", "at", "o", "r", "s", "day", "short", "long"} |-> None]

MCWriteArgs(c, lib) ==
  LET k == The(lib, "k") t == The(lib, "t")
  IN CASE c = "keys" ->
            {<<"insert", k, KeyRow(2, 3, None)>>, <<"insert", k, KeyRow(3, Pending, 1)>>,
             <<"insert_many", k, <<>>>>, <<"insert_many", k, <<KeyRow(3, 1, 1), KeyRow(1, 1, 2)>>>>,
             <<"insert_many", k, <<KeyRow(3, 1, 1), KeyRow(4, Pending, 2)>>>>,
             <<"update", k>>, <<"update", The(lib, "c")>>, <<"delete", k>>, <<"delete", The(lib, "f")>>}
       [] c = "types" ->
            {<<"insert", t, [Blank EXCEPT ![v[1]] = v[2]]>> : v \in
               {<<"i", IntMax>>, <<"i", IntMax + 1>>, <<"i", -IntMax - 1>>, <<"i", -IntMax - 2>>,
                <<"e", <<1, 2>>>>, <<"e", <<9999, -2>>>>, <<"e", <<1230, -3>>>>, <<"e", <<1235, -3>>>>,
                <<"e", <<0, -3>>>>, <<"e", <<10, 1>>>>,
                <<"at", <<TRUE, 1000>>>>, <<"at", <<TRUE, 1>>>>, <<"at", <<FALSE, 0>>>>,
                <<"o", <<60, 120>>>>, <<"o", <<60, -90>>>>, <<"r", 1>>, <<"r", NaN>>,
                <<"s", TextMax>>, <<"s", TextMax + 1>>, <<"day", 3>>, <<"day", 4>>,
                <<"short", 2>>, <<"short", 3>>, <<"short", TextMax + 1>>,
                <<"long", TextMax + 1>>, <<"long", TextMax + 11>>}}
            \cup {<<"update", t>>}
       [] OTHER -> {}

MCConflicts(c, lib) ==
  LET k == The(lib, "k")
  IN IF c # "keys" THEN {}
     ELSE {<<"nothing", <<Col(k, "key")>>, <<>>>>,
           <<"update", <<Col(k, "key")>>, <<[column |-> Col(k, "v"), value |-> <<"inserted">>]>>>>,
           <<"update", <<Col(k, "key")>>, <<[column |-> Col(k, "w"), value |-> <<"value", None>>]>>>>}

MCAssignments(c, lib) ==
  LET k == The(lib, "k") t == The(lib, "t")
      value(col, v) == [column |-> col, value |-> <<"value", v>>]
      next == to_expr(Col(k, "v"), _compose(Col(k, "v"), "+", Lit(1)))
      copy == to_expr(Col(k, "w"), _compose(Col(k, "v"), "+", Lit(0)))
      when == to_expr(Col(k, "w"), build_case(literal_predicate(Col(k, "v"), "gte", <<2>>), Col(k, "w"), Col(k, "v")))
  IN CASE c = "keys" -> {<<next>>, <<next, copy>>, <<copy>>, <<when>>, <<value(Col(k, "w"), 2)>>}
       [] c = "types" -> {<<value(Col(t, "e"), <<5, -3>>)>>, <<value(Col(t, "at"), <<TRUE, 2500>>)>>,
                          <<value(Col(t, "e"), <<25, -1>>)>>}
       [] OTHER -> {}

MCReturnings(c, lib) == IF c = "keys" THEN {<<>>, <<Col(The(lib, "k"), "id")>>} ELSE {}
MCNamedReturnings(c, lib) ==
  IF c # "keys" THEN {}
  ELSE {<<[l \in {"p"} |-> [kind |-> "int", none |-> TRUE]], <<"p">>, <<Col(The(lib, "k"), "w")>>>>}
=============================================================================
