---------------------------- MODULE QueryEngine ----------------------------
(***************************************************************************)
(* The database engines, as the statements of this library use them: which *)
(* statements they accept, and the rows they answer with.  External: it is *)
(* modelled from the SQL the compiler emits, for SQLite and MariaDB alike. *)
(*                                                                         *)
(* A relation is [cols, rows]: the names of its columns and a sequence of  *)
(* tuples.  A database is a sequence of <<name, relation>> pairs; a name   *)
(* means the first pair that has it, ignoring case.  NULL is None, and so  *)
(* is the truth value UNKNOWN.                                             *)
(***************************************************************************)
EXTENDS QueryCompile

CONSTANT MaxRecursion   \* how often a recursive member is evaluated at most

-----------------------------------------------------------------------------
(* The algebra of rows, which has nothing to do with names. *)

And3(p, q) == IF p = FALSE \/ q = FALSE THEN FALSE ELSE IF p = None \/ q = None THEN None ELSE TRUE
Not3(p) == IF p = None THEN None ELSE ~p
Or3(p, q) == Not3(And3(Not3(p), Not3(q)))
All3(ps) == FoldLeft(And3, TRUE, ps)

Compare(op, v, w) ==
  IF v = None \/ w = None THEN None
  ELSE CASE op = "=" -> v = w
         [] op = "!=" -> v # w
         [] op = "<" -> v < w
         [] op = "<=" -> v <= w
         [] op = ">" -> v > w
         [] op = ">=" -> v >= w

In3(v, ws, negated) ==
  LET found == FoldLeft(LAMBDA p, w : Or3(p, Compare("=", v, w)), FALSE, ws)
  IN IF negated THEN Not3(found) ELSE found

Arithmetic(op, v, w) ==
  CASE op = "COALESCE" -> IF v = None THEN w ELSE v
    [] op # "COALESCE" /\ (v = None \/ w = None) -> None
    [] OTHER -> v + w

Aggregate(func, values) ==
  LET known == SelectSeq(values, LAMBDA v : v # None)
  IN CASE func = "COUNT" -> Len(known)
       [] func # "COUNT" /\ known = <<>> -> None
       [] func = "SUM" /\ known # <<>> -> FoldLeft(LAMBDA m, n : m + n, 0, known)
       [] func = "MIN" /\ known # <<>> -> CHOOSE m \in Items(known) : \A n \in Items(known) : m <= n
       [] func = "MAX" /\ known # <<>> -> CHOOSE m \in Items(known) : \A n \in Items(known) : m >= n

(* The rows of a join: None stands for the missing row of a LEFT JOIN. *)
JoinRows(type, lefts, rights, On(_)) ==
  LET Matches(l) == SelectSeq(MapSeq(rights, LAMBDA r : Append(l, r)), LAMBDA j : On(j) = TRUE)
      OrNone(l, found) == IF found = <<>> /\ type = "LEFT" THEN <<Append(l, None)>> ELSE found
  IN FlattenSeq(MapSeq(lefts, LAMBDA l : OrNone(l, Matches(l))))

Uniques(s) == FoldLeft(LAMBDA found, x : IF x \in Items(found) THEN found ELSE Append(found, x), <<>>, s)

(* The groups of a sequence of rows, keys[i] the key of rows[i], in the order their keys appear. *)
GroupRows(rows, keys) ==
  LET Members(k) == SelectSeq([i \in DOMAIN rows |-> i], LAMBDA i : keys[i] = k)
  IN MapSeq(Uniques(keys), LAMBDA k : MapSeq(Members(k), LAMBDA i : rows[i]))

(* NULL sorts first. *)
Before(v, w) == IF w = None THEN FALSE ELSE IF v = None THEN TRUE ELSE v < w

(* Rows as <<values, keys>>, sorted by their keys; equal keys keep their order. *)
OrderRows(rows, directions) ==
  LET Less(x, y) ==
        LET First == {i \in DOMAIN directions : x[2][i] # y[2][i]}
        IN IF First = {} THEN x[3] < y[3]
           ELSE LET i == CHOOSE k \in First : \A m \in First : k <= m
                IN IF directions[i] = "ASC" THEN Before(x[2][i], y[2][i])
                                            ELSE Before(y[2][i], x[2][i])
  IN SortSeq([i \in DOMAIN rows |-> <<rows[i][1], rows[i][2], i>>], Less)

(* DISTINCT keeps the first of the rows with equal values. *)
DistinctRows(rows) ==
  FoldLeft(LAMBDA kept, x : IF \E y \in Items(kept) : y[1] = x[1] THEN kept ELSE Append(kept, x),
           <<>>, rows)

Window(s, limit, offset) ==
  LET first == IF offset = None THEN 0 ELSE offset
      last == IF limit = None \/ first + limit > Len(s) THEN Len(s) ELSE first + limit
  IN SubSeq(s, first + 1, last)

(* The end of every SELECT: DISTINCT, ORDER BY, LIMIT and OFFSET. *)
Finish(rows, distinct, directions, limit, offset) ==
  Window(MapSeq(OrderRows(IF distinct THEN DistinctRows(rows) ELSE rows, directions),
                LAMBDA x : x[1]), limit, offset)

-----------------------------------------------------------------------------
(***************************************************************************)
(* Names.  A scope is [entries, grouped, rows]: a sequence of              *)
(* <<name, columns>>, the set of the places that are grouped or None, and  *)
(* the joined rows a reference is read from.  Scopes are innermost first.  *)
(***************************************************************************)
Lookup(db, name) ==
  LET named == SelectSeq(db, LAMBDA t : t[1] = casefold(name))
  IN IF named = <<>> THEN None ELSE named[1][2]

(* The places <<entry, column>> a reference may mean in one scope. *)
Places(ref, entries) ==
  {<<i, k>> \in (DOMAIN entries) \X (1 .. 9) :
     /\ ref[2] = None \/ casefold(ref[2]) = casefold(entries[i][1])
     /\ k \in DOMAIN entries[i][2]
     /\ casefold(entries[i][2][k]) = casefold(ref[3])}

(* The innermost scope that knows the reference; 0 if none does. *)
Depth(ref, env) ==
  LET known == {d \in DOMAIN env : Places(ref, env[d].entries) # {}}
  IN IF known = {} THEN 0 ELSE CHOOSE d \in known : \A e \in known : d <= e

(* Whether an expression aggregates, not counting its subqueries. *)
RECURSIVE Aggregates(_)
Aggregates(n) ==
  CASE n[1] \in {"?", "ref", "select", "1"} -> FALSE
    [] n[1] = "agg" -> TRUE
    [] OTHER -> \E m \in Items(n[3]) : Aggregates(m)

IsGrouped(q) ==
  q.group # <<>> \/ \E n \in Items(MapSeq(q.items, LAMBDA i : i[1]) \o q.having
                                      \o MapSeq(q.order, LAMBDA e : e[1])) : Aggregates(n)

ItemLabels(q) == [i \in DOMAIN q.items |->
                    IF q.items[i][2] # None THEN q.items[i][2]
                    ELSE IF q.items[i][1][1] = "ref" THEN q.items[i][1][3] ELSE ""]

(* ORDER BY a bare name means the output of that label, if there is one. *)
OrderedOutput(q, n) ==
  LET named == {i \in DOMAIN q.items : n[1] = "ref" /\ q.items[i][2] # None}
      same == {i \in named : n[2] = None /\ casefold(q.items[i][2]) = casefold(n[3])}
  IN IF same = {} THEN 0 ELSE CHOOSE i \in same : TRUE

(* The name and the columns of a FROM item, given the columns of the names. *)
FromEntry(item, catalog) ==
  CASE item[1] = "table" -> <<item[3], Lookup(catalog, item[2])>>
    [] item[1] = "marked" -> <<item[3], IF Lookup(catalog, item[2]) = None THEN None
                                        ELSE Append(Lookup(catalog, item[2]), Presence)>>
    [] item[1] = "union" -> <<item[4], ItemLabels(item[3][1][2])>>

FromItems(q) == <<q.from>> \o MapSeq(q.joins, LAMBDA j : j[2])
WithCatalog(q, catalog) ==
  MapSeq(q.with, LAMBDA d : <<casefold(d[1]), ItemLabels(d[2][2])>>) \o catalog

(***************************************************************************)
(* Whether an engine accepts a statement: every table exists, no two       *)
(* sources of a FROM share a name, every reference means one column, and   *)
(* an aggregated select reads only what it groups by or aggregates.        *)
(***************************************************************************)
SourcesKnown(entries) ==
  /\ \A e \in Items(entries) : e[2] # None
  /\ \A i, j \in DOMAIN entries : i # j => casefold(entries[i][1]) # casefold(entries[j][1])

Grouped(q, entries) ==
  IF ~IsGrouped(q) THEN None
  ELSE UNION {IF n[1] = "ref" THEN Places(n, entries) ELSE {} : n \in Items(q.group)}

ScopeOf(entries, grouped) == [entries |-> entries, grouped |-> grouped, rows |-> <<>>]

(* The nodes of a select, each with the scopes it is read in. *)
SelectScopes(q, entries, env) ==
  LET plain == <<ScopeOf(entries, None)>> \o env
      grouped == <<ScopeOf(entries, Grouped(q, entries))>> \o env
      prefix(i) == <<ScopeOf(SubSeq(entries, 1, i + 1), None)>> \o env
  IN {<<n, plain>> : n \in Items(q.where \o q.group)}
       \cup {<<q.joins[i][3], prefix(i)>> : i \in DOMAIN q.joins}
       \cup {<<q.items[i][1], grouped>> : i \in DOMAIN q.items}
       \cup {<<n, grouped>> : n \in Items(q.having)}
       \cup {<<e[1], grouped>> : e \in {f \in Items(q.order) : OrderedOutput(q, f[1]) = 0}}
       \cup (IF q.from[1] = "union" THEN {<<n, <<>>>> : n \in Items(q.from[3])} ELSE {})

RefMeansOne(n, env, d) ==
  /\ d # 0
  /\ Cardinality(Places(n, env[d].entries)) = 1
  /\ env[d].grouped # None => Places(n, env[d].entries) \subseteq env[d].grouped

RECURSIVE Accepts(_, _, _)
Accepts(n, env, catalog) ==
  CASE n[1] \in {"?", "1"} -> TRUE
    [] n[1] = "ref" -> RefMeansOne(n, env, Depth(n, env))
    [] n[1] = "agg" -> \* its argument is read in the rows of the group
         /\ env # <<>> /\ env[1].grouped # None
         /\ Accepts(n[3][1], <<[env[1] EXCEPT !.grouped = None]>> \o Tail(env), catalog)
    [] n[1] = "select" ->
         \E names \in {WithCatalog(n[2], catalog)} :
         \E entries \in {MapSeq(FromItems(n[2]), LAMBDA f : FromEntry(f, names))} :
           /\ \A d \in Items(n[2].with) : \A m \in {d[2], d[3]} \ {None} : Accepts(m, <<>>, names)
           /\ SourcesKnown(entries)
           /\ n[2].lock # None => n[2].joins = <<>> /\ ~IsGrouped(n[2])
           /\ \A part \in SelectScopes(n[2], entries, env) : Accepts(part[1], part[2], names)
    [] OTHER -> \A m \in Items(n[3]) : Accepts(m, env, catalog)

-----------------------------------------------------------------------------
(***************************************************************************)
(* The value of a node: of an expression or a predicate its value, of a    *)
(* select its rows, of <<"from", item>> the rows of a source, and of       *)
(* <<"recur", name, member, working>> the rows a recursive member adds.    *)
(***************************************************************************)
ReadRef(ref, env) ==
  LET scope == env[Depth(ref, env)]
      place == CHOOSE p \in Places(ref, scope.entries) : TRUE
  IN IF scope.rows = <<>> THEN None
     ELSE IF scope.rows[1][place[1]] = None THEN None
     ELSE scope.rows[1][place[1]][place[2]]

Catalog(db) == MapSeq(db, LAMBDA t : <<t[1], t[2].cols>>)

RECURSIVE Eval(_, _, _)
Eval(n, env, db) ==
  LET Value(i) == Eval(n[3][i], env, db)
      Values == MapSeq(n[3], LAMBDA m : Eval(m, env, db))
  IN CASE n[1] = "?" -> n[2]
       [] n[1] = "1" -> 1
       [] n[1] = "ref" -> ReadRef(n, env)
       [] n[1] = "agg" ->
            Aggregate(n[2], MapSeq(env[1].rows, LAMBDA r :
              Eval(n[3][1], <<[env[1] EXCEPT !.rows = <<r>>]>> \o Tail(env), db)))
       [] n[1] = "op" -> Arithmetic(n[2], Value(1), Value(2))
       [] n[1] = "case" -> IF Value(1) = TRUE THEN Value(2) ELSE Value(3)
       [] n[1] = "sub" -> LET rows == Value(1) IN IF rows = <<>> THEN None ELSE rows[1][1]
       [] n[1] = "cmp" -> Compare(n[2], Value(1), Value(2))
       [] n[1] = "null" -> (Value(1) = None) # n[2]
       [] n[1] = "in" -> In3(Value(1), Tail(Values), n[2])
       [] n[1] = "between" -> And3(Compare(">=", Value(1), Value(2)), Compare(">=", Value(3), Value(1)))
       [] n[1] = "insub" -> In3(Value(1), MapSeq(Value(2), LAMBDA r : r[1]), n[2])
       [] n[1] = "exists" -> (Value(1) # <<>>) # n[2]
       [] n[1] = "and" -> And3(Value(1), Value(2))
       [] n[1] = "or" -> Or3(Value(1), Value(2))
       [] n[1] = "not" -> Not3(Value(1))
       [] n[1] = "from" ->
            (CASE n[2][1] = "table" -> Lookup(db, n[2][2]).rows
               [] n[2][1] = "marked" -> MapSeq(Lookup(db, n[2][2]).rows, LAMBDA r : Append(r, 1))
               [] n[2][1] = "union" ->
                    LET both == Eval(n[2][3][1], <<>>, db) \o Eval(n[2][3][2], <<>>, db)
                    IN IF n[2][2] = "UNION" THEN Uniques(both) ELSE both)
       [] n[1] = "recur" -> \* <<"recur", name, member, working, left>>
            IF n[3] = None \/ n[4] = <<>> \/ n[5] = 0 THEN n[4]
            ELSE n[4] \o Eval([n EXCEPT ![5] = @ - 1, ![4] =
                   Eval(n[3], <<>>, << <<casefold(n[2]), [cols |-> ItemLabels(n[3][2]), rows |-> n[4]]>> >> \o db)],
                   <<>>, db)
       [] n[1] = "select" ->
            LET q == n[2]
                Defined(known, d) ==
                  << <<casefold(d[1]), [cols |-> ItemLabels(d[2][2]),
                       rows |-> Eval(<<"recur", d[1], d[3], Eval(d[2], <<>>, known), MaxRecursion>>,
                                     <<>>, known)]>> >> \o known
                Select(dbq, entries) ==
                  LET Scoped(rows) == <<[ScopeOf(entries, None) EXCEPT !.rows = rows]>> \o env
                      On(i, r) == Eval(q.joins[i][3],
                                       <<[ScopeOf(SubSeq(entries, 1, i + 1), None) EXCEPT !.rows = <<r>>]>> \o env, dbq)
                      From(item) == Eval(<<"from", item>>, <<>>, dbq)
                      joined == FoldLeft(LAMBDA rows, i : JoinRows(q.joins[i][1], rows, From(q.joins[i][2]),
                                                                   LAMBDA r : On(i, r)),
                                         MapSeq(From(q.from), LAMBDA r : <<r>>),
                                         [i \in DOMAIN q.joins |-> i])
                      Each(ns, rows) == MapSeq(ns, LAMBDA m : Eval(m, Scoped(rows), dbq))
                      kept == SelectSeq(joined, LAMBDA r : All3(Each(q.where, <<r>>)) = TRUE)
                      groups == IF ~IsGrouped(q) THEN MapSeq(kept, LAMBDA r : <<r>>)
                                ELSE IF q.group = <<>> THEN <<kept>>
                                ELSE GroupRows(kept, MapSeq(kept, LAMBDA r : Each(q.group, <<r>>)))
                      Output(g) == Each(MapSeq(q.items, LAMBDA i : i[1]), g)
                      Key(g, values, e) == IF OrderedOutput(q, e) # 0 THEN values[OrderedOutput(q, e)]
                                           ELSE Eval(e, Scoped(g), dbq)
                      Keyed(g, values) == <<values, MapSeq(q.order, LAMBDA e : Key(g, values, e[1]))>>
                  IN Finish(MapSeq(SelectSeq(groups, LAMBDA g : All3(Each(q.having, g)) = TRUE),
                                   LAMBDA g : Keyed(g, Output(g))),
                            q.distinct, MapSeq(q.order, LAMBDA e : e[2]),
                            IF q.limit = None THEN None ELSE q.limit[2],
                            IF q.offset = None THEN None ELSE q.offset[2])
                Within(dbq) == Select(dbq, MapSeq(FromItems(q), LAMBDA f : FromEntry(f, Catalog(dbq))))
            IN Within(FoldLeft(Defined, db, q.with))

(***************************************************************************)
(* What the driver is answered: the rows, or Refused for a statement the   *)
(* engine rejects or whose parameters are not those of its placeholders.   *)
(***************************************************************************)
Answer(compiled, db) ==
  IF compiled[2] # Placeholders(compiled[1]) \/ ~Accepts(compiled[1], <<>>, Catalog(db))
    THEN Refused ELSE Eval(compiled[1], <<>>, db)
=============================================================================
