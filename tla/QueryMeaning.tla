---------------------------- MODULE QueryMeaning ----------------------------
(***************************************************************************)
(* What a query means, without names, text or wire values: the operands of *)
(* a state are read from the very sources they were taken from, over the   *)
(* logical values of the tables.  This is the specification that compiling,*)
(* binding, executing and decoding are held against.                       *)
(*                                                                         *)
(* db is a function from the id of a table (or of a recursive seed) to its *)
(* rows.  env is a sequence of scopes [sources, rows], innermost first.    *)
(***************************************************************************)
EXTENDS QueryResults

ColumnAt(o) ==
  IF o[1] = "out" THEN o[3]
  ELSE CHOOSE i \in DOMAIN o[2].columns : o[2].columns[i].name = o[3]

(* The current row of a source in the innermost query that reads it. *)
RowOf(source, env) ==
  LET depths == {d \in DOMAIN env : source \in Items(env[d].sources)}
      scope == env[CHOOSE d \in depths : \A e \in depths : d <= e]
      k == CHOOSE i \in DOMAIN scope.sources : scope.sources[i] = source
  IN IF scope.rows = <<>> THEN None ELSE scope.rows[1][k]

ReadFrom(row, i) == IF row = None THEN None ELSE row[i]

(* What a select answers with: whole sources, or its fields. *)
MeantFields(s) ==
  IF s.returns_model /\ s.joins # <<>>
    THEN MapSeq(result_models(s), LAMBDA m : <<"row", m>>) ELSE s.fields

(***************************************************************************)
(* n is an operand, a predicate, <<"row", source>>, <<"from", source>> (the *)
(* rows of a source), <<"recur", definition, working, left>> (the rows a    *)
(* recursive definition adds) or <<"select", state>> (a sequence of tuples).*)
(***************************************************************************)
RECURSIVE Denote(_, _, _)
Denote(n, env, db) ==
  LET D(m) == Denote(m, env, db)
      Firsts(s) == MapSeq(D(<<"select", s>>), LAMBDA r : r[1])
  IN CASE n[1] \in {"col", "out"} -> ReadFrom(RowOf(n[2], env), ColumnAt(n))
       [] n[1] = "lit" -> n[3]
       [] n[1] = "agg" ->
            Aggregate(n[3], MapSeq(env[1].rows, LAMBDA r :
              Denote(n[4], <<[env[1] EXCEPT !.rows = <<r>>]>> \o Tail(env), db)))
       [] n[1] = "case" -> IF D(n[2]) = TRUE THEN D(n[3]) ELSE D(n[4])
       [] n[1] = "val" -> FoldLeft(LAMBDA v, op : Arithmetic(op[1], v, D(op[2])), D(n[3]), n[4])
       [] n[1] = "scalar" -> LET vs == Firsts(n[3]) IN IF vs = <<>> THEN None ELSE vs[1]
       [] n[1] = "row" ->
            (IF RowOf(n[2], env) = None \/ ~IsOutputs(n[2]) THEN RowOf(n[2], env)
             ELSE NamedRow(n[2].def.state.named, RowOf(n[2], env)))
       [] n[1] = "cmp" -> Compare(n[3], D(n[2]), n[4])
       [] n[1] = "null" -> (D(n[2]) = None) # n[3]
       [] n[1] = "in" -> In3(D(n[2]), n[3], n[4])
       [] n[1] = "between" -> And3(Compare(">=", D(n[2]), n[3]), Compare(">=", n[4], D(n[2])))
       [] n[1] = "cmpcol" -> Compare(n[3], D(n[2]), D(n[4]))
       [] n[1] = "insub" -> In3(D(n[2]), Firsts(n[3]), n[4])
       [] n[1] = "exists" -> (D(<<"select", n[2]>>) # <<>>) # n[3]
       [] n[1] = "and" -> And3(D(n[2]), D(n[3]))
       [] n[1] = "or" -> Or3(D(n[2]), D(n[3]))
       [] n[1] = "not" -> Not3(D(n[2]))
       [] n[1] = "from" ->
            (CASE n[2].kind = "table" -> db[n[2].id]
               [] n[2].kind = "alias" -> db[n[2].of.id]
               [] n[2].def.is_seed -> db[n[2].def.id]
               [] OTHER -> Denote(<<"recur", n[2].def, Denote(<<"select", n[2].def.state>>, <<>>, db), MaxRecursion>>,
                                  <<>>, db))
       [] n[1] = "recur" ->
            (IF n[2].step = None \/ n[3] = <<>> \/ n[4] = 0 THEN n[3]
             ELSE n[3] \o Denote([n EXCEPT ![4] = @ - 1, ![3] =
                    Denote(<<"select", n[2].step>>, <<>>, (n[2].seed :> n[3]) @@ db)], <<>>, db))
       [] n[1] = "select" ->
            LET s == n[2]
                sources == result_models(s)
                At(m, k, rows) ==
                  Denote(m, <<[sources |-> SubSeq(sources, 1, k), rows |-> rows]>> \o env, db)
                Each(ms, rows) == MapSeq(ms, LAMBDA m : At(m, Len(sources), rows))
                From(m) == Denote(<<"from", m>>, <<>>, db)
                both == LET Side(side) == Denote(<<"select", side>>, <<>>, db)
                        IN Side(s.compound.left) \o Side(s.compound.right)
                base == IF s.compound = None THEN From(s.model)
                        ELSE IF s.compound.operator = "UNION" THEN Uniques(both) ELSE both
                joined == FoldLeft(LAMBDA rows, i :
                            JoinRows(s.joins[i].type, rows, From(s.joins[i].model),
                                     LAMBDA r : At(s.joins[i].predicate, i + 1, <<r>>)),
                            MapSeq(base, LAMBDA r : <<r>>), [i \in DOMAIN s.joins |-> i])
                kept == SelectSeq(joined, LAMBDA r : All3(Each(s.predicates, <<r>>)) = TRUE)
                groups == IF ~IsAggregated(s) THEN MapSeq(kept, LAMBDA r : <<r>>)
                          ELSE IF s.groupings = <<>> THEN <<kept>>
                          ELSE GroupRows(kept, MapSeq(kept, LAMBDA r : Each(s.groupings, <<r>>)))
            IN Finish(MapSeq(SelectSeq(groups, LAMBDA g : All3(Each(s.having, g)) = TRUE),
                             LAMBDA g : <<Each(MeantFields(s), g),
                                          Each(MapSeq(s.orderings, LAMBDA e : e.column), g)>>),
                      s.distinct, MapSeq(s.orderings, LAMBDA e : e.direction), s.limit, s.offset)

(* The result a caller means by a fetch of a query. *)
MeantRow(s, values) ==
  CASE s.returns_model -> values
    [] ~s.returns_model /\ s.named # None ->
         [l \in Items(s.named.labels) |-> values[CHOOSE i \in DOMAIN values : s.named.labels[i] = l]]
    [] OTHER -> IF Len(s.fields) = 1 THEN values[1] ELSE values

MeantRead(s, consumption, rows) ==
  CASE consumption = "many" -> <<"rows", MapSeq(rows, LAMBDA v : MeantRow(s, v))>>
    [] consumption # "many" /\ Len(rows) = 1 -> <<"row", MeantRow(s, rows[1])>>
    [] consumption # "many" /\ Len(rows) > 1 -> <<"MultipleResults">>
    [] OTHER -> IF consumption = "one" THEN <<"NoResult">> ELSE <<"none">>
=============================================================================
