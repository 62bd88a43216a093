---------------------------- MODULE QueryCompile ----------------------------
(***************************************************************************)
(* From a query state to a statement (src/snekql/_query_compile.py and the *)
(* __compile_*__ methods of expressions.py, _value_expression.py, _cte.py).*)
(*                                                                         *)
(* The text of a statement is kept as its syntax tree:                     *)
(*   <<"?", v>>               a placeholder, marked with the value the     *)
(*                            compiler means for it                        *)
(*   <<"ref", table, name>>   a column; table is None when it is bare      *)
(*   <<tag, attribute, <<node, ...>> >>   any other expression             *)
(*   <<"select", [with, distinct, items, from, joins, where, group,        *)
(*                having, order, limit, offset, lock]>>                    *)
(* A compiled node is a pair <<tree, params>>: params are the values the   *)
(* driver is given, in the order the compiler collects them.               *)
(***************************************************************************)
EXTENDS QueryBuild

Presence == "__snekql_present"   \* the label of the marker of a row

Sqls(pairs) == MapSeq(pairs, LAMBDA c : c[1])
Params(pairs) == FlattenSeq(MapSeq(pairs, LAMBDA c : c[2]))
Node(tag, attribute, pairs) == <<<<tag, attribute, Sqls(pairs)>>, Params(pairs)>>
Bound(v) == << <<"?", v>>, <<v>> >>

-----------------------------------------------------------------------------
(***************************************************************************)
(* What compilation refuses.  n is <<"query", state>> (a statement that    *)
(* carries its definitions), <<"select", state>> or a predicate; scope is  *)
(* the enclosing scope of a select, or None, and the scope of a predicate; *)
(* with tells whether subqueries carry their own definitions.              *)
(***************************************************************************)
InnerScope(s, scope) == IF scope = None THEN OwnScope(s) ELSE enter_subquery(scope, s)

(* ON sees the source and the joins before it, never a later one. *)
JoinScope(scope, i) == ScopeResolver(SubSeq(scope.own, 1, i + 1), scope.outer)

(* A lock is for the rows of one table, on the backend that has row locks. *)
_compile_locking_clause(b, s, nested) ==
  s.lock # None =>
    /\ b = "mariadb" /\ ~IsOutputs(s.model) /\ ~nested
    /\ ~s.distinct /\ s.joins = <<>> /\ ~IsAggregated(s)

(* The checks _compile_select_state makes of one select. *)
SelectCompiles(b, s, scope, nested) ==
  /\ ensure_unambiguous_aliases(scope)
  /\ \A f \in Items(s.fields) : f[1] # "scalar" => ensure_operand_in_scope(f, scope.own)
  /\ ensure_grouping_covers_projection(s)
  /\ \A o \in Items(s.groupings) : ~BindsValues(o)
  /\ \A p \in Items(s.having) : ensure_having_targets(p, s, scope)
  /\ \A e \in Items(s.orderings) :
       ensure_ordering_targets_models(e, scope) /\ ~BindsValues(e.column)
  /\ _compile_locking_clause(b, s, nested)

(* The values a predicate binds, for its operand's encoder. *)
BoundValues(p) ==
  CASE p[1] = "cmp" -> <<p[4]>>
    [] p[1] = "in" -> p[3]
    [] p[1] = "between" -> <<p[3], p[4]>>
    [] OTHER -> <<>>

PredicateCompiles(b, p, scope) ==
  /\ \A v \in Items(BoundValues(p)) : v # None /\ encode_comparison(b, p[2], v) # Refused
  /\ p[1] = "in" => p[3] # <<>>
  /\ HasOther(p) => ensure_operand_in_scope(p[4], models(scope))

Subselect(s, with) == <<IF with THEN "query" ELSE "select", s>>

(* What a node is compiled from, each part with its scope. *)
CompileParts(n, scope, with) ==
  CASE n[1] = "query" ->
         {<<<<"select", n[2]>>, scope>>}
           \cup {<<<<"select", d.state>>, None>> : d \in Items(collect_cte_definitions(n[2], <<>>))}
           \cup {<<<<"select", d.step>>, None>> :
                   d \in {c \in Items(collect_cte_definitions(n[2], <<>>)) : c.step # None}}
    [] n[1] = "select" ->
         {<<<<"select", f[3]>>, InnerScope(n[2], scope)>> :
            f \in {g \in Items(n[2].fields) : g[1] = "scalar"}}
           \cup {<<<<"select", side>>, None>> : side \in Sides(n[2])}
           \cup {<<n[2].joins[i].predicate, JoinScope(InnerScope(n[2], scope), i)>> :
                   i \in DOMAIN n[2].joins}
           \cup {<<p, InnerScope(n[2], scope)>> : p \in Items(n[2].predicates \o n[2].having)}
    [] Children(n) # {} -> {<<p, scope>> : p \in Children(n)}
    [] OTHER -> {<<Subselect(s, with), scope>> : s \in Items(_nested_selects(n))}

RECURSIVE Compilable(_, _, _, _)
Compilable(b, n, scope, with) ==
  /\ CASE n[1] = "query" ->
            collect_cte_definitions(n[2], IF scope = None THEN <<>> ELSE models(scope)) # Refused
       [] n[1] = "select" ->
            /\ scope # None => MayEnter(scope, n[2])
            /\ SelectCompiles(b, n[2], InnerScope(n[2], scope), scope # None)
       [] OTHER -> PredicateCompiles(b, n, scope)
  /\ \A part \in CompileParts(n, scope, with) :
       Compilable(b, part[1], part[2], with /\ n[1] \notin {"query", "select"})

-----------------------------------------------------------------------------
(* _compile_source_sql: a table, an alias, a cte, or a table with a marker. *)
_compile_source_sql(source, joined) ==
  CASE source.kind = "cte" -> <<"table", source.def.name, source.name>>
    [] joined /\ AllNullable(source) ->
         <<"marked", (IF source.kind = "alias" THEN source.of ELSE source).name, source.name>>
    [] source.kind = "alias" -> <<"table", source.of.name, source.name>>
    [] OTHER -> <<"table", source.name, source.name>>

(* _render_column_ref, and the outputs of a cte, which always name their relation. *)
_render_column_ref(o, scope) ==
  CASE o[1] = "col" -> <<"ref", IF qualified(scope) THEN o[2].name ELSE None, o[3]>>
    [] o[1] = "out" -> <<"ref", o[2].name, o[2].def.state.named.labels[o[3]]>>
    [] o[1] = "present" -> <<"ref", o[2].name, Presence>>

(* The items of _compile_select_list: labels, then the marker of a definition. *)
SelectItems(s, sqls, presence) ==
  [i \in DOMAIN sqls |-> <<sqls[i], IF s.named = None THEN None ELSE s.named.labels[i]>>]
    \o (IF presence THEN << << <<"1">>, Presence>> >> ELSE <<>>)

BoundLimit(v) == IF v = None THEN <<None, <<>>>> ELSE Bound(v)

(* The order in which _compile_select_state collects the parameters. *)
SelectParams(list, source, joins, where, having, limit, offset) ==
  Params(list) \o source[2] \o Params(joins) \o Params(where) \o Params(having)
    \o limit[2] \o offset[2]

SelectSql(s, presence, list, source, joins, where, group, having, order, limit, offset) ==
  << <<"select", [with |-> <<>>, distinct |-> s.distinct,
        items |-> SelectItems(s, Sqls(list), presence), from |-> source[1],
        joins |-> [i \in DOMAIN s.joins |->
                     <<s.joins[i].type, _compile_source_sql(s.joins[i].model, s.returns_model), joins[i][1]>>],
        where |-> Sqls(where), group |-> Sqls(group), having |-> Sqls(having),
        order |-> [i \in DOMAIN order |-> <<order[i][1], s.orderings[i].direction>>],
        limit |-> limit[1], offset |-> offset[1], lock |-> s.lock]>>,
     SelectParams(list, source, joins, where, having, limit, offset)>>

(* WITH name AS (body [UNION ALL member]), ...: their parameters come first. *)
WithDefinitions(body, names, bodies, members) ==
  << <<"select", [body[1][2] EXCEPT !.with =
        [i \in DOMAIN names |-> <<names[i], bodies[i][1], members[i][1]>>]]>>,
     FlattenSeq([i \in DOMAIN names |-> bodies[i][2] \o members[i][2]]) \o body[2]>>

(* The nodes of expressions and predicates, from their compiled parts. *)
_render_aggregate(n, operand) == Node("agg", n[3], <<operand>>)
CaseRoot(condition, then, otherwise) == Node("case", None, <<condition, then, otherwise>>)
ValueExpression(n, base, rights) ==
  FoldLeft(LAMBDA left, i : Node("op", n[4][i][1], <<left, rights[i]>>), base, [i \in DOMAIN n[4] |-> i])
_compile_scalar_sql(subquery) == Node("sub", None, <<subquery>>)
ComparisonPredicate(n, operand, encoded) == Node("cmp", n[3], <<operand, encoded>>)
NullPredicate(n, operand) == Node("null", n[3], <<operand>>)
MembershipPredicate(n, operand, encoded) == Node("in", n[4], <<operand>> \o encoded)
BetweenPredicate(operand, lower, upper) == Node("between", None, <<operand, lower, upper>>)
ColumnComparisonPredicate(n, operand, other) == Node("cmp", n[3], <<operand, other>>)
SubqueryMembershipPredicate(n, operand, subquery) == Node("insub", n[4], <<operand, subquery>>)
ExistencePredicate(n, subquery) == Node("exists", n[3], <<subquery>>)
CompoundPredicate(n, left, right) == Node(n[1], None, <<left, right>>)
NegatedPredicate(child) == Node("not", None, <<child>>)

(***************************************************************************)
(* Compilation itself, of a node that Compilable accepts.  A select is     *)
(* <<"select", state, presence>>.                                          *)
(***************************************************************************)
RECURSIVE Compiled(_, _, _, _)
Compiled(b, n, scope, with) ==
  LET Sub(s) == Compiled(b, IF with THEN <<"query", s>> ELSE <<"select", s, FALSE>>, scope, FALSE)
      In(m) == Compiled(b, m, scope, with)
      Encoded(v) == Bound(encode_comparison(b, n[2], v))
  IN CASE n[1] \in {"col", "out", "present"} -> <<_render_column_ref(n, scope), <<>>>>
       [] n[1] = "lit" -> Bound(n[3])
       [] n[1] = "agg" -> _render_aggregate(n, In(n[4]))
       [] n[1] = "case" -> CaseRoot(In(n[2]), In(n[3]), In(n[4]))
       [] n[1] = "val" -> ValueExpression(n, In(n[3]), MapSeq(n[4], LAMBDA op : In(op[2])))
       [] n[1] = "scalar" -> _compile_scalar_sql(Sub(n[3]))
       [] n[1] = "cmp" -> ComparisonPredicate(n, In(n[2]), Encoded(n[4]))
       [] n[1] = "null" -> NullPredicate(n, In(n[2]))
       [] n[1] = "in" -> MembershipPredicate(n, In(n[2]), MapSeq(n[3], Encoded))
       [] n[1] = "between" -> BetweenPredicate(In(n[2]), Encoded(n[3]), Encoded(n[4]))
       [] n[1] = "cmpcol" -> ColumnComparisonPredicate(n, In(n[2]), In(n[4]))
       [] n[1] = "insub" -> SubqueryMembershipPredicate(n, In(n[2]), Sub(n[3]))
       [] n[1] = "exists" -> ExistencePredicate(n, Sub(n[2]))
       [] n[1] \in {"and", "or"} -> CompoundPredicate(n, In(n[2]), In(n[3]))
       [] n[1] = "not" -> NegatedPredicate(In(n[2]))
       [] n[1] = "query" ->
            LET found == collect_cte_definitions(n[2], <<>>)
                Body(s) == Compiled(b, <<"select", s, TRUE>>, None, FALSE)
            IN WithDefinitions(Compiled(b, <<"select", n[2], FALSE>>, scope, FALSE),
                 MapSeq(found, LAMBDA d : d.name), MapSeq(found, LAMBDA d : Body(d.state)),
                 MapSeq(found, LAMBDA d : IF d.step = None THEN <<None, <<>>>> ELSE Body(d.step)))
       [] n[1] = "select" ->
            LET s == n[2]
                inner == InnerScope(s, scope)
                At(m, sc) == Compiled(b, m, sc, FALSE)
                Each(ms) == MapSeq(ms, LAMBDA m : At(m, inner))
                Side(side) == At(<<"select", side, FALSE>>, None)
            IN SelectSql(s, n[3], Each(s.fields),
                 IF s.compound = None
                   THEN <<_compile_source_sql(s.model, s.returns_model /\ s.joins # <<>>), <<>>>>
                   ELSE LET sides == <<Side(s.compound.left), Side(s.compound.right)>>
                        IN << <<"union", s.compound.operator, Sqls(sides), s.model.name>>, Params(sides)>>,
                 [i \in DOMAIN s.joins |-> At(s.joins[i].predicate, JoinScope(inner, i))],
                 Each(s.predicates), Each(s.groupings), Each(s.having),
                 Each(MapSeq(s.orderings, LAMBDA e : e.column)),
                 BoundLimit(s.limit), BoundLimit(s.offset))

(* compile(): a statement and its parameters, or Refused. *)
compile_select(b, s) ==
  IF Compilable(b, <<"query", s>>, None, FALSE)
    THEN Compiled(b, <<"query", s>>, None, FALSE) ELSE Refused

(***************************************************************************)
(* The placeholders of a statement in the order of its text: what the      *)
(* driver binds the parameters to.                                         *)
(***************************************************************************)
SelectNodes(q) ==
  FlattenSeq(MapSeq(q.with, LAMBDA d : IF d[3] = None THEN <<d[2]>> ELSE <<d[2], d[3]>>))
  \o MapSeq(q.items, LAMBDA i : i[1])
  \o (IF q.from[1] = "union" THEN q.from[3] ELSE <<>>)
  \o MapSeq(q.joins, LAMBDA j : j[3])
  \o q.where \o q.group \o q.having
  \o MapSeq(q.order, LAMBDA e : e[1])
  \o SelectSeq(<<q.limit, q.offset>>, LAMBDA e : e # None)

RECURSIVE Placeholders(_)
Placeholders(n) ==
  CASE n[1] = "?" -> <<n[2]>>
    [] n[1] \in {"ref", "1"} -> <<>>
    [] n[1] = "select" -> FlattenSeq(MapSeq(SelectNodes(n[2]), LAMBDA m : Placeholders(m)))
    [] OTHER -> FlattenSeq(MapSeq(n[3], LAMBDA m : Placeholders(m)))
=============================================================================
