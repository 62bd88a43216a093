---------------------------- MODULE QueryScopes ----------------------------
(***************************************************************************)
(* Which sources a statement may refer to (src/snekql/_query_scope.py) and *)
(* which definitions it must carry (src/snekql/_cte_graph.py).             *)
(*                                                                         *)
(* A ScopeResolver is [own, outer]: the statement's own sources in join    *)
(* order, and the sources of every enclosing query, innermost first.       *)
(***************************************************************************)
EXTENDS QueryStates

ScopeResolver(own, outer) == [own |-> own, outer |-> outer]
models(scope) == scope.own \o scope.outer
qualified(scope) == Len(scope.own) > 1 \/ scope.outer # <<>>

(* What makes two roles of a source indistinguishable to a type checker. *)
RECURSIVE _query_owner_identity(_)
_query_owner_identity(m) ==
  CASE m.kind = "alias" -> <<"alias", m.of, m.role>>
    [] m.kind = "cte" -> <<"cte", {_query_owner_identity(s) : s \in Items(result_models(m.def.state))}, m.role>>
    [] OTHER -> <<m.kind, m.id, m.role>>

(***************************************************************************)
(* No two visible sources share a name, ignoring case, except one table    *)
(* that is both outside and inside a subquery; no two share a role.        *)
(***************************************************************************)
ensure_unambiguous_aliases(scope) ==
  \A i, j \in DOMAIN models(scope) : i < j =>
    LET m == models(scope)[i] n == models(scope)[j]
    IN /\ casefold(m.name) = casefold(n.name) => m = n /\ m.kind = "table"
       /\ m.kind = n.kind /\ m.kind \in {"alias", "cte"} =>
            _query_owner_identity(m) # _query_owner_identity(n)

OneBackend(sources) == Cardinality({m.backend : m \in sources}) <= 1

(* enter_subquery: whether the families agree, and the scope inside. *)
MayEnter(scope, s) == OneBackend(Items(result_models(s) \o models(scope)))
enter_subquery(scope, s) == ScopeResolver(result_models(s), models(scope))

ensure_operand_in_scope(o, visible) ==
  CASE o[1] = "lit" -> visible # <<>> /\ \A m \in Items(visible) : m.backend = o[2]
    [] o[1] = "scalar" -> FALSE
    [] OTHER -> o[2] \in Items(visible)

(***************************************************************************)
(* where(): no aggregate, and the left operand in scope.  The right one,   *)
(* which may be a column of an enclosing query, is looked at when the      *)
(* predicate is compiled; so are the columns of an EXISTS.                 *)
(***************************************************************************)
RECURSIVE ensure_predicate_targets_models(_, _)
ensure_predicate_targets_models(p, scope) ==
  p[1] # "exists" =>
    /\ p[1] = "insub" => require_single_column_subquery(p[3])
    /\ \A o \in _grouping_operands(p) : o[1] # "agg"
    /\ HasOperand(p) => ensure_operand_in_scope(p[2], models(scope))
    /\ \A q \in Children(p) : ensure_predicate_targets_models(q, scope)

ensure_having_selectable(o, s, scope) ==
  /\ ensure_operand_in_scope(o, models(scope))
  /\ o[1] = "agg" \/ o \in Items(s.groupings)

(* having(): aggregates and grouped columns. *)
RECURSIVE ensure_having_targets(_, _, _)
ensure_having_targets(p, s, scope) ==
  /\ \A o \in _grouping_operands(p) : ensure_having_selectable(o, s, scope)
  /\ \A q \in Children(p) : ensure_having_targets(q, s, scope)

(* order_by(): the statement's own sources. *)
ensure_ordering_targets_models(ordering, scope) ==
  ensure_operand_in_scope(ordering.column, scope.own)

ensure_grouping_targets_models(columns, scope) ==
  \A o \in Items(columns) : ensure_operand_in_scope(o, models(scope))

(* The operands and the predicates of a state, in no order. *)
StateOperands(s) == Items(s.fields \o s.groupings \o MapSeq(s.orderings, LAMBDA e : e.column))
StatePredicates(s) == Items(s.predicates \o s.having \o MapSeq(s.joins, LAMBDA j : j.predicate))
Sides(s) == IF s.compound = None THEN {} ELSE {s.compound.left, s.compound.right}

(***************************************************************************)
(* The columns a subquery reads of its enclosing queries.  n is an operand,*)
(* a predicate or <<"select", state>>.                                     *)
(***************************************************************************)
RECURSIVE _correlated_columns(_, _)
_correlated_columns(n, bound) ==
  LET Over(nodes, within) == UNION {_correlated_columns(m, within) : m \in nodes}
  IN CASE n[1] \in {"col", "out"} -> IF n[2] \in bound THEN {} ELSE {n}
       [] n[1] = "val" -> Over(__referenced_columns__(n), bound)
       [] n[1] = "scalar" -> Over({<<"select", n[3]>>}, bound)
       [] n[1] = "select" ->
            Over(StateOperands(n[2]) \cup StatePredicates(n[2])
                   \cup {<<"select", side>> : side \in Sides(n[2])},
                 bound \cup Items(result_models(n[2])))
       [] n[1] \in {"agg", "lit", "present"} -> {}
       [] OTHER -> Over(_grouping_operands(n) \cup Children(n)
                          \cup (IF Children(n) = {}
                                  THEN {<<"select", s>> : s \in Items(_nested_selects(n))}
                                  ELSE {}), bound)

IsAggregated(s) ==
  \/ \E o \in Items(s.fields) \cup {e.column : e \in Items(s.orderings)} : o[1] = "agg"
  \/ s.groupings # <<>>
  \/ s.having # <<>>

(* Mutant of ensure_grouping_covers_projection: a scalar reads no outer column. *)
GroupingCoversColumns(s) ==
  IsAggregated(s) =>
    \A o \in UNION {__referenced_columns__(f) :
                      f \in Items(s.fields) \cup {e.column : e \in Items(s.orderings)}} :
       o[2] \in Items(result_models(s)) => o \in Items(s.groupings)

(* In an aggregated select every column that is not aggregated is grouped. *)
ensure_grouping_covers_projection(s) ==
  IsAggregated(s) =>
    \A o \in UNION ({_correlated_columns(f, {}) :
                       f \in Items(s.fields) \cup {e.column : e \in Items(s.orderings)}}
                    \cup {_correlated_columns(<<"select", nested>>, {}) :
                       nested \in UNION {Items(_nested_selects(p)) : p \in Items(s.having)}}) :
       o[2] \in Items(result_models(s)) => o \in Items(s.groupings)

ensure_assignment_targets_model(column, scope) == ensure_operand_in_scope(column, models(scope))

-----------------------------------------------------------------------------
(***************************************************************************)
(* _DefinitionGraph: a walk over a worklist of                             *)
(*   <<"query", state, scope>>           collect                           *)
(*   <<"source", source, state, scope>>  _source                           *)
(*   <<"emit", definition>>              the end of _definition            *)
(* where scope is None or <<member, seed>>, the recursive member that may  *)
(* read the seed.                                                          *)
(***************************************************************************)
CollectSteps(q, scope) ==
  (IF q.compound # None
     THEN << <<"query", q.compound.left, scope>>, <<"query", q.compound.right, scope>> >>
     ELSE MapSeq(result_models(q), LAMBDA m : <<"source", m, q, scope>>))
  \o MapSeq(SelectSeq(q.fields, LAMBDA f : f[1] = "scalar"),
            LAMBDA f : <<"query", f[3], scope>>)
  \o MapSeq(FlattenSeq(MapSeq(q.predicates \o q.having \o MapSeq(q.joins, LAMBDA j : j.predicate),
                              LAMBDA p : _nested_selects(p))),
            LAMBDA nested : <<"query", nested, scope>>)

DefinitionSteps(d, scope) ==
  << <<"query", d.state, scope>> >>
  \o (IF d.step = None THEN <<>> ELSE << <<"query", d.step, <<d.step, d.seed>> >> >>)
  \o << <<"emit", d>> >>

PhysicalNames(m) ==
  CASE m.kind = "alias" -> {casefold(m.name), casefold(m.of.name)}
    [] m.kind = "cte" -> IF casefold(m.name) = casefold(m.def.name) THEN {} ELSE {casefold(m.name)}
    [] OTHER -> {casefold(m.name)}

(* A source that is refused: a UNION that is no cte, an escaped seed, a name twice. *)
SourceRefused(n, graph) ==
  \/ n[2].kind = "union"
  \/ /\ n[2].kind = "cte" /\ n[2].def.is_seed
     /\ n[4] # <<n[3], n[2].def.id>>
  \/ /\ n[2].kind = "cte" /\ ~n[2].def.is_seed
     /\ \E d \in graph.names : casefold(d.name) = casefold(n[2].def.name) /\ d # n[2].def

RECURSIVE _DefinitionGraph(_, _)
_DefinitionGraph(work, graph) ==
  IF work = <<>> \/ graph.refused THEN graph
  ELSE LET n == Head(work)
           fresh == n[1] = "source" /\ n[2].kind = "cte" /\ ~n[2].def.is_seed
       IN _DefinitionGraph(
            (CASE n[1] = "query" -> CollectSteps(n[2], n[3])
               [] fresh /\ n[2].def \notin Items(graph.definitions) -> DefinitionSteps(n[2].def, n[4])
               [] OTHER -> <<>>) \o Tail(work),
            CASE n[1] = "query" -> graph
              [] n[1] = "emit" -> [graph EXCEPT !.definitions = Append(@, n[2])]
              [] OTHER -> [graph EXCEPT
                   !.refused = SourceRefused(n, graph),
                   !.physical = IF n[2].kind = "cte" /\ ~fresh THEN @ ELSE @ \cup PhysicalNames(n[2]),
                   !.names = IF fresh THEN @ \cup {n[2].def} ELSE @])

DefinitionsOf(graph) ==
  IF graph.refused \/ {casefold(d.name) : d \in graph.names} \cap graph.physical # {}
    THEN Refused ELSE graph.definitions

(* The definitions a statement needs, each after those it reads; or Refused. *)
collect_cte_definitions(s, outer) ==
  DefinitionsOf(_DefinitionGraph(<< <<"query", s, None>> >>,
    [definitions |-> <<>>, names |-> {}, refused |-> FALSE,
     physical |-> {casefold(m.name) : m \in Items(outer)}]))
=============================================================================
