---------------------------- MODULE QueryStates ----------------------------
(***************************************************************************)
(* The values a query is built from (src/snekql/_query_state.py,           *)
(* expressions.py, _value_expression.py, _cte.py, _output_domain.py,       *)
(* _output_provenance.py): sources, operands, predicates, query states,    *)
(* and what an output of a query is known to be.                           *)
(*                                                                         *)
(* A source is a record; two sources are the same object when they are     *)
(* equal, and id keeps apart the objects that look alike:                  *)
(*   kind     "table", "alias", "cte" or "union"                           *)
(*   columns  of a table or an alias: [name, type, nullable]               *)
(*   def      of a cte or a union: the definition it reads                 *)
(* An operand is a tuple, the tag first and the owner second:              *)
(*   <<"col", source, name>>                 a column                      *)
(*   <<"out", source, i>>                    the i-th output of a cte      *)
(*   <<"agg", source, func, operand>>        COUNT, SUM, MIN, MAX          *)
(*   <<"val", source, base, ops, nullable>>  a native value expression:    *)
(*       base a column, an output or <<"case", condition, then, else>>,    *)
(*       ops a sequence of <<operator, right>>                             *)
(*   <<"lit", backend, n>>                   a bound integer literal       *)
(*   <<"scalar", None, state>>               a scalar subquery             *)
(*   <<"present", source>>                   the marker of a cte's row     *)
(* A predicate is a tuple too:                                             *)
(*   <<"cmp", operand, op, value>>       <<"null", operand, negated>>      *)
(*   <<"in", operand, values, negated>>  <<"between", operand, lo, hi>>    *)
(*   <<"cmpcol", operand, op, other>>    <<"insub", operand, state, negated>> *)
(*   <<"exists", state, negated>>                                          *)
(*   <<"and", p, q>>   <<"or", p, q>>    <<"not", p>>                      *)
(***************************************************************************)
EXTENDS StorageCodecs, FiniteSets, SequencesExt

CONSTANT casefold(_)   \* str.casefold, on the names of an instance

Items(s) == {s[i] : i \in DOMAIN s}

(* Appending the empty sequence makes TLC evaluate the elements once. *)
MapSeq(s, F(_)) == [i \in DOMAIN s |-> F(s[i])] \o <<>>

-----------------------------------------------------------------------------
(* Sources. *)

TableSource(name, backend, columns) ==
  [kind |-> "table", id |-> name, name |-> name, backend |-> backend,
   columns |-> columns, of |-> None, role |-> None, def |-> None]

(* A class of a relation of outputs: a cte, or the result of a UNION. *)
OutputSource(kind, id, name, backend, role, def) ==
  [kind |-> kind, id |-> id, name |-> name, backend |-> backend,
   columns |-> <<>>, of |-> None, role |-> role, def |-> def]

IsOutputs(source) == source.kind \in {"cte", "union"}
ColumnOf(source, name) ==
  source.columns[CHOOSE i \in DOMAIN source.columns : source.columns[i].name = name]

(* The operands of a whole source, in order. *)
SourceFields(source) ==
  IF IsOutputs(source)
    THEN [i \in DOMAIN source.def.state.fields |-> <<"out", source, i>>]
    ELSE MapSeq(source.columns, LAMBDA c : <<"col", source, c.name>>)

-----------------------------------------------------------------------------
(***************************************************************************)
(* Predicates: the methods of a comparable operand, and its operators in   *)
(* SQL.  None is no value to compare with.                                 *)
(***************************************************************************)
_COMPARISON_SQL_OPERATORS ==
  [eq |-> "=", ne |-> "!=", lt |-> "<", lte |-> "<=", gt |-> ">", gte |-> ">="]

literal_predicate(o, method, values) ==
  IF method \in {"is_null", "is_not_null"} THEN <<"null", o, method = "is_not_null">>
  ELSE IF values = <<>> \/ None \in Items(values) THEN Refused
  ELSE CASE method \in {"in_", "not_in"} -> <<"in", o, values, method = "not_in">>
         [] method = "between" -> <<"between", o, values[1], values[2]>>
         [] OTHER -> <<"cmp", o, _COMPARISON_SQL_OPERATORS[method], values[1]>>

column_predicate(o, method, other) == <<"cmpcol", o, _COMPARISON_SQL_OPERATORS[method], other>>
subquery_predicate(o, s, negated) == <<"insub", o, s, negated>>
exists(s) == <<"exists", s, FALSE>>
not_exists(s) == <<"exists", s, TRUE>>

HasOperand(p) == p[1] \in {"cmp", "null", "in", "between", "cmpcol", "insub"}
HasOther(p) == p[1] = "cmpcol" /\ p[4][1] # "scalar"

Children(p) ==
  CASE p[1] \in {"and", "or"} -> {p[2], p[3]}
    [] p[1] = "not" -> {p[2]}
    [] OTHER -> {}

(* The operands a predicate compares itself, not those of its subqueries. *)
_grouping_operands(p) ==
  (IF HasOperand(p) THEN {p[2]} ELSE {}) \cup (IF HasOther(p) THEN {p[4]} ELSE {})

(* The subqueries of a predicate, in the order they are rendered. *)
RECURSIVE _nested_selects(_)
_nested_selects(p) ==
  CASE p[1] = "insub" -> <<p[3]>>
    [] p[1] = "exists" -> <<p[2]>>
    [] p[1] = "cmpcol" /\ p[4][1] = "scalar" -> <<p[4][3]>>
    [] p[1] \in {"and", "or"} -> _nested_selects(p[2]) \o _nested_selects(p[3])
    [] p[1] = "not" -> _nested_selects(p[2])
    [] OTHER -> <<>>

-----------------------------------------------------------------------------
(***************************************************************************)
(* Query states.  named is None or [labels, result]: the labels of the     *)
(* outputs in order, and the result model, a function from label to        *)
(* [kind, none].                                                           *)
(***************************************************************************)
SelectState(model, fields, named, returns_model) ==
  [model |-> model, fields |-> fields, named |-> named,
   returns_model |-> returns_model, distinct |-> FALSE, lock |-> None,
   predicates |-> <<>>, groupings |-> <<>>, having |-> <<>>,
   orderings |-> <<>>, limit |-> None, offset |-> None,
   joins |-> <<>>, compound |-> None]

result_models(s) == <<s.model>> \o MapSeq(s.joins, LAMBDA j : j.model)
LeftJoined(s) == {s.joins[i].model : i \in {k \in DOMAIN s.joins : s.joins[k].type = "LEFT"}}

(* The model that owns an operand; a scalar subquery and a literal have none. *)
HasOwner(o) == o[1] \notin {"lit", "scalar"}

require_single_column_subquery(s) ==
  ~s.returns_model /\ s.named = None /\ Len(s.fields) = 1

scalar(s) == IF require_single_column_subquery(s) THEN <<"scalar", None, s>> ELSE Refused

-----------------------------------------------------------------------------
(***************************************************************************)
(* What an output is known to be.  A definition's outputs are the fields   *)
(* of its state; an output of a cte is the field it is bound to.           *)
(***************************************************************************)
FieldOf(o) == o[2].def.state.fields[o[3]]

(* Whether an expression is NULL for the missing row of a LEFT JOIN. *)
RECURSIVE __nullable_when_extended__(_)
__nullable_when_extended__(e) ==
  CASE e[1] = "lit" -> e[3] = None
    [] e[1] = "case" -> __nullable_when_extended__(e[3]) \/ __nullable_when_extended__(e[4])
    [] e[1] = "val" ->
         FoldLeft(LAMBDA known, op :
                    IF op[1] = "COALESCE"
                      THEN known /\ __nullable_when_extended__(op[2])
                      ELSE known \/ __nullable_when_extended__(op[2]),
                  __nullable_when_extended__(e[3]), e[4])
    [] OTHER -> TRUE

(* The field of a state is nullable once LEFT joined, whatever its column says. *)
ExtendedBy(s, o) ==
  o[1] \in {"col", "out", "val"} /\ o[2] \in LeftJoined(s) /\ __nullable_when_extended__(o)

(* logical_type of output_domain and definition_output_domain. *)
RECURSIVE logical_type(_)
logical_type(o) ==
  CASE o[1] = "col" -> ColumnOf(o[2], o[3]).type.kind
    [] o[1] = "out" -> logical_type(FieldOf(o))
    [] o[1] = "scalar" -> logical_type(o[3].fields[1])
    [] o[1] = "agg" /\ o[3] # "COUNT" -> logical_type(o[4])
    [] OTHER -> "int"

(* nullable of output_domain and definition_output_domain. *)
RECURSIVE nullable(_)
nullable(o) ==
  CASE o[1] = "col" -> ColumnOf(o[2], o[3]).nullable
    [] o[1] = "val" -> o[5]
    [] o[1] = "agg" -> o[3] # "COUNT"
    [] o[1] = "out" -> nullable(FieldOf(o)) \/ ExtendedBy(o[2].def.state, FieldOf(o))
    [] OTHER -> o[1] = "scalar"

(***************************************************************************)
(* Where the wire value of an output comes from.  Two outputs decode the   *)
(* same way when their provenance is equal; MIN and MAX keep the wire of   *)
(* what they wrap.                                                         *)
(***************************************************************************)
RECURSIVE output_provenance(_)
output_provenance(o) ==
  CASE o[1] = "col" -> <<"column", ColumnOf(o[2], o[3]).type>>
    [] o[1] = "out" -> output_provenance(FieldOf(o))
    [] o[1] = "scalar" -> output_provenance(o[3].fields[1])
    [] o[1] = "agg" /\ o[3] = "COUNT" -> <<"count">>
    [] o[1] = "agg" /\ o[3] = "SUM" -> <<"sum", output_provenance(o[4])>>
    [] o[1] = "agg" -> output_provenance(o[4])
    [] OTHER -> <<"native">>

(* native_source: the outputs value expressions may be built on. *)
RECURSIVE IsNative(_)
IsNative(o) ==
  CASE o[1] = "col" -> ColumnOf(o[2], o[3]).type.kind = "int"
    [] o[1] = "out" -> IsNative(FieldOf(o))
    [] o[1] = "scalar" -> IsNative(o[3].fields[1])
    [] o[1] = "agg" -> o[3] = "COUNT"
    [] OTHER -> TRUE

-----------------------------------------------------------------------------
(* Operands. *)

(* Attr.__value_operand__ and _CteOutput.__value_operand__. *)
__value_operand__(o) ==
  IF o[1] = "val" THEN o
  ELSE IF o[1] \notin {"col", "out"} \/ ~IsNative(o) THEN Refused
  ELSE <<"val", o[2], o, <<>>, nullable(o)>>

(* The right side of an operation: a bound value, or an operand. *)
ValueRight(value) ==
  CASE value[1] # "lit" -> __value_operand__(value)
    [] value[1] = "lit" /\ (value[3] = None \/ InRange(value[3])) -> value
    [] OTHER -> Refused

NullableRight(right) == IF right[1] = "lit" THEN right[3] = None ELSE right[5]

Composed(left, operator, right) ==
  IF left = Refused \/ right = Refused THEN Refused
  ELSE IF right[1] = "val" /\ right[2] # left[2] THEN Refused
  ELSE <<"val", left[2], left[3], Append(left[4], <<operator, right>>),
         IF operator = "COALESCE" THEN left[5] /\ NullableRight(right)
                                  ELSE left[5] \/ NullableRight(right)>>

(* The operators of a value expression: both sides of one owner. *)
_compose(o, operator, value) == Composed(__value_operand__(o), operator, ValueRight(value))

(* when(condition).then(a).otherwise(b): one owner, no subqueries. *)
CaseOf(condition, then, otherwise) ==
  IF \/ then = Refused \/ otherwise = Refused
     \/ _nested_selects(condition) # <<>>
     \/ \E o \in _grouping_operands(condition) :
          o[1] \notin {"col", "out", "val"} \/ o[2] # then[2]
     \/ otherwise[2] # then[2]
    THEN Refused
    ELSE <<"val", then[2], <<"case", condition, then, otherwise>>, <<>>,
           then[5] \/ otherwise[5]>>

build_case(condition, then, otherwise) ==
  CaseOf(condition, __value_operand__(then), __value_operand__(otherwise))

(* sum() needs a numeric column; count(), min() and max() do not. *)
_Aggregate(func, o) ==
  IF o[1] \notin {"col", "out"} \/ (func = "SUM" /\ logical_type(o) # "int")
    THEN Refused ELSE <<"agg", o[2], func, o>>

(* The columns and outputs a value expression reads. *)
RECURSIVE __referenced_columns__(_)
__referenced_columns__(e) ==
  CASE e[1] \in {"col", "out"} -> {e}
    [] e[1] = "case" -> UNION {__referenced_columns__(o) :
                                 o \in _grouping_operands(e[2]) \cup {e[3], e[4]}}
    [] e[1] = "val" -> __referenced_columns__(e[3])
                         \cup UNION {__referenced_columns__(op[2]) : op \in Items(e[4])}
    [] OTHER -> {}

(* The bound values of an expression; ORDER BY and GROUP BY take none. *)
RECURSIVE BindsValues(_)
BindsValues(e) ==
  CASE e[1] = "case" -> TRUE
    [] e[1] = "val" -> BindsValues(e[3]) \/ \E op \in Items(e[4]) : BindsValues(op[2])
    [] OTHER -> e[1] = "lit"

(* What a comparison sends for a value: the encoder of what the wire holds. *)
RECURSIVE encode_comparison(_, _, _)
encode_comparison(b, o, v) ==
  CASE o[1] = "col" -> encode_column_value(b, ColumnOf(o[2], o[3]).type, v)
    [] o[1] = "out" -> encode_comparison(b, FieldOf(o), v)
    [] o[1] = "scalar" -> encode_comparison(b, o[3].fields[1], v)
    [] o[1] = "agg" /\ o[3] = "COUNT" -> v
    [] o[1] = "agg" /\ o[3] = "SUM" -> encode_sum_value(b, [kind |-> logical_type(o[4])], v)
    [] o[1] = "agg" -> encode_comparison(b, o[4], v)
    [] OTHER -> IF InRange(v) THEN v ELSE Refused
=============================================================================
