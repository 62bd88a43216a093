---------------------------- MODULE QueryResults ----------------------------
(***************************************************************************)
(* From the driver's rows to the caller's values                           *)
(* (src/snekql/_value_decode.py, _materialization_shape.py,                *)
(* _query_materialize.py, _named_projection.py, _query_plan.py).           *)
(*                                                                         *)
(* A row of a table is the tuple of its values, a named row a function     *)
(* from its labels; Refused stands for a value that fails validation.      *)
(***************************************************************************)
EXTENDS QueryEngine

(***************************************************************************)
(* The decoder of a projected field.  nullable_models are the sources that *)
(* are LEFT joined where the field is selected: a missing row of theirs is *)
(* NULL whatever the column says.  An output is decoded by the field of    *)
(* its definition, among that definition's joins.                          *)
(***************************************************************************)
RECURSIVE resolve_projection_decoder(_, _, _)
resolve_projection_decoder(o, nullable_models, raw) ==
  CASE o[1] = "out" ->
         IF raw = None /\ o[2] \in nullable_models THEN None
         ELSE resolve_projection_decoder(FieldOf(o), LeftJoined(o[2].def.state), raw)
    [] o[1] = "col" ->
         IF raw = None /\ o[2] \in nullable_models THEN None
         ELSE decode(ColumnOf(o[2], o[3]), raw)
    [] o[1] = "val" ->
         IF raw = None /\ ~o[5] /\ ~(o[2] \in nullable_models /\ __nullable_when_extended__(o))
           THEN Refused ELSE raw
    [] o[1] = "lit" -> IF raw = None THEN Refused ELSE raw
    [] o[1] = "scalar" ->
         IF raw = None THEN None ELSE resolve_projection_decoder(o[3].fields[1], {}, raw)
    [] o[1] = "agg" ->
         IF raw = None \/ o[3] \in {"COUNT", "SUM"} THEN raw
         ELSE resolve_projection_decoder(o[4], {}, raw)

(* A row with a value that was refused is refused. *)
AnyRefused(values) == \E i \in DOMAIN values : values[i] = Refused
Whole(values) == IF AnyRefused(values) THEN Refused ELSE values

(* NamedProjection.materialize: strict, so None needs a field that admits it. *)
NamedRow(named, values) ==
  IF values = Refused THEN Refused
  ELSE IF \E i \in DOMAIN values : values[i] = None /\ ~named.result[named.labels[i]].none
         THEN Refused
  ELSE [l \in Items(named.labels) |-> values[CHOOSE i \in DOMAIN values : named.labels[i] = l]]

decode_model_values(source, row) ==
  Whole([i \in DOMAIN source.columns |-> decode(source.columns[i], row[i])])

(* Mutant of IsAbsent: a row of NULLs is taken for a missing row. *)
AbsentWhenNull(source, row) == \A i \in DOMAIN SourceFields(source) : row[i] = None

(* A missing row: its marker is NULL, or all of it when no marker is needed. *)
IsAbsent(source, row) ==
  IF HasPresence(source) THEN row[Len(row)] = None ELSE \A v \in Items(row) : v = None

(* SourceRowShape.materialize. *)
SourceRow(source, row, left) ==
  CASE left /\ IsAbsent(source, row) -> None
    [] ~(left /\ IsAbsent(source, row)) /\ IsOutputs(source) ->
         NamedRow(source.def.state.named,
                  Whole([i \in DOMAIN SourceFields(source) |->
                           resolve_projection_decoder(<<"out", source, i>>, {}, row[i])]))
    [] OTHER -> decode_model_values(source, row)

(* The span of the k-th source in a joined row: its offset and its width. *)
SpanStart(sources, k) == Len(JoinedFields(SubSeq(sources, 1, k - 1)))
JoinedRow(s, row) ==
  LET sources == result_models(s)
      Span(k) == SubSeq(row, SpanStart(sources, k) + 1, SpanStart(sources, k + 1))
  IN Whole([k \in DOMAIN sources |->
              SourceRow(sources[k], Span(k), k > 1 /\ s.joins[k - 1].type = "LEFT")])

(* A projection: one value, several, or a named row. *)
Shaped(s, values) ==
  CASE s.named # None -> NamedRow(s.named, values)
    [] s.named = None /\ values # Refused /\ Len(s.fields) = 1 -> values[1]
    [] OTHER -> values

materialize(s, row) ==
  CASE s.returns_model /\ s.joins # <<>> -> JoinedRow(s, row)
    [] s.returns_model /\ s.joins = <<>> -> decode_model_values(s.model, row)
    [] OTHER -> Shaped(s, Whole([i \in DOMAIN s.fields |->
                  resolve_projection_decoder(s.fields[i], LeftJoined(s), row[i])]))

-----------------------------------------------------------------------------
(* The largest number of rows a consumption asks the driver for. *)
FetchLimit(consumption) == IF consumption = "many" THEN None ELSE 2

(* SelectPlan: what fetch_all, fetch_one and fetch_one_or_none make of the rows. *)
SelectPlan(consumption, rows) ==
  CASE Len(rows) > 1 /\ consumption # "many" -> <<"MultipleResults">>
    [] consumption # "many" /\ rows = <<>> -> <<IF consumption = "one" THEN "NoResult" ELSE "none">>
    [] AnyRefused(rows) -> <<"invalid">>
    [] consumption = "many" -> <<"rows", rows>>
    [] OTHER -> <<"row", rows[1]>>

(* validate_select_consumption: one value and None would be confused. *)
validate_select_consumption(class, consumption) ==
  ~(class = "value" /\ consumption = "one_or_none")

(* A session runs the queries of its own backend. *)
compile_select_plan(b, s) == IF s.model.backend # b THEN Refused ELSE compile_select(b, s)

(* The outcome of a fetch that compiled: rejected by the engine, or planned. *)
Fetched(s, consumption, answer) ==
  IF answer = Refused THEN <<"database">>
  ELSE SelectPlan(consumption,
         MapSeq(Window(answer, FetchLimit(consumption), None), LAMBDA r : materialize(s, r)))
=============================================================================
