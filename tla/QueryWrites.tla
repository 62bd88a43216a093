---------------------------- MODULE QueryWrites ----------------------------
(***************************************************************************)
(* INSERT, UPDATE and DELETE (src/snekql/query.py, _query_compile.py,      *)
(* _query_plan.py): how a write is built and compiled, what the engine     *)
(* stores, and what the write means.                                       *)
(*                                                                         *)
(* A column of a table that is written also has unique, generated and      *)
(* default.  A row to insert is a function from column names to values,    *)
(* Pending where the database generates the value.  An assignment is       *)
(* [column, value], the value <<"value", v>>, <<"expr", operand>> or       *)
(* <<"inserted">>.                                                         *)
(***************************************************************************)
EXTENDS QueryMeaning

CONSTANT Pending   \* PENDING_GENERATION

WriteState(op, model, rows, multi) ==
  [op |-> op, model |-> model, rows |-> rows, multi |-> multi, conflict |-> None,
   assignments |-> <<>>, all |-> FALSE, predicates |-> <<>>,
   named |-> None, returning |-> FALSE, fields |-> <<>>]

(* The methods of a write; an INSERT that returns rows has chosen them. *)
WriteOffers(s) ==
  CASE s.op = "insert" -> {"on_conflict"} \cup (IF s.returning THEN {} ELSE {"returning", "returning_as"})
    [] s.op = "update" -> {"set", "all", "where", "returning", "returning_as"}
    [] s.op = "delete" -> {"all", "where", "returning", "returning_as"}

WriteScope(model) == ScopeResolver(<<model>>, <<>>)
ColumnNames(model) == MapSeq(model.columns, LAMBDA c : c.name)
PositionOf(model, name) == CHOOSE i \in DOMAIN model.columns : model.columns[i].name = name

-----------------------------------------------------------------------------
(* The operations that build a write. *)

build_insert(model, row) == WriteState("insert", model, <<row>>, FALSE)
build_insert_many(model, rows) == WriteState("insert", model, rows, TRUE)
build_update(model) == WriteState("update", model, <<>>, FALSE)
build_delete(model) == WriteState("delete", model, <<>>, FALSE)

(* Targets and assignments belong to the inserted model. *)
on_conflict(s, action, targets, assignments) ==
  IF \/ targets = <<>> \/ \E t \in Items(targets) : t[2] # s.model
     \/ action = "update" /\ assignments = <<>>
     \/ \E a \in Items(assignments) : ~ensure_assignment_targets_model(a.column, WriteScope(s.model))
    THEN Refused
    ELSE [s EXCEPT !.conflict = [action |-> action, assignments |-> assignments,
                                 targets |-> MapSeq(targets, LAMBDA t : t[3])]]

_update_set(s, assignments) ==
  IF \/ assignments = <<>>
     \/ \E a \in Items(assignments) : ~ensure_assignment_targets_model(a.column, WriteScope(s.model))
    THEN Refused ELSE [s EXCEPT !.assignments = @ \o assignments]

(* _update_all and _delete_all, _update_where and _delete_where: one or the other. *)
WriteAll(s) == IF s.predicates # <<>> THEN Refused ELSE [s EXCEPT !.all = TRUE]

WriteWhere(s, p) ==
  IF s.all \/ ~ensure_predicate_targets_models(p, WriteScope(s.model))
    THEN Refused ELSE [s EXCEPT !.predicates = Append(@, p)]

(* RETURNING lists columns of the written model. *)
require_model_returning_fields(model, fields) ==
  \A f \in Items(fields) : f[1] = "col" /\ f[2] = model

(* returning(): all columns, or some. *)
WriteReturning(s, fields) ==
  IF ~require_model_returning_fields(s.model, fields) THEN Refused
  ELSE IF s.op = "insert" /\ fields = <<>> THEN [s EXCEPT !.returning = TRUE]
  ELSE [s EXCEPT !.returning = TRUE, !.fields = fields, !.named = None]

_named_returning_state(s, result, labels, fields) ==
  IF \/ ~_named_contract(result, labels)
     \/ ~require_model_returning_fields(s.model, fields)
     \/ \E i \in DOMAIN fields : ~check_binding(result[labels[i]], fields[i], nullable(fields[i]))
    THEN Refused
    ELSE [s EXCEPT !.returning = TRUE, !.fields = fields,
                   !.named = [labels |-> labels, result |-> result]]

(* Attr.to_expr: an expression of the same model, not NULL for a column that *)
(* may not be; native values all have one domain here, the integers.         *)
to_expr(column, e) ==
  IF \/ __value_operand__(column) = Refused \/ e = Refused THEN Refused
  ELSE IF e[2] # column[2] \/ (e[5] /\ ~nullable(column)) THEN Refused
  ELSE [column |-> column, value |-> <<"expr", e>>]

-----------------------------------------------------------------------------
(* Compilation. *)

(* The columns a row sets: those whose value is not left to the database. *)
SetColumns(model, row) == SelectSeq(ColumnNames(model), LAMBDA c : row[c] # Pending)
Encoded(b, column, v) == encode_write_value(b, ColumnOf(column[2], column[3]).type, v)

ReturningOf(s) ==
  CASE ~s.returning -> None
    [] s.returning /\ s.fields = <<>> -> SourceFields(s.model)
    [] OTHER -> s.fields

(* Mutant of _ensure_expression_assignment_dependencies: nothing is compared. *)
AnyDependency(s) == TRUE

(* An expression reads no column that another assignment of the statement writes. *)
_ensure_expression_assignment_dependencies(s) ==
  \A i \in DOMAIN s.assignments : s.assignments[i].value[1] = "expr" =>
    \A j \in DOMAIN s.assignments :
      s.assignments[j].column \in __referenced_columns__(s.assignments[i].value[2]) => i = j

AssignmentEncodes(b, a) ==
  a.value[1] = "value" => Encoded(b, a.column, a.value[2]) # Refused

ConflictCompiles(b, s) ==
  s.conflict # None =>
    /\ s.conflict.action = "nothing" => ~s.returning
    /\ \A a \in Items(s.conflict.assignments) : a.value[1] # "expr" /\ AssignmentEncodes(b, a)

(* One VALUES list for all rows, so all set the same columns. *)
InsertCompiles(b, s) ==
  /\ s.rows # <<>>
  /\ \A row \in Items(s.rows) :
       /\ SetColumns(s.model, row) = SetColumns(s.model, s.rows[1])
       /\ \A c \in Items(SetColumns(s.model, row)) :
            Encoded(b, <<"col", s.model, c>>, row[c]) # Refused
  /\ SetColumns(s.model, s.rows[1]) = <<>> => Len(s.rows) = 1 /\ s.conflict = None
  /\ ConflictCompiles(b, s)

UpdateCompiles(b, s) ==
  /\ s.assignments # <<>>
  /\ s.all \/ s.predicates # <<>>
  /\ _ensure_expression_assignment_dependencies(s)
  /\ \A a \in Items(s.assignments) : a.value[1] # "inserted" /\ AssignmentEncodes(b, a)
  /\ s.returning => b = "sqlite"

DeleteCompiles(b, s) == (s.all \/ s.predicates # <<>>) /\ (s.returning => b = "sqlite")

WriteCompiles(b, s) ==
  /\ CASE s.op = "insert" -> InsertCompiles(b, s)
       [] s.op = "update" -> UpdateCompiles(b, s)
       [] s.op = "delete" -> DeleteCompiles(b, s)
  /\ \A p \in Items(s.predicates) : Compilable(b, p, WriteScope(s.model), TRUE)

(* SET column = value, for UPDATE and for a conflict. *)
CompiledAssignment(b, a) ==
  CASE a.value[1] = "value" -> Bound(Encoded(b, a.column, a.value[2]))
    [] a.value[1] = "inserted" -> << <<"inserted", a.column[3], <<>>>>, <<>>>>
    [] a.value[1] = "expr" -> Compiled(b, a.value[2], WriteScope(a.column[2]), FALSE)

WriteSql(b, s, columns, rows, set, where) ==
  <<[op |-> s.op, table |-> s.model.name, columns |-> columns,
     rows |-> MapSeq(rows, Sqls), conflict |-> IF s.conflict = None THEN None ELSE s.conflict.action,
     set |-> [i \in DOMAIN set |->
                <<(IF s.conflict = None THEN s.assignments ELSE s.conflict.assignments)[i].column[3], set[i][1]>>],
     where |-> Sqls(where), returning |-> ReturningOf(s)],
    FlattenSeq(MapSeq(rows, Params)) \o Params(set) \o Params(where)>>

compile_write(b, s) ==
  IF ~WriteCompiles(b, s) THEN Refused
  ELSE LET columns == IF s.op = "insert" THEN SetColumns(s.model, s.rows[1]) ELSE <<>>
           Row(row) == MapSeq(columns, LAMBDA c : Bound(Encoded(b, <<"col", s.model, c>>, row[c])))
       IN WriteSql(b, s, columns, MapSeq(s.rows, Row),
            MapSeq(IF s.conflict = None THEN s.assignments ELSE s.conflict.assignments,
                   LAMBDA a : CompiledAssignment(b, a)),
            MapSeq(s.predicates, LAMBDA p : Compiled(b, p, WriteScope(s.model), TRUE)))

WritePlaceholders(w) ==
  FlattenSeq(MapSeq(FlattenSeq(w.rows) \o MapSeq(w.set, LAMBDA a : a[2]) \o w.where,
                    LAMBDA n : Placeholders(n)))
=============================================================================
