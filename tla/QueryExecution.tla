--------------------------- MODULE QueryExecution ---------------------------
(***************************************************************************)
(* Executing a write: what the engine stores and returns (external), what  *)
(* the write means, and what the caller is given                           *)
(* (src/snekql/_query_plan.py, _query_materialize.py).                     *)
(*                                                                         *)
(* The engine keeps one number per value, exact in the unit of its type:   *)
(* thousandths of a DECIMAL, microseconds, the instant of an ISO datetime. *)
(***************************************************************************)
EXTENDS QueryWrites

Thousandths(v) == v[1] * Power10[v[2] + 3]

(* The number a logical value is. *)
Exact(t, v) ==
  CASE v = None -> None
    [] v # None /\ t.kind = "dec" -> Thousandths(v)
    [] v # None /\ t.kind = "time" -> v[2]
    [] v # None /\ t.kind = "offset" -> v[1] - v[2]
    [] OTHER -> v

(***************************************************************************)
(* What a column keeps of a wire value: a DECIMAL is rounded to its scale, *)
(* a DATETIME is cut to its precision, NaN becomes NULL.  Refused is an    *)
(* error of the driver or the server.                                      *)
(***************************************************************************)
Stored(b, t, w) ==
  CASE w = None -> None
    [] w # None /\ t.kind = "int" -> IF InRange(w) THEN w ELSE Refused
    [] w # None /\ t.kind = "dec" ->
         ((Thousandths(w) + Power10[3 - t.scale] \div 2) \div Power10[3 - t.scale]) * Power10[3 - t.scale]
    [] w # None /\ t.kind = "time" ->
         IF w[1] THEN w[2] - (w[2] % Power10[6 - t.precision]) ELSE Refused
    [] w # None /\ t.kind = "offset" -> w[1] - (w[2] - (w[2] % Minute))
    [] w # None /\ t.kind = "text" -> IF b = "mariadb" /\ w > t.length THEN Refused ELSE w
    [] w # None /\ t.kind = "real" -> IF w = NaN THEN None ELSE w
    [] OTHER -> w

(* What a column makes of what it keeps. *)
DecodedRow(model, row) == [i \in DOMAIN row |-> decode(model.columns[i], row[i])]
EncodedRow(b, model, row) == [i \in DOMAIN row |-> encode_write_value(b, model.columns[i].type, row[i])]

-----------------------------------------------------------------------------
(* The algebra of writes. *)

(* The value the database supplies: a default, or the next key. *)
Supplied(model, i, rows) ==
  IF model.columns[i].generated
    THEN 1 + FoldLeft(Larger, 0, MapSeq(rows, LAMBDA r : r[i]))
    ELSE model.columns[i].default

(* The rows that hold a key of a new row. *)
Clashes(model, rows, new) ==
  {k \in DOMAIN rows : \E i \in DOMAIN model.columns :
     model.columns[i].unique /\ new[i] # None /\ rows[k][i] = new[i]}

(* New(row, rows) is the row to insert, Change(old, new) what a conflict makes of it. *)
InsertRows(model, existing, news, action, New(_, _), Change(_, _)) ==
  LET One(done, row) ==
        LET new == New(row, done.rows)
            clashes == Clashes(model, done.rows, new)
            k == CHOOSE c \in clashes : TRUE
        IN CASE done.failed -> done
             [] ~done.failed /\ clashes = {} ->
                  [done EXCEPT !.rows = Append(@, new), !.out = Append(@, new), !.count = @ + 1]
             [] ~done.failed /\ clashes # {} /\ action = "update" ->
                  [done EXCEPT !.rows[k] = Change(done.rows[k], new),
                               !.out = Append(@, Change(done.rows[k], new)), !.count = @ + 1]
             [] ~done.failed /\ clashes # {} /\ action = "nothing" -> done
             [] OTHER -> [done EXCEPT !.failed = TRUE]
  IN FoldLeft(One, [rows |-> existing, out |-> <<>>, count |-> 0, failed |-> FALSE], news)

(* The rows at some positions of a table, in its order. *)
RowsAt(rows, hit) ==
  MapSeq(SelectSeq([k \in DOMAIN rows |-> k], LAMBDA k : k \in hit), LAMBDA k : rows[k])

(* updated[k] is what the UPDATE makes of the row at a position k it matches.
   MariaDB counts the rows an UPDATE changes, SQLite those it matches. *)
UpdateRows(b, existing, updated) ==
  LET rows == [k \in DOMAIN existing |-> IF k \in DOMAIN updated THEN updated[k] ELSE existing[k]]
      changed == {k \in DOMAIN updated : updated[k] # existing[k]}
  IN [rows |-> rows, out |-> RowsAt(rows, DOMAIN updated), failed |-> FALSE,
      count |-> Cardinality(IF b = "mariadb" THEN changed ELSE DOMAIN updated)]

DeleteRows(existing, hit) ==
  [rows |-> RowsAt(existing, DOMAIN existing \ hit), out |-> RowsAt(existing, hit),
   failed |-> FALSE, count |-> Cardinality(hit)]

-----------------------------------------------------------------------------
(* The engine on a compiled write: MariaDB assigns in turn, SQLite at once. *)
WriteEnv(w, model, row) ==
  <<[entries |-> << <<w.table, ColumnNames(model)>> >>, grouped |-> None, rows |-> << <<row>> >>]>>

AssignedBy(b, w, model, db, old, new) ==
  LET Value(n, row) == IF n[1] = "inserted" THEN new[PositionOf(model, n[2])]
                       ELSE Eval(n, WriteEnv(w, model, row), db)
      Keep(row, a) == [row EXCEPT ![PositionOf(model, a[1])] =
                         Stored(b, ColumnOf(model, a[1]).type, Value(a[2], IF b = "mariadb" THEN row ELSE old))]
  IN FoldLeft(Keep, old, w.set)

StoredNew(b, w, model, values, rows) ==
  [i \in DOMAIN model.columns |->
     LET at == {k \in DOMAIN w.columns : w.columns[k] = model.columns[i].name}
     IN IF at = {} THEN Supplied(model, i, rows)
        ELSE LET n == values[CHOOSE k \in at : TRUE]
             IN IF n[2] = None THEN None ELSE Stored(b, model.columns[i].type, n[2])]

Applied(b, w, model, db) ==
  LET rows == Lookup(db, w.table).rows
      hit == {k \in DOMAIN rows :
                All3(MapSeq(w.where, LAMBDA n : Eval(n, WriteEnv(w, model, rows[k]), db))) = TRUE}
  IN CASE w.op = "insert" ->
            InsertRows(model, rows, w.rows, w.conflict,
                       LAMBDA values, known : StoredNew(b, w, model, values, known),
                       LAMBDA old, new : AssignedBy(b, w, model, db, old, new))
       [] w.op = "update" -> UpdateRows(b, rows, [k \in hit |-> AssignedBy(b, w, model, db, rows[k], rows[k])])
       [] w.op = "delete" -> DeleteRows(rows, hit)

WriteAccepted(compiled, model, db) ==
  /\ compiled[2] = WritePlaceholders(compiled[1])
  /\ \A n \in Items(compiled[1].where \o MapSeq(compiled[1].set, LAMBDA a : a[2])) :
       n[1] = "inserted" \/ Accepts(n, WriteEnv(compiled[1], model, <<>>), Catalog(db))

-----------------------------------------------------------------------------
(* What a write means, on logical values; every assignment reads the old row. *)
MeantEnv(model, row) == <<[sources |-> <<model>>, rows |-> << <<row>> >>]>>

MeantChange(model, assignments, db, old, new) ==
  LET Value(a) ==
        CASE a.value[1] = "value" -> Exact(ColumnOf(model, a.column[3]).type, a.value[2])
          [] a.value[1] = "inserted" -> new[PositionOf(model, a.column[3])]
          [] a.value[1] = "expr" -> Denote(a.value[2], MeantEnv(model, old), db)
  IN FoldLeft(LAMBDA row, a : [row EXCEPT ![PositionOf(model, a.column[3])] = Value(a)],
              old, assignments)

MeantNew(model, row, rows) ==
  [i \in DOMAIN model.columns |->
     LET c == model.columns[i]
     IN IF row[c.name] = Pending THEN Supplied(model, i, rows) ELSE Exact(c.type, row[c.name])]

MeantWrite(b, s, db) ==
  LET rows == db[s.model.id]
      hit == {k \in DOMAIN rows :
                \A p \in Items(s.predicates) : Denote(p, MeantEnv(s.model, rows[k]), db) = TRUE}
  IN CASE s.op = "insert" ->
            InsertRows(s.model, rows, s.rows, IF s.conflict = None THEN None ELSE s.conflict.action,
                       LAMBDA row, known : MeantNew(s.model, row, known),
                       LAMBDA old, new : MeantChange(s.model, s.conflict.assignments, db, old, new))
       [] s.op = "update" ->
            UpdateRows(b, rows, [k \in hit |-> MeantChange(s.model, s.assignments, db, rows[k], rows[k])])
       [] s.op = "delete" -> DeleteRows(rows, hit)

-----------------------------------------------------------------------------
(* The columns a RETURNING clause names, as positions of the written row. *)
ReturningRow(s, row) ==
  MapSeq(ReturningOf(s), LAMBDA f : row[PositionOf(s.model, f[3])])

(* materialize_write_returning_rows_for_backend, of one row. *)
ReturnedRow(s, row) ==
  LET fields == ReturningOf(s)
      values == Whole([i \in DOMAIN fields |-> decode(ColumnOf(s.model, fields[i][3]), row[i])])
  IN IF s.fields = <<>> THEN values ELSE Shaped(s, values)

(* WritePlan: nothing, a count, one row, or all rows. *)
WritePlan(s, rows, count) ==
  CASE AnyRefused(rows) -> <<"invalid">>
    [] ~s.returning /\ s.op = "insert" -> <<"done">>
    [] ~s.returning /\ s.op # "insert" -> <<"count", count>>
    [] s.returning /\ s.op = "insert" /\ ~s.multi ->
         IF Len(rows) = 1 THEN <<"row", rows[1]>> ELSE <<"invalid">>
    [] OTHER -> <<"rows", rows>>

WriteOutcome(s, done, returned) ==
  IF done.failed THEN <<"IntegrityError">>
  ELSE WritePlan(s, IF s.returning THEN returned ELSE <<>>, done.count)

(* An empty batch executes nothing; a session runs the writes of its own backend. *)
IsEmptyBatch(s) == s.op = "insert" /\ s.rows = <<>>
compile_write_plan(b, s) == IF s.model.backend # b THEN Refused ELSE compile_write(b, s)
=============================================================================
