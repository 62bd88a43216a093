------------------------------ MODULE Queries ------------------------------
(***************************************************************************)
(* A caller of the query builder: it makes sources and subqueries, builds  *)
(* reads and writes step by step, and runs them on a database of one of    *)
(* the two backends.  One action per operation of the public classes of    *)
(* src/snekql/query.py and of the verbs of sqlite/verbs.py and             *)
(* mariadb/verbs.py.  An operation that raises leaves the query as it was. *)
(*                                                                         *)
(* The arguments of the operations are constants: for every kind of        *)
(* question (a case) the sets the caller draws them from.                  *)
(***************************************************************************)
EXTENDS QueryExecution

CONSTANTS Cases,                     \* the kinds of question
          MaxOps(_),                 \* accepted operations per behaviour of a case
          Tables(_),                 \* the tables of a backend's database
          Library(_, _),             \* the sources of a case and a backend at the start
          Kept(_, _),                \* the queries the caller holds at the start
          Data(_),                   \* the contents of the tables of a case
          SelectArgs(_, _), Projections(_, _), Predicates(_, _, _), Havings(_, _),
          Orderings(_, _), Groupings(_, _), Joins(_, _), Bounds(_),
          AliasArgs(_), CteArgs(_), RecursiveArgs(_), RecursiveStep(_, _), Waits(_),
          WriteArgs(_, _), Conflicts(_, _), Assignments(_, _), Returnings(_, _),
          NamedReturnings(_, _),
          FieldOrder(_)              \* the declaration order of a result model

VARIABLES backend,   \* of the session
          case,
          library,   \* the tables, aliases and ctes the caller holds
          saved,     \* the queries the caller holds to nest or to combine
          query,     \* None, or [class, state]
          stored,    \* per table, its rows as the engine keeps them
          meant,     \* per table, its rows as the caller's writes mean them
          outcome,   \* of the last call; None after an accepted operation
          expected,  \* what the last run means, None if it was no run
          ops        \* accepted operations so far

vars == <<backend, case, library, saved, query, stored, meant, outcome, expected, ops>>
held == <<backend, case, stored, meant>>

WriteClasses == {"insert", "insert_many", "update", "delete"}
IsRead == query # None /\ query.class \notin WriteClasses
IsWrite == query # None /\ query.class \in WriteClasses

(***************************************************************************)
(* A call that raised or fetched left the query as it was, so what may     *)
(* follow it is what may follow the call before; the caller goes on from   *)
(* there, and after a write from the new tables.                           *)
(***************************************************************************)
MayBuild == ops < MaxOps(case) /\ (outcome = None \/ query = None)

Init ==
  /\ case \in Cases
  /\ backend \in {"sqlite", "mariadb"}
  /\ library = Library(case, backend)
  /\ saved = Kept(case, backend)
  /\ query = None
  /\ meant \in Data(case)
  /\ stored = [t \in DOMAIN meant |->
                 LET model == CHOOSE m \in Tables(backend) : m.id = t
                 IN MapSeq(meant[t], LAMBDA r : EncodedRow(backend, model, r))]
  /\ outcome = None /\ expected = None /\ ops = 0

-----------------------------------------------------------------------------
Raised == outcome' = <<"refused">> /\ expected' = None /\ UNCHANGED <<library, saved, query, ops, held>>

(* An operation that gives a query its next state, or raises. *)
Became(class, s) ==
  IF s = Refused THEN Raised
  ELSE /\ query' = [class |-> class, state |-> s]
       /\ ops' = ops + 1 /\ outcome' = None /\ expected' = None
       /\ UNCHANGED <<library, saved, held>>

(* An operation that gives the caller a new source, or raises. *)
Gained(source) ==
  IF source = Refused THEN Raised
  ELSE /\ library' = Append(library, source)
       /\ query' = None
       /\ ops' = ops + 1 /\ outcome' = None /\ expected' = None
       /\ UNCHANGED <<saved, held>>

Offered(op) == MayBuild /\ IsRead /\ op \in Offers(query.class)
WriteOffered(op) == MayBuild /\ IsWrite /\ op \in WriteOffers(query.state)

(* A predicate is made before the query is given it. *)
Given(p, s) == IF p = Refused THEN Refused ELSE s

-----------------------------------------------------------------------------
(* Sources. *)

alias == MayBuild /\ query = None /\ \E a \in AliasArgs(case), m \in Items(library) :
  /\ \A s \in Items(library) : s.role # a[1]
  /\ Gained(build_alias(m, a[1], a[2]))

cte == Offered("cte") /\ \E a \in CteArgs(case) :
  /\ \A s \in Items(library) : s.role # a[1]
  /\ Gained(build_cte(query.state, a[1], a[2]))

cte_alias == MayBuild /\ query = None /\ \E a \in CteArgs(case), m \in Items(library) :
  /\ m.kind = "cte" /\ \A s \in Items(library) : s.role # a[1]
  /\ Gained(build_cte_alias(m, a[1], a[2]))

recursive_cte == Offered("cte") /\ query.class = "named" /\ \E a \in RecursiveArgs(case) :
  /\ \A s \in Items(library) : s.role # a[1]
  /\ LET anchor == RecursiveAnchor(query.state, a[1], a[2])
     IN Gained(build_recursive_cte(query.state, anchor, FieldOrder(query.state.named.result),
                 IF anchor = Refused THEN Refused ELSE RecursiveStep(case, SeedOf(anchor))))

(* A query is kept, to be the right side of a UNION or a subquery. *)
keep == MayBuild /\ IsRead
  /\ saved' = saved \cup {query}
  /\ query' = None /\ ops' = ops + 1 /\ outcome' = None /\ expected' = None
  /\ UNCHANGED <<library, held>>

-----------------------------------------------------------------------------
(* Reads. *)

select == MayBuild /\ query = None
  /\ \E a \in SelectArgs(case, library), b \in {"sqlite", "mariadb"} :
       IF a[1] = "source" THEN Became("model", select_verb(b, SelectSource(a[2])))
       ELSE Became(FieldsClass(a[2]), select_verb(b, SelectFields(a[2])))

project == Offered("project") /\ \E a \in Projections(case, library) :
  Became("named", _project_state(query.state, a[1], a[2], a[3]))

where == Offered("where") /\ \E p \in Predicates(case, library, saved) :
  Became(query.class, Given(p, _select_where(query.state, p)))

order_by == Offered("order_by") /\ \E o \in Orderings(case, library) :
  Became(query.class, _select_order_by(query.state, o))

(* The outputs of a combination are columns of its own. *)
order_combined == Offered("order_by") /\ query.class = "compound"
  /\ \E i \in DOMAIN query.state.fields :
       Became(query.class, _select_order_by(query.state,
                             [column |-> query.state.fields[i], direction |-> "DESC"]))

group_by == Offered("group_by") /\ \E o \in Groupings(case, library) :
  Became(query.class, _select_group_by(query.state, o))

having == Offered("having") /\ \E p \in Havings(case, library) :
  Became(query.class, _select_having(query.state, p))

Projected == query.class \in {"value", "tuple"}

join == Offered("join") /\ ~Projected /\ \E a \in Joins(case, library) :
  Became("join", _select_join(query.state, a[1], a[2], "INNER", FALSE))

left_join == Offered("left_join") /\ ~Projected /\ \E a \in Joins(case, library) :
  Became("join", _select_join(query.state, a[1], a[2], "LEFT", FALSE))

(* A projection keeps its fields, and so its class, and has no optional side. *)
join_projected == Offered("join") /\ Projected /\ \E a \in Joins(case, library) :
  Became(query.class, _select_join(query.state, a[1], a[2], "INNER", TRUE))

left_join_projected == Offered("left_join") /\ Projected /\ Raised

distinct == Offered("distinct") /\ ~query.state.distinct
  /\ Became(query.class, _select_distinct(query.state))

limit == Offered("limit") /\ \E n \in Bounds(case) :
  Became(query.class, _select_limit(query.state, n))

offset == Offered("offset") /\ \E n \in Bounds(case) :
  Became(query.class, _select_offset(query.state, n))

for_update == Offered("for_update") /\ \E wait \in Waits(case) :
  Became(query.class, _select_for_update(query.state, wait))

union == Offered("union") /\ \E other \in saved, operator \in {"UNION", "UNION ALL"} :
  /\ other.class \in {"named", "compound"}
  /\ Became("compound", build_compound(query.state, other.state, operator,
                                         FieldOrder(query.state.named.result)))

(* fetch_all, fetch_one, fetch_one_or_none: compile, execute, decode. *)
EngineDb == LET one(m) == <<casefold(m.name), [cols |-> ColumnNames(m), rows |-> stored[m.id]]>>
            IN MapSeq(SetToSeq({m \in Tables(backend) : m.id \in DOMAIN stored}), one)

Fetch(compiled, answer, rows) == \E consumption \in {"many", "one", "one_or_none"} :
  IF \/ ~validate_select_consumption(query.class, consumption)
     \/ compiled = Refused
    THEN outcome' = <<"refused">> /\ expected' = None
    ELSE /\ outcome' = Fetched(query.state, consumption, answer)
         /\ expected' = MeantRead(query.state, consumption, rows)

fetch ==
  /\ IsRead /\ outcome = None
  /\ \E compiled \in {compile_select_plan(backend, query.state)} :
     \E answer \in {IF compiled = Refused THEN Refused ELSE Answer(compiled, EngineDb)},
        rows \in {IF compiled = Refused THEN Refused ELSE Denote(<<"select", query.state>>, <<>>, meant)} :
       Fetch(compiled, answer, rows)
  /\ UNCHANGED <<library, saved, query, ops, held>>

-----------------------------------------------------------------------------
(* Writes. *)

begin_write == MayBuild /\ query = None
  /\ \E a \in WriteArgs(case, library), b \in {"sqlite", "mariadb"} :
       Became(a[1], write_verb(b, CASE a[1] = "insert" -> build_insert(a[2], a[3])
                                    [] a[1] = "insert_many" -> build_insert_many(a[2], a[3])
                                    [] a[1] = "update" -> build_update(a[2])
                                    [] a[1] = "delete" -> build_delete(a[2])))

on_conflict_do == WriteOffered("on_conflict")
  /\ \E a \in Conflicts(case, library) :
       Became(query.class, on_conflict(query.state, a[1], a[2], a[3]))

set == WriteOffered("set")
  /\ \E a \in Assignments(case, library) : Became(query.class, _update_set(query.state, a))

all == WriteOffered("all") /\ Became(query.class, WriteAll(query.state))

write_where == WriteOffered("where")
  /\ \E p \in Predicates(case, library, saved) : Became(query.class, WriteWhere(query.state, p))

returning == WriteOffered("returning")
  /\ \E fields \in Returnings(case, library) : Became(query.class, WriteReturning(query.state, fields))

returning_as == WriteOffered("returning_as")
  /\ \E a \in NamedReturnings(case, library) :
       Became(query.class, _named_returning_state(query.state, a[1], a[2], a[3]))

(* The texts whose length only the server checks: the encoder knows the    *)
(* ceiling, and not the shorter or the longer length of a column.          *)
ServerLimited(t) == backend = "mariadb" /\ t.kind = "text" /\ t.length # TextMax

(* The engine's refusal: "capacity" when it is only of texts that exceed a *)
(* declared length, "database" otherwise.                                  *)
Failure(model, rows) ==
  IF \A k \in DOMAIN rows : \A i \in DOMAIN model.columns :
       rows[k][i] = Refused => ServerLimited(model.columns[i].type)
    THEN <<"capacity">> ELSE <<"database">>

(* A statement that fails leaves the tables as they were. *)
WriteDone(s, done, intended, ok) ==
  /\ outcome' = IF ~ok THEN Failure(s.model, done.rows)
                ELSE WriteOutcome(s, done, MapSeq(done.out, LAMBDA r : ReturnedRow(s, ReturningRow(s, r))))
  /\ stored' = IF ~ok \/ done.failed THEN stored ELSE [stored EXCEPT ![s.model.id] = done.rows]
  /\ expected' = WriteOutcome(s, intended,
                   MapSeq(intended.out, LAMBDA r : Shaped([s EXCEPT !.fields = ReturningOf(s)],
                                                          ReturningRow(s, r))))
  /\ meant' = IF ~ok \/ intended.failed THEN meant ELSE [meant EXCEPT ![s.model.id] = intended.rows]

Refuses(rows) == \E k \in DOMAIN rows : AnyRefused(rows[k])

Run(s, compiled) ==
  IF compiled = Refused
    THEN outcome' = <<"refused">> /\ expected' = None /\ UNCHANGED <<stored, meant>>
  ELSE IF ~WriteAccepted(compiled, s.model, EngineDb)
    THEN outcome' = <<"database">> /\ expected' = None /\ UNCHANGED <<stored, meant>>
  ELSE \E done \in {Applied(backend, compiled[1], s.model, EngineDb)},
          intended \in {MeantWrite(backend, s, meant)} :
         WriteDone(s, done, intended, ~Refuses(done.rows))

execute ==
  /\ IsWrite
  /\ IF IsEmptyBatch(query.state)
       THEN /\ outcome' = WritePlan(query.state, <<>>, 0)
            /\ expected' = outcome' /\ UNCHANGED <<stored, meant>>
       ELSE Run(query.state, compile_write_plan(backend, query.state))
  /\ query' = None
  /\ UNCHANGED <<backend, case, library, saved, ops>>

Next ==
  \/ alias \/ cte \/ cte_alias \/ recursive_cte \/ keep
  \/ select \/ project \/ where \/ order_by \/ order_combined \/ group_by \/ having
  \/ join \/ left_join \/ join_projected \/ left_join_projected
  \/ distinct \/ limit \/ offset \/ for_update \/ union
  \/ fetch
  \/ begin_write \/ on_conflict_do \/ set \/ all \/ write_where
  \/ returning \/ returning_as \/ execute

Spec == Init /\ [][Next]_vars

-----------------------------------------------------------------------------
(***************************************************************************)
(* What the compiler lets through runs: no statement that compiles is      *)
(* rejected by the engine for a name it cannot resolve or resolves twice,  *)
(* for an ungrouped column, for a value the driver cannot bind or the      *)
(* column cannot take, or because its parameters do not line up with its   *)
(* placeholders.  The one exception is a text for a MariaDB column whose   *)
(* declared length is not the ceiling of 255: the library checks such a    *)
(* text against the ceiling or not at all, and the server refuses the one  *)
(* that is too long ("capacity").                                          *)
(***************************************************************************)
WhatCompilesRuns == outcome # <<"database">>

(***************************************************************************)
(* A read that is not refused gives the caller the rows the query means:   *)
(* every operand read from the very source it was taken from, whatever the *)
(* nesting, names, joins and definitions, each value back in the type it   *)
(* was stored from, and a missing row told apart from a row of NULLs.      *)
(***************************************************************************)
ReadsMeanWhatTheySay ==
  IsRead /\ expected # None /\ outcome # <<"database">> => outcome = expected

(***************************************************************************)
(* The tables hold what the writes mean: a value that is stored is stored  *)
(* exactly or refused before the driver sees it, an UPDATE reads the old   *)
(* row on either backend, a conflict changes what on_conflict says, and    *)
(* the caller is returned the rows that were written.                      *)
(***************************************************************************)
WritesAreExact ==
  /\ \A t \in DOMAIN stored : \A m \in {m \in Tables(backend) : m.id = t} :
       MapSeq(stored[t], LAMBDA r : DecodedRow(m, r)) = meant[t]
  /\ ~IsRead /\ expected # None /\ outcome \notin {<<"database">>, <<"capacity">>} => outcome = expected
=============================================================================
