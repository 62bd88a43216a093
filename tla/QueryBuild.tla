----------------------------- MODULE QueryBuild -----------------------------
(***************************************************************************)
(* The operations that build a read (src/snekql/query.py, _compound.py,    *)
(* _recursive.py, _cte.py, _aliases.py).  Each takes a state and returns   *)
(* the next one, or Refused where the code raises QueryConstructionError.  *)
(***************************************************************************)
EXTENDS QueryScopes

OwnScope(s) == ScopeResolver(result_models(s), <<>>)

(***************************************************************************)
(* The methods of each query class.  CompoundSelectQuery derives from      *)
(* neither base class and defines the three it shares with them itself; a  *)
(* projection without names has left_join only to refuse every call of it. *)
(***************************************************************************)
Offers(class) ==
  {"order_by", "limit", "offset"}
    \cup (IF class = "compound" THEN {} ELSE {"where", "distinct", "for_update"})
    \cup (IF class \in {"model", "join"} THEN {"project"} ELSE {})
    \cup (IF class \in {"model", "join", "value", "tuple"} THEN {"join", "left_join"} ELSE {})
    \cup (IF class \in {"value", "tuple", "named"} THEN {"group_by", "having"} ELSE {})
    \cup (IF class \in {"named", "compound"} THEN {"union", "cte"} ELSE {})

-----------------------------------------------------------------------------
(***************************************************************************)
(* The verbs of a backend's namespace make queries of its own tables, and  *)
(* write to tables only.                                                   *)
(***************************************************************************)
OwnerBackend(o) == IF o[1] = "scalar" THEN o[3].model.backend ELSE o[2].backend

select_verb(b, s) ==
  IF s = Refused \/ s.model.backend # b \/ \E f \in Items(s.fields) : OwnerBackend(f) # b
    THEN Refused ELSE s

write_verb(b, s) == IF s.model.kind # "table" \/ s.model.backend # b THEN Refused ELSE s

(* alias(): a second role of a table. *)
build_alias(model, role, name) ==
  IF model.kind # "table" THEN Refused
  ELSE [model EXCEPT !.kind = "alias", !.id = "alias " \o name, !.name = name,
                     !.of = model, !.role = role]

(* select(Model), select(alias) and select(cte). *)
SelectSource(source) ==
  IF IsOutputs(source)
    THEN SelectState(source, SourceFields(source), source.def.state.named, FALSE)
    ELSE SelectState(source, SourceFields(source), None, TRUE)

(* select(field, ...): the first field's model is the source. *)
SelectFields(fields) ==
  IF ~HasOwner(fields[1]) THEN Refused
  ELSE SelectState(fields[1][2], fields, None, FALSE)

FieldsClass(fields) == IF Len(fields) = 1 THEN "value" ELSE "tuple"

-----------------------------------------------------------------------------
(* Every field of the result is bound, under labels that differ by more than case. *)
_named_contract(result, labels) ==
  /\ labels # <<>>
  /\ Items(labels) = DOMAIN result
  /\ Cardinality({casefold(l) : l \in Items(labels)}) = Len(labels)

(* The result field takes the operand's type, and None where it may be NULL. *)
check_binding(field, o, extended) ==
  /\ field.kind = logical_type(o)
  /\ extended \/ nullable(o) => field.none

ProjectionFits(s, result, label, o) ==
  IF o[1] = "scalar"
    THEN /\ require_single_column_subquery(o[3])
         /\ o[3].model.backend = s.model.backend
         /\ check_binding(result[label], o[3].fields[1], TRUE)
    ELSE /\ ensure_operand_in_scope(o, result_models(s))
         /\ check_binding(result[label], o, ExtendedBy(s, o))

_project_state(s, result, labels, fields) ==
  IF /\ _named_contract(result, labels)
     /\ \A i \in DOMAIN labels : ProjectionFits(s, result, labels[i], fields[i])
    THEN [s EXCEPT !.fields = fields, !.returns_model = FALSE,
                   !.named = [labels |-> labels, result |-> result]]
    ELSE Refused

-----------------------------------------------------------------------------
_select_where(s, p) ==
  IF ensure_predicate_targets_models(p, OwnScope(s))
    THEN [s EXCEPT !.predicates = Append(@, p)] ELSE Refused

(* A combined query is ordered by the outputs of the combination. *)
_select_order_by(s, ordering) ==
  IF ensure_ordering_targets_models(ordering, OwnScope(s))
    THEN [s EXCEPT !.orderings = Append(@, ordering)] ELSE Refused

_select_group_by(s, column) ==
  IF column[1] \in {"col", "out"} /\ ensure_grouping_targets_models(<<column>>, OwnScope(s))
    THEN [s EXCEPT !.groupings = Append(@, column)] ELSE Refused

_select_having(s, p) ==
  IF ensure_having_targets(p, s, OwnScope(s))
    THEN [s EXCEPT !.having = Append(@, p)] ELSE Refused

_select_distinct(s) == [s EXCEPT !.distinct = TRUE]
_select_limit(s, n) == [s EXCEPT !.limit = n]
_select_offset(s, n) == [s EXCEPT !.offset = n]
_select_for_update(s, wait) == [s EXCEPT !.lock = wait]

(***************************************************************************)
(* The columns of a joined row: those of each source, and after them a     *)
(* marker that tells a missing row from a row of NULLs.  A cte always has  *)
(* one, a table only when every column of it may be NULL.                  *)
(***************************************************************************)
AllNullable(source) == \A c \in Items(source.columns) : c.nullable
HasPresence(source) == IsOutputs(source) \/ AllNullable(source)
SourceSpan(source) ==
  SourceFields(source) \o (IF HasPresence(source) THEN << <<"present", source>> >> ELSE <<>>)
JoinedFields(sources) == FlattenSeq(MapSeq(sources, SourceSpan))

(* references(): one side is the joined table, the other already joined. *)
JoinTargets(s, model, on) ==
  IF on[1] = "references"
    THEN /\ model \in {on[2][2], on[3][2]}
         /\ {on[2][2], on[3][2]} \ {model} \subseteq Items(result_models(s))
    ELSE ensure_predicate_targets_models(on, ScopeResolver(Append(result_models(s), model), <<>>))

JoinPredicate(on) == IF on[1] = "references" THEN <<"cmpcol", on[2], "=", on[3]>> ELSE on

Joined(s, joins, project) ==
  IF project THEN [s EXCEPT !.joins = joins]
  ELSE [s EXCEPT !.joins = joins, !.named = None, !.returns_model = TRUE,
                 !.fields = JoinedFields(<<s.model>> \o MapSeq(joins, LAMBDA j : j.model))]

_select_join(s, model, on, type, project) ==
  IF \/ model.backend # s.model.backend
     \/ model \in Items(result_models(s))
     \/ ~JoinTargets(s, model, on)
    THEN Refused
    ELSE Joined(s, Append(s.joins, [model |-> model, type |-> type,
                                    predicate |-> JoinPredicate(on)]), project)

-----------------------------------------------------------------------------
(* Definitions. *)

Definition(id, name, s) ==
  [id |-> id, name |-> name, state |-> s, step |-> None, seed |-> None, is_seed |-> FALSE]

build_cte(s, role, name) ==
  IF s.lock # None \/ s.named = None THEN Refused
  ELSE OutputSource("cte", name, name, s.model.backend, role, Definition(name, name, s))

(* A second role of a definition. *)
build_cte_alias(source, role, name) ==
  [source EXCEPT !.id = "alias " \o name, !.name = name, !.role = role]

(* The bindings of an operand, in the order of the result model's fields. *)
_canonical_state(s, order) ==
  LET at(label) == CHOOSE i \in DOMAIN s.named.labels : s.named.labels[i] = label
  IN [s EXCEPT !.fields = MapSeq(order, LAMBDA l : s.fields[at(l)]), !.named.labels = order]

(* The left decoder reads both sides: their domains and their wires agree. *)
_require_compatible_outputs(left, right) ==
  LET Nullable(s, o) == nullable(o) \/ ExtendedBy(s, o)
  IN \A i \in DOMAIN left.fields :
       /\ Nullable(right, right.fields[i]) => Nullable(left, left.fields[i])
       /\ logical_type(left.fields[i]) = logical_type(right.fields[i])
       /\ output_provenance(left.fields[i]) = output_provenance(right.fields[i])

MayCombine(s) == s.named # None /\ s.orderings = <<>> /\ s.limit = None /\ s.offset = None /\ s.lock = None

CompoundState(left, right, operator) ==
  LET source == OutputSource("union", "union", "__snekql_union", left.model.backend, None,
                             Definition("union", "__snekql_union", left))
  IN [SelectState(source, SourceFields(source), left.named, FALSE) EXCEPT
        !.compound = [left |-> left, right |-> right, operator |-> operator]]

Combined(left, right, operator) ==
  IF _require_compatible_outputs(left, right)
    THEN CompoundState(left, right, operator) ELSE Refused

(* order: the declaration order of the result model's fields. *)
build_compound(left, right, operator, order) ==
  IF \/ ~MayCombine(left) \/ ~MayCombine(right)
     \/ left.model.backend # right.model.backend
    THEN Refused
  ELSE IF left.named.result # right.named.result THEN Refused
  ELSE Combined(_canonical_state(left, order), _canonical_state(right, order), operator)

(* The anchor's outputs have a width the engine will not narrow. *)
RECURSIVE HasWidth(_)
HasWidth(o) == IF o[1] = "out" THEN HasWidth(FieldOf(o)) ELSE o[1] \in {"col", "lit"}

SeedOf(cte) == [cte EXCEPT !.def.is_seed = TRUE, !.def.id = @ \o " seed"]

DirectReferences(member, seed) ==
  SelectSeq(result_models(member), LAMBDA m : m.kind = "cte" /\ m.def = seed.def)

(* The member reads the seed once, directly, on no nullable side, unaggregated. *)
RecursiveMember(member, seed) ==
  /\ member.groupings = <<>> /\ member.having = <<>> /\ ~member.distinct
  /\ \A f \in Items(member.fields) : f[1] # "agg"
  /\ Len(DirectReferences(member, seed)) = 1
  /\ Items(DirectReferences(member, seed)) \cap LeftJoined(member) = {}

Completed(cte, combined, seed) ==
  [cte EXCEPT !.def.state = combined.compound.left, !.def.step = combined.compound.right,
              !.def.seed = seed.def.id]

Published(cte) ==
  IF collect_cte_definitions(SelectState(cte, <<>>, None, FALSE), <<>>) = Refused
    THEN Refused ELSE cte

FinishRecursive(cte, seed, combined) ==
  IF combined = Refused THEN Refused
  ELSE IF ~RecursiveMember(combined.compound.right, seed) THEN Refused
  ELSE Published(Completed(cte, combined, seed))

(* The definition the member callback reads, before the callback is invoked. *)
RecursiveAnchor(s, role, name) ==
  IF \E o \in Items(s.fields) : ~HasWidth(o) THEN Refused ELSE build_cte(s, role, name)

(* member is what the callback returns for SeedOf(cte). *)
build_recursive_cte(s, cte, order, member) ==
  IF cte = Refused \/ member = Refused THEN Refused
  ELSE FinishRecursive(cte, SeedOf(cte), build_compound(s, member, "UNION ALL", order))
=============================================================================
