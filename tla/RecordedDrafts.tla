--------------------------- MODULE RecordedDrafts ---------------------------
(***************************************************************************)
(* Authoring a revision (snekql/experimental/migrations.py): generate a    *)
(* draft against the recorded state, resolve its removals, append stages   *)
(* and checkpoints, freeze it, and prepare it against a target catalog.    *)
(***************************************************************************)
EXTENDS RecordedPlans

CONSTANTS
    ModelSets,      \* the declarations an author may have: sequences of tables
    Points,         \* checkpoint names
    MaxRevisions,   \* bound on frozen revisions
    MaxEdits        \* bound on checkpoints, data changes and stages in all

VARIABLES
    backend,    \* backend family of the lineage
    package,    \* the last frozen package, or None
    draft,      \* the draft being edited, or None
    revisions,  \* how many packages were frozen
    edits       \* checkpoints, data changes and stages written so far

vars == <<backend, package, draft, revisions, edits>>

Empty == [n \in {} |-> None]
State(models) == [n \in Names(models) |-> Named(models, n)]
Draft(before, target, operations, unresolved) ==
    [backend |-> backend, before |-> before, target |-> target,
     operations |-> operations, unresolved |-> unresolved]

(***************************************************************************)
(* generate                                                                *)
(***************************************************************************)
\* _addition_column: the leave_null policy adds a column without its default.
_addition_column(column, policy) ==
    IF policy = None THEN column ELSE [column EXCEPT !.default = None]

Taken(acc, ops) == [table |-> ChangedBy(acc.table, ops), ops |-> acc.ops \o ops]

Nullability(name, existing, column) ==
    IF ~existing.nullable /\ column.nullable THEN AllowNull(name, column.name)
    ELSE RequireNotNull(name, column.name)

\* A nullability change, and a default change when that alone does not do.
AlsoDefault(revised, column, nullability, defaulted) ==
    IF revised # Refused /\ Named(revised.columns, column.name) # column
    THEN <<nullability, defaulted>> ELSE <<nullability>>

AfterNullability(t, column, nullability, defaulted) ==
    AlsoDefault(ChangedBy(t, <<nullability>>), column, nullability, defaulted)

\* The operations that give a table the desired column.
ChangesOf(t, column, initial, defaulted, name) ==
    IF column.name \notin Names(t.columns)
    THEN <<AddColumn(name, initial)>> \o (IF initial # column THEN <<defaulted>> ELSE <<>>)
    ELSE IF Named(t.columns, column.name) = column THEN <<>>
    ELSE IF ChangedBy(t, <<defaulted>>) # Refused THEN <<defaulted>>
    ELSE AfterNullability(t, column, Nullability(name, Named(t.columns, column.name), column),
                          defaulted)

\* One column of _changes: an addition, or the first change that reaches it.
ColumnChanges(acc, column, policy, name) ==
    IF acc.table = Refused THEN acc
    ELSE Taken(acc, ChangesOf(acc.table, column, _addition_column(column, policy),
                              ChangeDefault(name, column), name))

Missing(things, others) == SelectSeq(things, LAMBDA x : ~Contains(others, x))
Mapped(things, F(_)) == [i \in DOMAIN things |-> F(things[i])]

Checked(columns, drops, others, desired) ==
    IF \/ columns.table = Refused
       \/ ChangedBy(columns.table, drops \o others) # desired
    THEN Refused
    ELSE [ops |-> columns.ops \o others, removals |-> ToSet(drops)]

\* _changes: the additive operations and the names of dropped columns, or
\* Refused when they do not lead exactly to the desired declaration.
_changes(current, desired, policy) ==
    Checked(FoldLeft(LAMBDA acc, c : ColumnChanges(acc, c, policy, desired.name),
                     [table |-> current, ops |-> <<>>], desired.columns),
            SetToSeq({DropColumn(desired.name, n) :
                        n \in Names(current.columns) \ Names(desired.columns)}),
            Mapped(Missing(desired.indexes, current.indexes),
                   LAMBDA x : CreateIndex(desired.name, x))
            \o Mapped(Missing(desired.checks, current.checks),
                      LAMBDA x : AddCheck(desired.name, x)),
            desired)

\* index_removals and check_removals, then _changes, for one managed table.
AlsoRemoving(changes, removals) ==
    IF changes = Refused THEN Refused ELSE [changes EXCEPT !.removals = @ \cup ToSet(removals)]
AfterRemovals(current, removals, desired, policy) ==
    AlsoRemoving(_changes(ChangedBy(current, removals), desired, policy), removals)
TableChanges(current, desired, policy) ==
    AfterRemovals(current,
                  Mapped(Missing(current.indexes, desired.indexes),
                         LAMBDA x : DropIndex(current.name, x.name))
                  \o Mapped(Missing(current.checks, desired.checks),
                            LAMBDA x : DropCheck(current.name, x.name)),
                  desired, policy)

Unsupported(name) == Op("unsupported", name, None, None)

Amended(acc, t, changes) ==
    IF changes = Refused THEN [acc EXCEPT !.unresolved = @ \cup {Unsupported(t.name)}]
    ELSE [ops |-> acc.ops \o changes.ops,
          unresolved |-> acc.unresolved \cup changes.removals]

Generated(acc, t, before, policy) ==
    IF t.name \notin DOMAIN before THEN [acc EXCEPT !.ops = Append(@, CreateTable(t))]
    ELSE IF before[t.name] = t THEN acc
    ELSE Amended(acc, t, TableChanges(before[t.name], t, policy))

Proposed(before, models, all) == Draft(before, State(models), all.ops, all.unresolved)

\* _generate_from_state: the draft and its unresolved decisions, which are the
\* removals it takes to resolve them, or an alteration nothing resolves.
_generate_from_state(before, models, policy) ==
    Proposed(before, models,
             FoldLeft(LAMBDA acc, t : Generated(acc, t, before, policy),
                      [ops |-> <<>>,
                       unresolved |-> {RelinquishTable(n) : n \in DOMAIN before \ Names(models)}],
                      models))

\* contract_source: the declarations of one table at a checkpoint.
DeclaredIn(tables, name) ==
    IF tables = Refused THEN Refused
    ELSE IF name \notin DOMAIN tables THEN Refused ELSE tables[name]
contract_source(d, point, name) == DeclaredIn(contract_digest(d, point), name)

(***************************************************************************)
(* Draft methods                                                           *)
(***************************************************************************)
\* Mutant of resolve: every removal goes last.
resolve_last(d, removals) ==
    [d EXCEPT !.operations = @ \o removals, !.unresolved = @ \ ToSet(removals)]

\* resolve: index and CHECK removals go first, the others last.
resolve(d, removals) ==
    LET First(op) == op.kind \in {"drop_index", "drop_check"}
        Rest(op) == ~First(op)
    IN  [d EXCEPT !.operations = SelectSeq(removals, First) \o @ \o SelectSeq(removals, Rest),
                  !.unresolved = @ \ ToSet(removals)]

\* adopt: replace the one proposed creation of the table.
adopt(d, name) ==
    [d EXCEPT !.operations = [i \in DOMAIN @ |->
        IF @[i].kind = "create_table" /\ @[i].table = name
        THEN AdoptTable(@[i].value) ELSE @[i]]]

then(d, op) == [d EXCEPT !.operations = Append(@, op)]

\* advance: a further complete stage, its removals given with it; the draft is
\* left as it was unless both the prefix and the result compile.
Extended(d, stage) ==
    [d EXCEPT !.target = stage.target, !.operations = @ \o stage.operations,
              !.unresolved = stage.unresolved]
Compiling(d) == IF compile_v1(d) = Refused THEN Refused ELSE d
advance(d, stage, removals) ==
    IF d.unresolved # {} \/ compile_v1(d) = Refused THEN Refused
    ELSE Compiling(Extended(d, resolve(stage, removals)))

(***************************************************************************)
(* The authoring session                                                   *)
(***************************************************************************)
Recorded == IF package = None THEN Empty ELSE package.draft.target

Init ==
    /\ backend \in {"sqlite", "mariadb"}
    /\ package = None /\ draft = None
    /\ revisions = 0 /\ edits = 0

\* generate: the previous package must still load.
Generate(models, policy) ==
    /\ draft = None /\ revisions < MaxRevisions
    /\ package # None => load(package) # Refused
    /\ draft' = _generate_from_state(Recorded, models, policy)
    /\ UNCHANGED <<backend, package, revisions, edits>>

\* resolve is called with one pending removal, or with all of them.
Resolve ==
    /\ draft # None
    /\ LET removals == {op \in draft.unresolved : op.kind \in Removals}
       IN  \E chosen \in ({{op} : op \in removals} \cup {removals}) \ {{}} :
                draft' = resolve(draft, SetToSeq(chosen))
    /\ UNCHANGED <<backend, package, revisions, edits>>

Adopt(name) ==
    /\ draft # None
    /\ Cardinality({i \in DOMAIN draft.operations :
            /\ draft.operations[i].kind = "create_table"
            /\ draft.operations[i].table = name}) = 1
    /\ draft' = adopt(draft, name)
    /\ UNCHANGED <<backend, package, revisions, edits>>

Edited(new) ==
    /\ draft # None /\ edits < MaxEdits /\ new # Refused
    /\ draft' = new /\ edits' = edits + 1
    /\ UNCHANGED <<backend, package, revisions>>

WriteCheckpoint(point) == draft # None /\ Edited(then(draft, Checkpoint(point)))

\* An UPDATE written from the declarations emitted for a checkpoint.
WriteChange(point) ==
    /\ draft # None
    /\ \E t \in DOMAIN draft.target \cup DOMAIN draft.before :
            contract_source(draft, point, t) # Refused
    /\ Edited(then(draft, DataChange(point, contract_digest(draft, point), backend,
                                     edits + 1)))

\* advance with every removal its stage asks for.
Advance(models, policy) ==
    /\ draft # None
    /\ \E stage \in {_generate_from_state(draft.target, models, policy)} :
            Edited(advance(draft, stage,
                           SetToSeq({op \in stage.unresolved : op.kind \in Removals})))

Freeze ==
    /\ draft # None
    /\ compile_v1(draft) # Refused
    /\ package' = compile_v1(draft)
    /\ draft' = None /\ revisions' = revisions + 1
    /\ UNCHANGED <<backend, edits>>

\* The author throws an immutable draft away (environment).
Abandon ==
    /\ draft # None
    /\ draft' = None
    /\ UNCHANGED <<backend, package, revisions, edits>>

Next ==
    \/ \E models \in ModelSets, policy \in {None, "leave_null"} :
            Generate(models, policy) \/ Advance(models, policy)
    \/ Resolve
    \/ \E name \in UNION {Names(models) : models \in ModelSets} : Adopt(name)
    \/ \E point \in Points : WriteCheckpoint(point) \/ WriteChange(point)
    \/ Freeze \/ Abandon

Spec == Init /\ [][Next]_vars

(***************************************************************************)
(* Targets a package may meet                                              *)
(***************************************************************************)
\* Something nobody manages: a column of every table, a table that may refer to
\* "t", a view of "t" that names one of its columns, a view of that view, a trigger on a table.
Spare == Column("spare", "text", TRUE, None, FALSE)
Stranger(parent) ==
    Table("stranger", <<IF parent = None THEN Spare ELSE Referring(Spare, parent)>>, <<>>, <<>>)
View(star, columns) ==
    {[name |-> "v", on |-> {"t"}, columns |-> columns, star |-> star],
     [name |-> "vv", on |-> {"v"}, columns |-> {}, star |-> FALSE]}
Trigger(n) == [name |-> "g", owner |-> n, on |-> {n, "v"}, columns |-> {}, star |-> FALSE]

\* The managed tables, and those about to be adopted, as they should be found.
Found(p) ==
    LET adopted == {op \in ToSet(p.draft.operations) : op.kind = "adopt_table"}
    IN  [n \in {op.table : op \in adopted} |->
            (CHOOSE op \in adopted : op.table = n).value] @@ p.draft.before

Plain(p) == Catalog(Found(p), {}, {})
Laden(p, views, parent) ==
    LET tables == [n \in DOMAIN Found(p) |->
                    IF n \in DOMAIN p.draft.before
                    THEN [Found(p)[n] EXCEPT !.columns = Append(@, Spare)]
                    ELSE Found(p)[n]]
    IN  Catalog(("stranger" :> Stranger(parent)) @@ tables, views,
                {Trigger(n) : n \in DOMAIN p.draft.before})
Targets(p) ==
    {Plain(p), Laden(p, View(FALSE, {"a"}), None), Laden(p, View(TRUE, {}), None),
     Laden(p, View(FALSE, {"b"}), <<"t", "a">>)}

\* prepare: the checks of the environment come before the steps.
PreparedAgainst(p, c) ==
    IF _index_removal_environment(p, c) /\ validate_adopted(p, c)
    THEN prepare_steps(p, c) ELSE Refused

\* The catalog after the first k steps of the package.
After(p, plans, k, catalog) ==
    FoldLeft(LAMBDA acc, i : IF acc = Refused THEN Refused ELSE Performed(p, plans, i, acc),
             catalog, [i \in 1..k |-> i])

\* What the package does not manage before or after is as it was.
Unharmed(p, old, new) ==
    LET managed == DOMAIN p.draft.before \cup DOMAIN p.draft.target
    IN  /\ old.views = new.views /\ old.triggers = new.triggers
        /\ \A n \in DOMAIN old.tables :
            /\ n \notin managed => new.tables[n] = old.tables[n]
            /\ Contains(old.tables[n].columns, Spare) => Contains(new.tables[n].columns, Spare)

\* The package removes an index or a column of a table with a recorded foreign
\* key, on either end of it.
RemovesReferred(p) ==
    \E op \in ToSet(p.draft.operations), t \in Claimed(p) :
        /\ op.kind \in {"drop_index", "drop_column"}
        /\ \E parent \in References(t) : op.table \in {t.name, parent[1]}

\* Every package there is passes through a state in which no draft is open.
JustFrozen == package # None /\ draft = None

(***************************************************************************)
(* Properties                                                              *)
(***************************************************************************)
\* A generated draft whose only open decisions are removals compiles once they
\* are all authorized, whichever were authorized first (generate, resolve,
\* compile_v1).
GeneratedCompiles ==
    /\ draft # None /\ Kinds(draft.operations) \cap {"checkpoint", "data_change"} = {}
    /\ \A op \in draft.unresolved : op.kind \in Removals
    /\ backend = "mariadb" => "adopt_table" \notin Kinds(draft.operations)
    => compile_v1(resolve(draft, SetToSeq(draft.unresolved))) # Refused

\* A package prepared against a target that conforms to its recorded start
\* reaches its recorded end and leaves every unmanaged column, table, view and
\* trigger in place; a target without extras is refused only for a removal that
\* a recorded foreign key may depend on.
ReachesTarget ==
    JustFrozen =>
        \A c \in Targets(package) :
            \A plans \in {PreparedAgainst(package, c)} :
                IF plans = Refused THEN c # Plain(package) \/ RemovesReferred(package)
                ELSE \A last \in {After(package, plans, Len(package.steps), c)} :
                        /\ last # Refused
                        /\ Complete(package, last) /\ Unharmed(package, c, last)

\* When a package's UPDATE runs, the tables are exactly those of the checkpoint
\* it was written for: every contraction before it was flushed before it.
ChangeMeetsContract ==
    JustFrozen =>
        \A i \in DOMAIN package.steps, op \in ToSet(package.draft.operations) :
            /\ package.steps[i].action = "update" /\ op.kind = "data_change"
            /\ package.steps[i].value = op.value.update
            => \A plans \in {PreparedAgainst(package, Plain(package))} \ {Refused} :
               \A now \in {After(package, plans, i - 1, Plain(package))} :
               \A n \in DOMAIN op.value.contract : now.tables[n] = op.value.contract[n]
=============================================================================
