---------------------------- MODULE RecordedPlans ----------------------------
(***************************************************************************)
(* A package against an observed catalog: _migration_prepare.py,           *)
(* _migration_prepare_v1.py, _migration_reconcile.py and the postcondition *)
(* checks of _migration_target.py.  A catalog holds physical tables (which *)
(* may carry more than the managed declarations), views and triggers.      *)
(***************************************************************************)
EXTENDS RecordedPackages

\* views: [name, on, columns, star]; triggers: [name, owner, on, columns, star].
\* "on": objects the text mentions; "star": it uses a wildcard.
Catalog(tables, views, triggers) ==
    [tables |-> tables, views |-> views, triggers |-> triggers]

WithTable(catalog, t) == [catalog EXCEPT !.tables = (t.name :> t) @@ @]

(***************************************************************************)
(* The engine (external): what one statement does to the catalog           *)
(***************************************************************************)
\* MariaDB's ALTER TABLE applies its clauses in order.
Altered(t, clauses) ==
    FoldLeft(LAMBDA acc, c :
        CASE c.do = "modify" -> [acc EXCEPT !.columns = ReplacedBy(@, c.value)]
          [] c.do = "drop" -> [acc EXCEPT !.columns = Without(@, {c.value})]
          [] c.do = "default" ->
                [acc EXCEPT !.columns = ReplacedBy(@,
                    [Named(@, c.value.name) EXCEPT !.default = c.value.default])]
          [] c.do = "add_check" -> [acc EXCEPT !.checks = Append(@, c.value)]
          [] c.do = "drop_check" -> [acc EXCEPT !.checks = Without(@, {c.value})],
        t, clauses)

\* A statement other than a rebuild; Refused when the engine rejects it.
Executed(catalog, step) ==
    LET t == catalog.tables[step.on]
    IN  CASE step.action = "update" -> catalog
          [] step.action = "create_table" ->
                IF step.on \in DOMAIN catalog.tables \cup {v.name : v \in catalog.views}
                THEN Refused ELSE WithTable(catalog, step.value)
          [] step.on \notin DOMAIN catalog.tables -> Refused
          [] step.action = "add_column" ->
                IF step.value.name \in Names(t.columns) THEN Refused
                ELSE WithTable(catalog, [t EXCEPT !.columns = Append(@, step.value)])
          [] step.action = "create_index" ->
                IF \E n \in DOMAIN catalog.tables :
                        step.value.name \in Names(catalog.tables[n].indexes)
                THEN Refused
                ELSE WithTable(catalog, [t EXCEPT !.indexes = Append(@, step.value)])
          [] step.action = "drop_index" ->
                WithTable(catalog, [t EXCEPT !.indexes = Without(@, {step.value})])
          [] step.action = "contract" -> WithTable(catalog, Altered(t, step.value))

\* A rebuild's script: the views it drops take their own triggers with them, so
\* dropping such a trigger fails; the table takes its indexes and triggers, and
\* the script creates them, the other triggers and the views again.
Rebuilt(catalog, plan) ==
    LET gone == {v.name : v \in plan.views}
    IN  IF \E g \in plan.triggers : g.owner \in gone THEN Refused
        ELSE Catalog((plan.table.name :> plan.table) @@ catalog.tables,
                     catalog.views,
                     {g \in catalog.triggers : g.owner \notin gone \cup {plan.table.name}}
                        \cup plan.triggers)

(***************************************************************************)
(* Lowering for SQLite                                                     *)
(***************************************************************************)
\* _views: the views that mention the table, directly or through a view.
_views(catalog, table) ==
    LET Layer[n \in 0..Cardinality(catalog.views)] ==
            IF n = 0 THEN {}
            ELSE {v \in catalog.views :
                    v.on \cap ({table} \cup {w.name : w \in Layer[n - 1]}) # {}}
    IN  Layer[Cardinality(catalog.views)]

\* Mutant of _revised: the table is rebuilt from the recorded declaration.
_revised_from_record(change, source) ==
    [source EXCEPT !.columns = change.after.columns, !.checks = change.after.checks]

\* The physical declaration after the contraction, or Refused: CHECK names must
\* be free or present, every named column present, a relaxed column required.
_revised(change, source) ==
    LET unchecked == FoldLeft(LAMBDA acc, n : IF acc = Refused THEN Refused
                                              ELSE drop_check(acc, n),
                              source, change.removed)
        checked == FoldLeft(LAMBDA acc, c : IF acc = Refused THEN Refused
                                            ELSE add_check(acc, c),
                            unchecked, change.added)
        touched == ToSet(change.required) \cup ToSet(change.dropped)
                   \cup ToSet(change.defaults) \cup ToSet(change.relaxed)
        New(c) == IF c.name \in ToSet(change.defaults)
                  THEN Named(change.after.columns, c.name)
                  ELSE [c EXCEPT !.nullable =
                            \/ c.name \in ToSet(change.relaxed)
                            \/ c.nullable /\ c.name \notin ToSet(change.required)]
        kept == Without(source.columns, ToSet(change.dropped))
    IN  IF \/ checked = Refused \/ ~(touched \subseteq Names(source.columns))
           \/ \E n \in ToSet(change.relaxed) \ ToSet(change.dropped) :
                    Named(source.columns, n).nullable
        THEN Refused
        ELSE [checked EXCEPT !.columns = [i \in DOMAIN kept |-> New(kept[i])]]

\* The planned script, or Refused when a view, trigger, index, CHECK, reference
\* or referring table that stays mentions a dropped column, or a view or trigger
\* may do so through a wildcard.
Planned(dropped, source, revised, views, triggers, referring) ==
    IF \/ revised = Refused
       \/ dropped # {} /\ \E x \in views \cup triggers : x.star
       \/ \E x \in views \cup triggers : x.columns \cap dropped # {}
       \/ \E n \in dropped : n \in Mentioned(revised) \/ Mentions(source.indexes, n)
       \/ \E x \in referring : Words(x) \cap dropped # {}
    THEN Refused
    ELSE [table |-> revised, views |-> views, triggers |-> triggers]

\* The triggers of a table and of the views that read it.
TriggersOf(catalog, name, related) ==
    {g \in catalog.triggers : g.owner = name \/ g.on \cap related # {}}

\* The other tables whose text names the table.
ReferringTo(catalog, name) ==
    {t \in {catalog.tables[n] : n \in DOMAIN catalog.tables \ {name}} : name \in Words(t)}

_rebuild(change, catalog) ==
    LET name == change.before.name
    IN  IF name \notin DOMAIN catalog.tables THEN Refused
        ELSE Planned(ToSet(change.dropped), catalog.tables[name],
                     _revised(change, catalog.tables[name]), _views(catalog, name),
                     TriggersOf(catalog, name, {name} \cup {v.name : v \in _views(catalog, name)}),
                     ReferringTo(catalog, name))

\* _project: preparation tracks what the preceding statements will have done.
_project(step, catalog) ==
    LET t == catalog.tables[step.on]
    IN  CASE step.action = "create_table" -> WithTable(catalog, step.value)
          [] step.action = "create_index" ->
                WithTable(catalog, [t EXCEPT !.indexes = Append(@, step.value)])
          [] step.action = "drop_index" ->
                WithTable(catalog, [t EXCEPT !.indexes = Without(@, {step.value})])
          [] step.action = "add_column" ->
                WithTable(catalog, [t EXCEPT !.columns = Append(@, step.value)])
          [] OTHER -> catalog

Resolved(acc, plan) ==
    IF plan = Refused THEN Refused
    ELSE [catalog |-> WithTable(acc.catalog, plan.table), plans |-> Append(acc.plans, plan)]

Prepared(acc, step, backend) ==
    IF acc = Refused THEN Refused
    ELSE IF backend # "sqlite" THEN [acc EXCEPT !.plans = Append(@, None)]
    ELSE IF step.contraction = None
         THEN [catalog |-> _project(step, acc.catalog), plans |-> Append(acc.plans, None)]
    ELSE Resolved(acc, _rebuild(step.contraction, acc.catalog))

\* Every declaration a package makes, on its way included.
Claimed(package) ==
    Range(package.draft.before) \cup Range(package.draft.target)
        \cup {op.value : op \in {o \in ToSet(package.draft.operations) :
                                    o.kind \in {"create_table", "adopt_table"}}}

\* An index is not removed from a table that a foreign key, managed or not, may
\* involve, nor when a view or a trigger names the index.
validate_index_dependencies(package, catalog) ==
    LET drops == {op \in ToSet(package.draft.operations) : op.kind = "drop_index"}
    IN  /\ \A t \in Range(catalog.tables) \cup Claimed(package), op \in drops :
                References(t) # {} => op.table \notin Words(t)
        /\ \A x \in catalog.views \cup catalog.triggers, op \in drops :
                op.item \notin {x.name} \cup x.on \cup x.columns

\* The parents a package's declarations name will be there, with their columns.
validate_sqlite_reference_parents(package, objects) ==
    package.draft.backend = "sqlite" =>
        \A t \in Claimed(package) : \A parent \in References(t) :
            /\ parent[1] \in DOMAIN objects.tables
            /\ parent[2] \in Names(objects.tables[parent[1]].columns)

PlansOf(acc, package) ==
    IF acc = Refused THEN Refused
    ELSE IF validate_sqlite_reference_parents(package, acc.catalog) THEN acc.plans ELSE Refused

\* prepare_steps: resolve deferred rebuilds in order, each against what the
\* steps before it leave; MariaDB's statements are taken as they are.
prepare_steps(package, catalog) ==
    IF ~validate_index_dependencies(package, catalog) THEN Refused
    ELSE PlansOf(FoldLeft(LAMBDA acc, step : Prepared(acc, step, package.draft.backend),
                          [catalog |-> catalog, plans |-> <<>>], package.steps), package)

\* What executing step i of the prepared package does to the catalog.
Performed(package, plans, i, catalog) ==
    IF plans[i] = None THEN Executed(catalog, package.steps[i]) ELSE Rebuilt(catalog, plans[i])

(***************************************************************************)
(* What observation must show                                              *)
(***************************************************************************)
\* validate_managed: every managed declaration is there; extras are allowed.
validate_managed(tables, catalog) ==
    \A n \in DOMAIN tables :
        /\ n \in DOMAIN catalog.tables
        /\ ToSet(tables[n].columns) \subseteq ToSet(catalog.tables[n].columns)
        /\ ToSet(tables[n].checks) \subseteq ToSet(catalog.tables[n].checks)
        /\ ToSet(tables[n].indexes) \subseteq ToSet(catalog.tables[n].indexes)

\* validate_adopted: the existing table is exactly the declared one, in any
\* order, and has no triggers.
validate_adopted(package, catalog) ==
    \A op \in ToSet(package.draft.operations) : op.kind = "adopt_table" =>
        /\ op.table \in DOMAIN catalog.tables
        /\ LET t == catalog.tables[op.table]
           IN  /\ ToSet(t.columns) = ToSet(op.value.columns)
               /\ ToSet(t.checks) = ToSet(op.value.checks)
               /\ ToSet(t.indexes) = ToSet(op.value.indexes)
        /\ \A g \in catalog.triggers : g.owner # op.table

\* removed_indexes, removed_check_obstacle: explicit removals that the target
\* does not declare again must be physically absent, their owner present.
removed_indexes(package, catalog) ==
    \A op \in ToSet(package.draft.operations) :
        /\ op.kind = "drop_index"
        /\ op.table \in DOMAIN package.draft.target =>
                op.item \notin Names(package.draft.target[op.table].indexes)
        => /\ op.table \in DOMAIN catalog.tables
           /\ op.item \notin Names(catalog.tables[op.table].indexes)

removed_check_obstacle(package, catalog) ==
    \E op \in ToSet(package.draft.operations) :
        /\ op.kind = "drop_check"
        /\ op.table \in DOMAIN package.draft.target =>
                op.item \notin Names(package.draft.target[op.table].checks)
        /\ \/ op.table \notin DOMAIN catalog.tables
           \/ op.item \in Names(catalog.tables[op.table].checks)

validate_completed(package, catalog) ==
    /\ validate_managed(package.draft.target, catalog)
    /\ removed_indexes(package, catalog)
    /\ ~removed_check_obstacle(package, catalog)

\* MariaDB removes an index only where no trigger may depend on it.
_index_removal_environment(package, catalog) ==
    package.draft.backend = "mariadb" /\ "drop_index" \in Kinds(package.draft.operations)
        => catalog.triggers = {}

\* _mariadb_presence_obstacle: each managed table is a base table whose columns
\* have the recorded nullability, type and default, whose named indexes are the
\* recorded ones and whose declared CHECKs are there.
_mariadb_presence_obstacle(package, catalog) ==
    \/ ~_index_removal_environment(package, catalog)
    \/ ~removed_indexes(package, catalog)
    \/ removed_check_obstacle(package, catalog)
    \/ \E n \in DOMAIN package.draft.target :
        \/ n \notin DOMAIN catalog.tables
        \/ LET t == package.draft.target[n]
               seen == catalog.tables[n]
           IN  \/ \E c \in ToSet(t.columns) : c \notin ToSet(seen.columns)
               \/ \E i \in ToSet(t.indexes) : i \notin ToSet(seen.indexes)
               \/ \E k \in ToSet(t.checks) : k \notin ToSet(seen.checks)

\* The recorded end of a package is observed.
Complete(p, catalog) ==
    IF p.draft.backend = "sqlite" THEN validate_completed(p, catalog)
    ELSE ~_mariadb_presence_obstacle(p, catalog)

\* matches_contraction: the whole catalog is the baseline with exactly one
\* require/drop contraction applied; other contractions prove nothing here.
\* Requiring a column erases an implicit DEFAULT NULL, never a default.
matches_contraction(change, before, after) ==
    /\ change # None
    /\ change.defaults = <<>> /\ change.relaxed = <<>>
    /\ change.added = <<>> /\ change.removed = <<>>
    /\ change.before.name \in DOMAIN before.tables
    /\ LET t == before.tables[change.before.name]
           kept == Without(t.columns, ToSet(change.dropped))
       IN  /\ ToSet(change.required) \cup ToSet(change.dropped) \subseteq Names(t.columns)
           /\ after = WithTable(before, [t EXCEPT !.columns =
                [i \in DOMAIN kept |->
                    IF kept[i].name \in ToSet(change.required)
                    THEN [kept[i] EXCEPT !.nullable = FALSE] ELSE kept[i]]])
=============================================================================
