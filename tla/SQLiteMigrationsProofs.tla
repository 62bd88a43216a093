----------------------- MODULE SQLiteMigrationsProofs -----------------------
(***************************************************************************)
(* However many processes migrate one SQLite file, whatever they declare   *)
(* and wherever they fail or die, the file implements the atomic ledger    *)
(* and every body runs exactly once.                                       *)
(***************************************************************************)
EXTENDS SQLiteMigrations, SequenceLemmas, FiniteSetTheorems

(* The steps between BEGIN IMMEDIATE and COMMIT or ROLLBACK. *)
OpenSteps == {"ensure", "inspect", "body", "record", "commit", "finish"}

(***************************************************************************)
(* What a transaction found or made of the history before it ran a body:   *)
(* the committed one, or a declared prefix in place of a legacy table.     *)
(***************************************************************************)
Found(r, rows, bodies, adopted) ==
  \/ rows = db.rows /\ bodies = db.bodies /\ adopted = db.adopted
  \/ /\ db.rows = <<>> /\ db.adopted = <<>> /\ db.bodies = <<>> /\ bodies = <<>>
     /\ \E n \in 1..Len(Plan[r]) : rows = Take(Plan[r], n) /\ adopted = rows

(* The declaration of r goes on after rows. *)
GoesOn(r, rows) == Len(rows) < Len(Plan[r]) /\ rows = Take(Plan[r], Len(rows))

Following(r, rows) == Plan[r][Len(rows) + 1]

Prefixes(r) == {db.rows} \cup {Take(Plan[r], n) : n \in 1..Len(Plan[r])}

(* The open transaction, as the runner at each step knows it. *)
WorkInv(r) ==
  /\ step[r] = "ensure" => work = db
  /\ step[r] \in OpenSteps \ {"ensure"} => work \in Files /\ work.shape = "v2"
  /\ step[r] \in {"inspect", "body", "finish"} =>
       Found(r, work.rows, work.bodies, work.adopted)
  /\ step[r] = "body" => GoesOn(r, work.rows)
  /\ step[r] = "record" =>
       /\ GoesOn(r, work.rows)
       /\ \E bodies \in {db.bodies, <<>>} :
            /\ Found(r, work.rows, bodies, work.adopted)
            /\ work.bodies = Append(bodies, Following(r, work.rows))
  /\ step[r] = "commit" =>
       \E rows \in Prefixes(r), bodies \in {db.bodies, <<>>} :
         /\ Found(r, rows, bodies, work.adopted)
         /\ GoesOn(r, rows)
         /\ work.rows = Append(rows, Following(r, rows))
         /\ work.bodies = Append(bodies, Following(r, rows))

(* The committed file. *)
FileInv ==
  /\ db \in Files
  /\ db.shape # "v2" => db.rows = <<>> /\ db.bodies = <<>> /\ db.adopted = <<>>
  /\ ExactlyOnce

(* Only the owner of the writer lock is inside a transaction. *)
LockInv ==
  /\ step \in [Runners -> Steps]
  /\ lease \in [Runners -> {"none", "held", "released", "discarded"}]
  /\ \A r \in Runners : step[r] \in OpenSteps => writer = r
  /\ \A r \in Runners : lease[r] = "discarded" => step[r] = "done"

(* The inductive invariant. *)
MigrationInv == FileInv /\ LockInv /\ \A r \in Runners : WorkInv(r)
-----------------------------------------------------------------------------
(* Sequences and prefixes *)

LEMMA PlanIsSeq ==
  ASSUME NEW r \in Runners
  PROVE  Plan[r] \in Seq(Migrations) /\ Len(Plan[r]) \in Nat
BY PlanAssumption

(* A prefix of a declaration is a sequence of that length. *)
LEMMA TakeProperties ==
  ASSUME NEW r \in Runners, NEW n \in 0..Len(Plan[r])
  PROVE  /\ Take(Plan[r], n) \in Seq(Migrations)
         /\ Len(Take(Plan[r], n)) = n
         /\ \A i \in 1..n : Take(Plan[r], n)[i] = Plan[r][i]
BY PlanIsSeq, PrefixProperties, Zenon

(* validate_history_prefix accepts exactly the prefixes of the declaration. *)
LEMMA ValidIsPrefix ==
  ASSUME NEW r \in Runners, NEW rows \in Seq(Migrations),
         ValidHistoryPrefix(rows, Plan[r], 0)
  PROVE  Len(rows) <= Len(Plan[r]) /\ rows = Take(Plan[r], Len(rows))
BY PlanIsSeq, ValidPrefix

LEMMA FollowingIsDeclared ==
  ASSUME NEW r \in Runners, NEW rows \in Seq(Migrations), GoesOn(r, rows)
  PROVE  Following(r, rows) \in Migrations
BY PlanIsSeq DEF GoesOn, Following

(* A history is the adopted prefix and the bodies that ran. *)
Whole(rows, bodies, adopted) == rows = adopted \o bodies

LEMMA WholeAppend ==
  ASSUME NEW rows \in Seq(Migrations), NEW bodies \in Seq(Migrations),
         NEW adopted \in Seq(Migrations), NEW m \in Migrations,
         Whole(rows, bodies, adopted)
  PROVE  Whole(Append(rows, m), Append(bodies, m), adopted)
<1>1. adopted \o Append(bodies, m) = Append(adopted \o bodies, m)
  BY ConcatAppend
<1>2. rows = adopted \o bodies
  BY DEF Whole
<1> QED BY ONLY <1>1, <1>2, Zenon DEF Whole

(* What a transaction found is a history without half a unit. *)
LEMMA FoundIsWhole ==
  ASSUME FileInv, NEW r \in Runners, NEW rows, NEW bodies, NEW adopted,
         Found(r, rows, bodies, adopted)
  PROVE  /\ rows \in Seq(Migrations)
         /\ bodies \in Seq(Migrations)
         /\ adopted \in Seq(Migrations)
         /\ Whole(rows, bodies, adopted)
<1>1. CASE rows = db.rows /\ bodies = db.bodies /\ adopted = db.adopted
  BY <1>1 DEF FileInv, Files, ExactlyOnce, Whole
<1>2. CASE bodies = <<>> /\ \E n \in 1..Len(Plan[r]) : rows = Take(Plan[r], n) /\ adopted = rows
  <2>1. rows \in Seq(Migrations) /\ adopted = rows
    BY <1>2, TakeProperties, PlanIsSeq
  <2> QED BY <1>2, <2>1, Joined, NoElements, Zenon DEF Whole
<1> QED BY <1>1, <1>2 DEF Found
-----------------------------------------------------------------------------
(* Who is not affected by a step *)

(* Beside the owner of the writer lock nobody is inside a transaction. *)
LEMMA Alone ==
  ASSUME LockInv, NEW r \in Runners, writer \in {r, NoRunner}, NEW q \in Runners \ {r}
  PROVE  step[q] \notin OpenSteps
BY BoundsAssumption DEF LockInv

LEMMA OutsideIsFree ==
  ASSUME NEW r \in Runners, step[r] \notin OpenSteps
  PROVE  WorkInv(r)
BY DEF WorkInv, OpenSteps

LEMMA OutsideIsFreeNext ==
  ASSUME NEW r \in Runners, step'[r] \notin OpenSteps
  PROVE  WorkInv(r)'
BY DEF WorkInv, OpenSteps

(***************************************************************************)
(* A step of one runner keeps the invariant if it keeps the file's and its *)
(* own part, and touches the files only with the lock in hand or free.     *)
(***************************************************************************)
LEMMA StepKeeps ==
  ASSUME MigrationInv, NEW r \in Runners, NEW s \in Steps,
         Goto(r, s),
         \/ UNCHANGED <<db, work, writer>>
         \/ writer \in {r, NoRunner},
         s \in OpenSteps => writer' = r,
         NEW l \in {"none", "held", "released", "discarded"},
         lease' = [lease EXCEPT ![r] = l],
         l = "discarded" => s = "done",
         FileInv', WorkInv(r)'
  PROVE  MigrationInv'
<1>1. /\ step' \in [Runners -> Steps] /\ step'[r] = s
      /\ \A q \in Runners \ {r} : step'[q] = step[q]
  BY DEF MigrationInv, LockInv, Goto
<1>2. /\ lease' \in [Runners -> {"none", "held", "released", "discarded"}]
      /\ lease'[r] = l
      /\ \A q \in Runners \ {r} : lease'[q] = lease[q]
  BY DEF MigrationInv, LockInv
<1>3. ASSUME NEW q \in Runners \ {r}
      PROVE  (step'[q] \in OpenSteps => writer' = q) /\ WorkInv(q)'
  <2>1. CASE UNCHANGED <<db, work, writer>>
    <3>1. WorkInv(q) /\ step'[q] = step[q] /\ (step[q] \in OpenSteps => writer = q)
      BY <1>1 DEF MigrationInv, LockInv
    <3>2. db' = db /\ work' = work /\ writer' = writer
      BY <2>1
    <3>3. WorkInv(q)'
      BY ONLY <3>1, <3>2, ZenonT(60) DEF WorkInv, Found, Prefixes, GoesOn, Following
    <3> QED BY <3>1, <3>2, <3>3
  <2>2. CASE writer \in {r, NoRunner}
    <3>1. step'[q] \notin OpenSteps
      BY <1>1, <2>2, Alone DEF MigrationInv
    <3> QED BY <3>1, OutsideIsFreeNext
  <2> QED BY <2>1, <2>2
<1>4. LockInv'
  BY <1>1, <1>2, <1>3 DEF MigrationInv, LockInv
<1> QED BY <1>3, <1>4 DEF MigrationInv
-----------------------------------------------------------------------------
(* One lemma per kind of step *)

(* The file a first call may find: no history, or one nobody adopted yet. *)
LEMMA InitFile ==
  ASSUME Init
  PROVE  /\ db \in Files /\ db.shape # "v2"
         /\ db.rows = <<>> /\ db.bodies = <<>> /\ db.adopted = <<>>
<1>1. Empty \in Files /\ Empty.shape = "absent" /\ Empty.rows = <<>>
      /\ Empty.bodies = <<>> /\ Empty.adopted = <<>>
  BY NoElements DEF Empty, Files, Shapes
<1>2. CASE db \in {Empty, [Empty EXCEPT !.shape = "unknown"]}
  BY <1>1, <1>2 DEF Files, Shapes
<1>3. ASSUME NEW names \in Legacies,
             db = [Empty EXCEPT !.shape = "v1", !.legacy = names]
      PROVE  /\ db \in Files /\ db.shape # "v2"
             /\ db.rows = <<>> /\ db.bodies = <<>> /\ db.adopted = <<>>
  <2>1. names \in SUBSET UNION Legacies
    OBVIOUS
  <2> QED BY <1>1, <1>3, <2>1, Zenon DEF Files, Shapes
<1> QED BY <1>2, <1>3, Zenon DEF Init

LEMMA InitEstablishes == Init => MigrationInv
<1> SUFFICES ASSUME Init PROVE MigrationInv
  OBVIOUS
<1>1. /\ db \in Files /\ db.shape # "v2"
      /\ db.rows = <<>> /\ db.bodies = <<>> /\ db.adopted = <<>>
  BY InitFile
<1>2. FileInv
  BY <1>1, Joined, NoElements DEF FileInv, ExactlyOnce
<1>3. /\ step = [r \in Runners |-> "new"]
      /\ lease = [r \in Runners |-> "none"]
  BY Zenon DEF Init
<1>4. LockInv
  BY <1>3 DEF LockInv, Steps, OpenSteps
<1>5. \A r \in Runners : WorkInv(r)
  BY <1>3, OutsideIsFree DEF OpenSteps
<1> QED BY <1>2, <1>4, <1>5 DEF MigrationInv

(* A step that leaves the committed file alone keeps its invariant. *)
LEMMA FileStays ==
  ASSUME FileInv, db' = db
  PROVE  FileInv'
BY Zenon DEF FileInv, ExactlyOnce

LEMMA SameLease ==
  ASSUME LockInv, NEW r \in Runners
  PROVE  /\ lease[r] \in {"none", "held", "released", "discarded"}
         /\ lease = [lease EXCEPT ![r] = lease[r]]
         /\ step[r] \in Steps
         /\ step = [step EXCEPT ![r] = step[r]]
         /\ step[r] # "done" => lease[r] # "discarded"
BY DEF LockInv

(* Outside a transaction nothing is known of the files but the commit. *)
LEMMA LeavesTransaction ==
  ASSUME MigrationInv, NEW r \in Runners, NEW s \in Steps \ OpenSteps,
         Goto(r, s), db' = db,
         UNCHANGED <<work, writer>> \/ writer \in {r, NoRunner},
         NEW l \in {"none", "held", "released", "discarded"},
         lease' = [lease EXCEPT ![r] = l],
         l = "discarded" => s = "done"
  PROVE  MigrationInv'
<1>1. step'[r] = s
  BY DEF MigrationInv, LockInv, Goto
<1>2. WorkInv(r)'
  BY <1>1, OutsideIsFreeNext
<1>3. FileInv'
  BY FileStays DEF MigrationInv
<1> QED BY <1>2, <1>3, StepKeeps, Zenon

LEMMA RollbackTouchesOwn ==
  ASSUME NEW r \in Runners, RollbackIfOpen(r)
  PROVE  UNCHANGED <<work, writer>> \/ writer \in {r, NoRunner}
BY DEF RollbackIfOpen, InTransaction

LEMMA RaiseKeeps ==
  ASSUME MigrationInv, NEW r \in Runners, NEW unsure, step[r] \in OpenSteps,
         RaiseWith(r, unsure)
  PROVE  MigrationInv'
<1>1. /\ Goto(r, "settle") /\ db' = db /\ lease' = lease
      /\ UNCHANGED <<work, writer>> \/ writer \in {r, NoRunner}
  BY RollbackTouchesOwn DEF RaiseWith
<1>2. "settle" \in Steps \ OpenSteps /\ lease[r] # "discarded"
  BY SameLease DEF Steps, OpenSteps, MigrationInv
<1> QED BY <1>1, <1>2, SameLease, LeavesTransaction DEF MigrationInv

LEMMA BeginKeeps ==
  ASSUME MigrationInv, NEW r \in Runners, Begin(r)
  PROVE  MigrationInv'
<1>1. /\ step[r] = "begin" /\ writer = NoRunner /\ writer' = r /\ work' = db
      /\ db' = db /\ Goto(r, "ensure") /\ lease' = lease
  BY DEF Begin
<1>2. step'[r] = "ensure" /\ "ensure" \in Steps /\ lease[r] # "discarded"
  BY <1>1, SameLease DEF Goto, MigrationInv, LockInv, Steps
<1>3. WorkInv(r)'
  BY <1>1, <1>2 DEF WorkInv, OpenSteps
<1>4. FileInv'
  BY <1>1, FileStays DEF MigrationInv
<1> QED BY <1>1, <1>2, <1>3, <1>4, SameLease, StepKeeps DEF MigrationInv

(* The table is created, kept, or takes over a declared prefix. *)
LEMMA EnsureKeeps ==
  ASSUME MigrationInv, NEW r \in Runners, Ensure(r)
  PROVE  MigrationInv'
<1>1. /\ step[r] = "ensure" /\ db' = db /\ writer' = writer
      /\ Goto(r, "inspect") /\ lease' = lease
  BY DEF Ensure
<1>2. /\ step'[r] = "inspect" /\ "inspect" \in Steps /\ lease[r] # "discarded"
      /\ writer = r /\ work = db
  BY <1>1, SameLease DEF Goto, MigrationInv, LockInv, Steps, OpenSteps, WorkInv
<1>3. FileInv /\ FileInv'
  BY <1>1, FileStays DEF MigrationInv
<1>4. /\ work' \in Files /\ work'.shape = "v2"
      /\ Found(r, work'.rows, work'.bodies, work'.adopted)
  <2>1. CASE work.shape = "absent" /\ work' = [work EXCEPT !.shape = "v2"]
    BY <1>2, <1>3, <2>1, Zenon DEF FileInv, Files, Shapes, Found
  <2>2. CASE work.shape = "v2" /\ work' = work
    BY <1>2, <1>3, <2>2 DEF FileInv, Found
  <2>3. CASE work.shape = "v1" /\ MayAdopt(r) /\ work' = Adopted(r)
    <3> DEFINE n == Cardinality(work.legacy)
    <3>1. db \in Files /\ db.rows = <<>> /\ db.bodies = <<>> /\ db.adopted = <<>>
      BY <1>2, <1>3, <2>3 DEF FileInv
    <3>2. n \in 0..Len(Plan[r])
      BY <2>3 DEF MayAdopt, ValidLegacyHistory
    <3>3. Take(Plan[r], n) \in Seq(Migrations) /\ Len(Take(Plan[r], n)) = n
      BY <3>2, TakeProperties
    <3>4. /\ work' \in Files /\ work'.shape = "v2"
          /\ work'.rows = Take(Plan[r], n) /\ work'.adopted = Take(Plan[r], n)
          /\ work'.bodies = <<>>
      BY <1>2, <2>3, <3>1, <3>3, Zenon DEF Adopted, Files, Shapes
    <3>5. CASE n = 0
      <4>1. Take(Plan[r], n) = <<>>
        BY <3>3, <3>5, NoElements
      <4> QED BY <3>1, <3>4, <4>1 DEF Found
    <3>6. CASE n \in 1..Len(Plan[r])
      BY <3>1, <3>4, <3>6 DEF Found
    <3> QED BY <3>2, <3>4, <3>5, <3>6, PlanIsSeq
  <2> QED BY <2>1, <2>2, <2>3 DEF Ensure
<1>5. WorkInv(r)'
  BY <1>1, <1>2, <1>4 DEF WorkInv, OpenSteps, Found
<1> QED BY <1>1, <1>2, <1>3, <1>5, SameLease, StepKeeps DEF MigrationInv

LEMMA InspectKeeps ==
  ASSUME MigrationInv, NEW r \in Runners, Inspect(r)
  PROVE  MigrationInv'
<1> DEFINE s == IF Len(work.rows) = Len(Plan[r]) THEN "finish" ELSE "body"
<1>1. /\ step[r] = "inspect" /\ UNCHANGED <<db, work, writer>> /\ lease' = lease
      /\ Goto(r, s) /\ ValidHistoryPrefix(work.rows, Plan[r], 0)
  BY DEF Inspect
<1>2. /\ step'[r] = s /\ s \in Steps /\ lease[r] # "discarded" /\ writer = r
      /\ work \in Files /\ work.shape = "v2"
      /\ Found(r, work.rows, work.bodies, work.adopted)
  BY <1>1, SameLease DEF Goto, MigrationInv, LockInv, Steps, OpenSteps, WorkInv
<1>3. s = "body" => GoesOn(r, work.rows)
  <2>1. work.rows \in Seq(Migrations)
    BY <1>2 DEF Files
  <2> QED BY <1>1, <2>1, ValidIsPrefix, PlanIsSeq DEF GoesOn
<1>4. WorkInv(r)'
  BY <1>1, <1>2, <1>3 DEF WorkInv, OpenSteps, Found, GoesOn
<1>5. FileInv'
  BY <1>1, FileStays DEF MigrationInv
<1> QED BY <1>1, <1>2, <1>4, <1>5, SameLease, StepKeeps DEF MigrationInv

LEMMA ApplyBodyKeeps ==
  ASSUME MigrationInv, NEW r \in Runners, ApplyBody(r)
  PROVE  MigrationInv'
<1>1. /\ step[r] = "body" /\ db' = db /\ writer' = writer /\ lease' = lease
      /\ Goto(r, "record")
      /\ work' = [work EXCEPT !.bodies = Append(work.bodies, Following(r, work.rows))]
  BY DEF ApplyBody, Pending, Following
<1>2. /\ step'[r] = "record" /\ "record" \in Steps /\ lease[r] # "discarded" /\ writer = r
      /\ work \in Files /\ work.shape = "v2" /\ GoesOn(r, work.rows)
      /\ Found(r, work.rows, work.bodies, work.adopted)
  BY <1>1, SameLease DEF Goto, MigrationInv, LockInv, Steps, OpenSteps, WorkInv
<1>3. work.rows \in Seq(Migrations) /\ work.bodies \in Seq(Migrations)
  BY <1>2 DEF Files
<1>4. Append(work.bodies, Following(r, work.rows)) \in Seq(Migrations)
  BY <1>2, <1>3, FollowingIsDeclared, Appended
<1>5. /\ work' \in Files /\ work'.shape = "v2"
      /\ work'.rows = work.rows /\ work'.adopted = work.adopted
      /\ work'.bodies = Append(work.bodies, Following(r, work.rows))
  BY <1>1, <1>2, <1>4, Zenon DEF Files
<1>6. work.bodies \in {db.bodies, <<>>}
  BY <1>2 DEF Found
<1>7. WorkInv(r)'
  BY <1>1, <1>2, <1>5, <1>6, Zenon DEF WorkInv, OpenSteps, Found, GoesOn, Following
<1>8. FileInv'
  BY <1>1, FileStays DEF MigrationInv
<1> QED BY <1>1, <1>2, <1>7, <1>8, SameLease, StepKeeps DEF MigrationInv

LEMMA RecordHistoryKeeps ==
  ASSUME MigrationInv, NEW r \in Runners, RecordHistory(r)
  PROVE  MigrationInv'
<1>1. /\ step[r] = "record" /\ db' = db /\ writer' = writer /\ lease' = lease
      /\ Goto(r, "commit")
      /\ work' = [work EXCEPT !.rows = Append(work.rows, Following(r, work.rows))]
  BY DEF RecordHistory, Pending, Following
<1>2. /\ step'[r] = "commit" /\ "commit" \in Steps /\ lease[r] # "discarded" /\ writer = r
      /\ work \in Files /\ work.shape = "v2" /\ GoesOn(r, work.rows)
  BY <1>1, SameLease DEF Goto, MigrationInv, LockInv, Steps, OpenSteps, WorkInv
<1>3. PICK bodies \in {db.bodies, <<>>} :
        /\ Found(r, work.rows, bodies, work.adopted)
        /\ work.bodies = Append(bodies, Following(r, work.rows))
  BY <1>1 DEF MigrationInv, WorkInv
<1>4. Append(work.rows, Following(r, work.rows)) \in Seq(Migrations)
  <2>1. work.rows \in Seq(Migrations)
    BY <1>2 DEF Files
  <2> QED BY <1>2, <2>1, FollowingIsDeclared, Appended
<1>5. /\ work' \in Files /\ work'.shape = "v2"
      /\ work'.rows = Append(work.rows, Following(r, work.rows))
      /\ work'.bodies = work.bodies /\ work'.adopted = work.adopted
  BY <1>1, <1>2, <1>4, Zenon DEF Files
<1>6. work.rows \in Prefixes(r)
  BY <1>3 DEF Found, Prefixes
<1>7. WorkInv(r)'
  <2>1. \E rows \in Prefixes(r)', b \in {db.bodies, <<>>}' :
          /\ Found(r, rows, b, work.adopted)'
          /\ GoesOn(r, rows)
          /\ work'.rows = Append(rows, Following(r, rows))
          /\ work'.bodies = Append(b, Following(r, rows))
    BY <1>1, <1>2, <1>3, <1>5, <1>6, Zenon DEF Found, Prefixes
  <2> QED BY <1>2, <1>5, <2>1, Zenon DEF WorkInv, OpenSteps, GoesOn, Following, Found
<1>8. FileInv'
  BY <1>1, FileStays DEF MigrationInv
<1> QED BY <1>1, <1>2, <1>7, <1>8, SameLease, StepKeeps DEF MigrationInv

(* COMMIT publishes a history without half a unit. *)
LEMMA PublishKeepsFile ==
  ASSUME MigrationInv, NEW r \in Runners, step[r] \in {"commit", "finish"}, Publish
  PROVE  FileInv'
<1>0. FileInv
  BY DEF MigrationInv
<1>1. work \in Files /\ work.shape = "v2" /\ db' = work
  BY DEF MigrationInv, WorkInv, OpenSteps, Publish
<1>2. Whole(work.rows, work.bodies, work.adopted)
  <2>1. CASE step[r] = "finish"
    <3>1. Found(r, work.rows, work.bodies, work.adopted)
      BY <2>1 DEF MigrationInv, WorkInv
    <3> QED BY <1>0, <3>1, FoundIsWhole, Zenon
  <2>2. CASE step[r] = "commit"
    <3>1. PICK rows \in Prefixes(r), bodies \in {db.bodies, <<>>} :
            /\ Found(r, rows, bodies, work.adopted)
            /\ GoesOn(r, rows)
            /\ work.rows = Append(rows, Following(r, rows))
            /\ work.bodies = Append(bodies, Following(r, rows))
      BY <2>2 DEF MigrationInv, WorkInv
    <3>2. /\ rows \in Seq(Migrations) /\ bodies \in Seq(Migrations)
          /\ work.adopted \in Seq(Migrations) /\ Whole(rows, bodies, work.adopted)
      BY <1>0, <3>1, FoundIsWhole, Zenon
    <3>3. Following(r, rows) \in Migrations
      BY <3>1, <3>2, FollowingIsDeclared
    <3> QED BY <3>1, <3>2, <3>3, WholeAppend, Zenon
  <2> QED BY <2>1, <2>2
<1> QED BY <1>1, <1>2, Zenon DEF FileInv, ExactlyOnce, Whole

LEMMA PublishKeeps ==
  ASSUME MigrationInv, NEW r \in Runners, step[r] \in {"commit", "finish"}, Publish,
         NEW s \in {"begin", "settle"}, Goto(r, s), lease' = lease
  PROVE  MigrationInv'
<1>1. s \in Steps /\ s \notin OpenSteps /\ step'[r] = s /\ writer = r /\ lease[r] # "discarded"
  BY SameLease DEF MigrationInv, LockInv, Goto, Steps, OpenSteps
<1>2. WorkInv(r)'
  BY <1>1, OutsideIsFreeNext
<1> QED BY <1>1, <1>2, PublishKeepsFile, SameLease, StepKeeps DEF MigrationInv

(* Steps of a runner outside a transaction, and the end of every call. *)
LEMMA OutsideKeeps ==
  ASSUME MigrationInv, NEW r \in Runners,
         \/ Migrate(r) \/ RetryBusy(r) \/ BeginFails(r) \/ Settle(r)
         \/ LateBegin(r) \/ CloseDiscarded(r) \/ Crash(r)
  PROVE  MigrationInv'
<1> USE DEF MigrationInv
<1>0. {"begin", "settle", "done"} \subseteq Steps \ OpenSteps
  BY DEF Steps, OpenSteps
<1>1. CASE Migrate(r)
  BY <1>0, <1>1, LeavesTransaction, Zenon DEF Migrate
<1>2. CASE RetryBusy(r)
  <2>1. /\ Goto(r, "begin") \/ Goto(r, "settle")
        /\ UNCHANGED <<db, work, writer, lease>> /\ lease[r] # "discarded"
    BY <1>2, SameLease DEF RetryBusy, Goto
  <2> QED BY <1>0, <2>1, SameLease, LeavesTransaction
<1>3. CASE BeginFails(r)
  <2>1. Goto(r, "settle") /\ UNCHANGED <<db, work, writer, lease>> /\ lease[r] # "discarded"
    BY <1>3, SameLease DEF BeginFails
  <2> QED BY <1>0, <2>1, SameLease, LeavesTransaction
<1>4. CASE Settle(r)
  <2>1. /\ Goto(r, "done") /\ db' = db
        /\ UNCHANGED <<work, writer>> \/ writer \in {r, NoRunner}
        /\ \E l \in {"released", "discarded"} : lease' = [lease EXCEPT ![r] = l]
    BY <1>4, RollbackTouchesOwn DEF Settle
  <2> QED BY <1>0, <2>1, LeavesTransaction, Zenon
<1>5. CASE LateBegin(r)
  <2>1. /\ writer = NoRunner /\ UNCHANGED <<db, step, lease>>
        /\ step[r] \in Steps \ OpenSteps /\ Goto(r, step[r])
    BY <1>5, SameLease, BoundsAssumption DEF LateBegin, LockInv, Goto
  <2>2. lease[r] = "discarded" => step[r] = "done"
    BY DEF LockInv
  <2> QED BY <2>1, <2>2, SameLease, LeavesTransaction
<1>6. CASE CloseDiscarded(r)
  <2>1. /\ step[r] = "done" /\ Goto(r, "done") /\ UNCHANGED <<db, lease>>
        /\ UNCHANGED <<work, writer>> \/ writer \in {r, NoRunner}
    BY <1>6, RollbackTouchesOwn, SameLease DEF CloseDiscarded, LockInv, Goto
  <2> QED BY <1>0, <2>1, SameLease, LeavesTransaction, Zenon
<1>7. CASE Crash(r)
  <2>1. /\ Goto(r, "done") /\ db' = db /\ lease' = [lease EXCEPT ![r] = "none"]
        /\ UNCHANGED <<work, writer>> \/ writer \in {r, NoRunner}
    BY <1>7, RollbackTouchesOwn DEF Crash
  <2> QED BY <1>0, <2>1, LeavesTransaction, Zenon
<1> QED BY <1>1, <1>2, <1>3, <1>4, <1>5, <1>6, <1>7, Zenon

LEMMA NextKeeps == MigrationInv /\ [Next]_vars => MigrationInv'
<1> SUFFICES ASSUME MigrationInv, [Next]_vars PROVE MigrationInv'
  OBVIOUS
<1>1. CASE UNCHANGED vars
  <2>1. UNCHANGED <<db, work, writer, step, lease>>
    BY <1>1 DEF vars
  <2>2. ASSUME NEW r \in Runners PROVE WorkInv(r)'
    <3>1. WorkInv(r)
      BY DEF MigrationInv
    <3>2. db' = db /\ work' = work /\ step' = step
      BY <2>1
    <3> QED BY ONLY <3>1, <3>2, ZenonT(60) DEF WorkInv, Found, Prefixes, GoesOn, Following
  <2>3. FileInv' /\ LockInv'
    BY <2>1, FileStays DEF MigrationInv, LockInv
  <2> QED BY <2>2, <2>3 DEF MigrationInv
<1>2. ASSUME NEW r \in Runners, Advance(r) PROVE MigrationInv'
  <2>1. CASE Commit(r) \/ Finish(r) \/ CancelledAfterCommit(r)
    <3>1. /\ step[r] \in {"commit", "finish"} /\ Publish /\ lease' = lease
          /\ Goto(r, "begin") \/ Goto(r, "settle")
      BY <2>1, Zenon DEF Commit, Finish, CancelledAfterCommit
    <3> QED BY <3>1, PublishKeeps
  <2>2. CASE BodyFails(r) \/ UnitFails(r)
    BY <2>2, RaiseKeeps DEF BodyFails, UnitFails, Raise, OpenSteps
  <2> QED BY <1>2, <2>1, <2>2, OutsideKeeps, BeginKeeps, EnsureKeeps, InspectKeeps,
             ApplyBodyKeeps, RecordHistoryKeeps, Zenon DEF Advance
<1> QED BY <1>1, <1>2, OutsideKeeps, Zenon DEF Next

THEOREM MigrationCorrect == Spec => []MigrationInv
BY InitEstablishes, NextKeeps, PTL DEF Spec

(***************************************************************************)
(* Every body runs exactly once, with its history row and in order, for    *)
(* any number of processes, any declarations and any failure: migrate()'s  *)
(* BEGIN IMMEDIATE unit is atomic.                                         *)
(***************************************************************************)
THEOREM BodiesRunOnce == Spec => []ExactlyOnce
<1>1. MigrationInv => ExactlyOnce
  BY DEF MigrationInv, FileInv
<1> QED BY <1>1, MigrationCorrect, PTL

(***************************************************************************)
(* The file implements MigrationLedger with Atomic: a history only grows,  *)
(* by what some caller declares next, and in one step with its body; a     *)
(* legacy table is taken over once, before anything ran.                   *)
(***************************************************************************)
LEMMA LedgerInit == Init => Promise!Init
BY InitFile DEF Promise!Init

LEMMA DeclaredInLedger ==
  ASSUME NEW r \in Runners, NEW i \in 1..Len(Plan[r])
  PROVE  Plan[r] \in {Plan[q] : q \in Runners} /\ Plan[r][i] \in Promise!Migrations
BY PlanIsSeq DEF Promise!Migrations

(* A commit is one step of the ledger, or none. *)
LEMMA PublishIsLedgerStep ==
  ASSUME MigrationInv, NEW r \in Runners, step[r] \in {"commit", "finish"}, Publish
  PROVE  Promise!Next \/ UNCHANGED <<db.rows, db.bodies, db.adopted>>
<1>0. db' = work /\ FileInv
  BY DEF Publish, MigrationInv
<1>1. CASE step[r] = "finish"
  <2>1. Found(r, work.rows, work.bodies, work.adopted)
    BY <1>1 DEF MigrationInv, WorkInv
  <2>2. CASE work.rows = db.rows /\ work.bodies = db.bodies /\ work.adopted = db.adopted
    BY <1>0, <2>2
  <2>3. CASE /\ db.rows = <<>> /\ db.adopted = <<>> /\ db.bodies = <<>> /\ work.bodies = <<>>
             /\ \E n \in 1..Len(Plan[r]) : work.rows = Take(Plan[r], n) /\ work.adopted = work.rows
    <3>1. PICK n \in 1..Len(Plan[r]) : work.rows = Take(Plan[r], n) /\ work.adopted = work.rows
      BY <2>3
    <3>2. 1 \in 1..Len(Plan[r])
      BY <3>1, PlanIsSeq
    <3>3. Promise!Adopt(Plan[r], n, Plan[r][1])
      BY <1>0, <2>3, <3>1, Zenon DEF Promise!Adopt, Take
    <3> QED BY <3>2, <3>3, DeclaredInLedger, Zenon DEF Promise!Next
  <2> QED BY <2>1, <2>2, <2>3, Zenon DEF Found
<1>2. CASE step[r] = "commit"
  <2>1. PICK rows \in Prefixes(r), bodies \in {db.bodies, <<>>} :
          /\ Found(r, rows, bodies, work.adopted)
          /\ GoesOn(r, rows)
          /\ work.rows = Append(rows, Following(r, rows))
          /\ work.bodies = Append(bodies, Following(r, rows))
    BY <1>2, Zenon DEF MigrationInv, WorkInv
  <2> DEFINE m == Following(r, rows)
  <2>2. rows \in Seq(Migrations) /\ Len(rows) + 1 \in 1..Len(Plan[r])
    <3>1. rows \in Seq(Migrations)
      BY <1>0, <2>1, FoundIsWhole, Zenon
    <3> QED BY <2>1, <3>1, PlanIsSeq DEF GoesOn
  <2>3. m \in Promise!Migrations /\ Plan[r] \in {Plan[q] : q \in Runners}
    BY <2>2, DeclaredInLedger DEF Following
  <2>4. CASE rows = db.rows /\ bodies = db.bodies /\ work.adopted = db.adopted
    <3>1. Promise!IsNext(m)
      BY <2>1, <2>3, <2>4, Zenon DEF Promise!IsNext, GoesOn, Following, Take
    <3>2. Promise!Apply(m)
      BY <1>0, <2>1, <2>4, <3>1, Zenon DEF Promise!Apply
    <3> QED BY <2>3, <3>2 DEF Promise!Next
  <2>5. CASE /\ db.rows = <<>> /\ db.adopted = <<>> /\ db.bodies = <<>> /\ bodies = <<>>
             /\ \E n \in 1..Len(Plan[r]) : rows = Take(Plan[r], n) /\ work.adopted = rows
    <3>1. PICK n \in 1..Len(Plan[r]) : rows = Take(Plan[r], n) /\ work.adopted = rows
      BY <2>5
    <3>2. n = Len(rows) /\ n < Len(Plan[r])
      BY <2>1, <3>1, TakeProperties, PlanIsSeq DEF GoesOn
    <3>3. Promise!Adopt(Plan[r], n, m)
      BY <1>0, <2>1, <2>5, <3>1, <3>2, Zenon DEF Promise!Adopt, Take, Following
    <3> QED BY <2>3, <3>3, Zenon DEF Promise!Next
  <2> QED BY <2>1, <2>4, <2>5, Zenon DEF Found
<1> QED BY <1>1, <1>2

(* Nothing but a commit changes the file. *)
LEMMA OnlyCommitsWrite ==
  ASSUME [Next]_vars
  PROVE  db' = db \/ \E r \in Runners : Commit(r) \/ Finish(r) \/ CancelledAfterCommit(r)
<1>1. CASE UNCHANGED vars
  BY <1>1 DEF vars
<1>2. ASSUME NEW r \in Runners,
             \/ Migrate(r) \/ Begin(r) \/ RetryBusy(r) \/ BeginFails(r) \/ Ensure(r)
             \/ Inspect(r) \/ ApplyBody(r) \/ BodyFails(r) \/ RecordHistory(r)
             \/ UnitFails(r) \/ Settle(r) \/ Crash(r) \/ LateBegin(r) \/ CloseDiscarded(r)
      PROVE  db' = db
  BY <1>2, Zenon DEF Migrate, Begin, RetryBusy, BeginFails, Ensure, Inspect, ApplyBody,
              BodyFails, RecordHistory, UnitFails, Raise, RaiseWith, Settle, Crash,
              LateBegin, CloseDiscarded
<1> QED BY <1>1, <1>2 DEF Next, Advance

LEMMA LedgerStep ==
  MigrationInv /\ [Next]_vars => [Promise!Next]_(Promise!ledger)
<1> SUFFICES ASSUME MigrationInv, [Next]_vars
             PROVE  Promise!Next \/ UNCHANGED <<db.rows, db.bodies, db.adopted>>
  BY DEF Promise!ledger
<1>1. CASE db' = db
  BY <1>1
<1>2. ASSUME NEW r \in Runners, Commit(r) \/ Finish(r) \/ CancelledAfterCommit(r)
      PROVE  Promise!Next \/ UNCHANGED <<db.rows, db.bodies, db.adopted>>
  BY <1>2, PublishIsLedgerStep DEF Commit, Finish, CancelledAfterCommit
<1> QED BY <1>1, <1>2, OnlyCommitsWrite

(* migrate() on one SQLite file implements the atomic ledger. *)
THEOREM FileKeepsLedger == Spec => KeepsLedger
BY LedgerInit, LedgerStep, MigrationCorrect, PTL DEF Spec, KeepsLedger, Promise!Spec
-----------------------------------------------------------------------------
(* The result *)

(* The migrations a call has reported so far. *)
Count(r) == Len(applied[r]) + Len(already[r])

Reported(r) == Names(applied[r]) \cup Names(already[r])

Unfinished == {"new", "begin"} \cup OpenSteps

(* They are the first ones of its declaration, each in one part. *)
Account(r) ==
  /\ applied[r] = mine[r]
  /\ Count(r) <= Len(Plan[r])
  /\ Names(applied[r]) \cap Names(already[r]) = {}
  /\ Reported(r) = Names(Take(Plan[r], Count(r)))

(***************************************************************************)
(* Between transactions the committed history has at least what was        *)
(* reported, since others can only have added to it; inside one the call   *)
(* has reported what the transaction holds, but for the row it adds.       *)
(***************************************************************************)
ReportInv(r) ==
  /\ step[r] \in Unfinished => returned[r] = "none" /\ Account(r)
  /\ step[r] \in {"new", "begin", "ensure", "inspect"} => Count(r) <= Len(db.rows)
  /\ step[r] \in {"body", "record", "finish"} => Count(r) = Len(work.rows)
  /\ step[r] = "finish" => Count(r) = Len(Plan[r])
  /\ step[r] = "commit" => Count(r) + 1 = Len(work.rows)
  /\ returned[r] = "ok" => Account(r) /\ Count(r) = Len(Plan[r])

Ends == {"none", "ok", "locked", "failed", "crashed"}

ResultTypes ==
  /\ applied \in [Runners -> Seq(Migrations)]
  /\ already \in [Runners -> Seq(Migrations)]
  /\ mine \in [Runners -> Seq(Migrations)]
  /\ returned \in [Runners -> Ends]

ResultInv == ResultTypes /\ \A r \in Runners : ReportInv(r)

(* The rows of a history behind its first n are what a reader of those n has *)
(* not seen, in the history's order.                                         *)
LEMMA UnseenIsRest ==
  ASSUME NEW rows \in Seq(Migrations), NEW n \in 0..Len(rows), NEW seen,
         \A i \in 1..n : rows[i].name \in seen,
         \A i \in (n + 1)..Len(rows) : rows[i].name \notin seen
  PROVE  Unseen(rows, seen) = [k \in 1..(Len(rows) - n) |-> rows[n + k]]
<1> DEFINE new == {i \in DOMAIN rows : rows[i].name \notin seen}
           UpTo(i) == {j \in new : j <= i}
           Place(k) == CHOOSE i \in new : Cardinality(UpTo(i)) = k
<1>1. Len(rows) \in Nat /\ DOMAIN rows = 1..Len(rows)
  OBVIOUS
<1>2. new = (n + 1)..Len(rows)
  <2>1. ASSUME NEW i \in new PROVE i \in (n + 1)..Len(rows)
    <3>1. i \in 1..Len(rows) /\ i \notin 1..n
      BY <1>1, <2>1
    <3> QED BY ONLY <3>1, <1>1, n \in 0..Len(rows)
  <2>2. ASSUME NEW i \in (n + 1)..Len(rows) PROVE i \in new
    <3>1. i \in 1..Len(rows)
      BY ONLY <2>2, <1>1, n \in 0..Len(rows)
    <3> QED BY <1>1, <2>2, <3>1
  <2> QED BY <2>1, <2>2, Zenon
<1> HIDE DEF new
<1>3. Cardinality(new) = Len(rows) - n
  <2>1. n + 1 \in Int /\ Len(rows) \in Int /\ n <= Len(rows)
    BY <1>1
  <2>2. Cardinality((n + 1)..Len(rows)) = IF n + 1 > Len(rows) THEN 0 ELSE Len(rows) - (n + 1) + 1
    BY <2>1, FS_Interval, Zenon
  <2> QED BY ONLY <1>1, <1>2, <2>1, <2>2, n \in 0..Len(rows)
<1>4. ASSUME NEW i \in new PROVE Cardinality(UpTo(i)) = i - n
  <2>1. i \in Int /\ n + 1 \in Int /\ n + 1 <= i /\ i <= Len(rows)
    BY ONLY <1>1, <1>2, <1>4, n \in 0..Len(rows)
  <2>2. UpTo(i) = (n + 1)..i
    BY ONLY <1>1, <1>2, <2>1, n \in 0..Len(rows)
  <2>3. Cardinality((n + 1)..i) = IF n + 1 > i THEN 0 ELSE i - (n + 1) + 1
    BY <2>1, FS_Interval
  <2> HIDE DEF UpTo
  <2>4. Cardinality(UpTo(i)) = Cardinality((n + 1)..i)
    BY ONLY <2>2, Zenon
  <2> QED BY ONLY <2>1, <2>3, <2>4, n \in 0..Len(rows), <1>1
<1> HIDE DEF UpTo
<1>5. ASSUME NEW k \in 1..(Len(rows) - n) PROVE Place(k) = n + k
  <2>1. n + k \in new /\ (n + k) - n = k
    BY ONLY <1>1, <1>2, <1>5, n \in 0..Len(rows)
  <2>2. Cardinality(UpTo(n + k)) = k
    BY <1>4, <2>1
  <2>3. Place(k) \in new /\ Cardinality(UpTo(Place(k))) = k
    BY ONLY <2>1, <2>2, Zenon
  <2> HIDE DEF Place
  <2>4. Place(k) - n = k /\ Place(k) \in Int
    BY ONLY <1>1, <1>2, <1>4, <2>3, n \in 0..Len(rows)
  <2> QED BY ONLY <2>4, <1>5, <1>1, n \in 0..Len(rows)
<1>6. Unseen(rows, seen) = [k \in 1..Cardinality(new) |-> rows[Place(k)]]
  BY DEF Unseen, new, UpTo
<1> HIDE DEF Place
<1> QED BY <1>3, <1>5, <1>6, Zenon

(* The names of two histories in a row, and of one with another row. *)
LEMMA NamesConcat ==
  ASSUME NEW s \in Seq(Migrations), NEW t \in Seq(Migrations)
  PROVE  Names(s \o t) = Names(s) \cup Names(t)
<1>1. /\ DOMAIN (s \o t) = 1..(Len(s) + Len(t)) /\ DOMAIN s = 1..Len(s)
      /\ DOMAIN t = 1..Len(t) /\ Len(s) \in Nat /\ Len(t) \in Nat
      /\ \A i \in 1..(Len(s) + Len(t)) :
           (s \o t)[i] = IF i <= Len(s) THEN s[i] ELSE t[i - Len(s)]
  BY Joined
<1>2. ASSUME NEW x \in Names(s \o t) PROVE x \in Names(s) \cup Names(t)
  <2>1. PICK i \in 1..(Len(s) + Len(t)) : x = (s \o t)[i].name
    BY <1>1 DEF Names
  <2>2. CASE i <= Len(s)
    <3>1. i \in DOMAIN s /\ x = s[i].name
      BY <1>1, <2>1, <2>2
    <3> QED BY <3>1 DEF Names
  <2>3. CASE ~(i <= Len(s))
    <3>1. i - Len(s) \in DOMAIN t /\ x = t[i - Len(s)].name
      BY <1>1, <2>1, <2>3
    <3> QED BY <3>1 DEF Names
  <2> QED BY <2>2, <2>3
<1>3. ASSUME NEW x \in Names(s) PROVE x \in Names(s \o t)
  <2>1. PICK i \in 1..Len(s) : x = s[i].name
    BY <1>1 DEF Names
  <2>2. i \in DOMAIN (s \o t) /\ x = (s \o t)[i].name
    BY <1>1, <2>1
  <2> QED BY <2>2, Zenon DEF Names
<1>4. ASSUME NEW x \in Names(t) PROVE x \in Names(s \o t)
  <2>1. PICK i \in 1..Len(t) : x = t[i].name
    BY <1>1 DEF Names
  <2>2. Len(s) + i \in 1..(Len(s) + Len(t)) /\ ~(Len(s) + i <= Len(s)) /\ Len(s) + i - Len(s) = i
    BY <1>1
  <2>3. Len(s) + i \in DOMAIN (s \o t) /\ x = (s \o t)[Len(s) + i].name
    BY <1>1, <2>1, <2>2
  <2> QED BY <2>3, Zenon DEF Names
<1> QED BY <1>2, <1>3, <1>4

LEMMA NamesAppend ==
  ASSUME NEW s \in Seq(Migrations), NEW m \in Migrations
  PROVE  Names(Append(s, m)) = Names(s) \cup {m.name}
<1>1. <<m>> \in Seq(Migrations) /\ Append(s, m) = s \o <<m>>
  OBVIOUS
<1>2. Names(<<m>>) = {m.name}
  BY DEF Names
<1> QED BY <1>1, <1>2, NamesConcat, Zenon

(* A longer part of a declaration has the names in between as well. *)
LEMMA NamesOfTake ==
  ASSUME NEW r \in Runners, NEW n \in 0..Len(Plan[r])
  PROVE  Names(Take(Plan[r], n)) = {Plan[r][i].name : i \in 1..n}
<1>1. /\ Take(Plan[r], n) \in Seq(Migrations) /\ Len(Take(Plan[r], n)) = n
      /\ \A i \in 1..n : Take(Plan[r], n)[i] = Plan[r][i]
  BY TakeProperties
<1>2. DOMAIN Take(Plan[r], n) = 1..n
  BY <1>1
<1> QED BY ONLY <1>1, <1>2, Zenon DEF Names

(* What the transaction holds is at least what is committed. *)
LEMMA WorkHoldsFile ==
  ASSUME MigrationInv, NEW r \in Runners, step[r] \in OpenSteps
  PROVE  /\ db.rows \in Seq(Migrations) /\ work.rows \in Seq(Migrations)
         /\ Len(db.rows) \in Nat /\ Len(work.rows) \in Nat
         /\ Len(db.rows) <= Len(work.rows)
<1>1. FileInv /\ WorkInv(r) /\ db.rows \in Seq(Migrations)
  BY DEF MigrationInv, FileInv, Files
<1>2. ASSUME NEW rows, NEW bodies, NEW adopted, Found(r, rows, bodies, adopted)
      PROVE  rows \in Seq(Migrations) /\ Len(db.rows) <= Len(rows)
  <2>1. rows \in Seq(Migrations)
    BY <1>1, <1>2, FoundIsWhole, Zenon
  <2>2. rows = db.rows \/ db.rows = <<>>
    BY <1>2 DEF Found
  <2> QED BY <1>1, <2>1, <2>2
<1>3. CASE step[r] = "ensure"
  BY <1>1, <1>3 DEF WorkInv
<1>4. CASE step[r] \in {"inspect", "body", "finish"}
  <2>1. Found(r, work.rows, work.bodies, work.adopted)
    BY <1>1, <1>4 DEF WorkInv
  <2> QED BY <1>1, <1>2, <2>1
<1>5. CASE step[r] = "record"
  <2>1. PICK bodies : Found(r, work.rows, bodies, work.adopted)
    BY <1>1, <1>5 DEF WorkInv
  <2> QED BY <1>1, <1>2, <2>1
<1>6. CASE step[r] = "commit"
  <2>1. PICK rows \in Prefixes(r), bodies \in {db.bodies, <<>>} :
          /\ Found(r, rows, bodies, work.adopted)
          /\ GoesOn(r, rows)
          /\ work.rows = Append(rows, Following(r, rows))
    BY <1>1, <1>6, Zenon DEF WorkInv
  <2>2. rows \in Seq(Migrations) /\ Len(db.rows) <= Len(rows)
    BY <1>2, <2>1
  <2>3. Following(r, rows) \in Migrations
    BY <2>1, <2>2, FollowingIsDeclared
  <2> QED BY ONLY <1>1, <2>1, <2>2, <2>3, Appended
<1> QED BY <1>3, <1>4, <1>5, <1>6, Zenon DEF OpenSteps

(* Committed histories never get shorter. *)
LEMMA HistoryGrows ==
  ASSUME MigrationInv, [Next]_vars
  PROVE  /\ Len(db.rows) \in Nat /\ Len(db'.rows) \in Nat
         /\ Len(db.rows) <= Len(db'.rows)
<1>0. Len(db.rows) \in Nat
  BY DEF MigrationInv, FileInv, Files
<1>1. CASE db' = db
  BY <1>0, <1>1
<1>2. ASSUME NEW r \in Runners, Commit(r) \/ Finish(r) \/ CancelledAfterCommit(r)
      PROVE  Len(db'.rows) \in Nat /\ Len(db.rows) <= Len(db'.rows)
  <2>1. step[r] \in OpenSteps /\ db' = work
    BY <1>2, Zenon DEF Commit, Finish, CancelledAfterCommit, Publish, OpenSteps
  <2> QED BY <2>1, WorkHoldsFile, Zenon
<1> QED BY <1>0, <1>1, <1>2, OnlyCommitsWrite

(***************************************************************************)
(* A step of r keeps everybody's account if it keeps that of r: no other   *)
(* result changes, the committed history only grows, and the transaction   *)
(* of whoever is inside one is not touched.                                *)
(***************************************************************************)
OthersKept(r) ==
  \A q \in Runners \ {r} :
    /\ step'[q] = step[q] /\ applied'[q] = applied[q] /\ already'[q] = already[q]
    /\ mine'[q] = mine[q] /\ returned'[q] = returned[q]

LEMMA ReportKept ==
  ASSUME MigrationInv, ResultTypes, NEW q \in Runners, ReportInv(q),
         Len(db.rows) \in Nat, Len(db'.rows) \in Nat, Len(db.rows) <= Len(db'.rows),
         step'[q] = step[q], applied'[q] = applied[q], already'[q] = already[q],
         mine'[q] = mine[q], returned'[q] = returned[q],
         step[q] \in OpenSteps => work' = work
  PROVE  ReportInv(q)'
<1>1. Count(q)' = Count(q) /\ Account(q)' = Account(q) /\ Count(q) \in Nat
  <2>1. Count(q)' = Count(q) /\ Reported(q)' = Reported(q)
    BY DEF Count, Reported
  <2>2. Count(q) \in Nat
    BY DEF Count, ResultTypes
  <2> QED BY <2>1, <2>2 DEF Account
<1>2. step[q] \in {"body", "record", "finish", "commit"} => work' = work
  BY DEF OpenSteps
<1> HIDE DEF Count, Account
<1>3. /\ step[q] \in {"body", "record", "finish"} => Count(q) = Len(work'.rows)
      /\ step[q] = "commit" => Count(q) + 1 = Len(work'.rows)
  BY <1>2, Zenon DEF ReportInv
<1>4. step[q] \in {"new", "begin", "ensure", "inspect"} => Count(q) <= Len(db'.rows)
  BY <1>1 DEF ReportInv
<1> QED BY <1>1, <1>3, <1>4, Zenon DEF ReportInv

LEMMA ReportStep ==
  ASSUME MigrationInv, ResultInv, [Next]_vars, NEW r \in Runners,
         OthersKept(r), ResultTypes', ReportInv(r)',
         UNCHANGED work \/ writer \in {r, NoRunner}
  PROVE  ResultInv'
<1>1. ASSUME NEW q \in Runners \ {r} PROVE ReportInv(q)'
  <2>1. step[q] \in OpenSteps => work' = work
    BY Alone DEF MigrationInv
  <2>2. ResultTypes /\ ReportInv(q)
    BY DEF ResultInv
  <2> QED BY <2>1, <2>2, HistoryGrows, ReportKept, Zenon DEF OthersKept
<1> QED BY <1>1 DEF ResultInv

(* The row a unit adds is the declared one after those it found. *)
LEMMA CommitFacts ==
  ASSUME MigrationInv, NEW r \in Runners, step[r] = "commit"
  PROVE  /\ work.rows \in Seq(Migrations) /\ Len(work.rows) \in 1..Len(Plan[r])
         /\ NewRow(r) = Plan[r][Len(work.rows)] /\ NewRow(r) \in Migrations
<1>1. PICK rows \in Prefixes(r), bodies \in {db.bodies, <<>>} :
        /\ Found(r, rows, bodies, work.adopted)
        /\ GoesOn(r, rows)
        /\ work.rows = Append(rows, Following(r, rows))
  BY DEF MigrationInv, WorkInv
<1>2. FileInv
  BY DEF MigrationInv
<1>3. rows \in Seq(Migrations) /\ Len(rows) < Len(Plan[r])
  BY <1>1, <1>2, FoundIsWhole, Zenon DEF GoesOn
<1>4. Following(r, rows) \in Migrations
  BY <1>1, <1>3, FollowingIsDeclared, Zenon
<1>5. /\ work.rows \in Seq(Migrations) /\ Len(work.rows) = Len(rows) + 1
      /\ work.rows[Len(rows) + 1] = Following(r, rows)
  BY ONLY <1>1, <1>3, <1>4, Appended
<1> QED BY <1>3, <1>4, <1>5, PlanIsSeq DEF NewRow, Following

(* A step that leaves all results alone. *)
LEMMA SameResults ==
  ASSUME ResultInv, NEW r \in Runners, UNCHANGED result
  PROVE  /\ ResultTypes' /\ ReportInv(r)
         /\ Count(r)' = Count(r) /\ Count(r) \in Nat
         /\ Account(r)' = Account(r) /\ returned'[r] = returned[r]
<1>1. UNCHANGED <<applied, already, mine, returned>>
  BY DEF result
<1>2. Count(r)' = Count(r) /\ Reported(r)' = Reported(r)
  BY <1>1 DEF Count, Reported
<1>3. Account(r)' = Account(r)
  BY <1>1, <1>2 DEF Account
<1>4. ResultTypes' /\ ReportInv(r) /\ Count(r) \in Nat
  BY <1>1 DEF ResultInv, ResultTypes, Count
<1> QED BY <1>1, <1>2, <1>3, <1>4, Zenon

LEMMA SameOthers ==
  ASSUME LockInv, NEW r \in Runners, NEW s, Goto(r, s), UNCHANGED result
  PROVE  OthersKept(r) /\ step'[r] = s
BY DEF OthersKept, Goto, result, LockInv

(* The call ends, or it has ended before. *)
LEMMA EndKeeps ==
  ASSUME MigrationInv, ResultInv, [Next]_vars, NEW r \in Runners,
         NEW s \in {"settle", "done"}, Goto(r, s),
         applied' = applied, already' = already,
         NEW rows \in Seq(Migrations), mine' = mine \/ mine' = [mine EXCEPT ![r] = rows],
         NEW e \in {"locked", "failed", "crashed"}, returned' = [returned EXCEPT ![r] = e],
         UNCHANGED work \/ writer \in {r, NoRunner}
  PROVE  ResultInv'
<1>1. step \in [Runners -> Steps]
  BY DEF MigrationInv, LockInv
<1>2. ResultTypes' /\ OthersKept(r) /\ step'[r] = s /\ returned'[r] = e
  BY <1>1, Zenon DEF ResultInv, ResultTypes, OthersKept, Goto, Ends
<1>3. ReportInv(r)'
  BY <1>2, Zenon DEF ReportInv, Unfinished, OpenSteps
<1> QED BY <1>2, <1>3, ReportStep, Zenon

LEMMA RaiseReports ==
  ASSUME MigrationInv, ResultInv, [Next]_vars, NEW r \in Runners, NEW unsure,
         RaiseWith(r, unsure)
  PROVE  ResultInv'
<1>1. UNCHANGED work \/ writer \in {r, NoRunner}
  BY RollbackTouchesOwn DEF RaiseWith
<1>2. <<>> \in Seq(Migrations)
  BY NoElements
<1> QED BY <1>1, <1>2, EndKeeps, Zenon DEF RaiseWith

LEMMA CancelledReports ==
  ASSUME MigrationInv, ResultInv, [Next]_vars, NEW r \in Runners, CancelledAfterCommit(r)
  PROVE  ResultInv'
<1>1. /\ step[r] \in {"commit", "finish"} /\ work' = work
      /\ Goto(r, "settle") /\ applied' = applied /\ already' = already
      /\ returned' = [returned EXCEPT ![r] = "failed"]
  BY DEF CancelledAfterCommit, Publish
<1>2. CASE step[r] = "finish"
  <2>1. mine' = mine
    BY <1>2 DEF CancelledAfterCommit
  <2>2. <<>> \in Seq(Migrations)
    BY NoElements
  <2> QED BY <1>1, <2>1, <2>2, EndKeeps, Zenon
<1>3. CASE step[r] = "commit"
  <2>1. mine' = [mine EXCEPT ![r] = Append(mine[r], NewRow(r))]
    BY <1>3 DEF CancelledAfterCommit, ResultInv, ResultTypes
  <2>2. Append(mine[r], NewRow(r)) \in Seq(Migrations)
    <3>1. mine[r] \in Seq(Migrations) /\ NewRow(r) \in Migrations
      BY <1>3, CommitFacts, Zenon DEF ResultInv, ResultTypes
    <3> QED BY <3>1, Appended
  <2> QED BY <1>1, <2>1, <2>2, EndKeeps, Zenon
<1> QED BY <1>1, <1>2, <1>3, Zenon

(* The steps before and after the unit of work. *)
LEMMA OutsideReports ==
  ASSUME MigrationInv, ResultInv, [Next]_vars, NEW r \in Runners,
         \/ Migrate(r) \/ RetryBusy(r) \/ BeginFails(r) \/ Settle(r)
         \/ LateBegin(r) \/ CloseDiscarded(r) \/ Crash(r)
  PROVE  ResultInv'
<1>0. <<>> \in Seq(Migrations) /\ LockInv /\ ReportInv(r) /\ step \in [Runners -> Steps]
  BY NoElements DEF MigrationInv, LockInv, ResultInv
<1>1. CASE Migrate(r)
  <2>1. /\ step[r] = "new" /\ Goto(r, "begin")
        /\ UNCHANGED result /\ UNCHANGED <<db, work>>
    BY <1>1 DEF Migrate
  <2>2. /\ OthersKept(r) /\ step'[r] = "begin" /\ ResultTypes'
        /\ Count(r)' = Count(r) /\ Account(r)' = Account(r) /\ returned'[r] = returned[r]
    BY <1>0, <2>1, SameOthers, SameResults, Zenon
  <2>3. ReportInv(r)'
    BY <1>0, <2>1, <2>2, Zenon DEF ReportInv, Unfinished, OpenSteps
  <2> QED BY <2>1, <2>2, <2>3, ReportStep, Zenon
<1>2. CASE RetryBusy(r)
  <2>1. CASE tries[r] < MaxRetries
    <3>1. UNCHANGED <<step, db, work, applied, already, mine, returned>>
      BY <1>2, <2>1, Zenon DEF RetryBusy
    <3>2. OthersKept(r) /\ ResultTypes'
      BY <3>1 DEF OthersKept, ResultTypes, ResultInv
    <3>3. ReportInv(r)'
      BY <1>0, <3>1, HistoryGrows, ReportKept, Zenon DEF ResultInv
    <3> QED BY <3>1, <3>2, <3>3, ReportStep
  <2>2. CASE ~(tries[r] < MaxRetries)
    <3>1. /\ Goto(r, "settle") /\ returned' = [returned EXCEPT ![r] = "locked"]
          /\ UNCHANGED <<work, applied, already, mine>>
      BY <1>2, <2>2, Zenon DEF RetryBusy
    <3> QED BY <1>0, <3>1, EndKeeps, Zenon
  <2> QED BY <2>1, <2>2
<1>3. CASE BeginFails(r)
  BY <1>0, <1>3, EndKeeps, Zenon DEF BeginFails
<1>4. CASE Settle(r)
  <2>1. /\ step[r] = "settle" /\ Goto(r, "done") /\ UNCHANGED result
        /\ UNCHANGED work \/ writer \in {r, NoRunner}
    BY <1>4, RollbackTouchesOwn, Zenon DEF Settle
  <2>2. /\ OthersKept(r) /\ step'[r] = "done" /\ ResultTypes'
        /\ Count(r)' = Count(r) /\ Account(r)' = Account(r) /\ returned'[r] = returned[r]
    BY <1>0, <2>1, SameOthers, SameResults, Zenon
  <2>3. ReportInv(r)'
    BY <1>0, <2>1, <2>2 DEF ReportInv, Unfinished, OpenSteps
  <2> QED BY <2>1, <2>2, <2>3, ReportStep, Zenon
<1>5. CASE LateBegin(r) \/ CloseDiscarded(r)
  <2>1. /\ UNCHANGED <<step, applied, already, mine, returned>>
        /\ UNCHANGED work \/ writer \in {r, NoRunner}
    BY <1>5, RollbackTouchesOwn DEF LateBegin, CloseDiscarded, result
  <2>2. step[r] \notin OpenSteps
    <3>1. CASE LateBegin(r)
      BY <1>0, <3>1, BoundsAssumption, Zenon DEF LateBegin, LockInv
    <3>2. CASE CloseDiscarded(r)
      BY <1>0, <3>2, Zenon DEF CloseDiscarded, LockInv, OpenSteps
    <3> QED BY <1>5, <3>1, <3>2
  <2>3. OthersKept(r) /\ ResultTypes'
    BY <2>1 DEF OthersKept, ResultTypes, ResultInv
  <2>4. ReportInv(r)'
    BY <1>0, <2>1, <2>2, HistoryGrows, ReportKept DEF ResultInv
  <2> QED BY <2>1, <2>3, <2>4, ReportStep
<1>6. CASE Crash(r)
  <2>1. UNCHANGED work \/ writer \in {r, NoRunner}
    BY <1>6, RollbackTouchesOwn DEF Crash
  <2> QED BY <1>0, <1>6, <2>1, EndKeeps, Zenon DEF Crash
<1> QED BY <1>1, <1>2, <1>3, <1>4, <1>5, <1>6

(* The transaction begins, has its table, runs the body and adds the row. *)
LEMMA UnitReports ==
  ASSUME MigrationInv, ResultInv, [Next]_vars, NEW r \in Runners,
         Begin(r) \/ Ensure(r) \/ ApplyBody(r) \/ RecordHistory(r)
  PROVE  ResultInv'
<1>0. LockInv /\ ReportInv(r) /\ step[r] \in Steps
  BY SameLease DEF MigrationInv, LockInv, ResultInv
<1>1. UNCHANGED result /\ (UNCHANGED work \/ writer \in {r, NoRunner})
  BY <1>0 DEF Begin, Ensure, ApplyBody, RecordHistory, LockInv, OpenSteps
<1>2. ASSUME NEW s, Goto(r, s), UNCHANGED result
      PROVE  /\ OthersKept(r) /\ step'[r] = s /\ ResultTypes' /\ Count(r) \in Nat
             /\ Count(r)' = Count(r) /\ Account(r)' = Account(r) /\ returned'[r] = returned[r]
  BY <1>0, <1>2, SameOthers, SameResults
<1>3. CASE Begin(r) \/ Ensure(r)
  <2>1. PICK s \in {"ensure", "inspect"} :
          /\ step[r] \in {"begin", "ensure"} /\ Goto(r, s) /\ db' = db
    BY <1>3 DEF Begin, Ensure
  <2>2. ReportInv(r)'
    BY <1>0, <1>1, <1>2, <2>1, Zenon DEF ReportInv, Unfinished, OpenSteps
  <2> QED BY <1>1, <1>2, <2>1, <2>2, ReportStep
<1>4. CASE ApplyBody(r)
  <2>1. /\ step[r] = "body" /\ Goto(r, "record")
        /\ work' = [work EXCEPT !.bodies = Append(work.bodies, Pending(r))]
    BY <1>4 DEF ApplyBody
  <2>2. work \in Files
    BY <2>1, Zenon DEF MigrationInv, WorkInv, OpenSteps
  <2>3. work'.rows = work.rows
    BY <2>1, <2>2 DEF Files
  <2>4. ReportInv(r)'
    <3>1. /\ step'[r] = "record" /\ Count(r) \in Nat
          /\ Count(r)' = Count(r) /\ Account(r)' = Account(r) /\ returned'[r] = returned[r]
      BY <1>1, <1>2, <2>1
    <3>2. returned[r] = "none" /\ Account(r) /\ Count(r) = Len(work.rows)
      BY <1>0, <2>1 DEF ReportInv, Unfinished, OpenSteps
    <3> QED BY ONLY <3>1, <3>2, <2>3 DEF ReportInv
  <2> QED BY <1>1, <1>2, <2>1, <2>4, ReportStep
<1>5. CASE RecordHistory(r)
  <2>1. /\ step[r] = "record" /\ Goto(r, "commit")
        /\ work' = [work EXCEPT !.rows = Append(work.rows, Pending(r))]
    BY <1>5 DEF RecordHistory
  <2>2. work \in Files /\ GoesOn(r, work.rows)
    BY <2>1 DEF MigrationInv, WorkInv, OpenSteps
  <2>3. work.rows \in Seq(Migrations) /\ Pending(r) \in Migrations
    BY <2>2, FollowingIsDeclared, Zenon DEF Files, Pending, Following
  <2>4. Len(work'.rows) = Len(work.rows) + 1
    BY <2>1, <2>2, <2>3, Appended DEF Files
  <2>5. ReportInv(r)'
    <3>1. /\ step'[r] = "commit" /\ Count(r) \in Nat
          /\ Count(r)' = Count(r) /\ Account(r)' = Account(r) /\ returned'[r] = returned[r]
      BY <1>1, <1>2, <2>1
    <3>2. returned[r] = "none" /\ Account(r) /\ Count(r) = Len(work.rows)
      BY <1>0, <2>1 DEF ReportInv, Unfinished, OpenSteps
    <3> QED BY ONLY <3>1, <3>2, <2>4 DEF ReportInv
  <2> QED BY <1>1, <1>2, <2>1, <2>5, ReportStep
<1> QED BY <1>3, <1>4, <1>5

(* Names of a declaration's rows tell its rows apart. *)
LEMMA LaterIsNew ==
  ASSUME NEW r \in Runners, NEW n \in 0..Len(Plan[r]), NEW i \in 1..Len(Plan[r])
  PROVE  Plan[r][i].name \in Names(Take(Plan[r], n)) <=> i <= n
<1>1. Names(Take(Plan[r], n)) = {Plan[r][j].name : j \in 1..n}
  BY NamesOfTake, Zenon
<1>2. DOMAIN Plan[r] = 1..Len(Plan[r]) /\ Len(Plan[r]) \in Nat
  BY PlanIsSeq
<1>3. ASSUME i <= n PROVE Plan[r][i].name \in Names(Take(Plan[r], n))
  BY <1>1, <1>2, <1>3
<1>4. ASSUME NEW j \in 1..n, Plan[r][i].name = Plan[r][j].name PROVE i <= n
  <2>1. i = j
    BY <1>2, <1>4, DistinctAssumption
  <2> QED BY <2>1
<1> QED BY <1>1, <1>3, <1>4, Zenon

(***************************************************************************)
(* Inspect: what was read beyond the rows already reported is reported     *)
(* now, and then the account is the history that was read.                 *)
(***************************************************************************)
LEMMA InspectReports ==
  ASSUME MigrationInv, ResultInv, [Next]_vars, NEW r \in Runners, Inspect(r)
  PROVE  ResultInv'
<1> DEFINE n == Count(r)
           k == Len(work.rows)
           new == Unreported(r, work.rows)
           s == IF k = Len(Plan[r]) THEN "finish" ELSE "body"
<1>1. /\ step[r] = "inspect" /\ ValidHistoryPrefix(work.rows, Plan[r], 0)
      /\ already' = [already EXCEPT ![r] = already[r] \o new]
      /\ Goto(r, s) /\ UNCHANGED <<db, work, applied, returned, mine>>
  BY DEF Inspect
<1>2. /\ ReportInv(r) /\ Account(r) /\ returned[r] = "none" /\ ResultTypes
      /\ applied[r] \in Seq(Migrations) /\ already[r] \in Seq(Migrations)
      /\ n \in Nat /\ n <= Len(db.rows)
  <2>1. ReportInv(r) /\ ResultTypes
    BY Zenon DEF ResultInv
  <2>2. applied[r] \in Seq(Migrations) /\ already[r] \in Seq(Migrations)
    BY <2>1 DEF ResultTypes
  <2>3. step[r] \in Unfinished /\ step[r] \in {"new", "begin", "ensure", "inspect"}
    BY <1>1, Zenon DEF OpenSteps, Unfinished
  <2>4. Account(r) /\ returned[r] = "none" /\ n <= Len(db.rows)
    BY <2>1, <2>3, Zenon DEF ReportInv
  <2>5. n \in Nat
    <3>1. Len(applied[r]) \in Nat /\ Len(already[r]) \in Nat
      BY ONLY <2>2
    <3>2. ASSUME NEW a \in Nat, NEW b \in Nat PROVE a + b \in Nat
      OBVIOUS
    <3> QED BY <3>1, <3>2, Zenon DEF Count
  <2> QED BY <2>1, <2>2, <2>4, <2>5, Zenon
<1>3. work.rows \in Seq(Migrations) /\ k \in Nat /\ n <= k
  <2>1. step[r] \in OpenSteps
    BY <1>1, Zenon DEF OpenSteps
  <2>2. /\ work.rows \in Seq(Migrations) /\ k \in Nat
        /\ Len(db.rows) \in Nat /\ Len(db.rows) <= k
    BY <2>1, WorkHoldsFile, Zenon
  <2>3. ASSUME NEW a \in Nat, NEW b \in Nat, NEW c \in Nat, a <= b, b <= c PROVE a <= c
    BY <2>3
  <2> QED BY <1>2, <2>2, <2>3, Zenon
<1>4. /\ k <= Len(Plan[r]) /\ work.rows = Take(Plan[r], k) /\ Len(Plan[r]) \in Nat
      /\ \A i \in 1..k : work.rows[i] = Plan[r][i]
  <2>1. k <= Len(Plan[r]) /\ work.rows = Take(Plan[r], k) /\ Len(Plan[r]) \in Nat
    BY <1>1, <1>3, ValidIsPrefix, PlanIsSeq, Zenon
  <2>2. k \in 0..Len(Plan[r])
    BY <1>3, <2>1
  <2> QED BY <2>1, <2>2, TakeProperties
<1>5. new = [i \in 1..(k - n) |-> work.rows[n + i]]
  <2>1. ASSUME NEW i \in 1..k
        PROVE  work.rows[i].name \in Reported(r) <=> i <= n
    <3>1. i \in 1..Len(Plan[r]) /\ n \in 0..Len(Plan[r])
      <4>1. n \in Nat /\ k \in Nat /\ n <= k /\ k <= Len(Plan[r]) /\ Len(Plan[r]) \in Nat
        BY <1>2, <1>3, <1>4, Zenon
      <4> QED BY ONLY <2>1, <4>1
    <3>2. Reported(r) = Names(Take(Plan[r], n))
      BY <1>2 DEF Account
    <3> QED BY <1>4, <3>1, <3>2, LaterIsNew
  <2>2. \A i \in 1..n : work.rows[i].name \in Reported(r)
    BY <1>2, <1>3, <2>1
  <2>3. \A i \in (n + 1)..k : work.rows[i].name \notin Reported(r)
    BY <1>2, <1>3, <2>1
  <2>4. n \in 0..k
    BY <1>2, <1>3
  <2> QED BY <1>3, <2>2, <2>3, <2>4, UnseenIsRest, Zenon DEF Unreported, Reported
<1> HIDE DEF new
<1>6. /\ new \in Seq(Migrations) /\ Len(new) = k - n
      /\ \A i \in 1..(k - n) : new[i] = Plan[r][n + i]
  <2>1. \A i \in 1..(k - n) : n + i \in 1..k
    BY <1>2, <1>3
  <2>2. k - n \in Nat
    BY <1>2, <1>3
  <2>3. \A i \in 1..(k - n) : work.rows[n + i] \in Migrations /\ work.rows[n + i] = Plan[r][n + i]
    BY <1>3, <1>4, <2>1
  <2>4. \A i \in 1..(k - n) : new[i] = work.rows[n + i]
    BY <1>5
  <2>5. new \in [1..(k - n) -> Migrations]
    BY <1>5, <2>3
  <2> HIDE DEF n, k
  <2>6. new \in Seq(Migrations) /\ Len(new) = k - n
    BY ONLY <2>2, <2>5
  <2> QED BY <2>3, <2>4, <2>6, Zenon
<1>7. Names(new) = {Plan[r][i].name : i \in (n + 1)..k}
  <2>1. DOMAIN new = 1..(k - n)
    BY <1>5
  <2>2. ASSUME NEW x \in Names(new) PROVE x \in {Plan[r][i].name : i \in (n + 1)..k}
    <3>1. PICK i \in 1..(k - n) : x = new[i].name
      BY <2>1 DEF Names
    <3>2. n + i \in (n + 1)..k
      BY <1>2, <1>3
    <3> QED BY <1>6, <3>1, <3>2, Zenon
  <2>3. ASSUME NEW i \in (n + 1)..k PROVE Plan[r][i].name \in Names(new)
    <3>1. i - n \in 1..(k - n) /\ n + (i - n) = i
      BY <1>2, <1>3
    <3>2. new[i - n] = Plan[r][i]
      BY <1>6, <3>1, Zenon
    <3> QED BY <2>1, <3>1, <3>2, Zenon DEF Names
  <2> QED BY <2>2, <2>3
<1>8. /\ already'[r] = already[r] \o new /\ applied'[r] = applied[r] /\ mine'[r] = mine[r]
      /\ returned'[r] = "none"
      /\ already[r] \o new \in Seq(Migrations) /\ Len(already[r] \o new) = Len(already[r]) + (k - n)
      /\ Names(already[r] \o new) = Names(already[r]) \cup Names(new)
  <2>1. already[r] \o new \in Seq(Migrations) /\ Len(already[r] \o new) = Len(already[r]) + Len(new)
    <3>1. already[r] \in Seq(Migrations) /\ new \in Seq(Migrations)
      BY <1>2, <1>6, Zenon
    <3> QED BY ONLY <3>1
  <2>2. Names(already[r] \o new) = Names(already[r]) \cup Names(new)
    BY <1>2, <1>6, NamesConcat, Zenon
  <2>3. already'[r] = already[r] \o new
    BY <1>1, <1>2, Zenon DEF ResultTypes
  <2> QED BY <1>1, <1>2, <1>6, <2>1, <2>2, <2>3, Zenon
<1>9. Count(r)' = k
  <2>1. Count(r)' = Len(applied[r]) + (Len(already[r]) + (k - n))
    BY <1>8 DEF Count
  <2>2. n = Len(applied[r]) + Len(already[r]) /\ Len(applied[r]) \in Nat /\ Len(already[r]) \in Nat
    BY <1>2 DEF Count
  <2> QED BY <1>3, <2>1, <2>2
<1>10. Account(r)'
  <2> DEFINE old == Names(Take(Plan[r], n))
  <2>1. /\ old = {Plan[r][i].name : i \in 1..n}
        /\ Names(Take(Plan[r], k)) = {Plan[r][i].name : i \in 1..k}
    <3>1. n \in 0..Len(Plan[r]) /\ k \in 0..Len(Plan[r])
      BY <1>2, <1>3, <1>4
    <3> QED BY <3>1, NamesOfTake, Zenon
  <2>2. old \cap Names(new) = {}
    <3>1. ASSUME NEW i \in (n + 1)..k PROVE Plan[r][i].name \notin old
      <4>1. i \in 1..Len(Plan[r]) /\ n \in 0..Len(Plan[r]) /\ ~(i <= n)
        BY <1>2, <1>3, <1>4
      <4> QED BY <4>1, LaterIsNew
    <3> QED BY <1>7, <3>1, Zenon
  <2>3. old \cup Names(new) = Names(Take(Plan[r], k))
    <3>1. \A i : i \in 1..k <=> i \in 1..n \/ i \in (n + 1)..k
      BY <1>2, <1>3
    <3> QED BY <1>7, <2>1, <3>1
  <2> HIDE DEF old
  <2>4. /\ applied[r] = mine[r] /\ Names(applied[r]) \cap Names(already[r]) = {}
        /\ Names(applied[r]) \cup Names(already[r]) = old
    BY <1>2 DEF Account, Reported, old
  <2>5. Names(applied[r]) \cap Names(already'[r]) = {}
    BY <1>8, <2>2, <2>4, Zenon
  <2>6. Names(applied[r]) \cup Names(already'[r]) = Names(Take(Plan[r], k))
    BY <1>8, <2>3, <2>4, Zenon
  <2> QED BY <1>4, <1>8, <1>9, <2>4, <2>5, <2>6, Zenon DEF Account, Reported
<1>11. ResultTypes' /\ OthersKept(r) /\ step'[r] = s
  BY <1>1, <1>2, <1>8, Zenon DEF ResultTypes, OthersKept, Goto, MigrationInv, LockInv
<1>12. ReportInv(r)'
  BY <1>1, <1>8, <1>9, <1>10, <1>11, Zenon DEF ReportInv, Unfinished, OpenSteps
<1> QED BY <1>1, <1>11, <1>12, ReportStep

(* Commit: the unit's row joins what this call committed and reported. *)
LEMMA CommitReports ==
  ASSUME MigrationInv, ResultInv, [Next]_vars, NEW r \in Runners, Commit(r)
  PROVE  ResultInv'
<1> DEFINE n == Count(r)
           m == NewRow(r)
<1>1. /\ step[r] = "commit" /\ db' = work /\ work' = work /\ Goto(r, "begin")
      /\ mine' = [mine EXCEPT ![r] = Append(mine[r], m)]
      /\ applied' = [applied EXCEPT ![r] = Append(applied[r], m)]
      /\ UNCHANGED <<already, returned>>
  BY DEF Commit, Publish
<1>2. /\ ReportInv(r) /\ Account(r) /\ returned[r] = "none" /\ ResultTypes
      /\ applied[r] \in Seq(Migrations) /\ already[r] \in Seq(Migrations)
      /\ mine[r] \in Seq(Migrations)
      /\ n \in Nat /\ n + 1 = Len(work.rows)
  BY <1>1 DEF ResultInv, ResultTypes, ReportInv, Unfinished, OpenSteps, Count
<1>3. /\ n + 1 \in 1..Len(Plan[r]) /\ n \in 0..Len(Plan[r])
      /\ m = Plan[r][n + 1] /\ m \in Migrations /\ Len(Plan[r]) \in Nat
  <2>1. Len(work.rows) \in 1..Len(Plan[r]) /\ m = Plan[r][Len(work.rows)] /\ m \in Migrations
    BY <1>1, CommitFacts, Zenon
  <2> QED BY <1>2, <2>1, PlanIsSeq
<1> HIDE DEF m
<1>4. /\ Append(applied[r], m) \in Seq(Migrations)
      /\ Len(Append(applied[r], m)) = Len(applied[r]) + 1
      /\ Append(mine[r], m) \in Seq(Migrations)
      /\ Names(Append(applied[r], m)) = Names(applied[r]) \cup {m.name}
  <2>1. Names(Append(applied[r], m)) = Names(applied[r]) \cup {m.name}
    BY <1>2, <1>3, NamesAppend, Zenon
  <2> QED BY <1>2, <1>3, <2>1, Appended
<1>5. /\ applied'[r] = Append(applied[r], m) /\ mine'[r] = Append(mine[r], m)
      /\ already'[r] = already[r] /\ returned'[r] = "none"
  BY <1>1, <1>2, Zenon DEF ResultTypes
<1>6. Count(r)' = n + 1
  <2>1. Count(r)' = (Len(applied[r]) + 1) + Len(already[r])
    BY <1>4, <1>5, Zenon DEF Count
  <2>2. n = Len(applied[r]) + Len(already[r]) /\ Len(applied[r]) \in Nat /\ Len(already[r]) \in Nat
    BY <1>2 DEF Count
  <2>3. ASSUME NEW a \in Nat, NEW b \in Nat PROVE (a + 1) + b = (a + b) + 1
    OBVIOUS
  <2> QED BY ONLY <2>1, <2>2, <2>3, Zenon
<1>7. Account(r)'
  <2>1. /\ applied[r] = mine[r] /\ Names(applied[r]) \cap Names(already[r]) = {}
        /\ Names(applied[r]) \cup Names(already[r]) = Names(Take(Plan[r], n))
    BY <1>2, Zenon DEF Account, Reported
  <2>2. m.name \notin Names(Take(Plan[r], n))
    <3>1. ~(n + 1 <= n)
      BY <1>2
    <3> QED BY <1>3, <3>1, LaterIsNew, Zenon
  <2>3. Names(Take(Plan[r], n + 1)) = Names(Take(Plan[r], n)) \cup {m.name}
    <3>1. /\ Names(Take(Plan[r], n)) = {Plan[r][i].name : i \in 1..n}
          /\ Names(Take(Plan[r], n + 1)) = {Plan[r][i].name : i \in 1..(n + 1)}
      <4>1. n + 1 \in 0..Len(Plan[r])
        BY <1>3
      <4> QED BY <1>3, <4>1, NamesOfTake, Zenon
    <3>2. \A i : i \in 1..(n + 1) <=> i \in 1..n \/ i = n + 1
      BY <1>2
    <3> QED BY <1>3, <3>1, <3>2
  <2>4. Names(applied'[r]) \cap Names(already'[r]) = {}
    BY <1>4, <1>5, <2>1, <2>2
  <2>5. Names(applied'[r]) \cup Names(already'[r]) = Names(Take(Plan[r], n + 1))
    BY <1>4, <1>5, <2>1, <2>3, Zenon
  <2>6. applied'[r] = mine'[r] /\ n + 1 <= Len(Plan[r])
    BY <1>3, <1>5, <2>1
  <2> QED BY <1>6, <2>4, <2>5, <2>6, Zenon DEF Account, Reported
<1>8. ResultTypes' /\ OthersKept(r) /\ step'[r] = "begin"
  BY <1>1, <1>2, <1>4, Zenon DEF ResultTypes, OthersKept, Goto, MigrationInv, LockInv
<1>9. Count(r)' <= Len(db'.rows)
  <2>1. Count(r)' = Len(work.rows) /\ db'.rows = work.rows
    BY <1>1, <1>2, <1>6, Zenon
  <2>2. n \in Nat /\ n + 1 = Len(work.rows)
    BY <1>2, Zenon
  <2> HIDE DEF n
  <2>3. Len(work.rows) <= Len(work.rows)
    BY ONLY <2>2
  <2> QED BY <2>1, <2>3, Zenon
<1>10. ReportInv(r)'
  BY <1>5, <1>7, <1>8, <1>9 DEF ReportInv, Unfinished, OpenSteps
<1> QED BY <1>1, <1>8, <1>10, ReportStep

(* Finish: the account is the whole declaration. *)
LEMMA FinishReports ==
  ASSUME MigrationInv, ResultInv, [Next]_vars, NEW r \in Runners, Finish(r)
  PROVE  ResultInv'
<1>1. /\ step[r] = "finish" /\ work' = work /\ Goto(r, "settle")
      /\ returned' = [returned EXCEPT ![r] = "ok"]
      /\ UNCHANGED <<applied, already, mine>>
  BY DEF Finish, Publish
<1>2. ReportInv(r) /\ Account(r) /\ ResultTypes /\ Count(r) = Len(Plan[r])
  BY <1>1 DEF ResultInv, ReportInv, Unfinished, OpenSteps
<1>3. ResultTypes' /\ OthersKept(r) /\ step'[r] = "settle"
  BY <1>1, <1>2 DEF ResultTypes, Ends, OthersKept, Goto, MigrationInv, LockInv
<1>4. Account(r)' /\ Count(r)' = Len(Plan[r])
  <2>1. Count(r)' = Count(r) /\ Reported(r)' = Reported(r)
    BY <1>1 DEF Count, Reported
  <2> QED BY <1>1, <1>2, <2>1, Zenon DEF Account
<1>5. ReportInv(r)'
  BY <1>3, <1>4 DEF ReportInv, Unfinished, OpenSteps
<1> QED BY <1>1, <1>3, <1>5, ReportStep

LEMMA ResultInit == Init => ResultInv
<1> SUFFICES ASSUME Init PROVE ResultInv
  OBVIOUS
<1>1. /\ step = [r \in Runners |-> "new"] /\ returned = [r \in Runners |-> "none"]
      /\ applied = [r \in Runners |-> <<>>] /\ already = [r \in Runners |-> <<>>]
      /\ mine = [r \in Runners |-> <<>>]
  BY Zenon DEF Init
<1>2. <<>> \in Seq(Migrations) /\ Len(<<>>) = 0 /\ Names(<<>>) = {}
  BY NoElements DEF Names
<1>3. ResultTypes
  BY <1>1, <1>2 DEF ResultTypes, Ends
<1>4. ASSUME NEW r \in Runners PROVE ReportInv(r)
  <2>1. Count(r) = 0 /\ Reported(r) = {} /\ applied[r] = mine[r]
        /\ Names(applied[r]) \cap Names(already[r]) = {}
    BY <1>1, <1>2 DEF Count, Reported
  <2>2. 0 \in 0..Len(Plan[r]) /\ 0 <= Len(Plan[r])
    BY PlanIsSeq
  <2>3. Names(Take(Plan[r], 0)) = {}
    BY <2>2, NamesOfTake
  <2>4. Account(r)
    BY <2>1, <2>2, <2>3, Zenon DEF Account
  <2>5. 0 <= Len(db.rows)
    BY <1>2, InitFile
  <2> QED BY <1>1, <2>1, <2>4, <2>5 DEF ReportInv
<1> QED BY <1>3, <1>4 DEF ResultInv

LEMMA ResultNext == MigrationInv /\ ResultInv /\ [Next]_vars => ResultInv'
<1> SUFFICES ASSUME MigrationInv, ResultInv, [Next]_vars PROVE ResultInv'
  OBVIOUS
<1>1. CASE UNCHANGED vars
  <2>1. UNCHANGED <<step, work, applied, already, mine, returned>>
    BY <1>1 DEF vars, result
  <2>2. ResultTypes'
    BY <2>1 DEF ResultInv, ResultTypes
  <2>3. ASSUME NEW r \in Runners PROVE ReportInv(r)'
    BY <2>1, HistoryGrows, ReportKept DEF ResultInv
  <2> QED BY <2>2, <2>3 DEF ResultInv
<1>2. ASSUME NEW r \in Runners, Advance(r) PROVE ResultInv'
  <2>1. CASE BodyFails(r) \/ UnitFails(r)
    BY <2>1, RaiseReports DEF BodyFails, UnitFails, Raise
  <2> QED BY <1>2, <2>1, OutsideReports, UnitReports, InspectReports, CommitReports,
             FinishReports, CancelledReports DEF Advance
<1> QED BY <1>1, <1>2, OutsideReports DEF Next

(***************************************************************************)
(* A MigrationResult is the whole declaration, split into what this call   *)
(* committed and what it found, however many processes migrate between     *)
(* its transactions.  The account between transactions is the              *)
(* strengthening: apply_sqlite_migrations keeps it in local lists while    *)
(* the file changes.                                                       *)
(***************************************************************************)
THEOREM ResultsAreTruthful == Spec => []ResultIsTruthful
<1>1. MigrationInv /\ ResultInv => ResultIsTruthful
  <2> SUFFICES ASSUME ResultInv, NEW r \in Runners, returned[r] = "ok"
               PROVE  /\ applied[r] = mine[r]
                      /\ Names(applied[r]) \cap Names(already[r]) = {}
                      /\ Names(applied[r]) \cup Names(already[r]) = Names(Plan[r])
                      /\ Len(applied[r]) + Len(already[r]) = Len(Plan[r])
    BY Zenon DEF ResultIsTruthful
  <2>1. Account(r) /\ Count(r) = Len(Plan[r])
    BY DEF ResultInv, ReportInv
  <2>2. Names(Take(Plan[r], Len(Plan[r]))) = Names(Plan[r])
    <3>1. Len(Plan[r]) \in 0..Len(Plan[r]) /\ DOMAIN Plan[r] = 1..Len(Plan[r])
      BY PlanIsSeq
    <3>2. Names(Take(Plan[r], Len(Plan[r]))) = {Plan[r][i].name : i \in 1..Len(Plan[r])}
      BY <3>1, NamesOfTake, Zenon
    <3> QED BY <3>1, <3>2, Zenon DEF Names
  <2> QED BY <2>1, <2>2, Zenon DEF Account, Count, Reported
<1>2. Spec => [](MigrationInv /\ ResultInv)
  BY InitEstablishes, NextKeeps, ResultInit, ResultNext, PTL DEF Spec
<1> QED BY <1>1, <1>2, PTL
=============================================================================
