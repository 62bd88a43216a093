---------------------- MODULE MariaDBMigrationsProofs ----------------------
(***************************************************************************)
(* For any number of calls of migrate(), any declarations and failures:    *)
(* only the holder of the advisory lock writes, the database implements    *)
(* the ledger whose bodies may run again, and a result is truthful.        *)
(***************************************************************************)
EXTENDS MariaDBMigrations, SequenceLemmas

Leases == {"none", "held", "released", "discarded", "crashed"}
Endings == {"none", "ok", "locked", "failed", "crashed"}

TypeInv ==
  /\ db \in Databases
  /\ holder \in Runners \cup {NoRunner}
  /\ inflight \in [Runners -> Steps \cup {"none"}]
  /\ step \in [Runners -> Steps]
  /\ applied \in [Runners -> Seq(Migrations)]
  /\ already \in [Runners -> Seq(Migrations)]
  /\ mine \in [Runners -> Seq(Migrations)]
  /\ returned \in [Runners -> Endings]
  /\ lease \in [Runners -> Leases]

(* A table that is not yet, or not ours, has no history. *)
TableInv == db.shape # "v2" => db.rows = <<>> /\ db.bodies = <<>> /\ db.adopted = <<>>

(* How many migrations a call knows to be in the history. *)
Counted(r) == Len(already[r]) + Len(applied[r])

(***************************************************************************)
(* What the holder's next statement may rely on.  It is the same whether   *)
(* the call still runs or has left the statement with the server.          *)
(***************************************************************************)
Current(r) == IF step[r] \in Working THEN step[r] ELSE inflight[r]

Ready(r, s) ==
  /\ s \in {"fill", "finalize"} => db.shape = "staging"
  /\ s = "finalize" => \E n \in 0..Len(Plan[r]) : db.filled = Take(Plan[r], n)
  /\ s \in {"read", "body", "record"} => db.shape = "v2"
  /\ s \in {"body", "record"} =>
       Counted(r) < Len(Plan[r]) /\ db.rows = Take(Plan[r], Counted(r))
  /\ s = "record" /\ Pending(r) \in Ddl =>
       db.bodies # <<>> /\ db.bodies[Len(db.bodies)] = Pending(r)

(* The lock is held through every step that writes; a statement is left    *)
(* behind only by a call that is over.                                     *)
LockInv(r) ==
  /\ step[r] \in Working \cup {"release"} => holder = r
  /\ step[r] \in Working => inflight[r] = "none"
  /\ inflight[r] # "none" => step[r] \in {"settle", "done"}
  /\ lease[r] \in {"discarded", "crashed"} => step[r] = "done"

(* What a call has counted so far, and what it returned. *)
ResultInv(r) ==
  /\ step[r] \in Working \cup {"new", "lock"} => returned[r] = "none" /\ applied[r] = mine[r]
  /\ step[r] \in {"new", "lock", "ensure", "fill", "finalize", "read"} => applied[r] = <<>>
  /\ step[r] \in {"body", "record"} => already[r] \o applied[r] = Take(Plan[r], Counted(r))
  /\ returned[r] = "ok" => applied[r] = mine[r] /\ already[r] \o applied[r] = Plan[r]

RunnerInv(r) ==
  /\ LockInv(r)
  /\ ResultInv(r)
  /\ holder = r => Ready(r, Current(r))

(* The inductive invariant. *)
MigrationInv == TypeInv /\ TableInv /\ \A r \in Runners : RunnerInv(r)
-----------------------------------------------------------------------------
(* Sequences *)

LEMMA PlanIsSeq ==
  ASSUME NEW r \in Runners
  PROVE  Plan[r] \in Seq(Migrations) /\ Len(Plan[r]) \in Nat
BY PlanAssumption

LEMMA TakeProperties ==
  ASSUME NEW r \in Runners, NEW n \in 0..Len(Plan[r])
  PROVE  /\ Take(Plan[r], n) \in Seq(Migrations)
         /\ Len(Take(Plan[r], n)) = n
BY PlanIsSeq, PrefixProperties

LEMMA CountedType ==
  ASSUME TypeInv, NEW r \in Runners
  PROVE  /\ Counted(r) \in Nat
         /\ already[r] \in Seq(Migrations) /\ applied[r] \in Seq(Migrations)
         /\ mine[r] \in Seq(Migrations)
         /\ Len(already[r]) \in Nat /\ Len(applied[r]) \in Nat
BY DEF TypeInv, Counted

(* The migration that is next for a call that has not counted all. *)
LEMMA PendingIsDeclared ==
  ASSUME TypeInv, NEW r \in Runners, Counted(r) < Len(Plan[r])
  PROVE  /\ Pending(r) = Plan[r][Counted(r) + 1]
         /\ Pending(r) \in Migrations
         /\ Counted(r) + 1 \in 1..Len(Plan[r])
<1>1. Counted(r) \in Nat /\ Plan[r] \in Seq(Migrations)
  BY CountedType, PlanIsSeq
<1>2. Pending(r) = Plan[r][Counted(r) + 1]
  BY DEF Pending, Counted
<1> QED BY <1>1, <1>2

(* What is adopted of a valid legacy table is a declared prefix. *)
LEMMA PrefixIsDeclared ==
  ASSUME TypeInv, NEW r \in Runners, ValidLegacyHistory(db.legacy, Plan[r])
  PROVE  \E n \in 0..Len(Plan[r]) : Prefix(r) = Take(Plan[r], n)
BY DEF ValidLegacyHistory, Prefix
-----------------------------------------------------------------------------
(* The statements *)

(* A statement of the holder keeps the table sound. *)
LEMMA EffectKeepsTable ==
  ASSUME TypeInv, TableInv, NEW r \in Runners, NEW s, Ready(r, s)
  PROVE  /\ Effect(r, s) \in Databases
         /\ Effect(r, s).shape # "v2" =>
              /\ Effect(r, s).rows = <<>> /\ Effect(r, s).bodies = <<>>
              /\ Effect(r, s).adopted = <<>>
<1>0. db \in Databases /\ (db.shape # "v2" => db.rows = <<>> /\ db.bodies = <<>> /\ db.adopted = <<>>)
  BY DEF TypeInv, TableInv
<1>1. CASE s = "ensure"
  <2> DEFINE shape == IF db.shape = "absent" THEN "v2"
                      ELSE IF db.shape = "v1" /\ MayAdopt(r) THEN "staging" ELSE db.shape
  <2>1. Effect(r, s) = [db EXCEPT !.shape = shape] /\ shape \in Shapes /\ (db.shape = "v2" => shape = "v2")
    BY <1>0, <1>1 DEF Effect, Ensured, Databases, Shapes
  <2> HIDE DEF shape
  <2> QED BY <1>0, <2>1, Zenon DEF Databases
<1>2. CASE s = "fill"
  <2>1. CASE MayFill(r)
    <3>1. Prefix(r) \in Seq(Migrations)
      BY <2>1, PrefixIsDeclared, TakeProperties DEF MayFill
    <3>2. Effect(r, s) = [db EXCEPT !.filled = Prefix(r)]
      BY <1>2, <2>1 DEF Effect, Filled
    <3> QED BY <1>0, <3>1, <3>2, Zenon DEF Databases
  <2>2. CASE ~MayFill(r)
    BY <1>0, <1>2, <2>2 DEF Effect, Filled
  <2> QED BY <2>1, <2>2
<1>3. CASE s = "finalize"
  <2>1. Effect(r, s) = Finalized
    BY <1>3 DEF Effect
  <2>2. <<>> \in Seq(Migrations) /\ {} \subseteq UNION Legacies /\ db.filled \in Seq(Migrations)
    BY <1>0, NoElements DEF Databases
  <2> QED BY <1>0, <2>1, <2>2, Zenon DEF Finalized, Databases, Shapes
<1>4. CASE s = "body"
  <2>1. Pending(r) \in Migrations /\ db.shape = "v2"
    BY <1>4, PendingIsDeclared DEF Ready
  <2>2. CASE Pending(r) \in Ddl
    <3>1. Append(db.bodies, Pending(r)) \in Seq(Migrations)
      BY <1>0, <2>1, Appended DEF Databases
    <3>2. Effect(r, s) = [db EXCEPT !.bodies = Append(db.bodies, Pending(r))]
      BY <1>4, <2>2 DEF Effect, BodySent
    <3> QED BY <1>0, <2>1, <3>1, <3>2, Zenon DEF Databases
  <2>3. CASE Pending(r) \notin Ddl
    BY <1>0, <1>4, <2>3 DEF Effect, BodySent
  <2> QED BY <2>2, <2>3
<1>5. CASE s = "record"
  <2>1. Pending(r) \in Migrations /\ db.shape = "v2"
    BY <1>5, PendingIsDeclared DEF Ready
  <2>2. CASE MayRecord(r)
    <3> DEFINE bodies == IF Pending(r) \in Ddl THEN db.bodies ELSE Append(db.bodies, Pending(r))
    <3>1. Append(db.rows, Pending(r)) \in Seq(Migrations) /\ bodies \in Seq(Migrations)
      BY <1>0, <2>1, Appended DEF Databases
    <3>2. Effect(r, s) = [db EXCEPT !.rows = Append(db.rows, Pending(r)), !.bodies = bodies]
      BY <1>5, <2>2 DEF Effect, Recorded
    <3> HIDE DEF bodies
    <3> QED BY <1>0, <2>1, <3>1, <3>2, Zenon DEF Databases
  <2>3. CASE ~MayRecord(r)
    BY <1>0, <1>5, <2>3 DEF Effect, Recorded
  <2> QED BY <2>2, <2>3
<1>6. CASE s \notin {"ensure", "fill", "finalize", "body", "record"}
  BY <1>0, <1>6 DEF Effect
<1> QED BY <1>1, <1>2, <1>3, <1>4, <1>5, <1>6
-----------------------------------------------------------------------------
(* Who is not affected by a step *)

(* A step of r leaves the other calls alone. *)
Frame(r) ==
  \A q \in Runners \ {r} :
    /\ step'[q] = step[q] /\ inflight'[q] = inflight[q] /\ lease'[q] = lease[q]
    /\ applied'[q] = applied[q] /\ already'[q] = already[q] /\ mine'[q] = mine[q]
    /\ returned'[q] = returned[q]

(***************************************************************************)
(* A step of one call keeps the invariant if it keeps the table's and its  *)
(* own part, takes the lock only if it is free, gives up only its own, and *)
(* writes only with the lock in hand.                                      *)
(***************************************************************************)
LEMMA StepKeeps ==
  ASSUME MigrationInv, NEW r \in Runners, Frame(r),
         db' = db \/ holder = r,
         holder' = holder \/ (holder \in {r, NoRunner} /\ holder' \in {r, NoRunner}),
         TypeInv', TableInv', RunnerInv(r)'
  PROVE  MigrationInv'
<1>1. ASSUME NEW q \in Runners \ {r}
      PROVE  RunnerInv(q)'
  <2>1. RunnerInv(q) /\ q \in Runners /\ q # r /\ q # NoRunner
    BY RunnersAssumption DEF MigrationInv
  <2>2. /\ step'[q] = step[q] /\ inflight'[q] = inflight[q] /\ lease'[q] = lease[q]
        /\ applied'[q] = applied[q] /\ already'[q] = already[q] /\ mine'[q] = mine[q]
        /\ returned'[q] = returned[q]
    BY DEF Frame
  <2>3. (holder' = q) = (holder = q)
    BY <2>1
  <2>4. LockInv(q)'
    BY <2>1, <2>2, <2>3 DEF RunnerInv, LockInv
  <2>5. ResultInv(q)'
    BY ONLY <2>1, <2>2, Zenon DEF RunnerInv, ResultInv, Counted
  <2>6. ASSUME holder' = q
        PROVE  Ready(q, Current(q))'
    <3>1. db' = db /\ Ready(q, Current(q)) /\ Current(q)' = Current(q)
      BY <2>1, <2>2, <2>3, <2>6 DEF RunnerInv, Current
    <3> QED BY ONLY <2>2, <3>1, Zenon DEF Ready, Counted, Pending
  <2> QED BY <2>4, <2>5, <2>6 DEF RunnerInv
<1> QED BY <1>1 DEF MigrationInv
-----------------------------------------------------------------------------
(* One lemma per kind of step *)

LEMMA TypesAt ==
  ASSUME TypeInv, NEW r \in Runners
  PROVE  /\ step[r] \in Steps /\ inflight[r] \in Steps \cup {"none"} /\ lease[r] \in Leases
         /\ returned[r] \in Endings /\ r # NoRunner
BY RunnersAssumption DEF TypeInv

(***************************************************************************)
(* Steps outside the work: the database and the lock stay, and the call is *)
(* not at work afterwards.                                                 *)
(***************************************************************************)
LEMMA OutsideKeeps ==
  ASSUME MigrationInv, NEW r \in Runners,
         \/ Migrate(r) \/ LockTimesOut(r) \/ LockFails(r) \/ ConfirmRelease(r)
         \/ ConnectionLost(r) \/ Settle(r) \/ Crash(r)
  PROVE  MigrationInv'
<1>0. TypeInv /\ TableInv /\ RunnerInv(r)
  BY DEF MigrationInv
<1>1. db' = db /\ holder' = holder /\ applied' = applied /\ already' = already /\ mine' = mine
  BY DEF Migrate, LockTimesOut, LockFails, ConfirmRelease, ConnectionLost, Settle, Crash,
         server, outcome
<1>2. TypeInv' /\ Frame(r)
  <2>1. CASE Migrate(r)
    BY <1>0, <1>1, <2>1 DEF Migrate, TypeInv, Frame, Goto, Return, server, outcome, Steps, Leases
  <2>2. CASE LockTimesOut(r)
    BY <1>0, <1>1, <2>2 DEF LockTimesOut, TypeInv, Frame, Goto, Return, server, outcome, Steps, Endings
  <2>3. CASE LockFails(r)
    BY <1>0, <1>1, <2>3 DEF LockFails, TypeInv, Frame, Goto, Return, server, outcome, Steps, Endings
  <2>4. CASE ConfirmRelease(r)
    BY <1>0, <1>1, <2>4, Zenon DEF ConfirmRelease, TypeInv, Frame, Goto, Return, server, outcome, Steps, Endings
  <2>5. CASE ConnectionLost(r)
    BY <1>0, <1>1, <2>5, TypesAt DEF ConnectionLost, TypeInv, Frame, Goto, Return, server, outcome, Steps, Endings
  <2>6. CASE Settle(r)
    BY <1>0, <1>1, <2>6 DEF Settle, TypeInv, Frame, Goto, Return, server, outcome, Steps, Leases
  <2>7. CASE Crash(r)
    BY <1>0, <1>1, <2>7, TypesAt DEF Crash, TypeInv, Frame, Goto, Return, server, outcome, Steps, Leases, Endings
  <2> QED BY <2>1, <2>2, <2>3, <2>4, <2>5, <2>6, <2>7, SMTT(30)
<1>3. LockInv(r) /\ ResultInv(r) /\ (holder = r => Ready(r, Current(r)))
  BY <1>0 DEF RunnerInv
<1>4. /\ step'[r] \notin Working \cup {"release"}
      /\ inflight'[r] # "none" => step'[r] \in {"settle", "done"}
      /\ lease'[r] \in {"discarded", "crashed"} => step'[r] = "done"
      /\ step'[r] \in {"new", "lock"} => returned'[r] = returned[r] /\ step[r] = "new"
      /\ returned'[r] = "ok" => returned[r] = "ok"
      /\ Current(r)' \in {Current(r), "none", "lock", "release", "confirm"}
  <2>1. CASE Migrate(r)
    BY <1>0, <1>3, <2>1 DEF Migrate, TypeInv, LockInv, Current, Goto, server, outcome, Working
  <2>2. CASE LockTimesOut(r)
    BY <1>0, <1>3, <2>2 DEF LockTimesOut, TypeInv, LockInv, Current, Goto, Return, server, outcome, Working
  <2>3. CASE LockFails(r)
    BY <1>0, <1>3, <2>3 DEF LockFails, TypeInv, LockInv, Current, Goto, Return, server, outcome, Working
  <2>4. CASE ConfirmRelease(r)
    BY <1>0, <1>3, <2>4 DEF ConfirmRelease, TypeInv, LockInv, Current, Goto, Return, server, outcome, Working
  <2>5. CASE ConnectionLost(r)
    BY <1>0, <1>3, <2>5 DEF ConnectionLost, TypeInv, LockInv, Current, Goto, Return, server, outcome, Working
  <2>6. CASE Settle(r)
    BY <1>0, <1>3, <2>6 DEF Settle, TypeInv, LockInv, Current, Goto, Return, server, outcome, Working
  <2>7. CASE Crash(r)
    BY <1>0, <1>3, <2>7, TypesAt, SMTT(30) DEF Crash, TypeInv, LockInv, Current, Goto, Return, server, outcome, Working, Steps
  <2> QED BY <2>1, <2>2, <2>3, <2>4, <2>5, <2>6, <2>7
<1>5. LockInv(r)'
  BY <1>4, SMTT(30) DEF LockInv
<1>6. ResultInv(r)'
  BY <1>1, <1>3, <1>4, Zenon DEF ResultInv, Working
<1>7. holder' = r => Ready(r, Current(r))'
  BY <1>1, <1>3, <1>4, Zenon DEF Ready, Counted, Pending
<1>8. TableInv'
  BY <1>0, <1>1 DEF TableInv
<1> QED BY <1>1, <1>2, <1>5, <1>6, <1>7, <1>8, StepKeeps, SMTT(30) DEF RunnerInv

(* Steps that take the free lock or give up one's own. *)
LEMMA LockKeeps ==
  ASSUME MigrationInv, NEW r \in Runners,
         LockGranted(r) \/ ReleaseLock(r) \/ ServerGrantsLate(r)
  PROVE  MigrationInv'
<1>0. TypeInv /\ TableInv /\ LockInv(r) /\ ResultInv(r)
  BY DEF MigrationInv, RunnerInv
<1>1. /\ db' = db /\ applied' = applied /\ already' = already /\ mine' = mine
      /\ returned' = returned /\ lease' = lease
      /\ holder \in {r, NoRunner} /\ holder' \in {r, NoRunner}
  BY DEF LockGranted, ReleaseLock, ServerGrantsLate, outcome
<1>2. TypeInv' /\ Frame(r)
  <2>1. CASE LockGranted(r)
    BY <1>0, <1>1, <2>1 DEF LockGranted, TypeInv, Frame, Goto, Steps, Working
  <2>2. CASE ReleaseLock(r)
    BY <1>0, <1>1, <2>2 DEF ReleaseLock, TypeInv, Frame, Goto, Steps
  <2>3. CASE ServerGrantsLate(r)
    BY <1>0, <1>1, <2>3 DEF ServerGrantsLate, TypeInv, Frame
  <2> QED BY <2>1, <2>2, <2>3
<1>3. LockInv(r)'
  <2>1. CASE LockGranted(r)
    BY <1>0, <1>1, <2>1 DEF LockGranted, TypeInv, LockInv, Goto, Working
  <2>2. CASE ReleaseLock(r)
    BY <1>0, <1>1, <2>2 DEF ReleaseLock, TypeInv, LockInv, Goto, Working
  <2>3. CASE ServerGrantsLate(r)
    BY <1>0, <1>1, <2>3, TypesAt DEF ServerGrantsLate, TypeInv, LockInv
  <2> QED BY <2>1, <2>2, <2>3
<1>4. step'[r] = step[r] \/ (step[r] = "lock" /\ step'[r] = "ensure") \/ step'[r] = "confirm"
  BY <1>0 DEF LockGranted, ReleaseLock, ServerGrantsLate, TypeInv, Goto
<1>5. ResultInv(r)'
  BY <1>0, <1>1, <1>4, Zenon DEF ResultInv, Working, Counted
<1>6. holder' = r => Current(r)' \in {"ensure", "none"}
  BY <1>0, TypesAt DEF LockGranted, ReleaseLock, ServerGrantsLate, TypeInv, LockInv, Current, Goto, Working
<1>7. holder' = r => Ready(r, Current(r))'
  BY <1>6 DEF Ready
<1>8. TableInv'
  BY <1>0, <1>1 DEF TableInv
<1> QED BY <1>1, <1>2, <1>3, <1>5, <1>7, <1>8, StepKeeps DEF RunnerInv

(***************************************************************************)
(* Where the holder writes: the database becomes what its current          *)
(* statement makes of it, or stays.                                        *)
(***************************************************************************)
Writes(r) == holder = r /\ db' \in {db, Effect(r, Current(r))}

LEMMA WritesKeepTable ==
  ASSUME MigrationInv, NEW r \in Runners, Writes(r)
  PROVE  db' \in Databases /\ TableInv'
<1>1. TypeInv /\ TableInv /\ Ready(r, Current(r))
  BY DEF MigrationInv, RunnerInv, Writes
<1>2. CASE db' = db
  BY <1>1, <1>2 DEF TypeInv, TableInv
<1>3. CASE db' = Effect(r, Current(r))
  BY <1>1, <1>3, EffectKeepsTable DEF TableInv
<1> QED BY <1>2, <1>3 DEF Writes

(* The server lets go of a connection that is gone. *)
LEMMA ServerNoticesKeeps ==
  ASSUME MigrationInv, NEW r \in Runners, ServerNotices(r)
  PROVE  MigrationInv'
<1>0. TypeInv /\ TableInv /\ LockInv(r) /\ ResultInv(r) /\ step[r] = "done"
  BY DEF MigrationInv, RunnerInv, LockInv, ServerNotices
<1>1. /\ step' = step /\ applied' = applied /\ already' = already /\ mine' = mine
      /\ returned' = returned /\ lease' = lease
      /\ inflight' = [inflight EXCEPT ![r] = "none"]
      /\ holder' = IF holder = r THEN NoRunner ELSE holder
  BY DEF ServerNotices, outcome
<1>2. db' = db \/ Writes(r)
  BY <1>0 DEF ServerNotices, Writes, Current, Working
<1>3. db' \in Databases /\ TableInv'
  <2>1. CASE db' = db
    BY <1>0, <2>1 DEF TypeInv, TableInv
  <2> QED BY <1>2, <2>1, WritesKeepTable
<1>4. TypeInv' /\ Frame(r)
  BY <1>0, <1>1, <1>3 DEF TypeInv, Frame
<1>5. LockInv(r)' /\ ResultInv(r)' /\ holder' # r
  BY <1>0, <1>1, TypesAt, SMTT(30) DEF TypeInv, LockInv, ResultInv, Working, Counted
<1> QED BY <1>1, <1>2, <1>3, <1>4, <1>5, StepKeeps DEF RunnerInv, Writes

(* What is known of a call at work. *)
LEMMA AtWork ==
  ASSUME MigrationInv, NEW r \in Runners, step[r] \in Working
  PROVE  /\ TypeInv /\ TableInv /\ holder = r /\ inflight[r] = "none" /\ Current(r) = step[r]
         /\ Ready(r, step[r]) /\ ResultInv(r) /\ returned[r] = "none" /\ applied[r] = mine[r]
         /\ lease[r] \notin {"discarded", "crashed"}
BY ZenonT(30) DEF MigrationInv, RunnerInv, LockInv, ResultInv, Current, Working

(***************************************************************************)
(* A step of the call at work: it writes its current statement and goes on *)
(* to another step under the lock.                                         *)
(***************************************************************************)
LEMMA WorkKeeps ==
  ASSUME MigrationInv, NEW r \in Runners, step[r] \in Working,
         UNCHANGED <<holder, inflight, lease>>,
         db' \in {db, Effect(r, step[r])},
         NEW s \in Working \cup {"release"}, Goto(r, s),
         NEW a \in Seq(Migrations), applied' = [applied EXCEPT ![r] = a],
         NEW b \in Seq(Migrations), already' = [already EXCEPT ![r] = b],
         NEW m \in Seq(Migrations), mine' = [mine EXCEPT ![r] = m],
         NEW e \in Endings, returned' = [returned EXCEPT ![r] = e],
         ResultInv(r)', s \in Working => Ready(r, s)'
  PROVE  MigrationInv'
<1>1. TypeInv /\ holder = r /\ inflight[r] = "none" /\ Writes(r)
      /\ lease[r] \notin {"discarded", "crashed"}
  BY AtWork DEF Writes
<1>2. TypeInv' /\ Frame(r) /\ step'[r] = s
  <2>1. db' \in Databases
    BY <1>1, WritesKeepTable
  <2>2. s \in Steps
    BY DEF Steps
  <2>3. db' \in Databases /\ holder' \in Runners \cup {NoRunner}
        /\ inflight' \in [Runners -> Steps \cup {"none"}] /\ lease' \in [Runners -> Leases]
    BY <1>1, <2>1 DEF TypeInv
  <2>4. step' \in [Runners -> Steps] /\ step'[r] = s /\ \A q \in Runners \ {r} : step'[q] = step[q]
    BY <1>1, <2>2 DEF TypeInv, Goto
  <2>5. /\ applied' \in [Runners -> Seq(Migrations)] /\ already' \in [Runners -> Seq(Migrations)]
        /\ mine' \in [Runners -> Seq(Migrations)] /\ returned' \in [Runners -> Endings]
        /\ \A q \in Runners \ {r} : /\ applied'[q] = applied[q] /\ already'[q] = already[q]
                                    /\ mine'[q] = mine[q] /\ returned'[q] = returned[q]
    BY <1>1 DEF TypeInv
  <2> QED BY <2>3, <2>4, <2>5, SMTT(30) DEF TypeInv, Frame
<1>3. TableInv'
  BY <1>1, WritesKeepTable
<1>4. LockInv(r)'
  BY <1>1, <1>2 DEF LockInv, Working
<1>5. Ready(r, Current(r))'
  <2>1. CASE s \in Working
    <3>1. Current(r)' = s /\ Ready(r, s)'
      BY <1>2, <2>1, Zenon DEF Current
    <3> QED BY ONLY <3>1, Zenon DEF Ready
  <2>2. CASE s = "release"
    BY <1>1, <1>2, <2>2 DEF Current, Ready, Working
  <2> QED BY ONLY s \in Working \cup {"release"}, <2>1, <2>2
<1>6. RunnerInv(r)'
  BY ONLY ResultInv(r)', <1>4, <1>5, Zenon DEF RunnerInv
<1>7. (db' = db \/ holder = r) /\ holder' = holder
  BY <1>1
<1> QED BY ONLY MigrationInv, r \in Runners, <1>2, <1>3, <1>6, <1>7, StepKeeps

LEMMA SameAt ==
  ASSUME TypeInv, NEW r \in Runners
  PROVE  /\ applied = [applied EXCEPT ![r] = applied[r]] /\ applied[r] \in Seq(Migrations)
         /\ already = [already EXCEPT ![r] = already[r]] /\ already[r] \in Seq(Migrations)
         /\ mine = [mine EXCEPT ![r] = mine[r]] /\ mine[r] \in Seq(Migrations)
         /\ returned = [returned EXCEPT ![r] = returned[r]] /\ returned[r] \in Endings
BY DEF TypeInv

(* A step that counts nothing and goes on. *)
LEMMA QuietWorkKeeps ==
  ASSUME MigrationInv, NEW r \in Runners, step[r] \in Working,
         UNCHANGED <<holder, inflight, lease, applied, already, mine, returned>>,
         db' \in {db, Effect(r, step[r])},
         NEW s \in Working, Goto(r, s), Ready(r, s)',
         \/ step[r] \in {"ensure", "fill", "finalize"} /\ s \notin {"body", "record"}
         \/ step[r] = "body" /\ s = "record"
  PROVE  MigrationInv'
<1>1. TypeInv /\ ResultInv(r) /\ step'[r] = s /\ s \in Working \cup {"release"}
  BY AtWork, SMTT(30) DEF TypeInv, Goto
<1>2. ResultInv(r)'
  BY <1>1, ZenonT(30) DEF ResultInv, Counted, Working
<1> QED BY <1>1, <1>2, SameAt, WorkKeeps, SMTT(30)

LEMMA EnsureKeeps ==
  ASSUME MigrationInv, NEW r \in Runners, Ensure(r)
  PROVE  MigrationInv'
<1>1. /\ step[r] = "ensure" /\ db' = Effect(r, step[r])
      /\ UNCHANGED <<holder, inflight, lease, applied, already, mine, returned>>
  BY DEF Ensure, Effect, outcome
<1>2. CASE db'.shape = "v2" /\ Goto(r, "read")
  BY <1>1, <1>2, QuietWorkKeeps DEF Ready, Working
<1>3. CASE db'.shape = "staging" /\ Goto(r, "fill")
  BY <1>1, <1>3, QuietWorkKeeps DEF Ready, Working
<1> QED BY <1>2, <1>3 DEF Ensure

LEMMA FillStagingKeeps ==
  ASSUME MigrationInv, NEW r \in Runners, FillStaging(r)
  PROVE  MigrationInv'
<1>1. /\ step[r] = "fill" /\ db' = Effect(r, step[r]) /\ Goto(r, "finalize") /\ MayFill(r)
      /\ db' = [db EXCEPT !.filled = Prefix(r)]
      /\ UNCHANGED <<holder, inflight, lease, applied, already, mine, returned>>
  BY DEF FillStaging, Effect, Filled, outcome
<1>2. TypeInv /\ db.shape = "staging"
  BY <1>1, AtWork DEF Ready, Working
<1>3. db'.shape = "staging" /\ db'.filled = Prefix(r)
  BY <1>1, <1>2 DEF TypeInv, Databases
<1>4. \E n \in 0..Len(Plan[r]) : db'.filled = Take(Plan[r], n)
  BY <1>1, <1>2, <1>3, PrefixIsDeclared, SMTT(30) DEF MayFill
<1>5. Ready(r, "finalize")'
  BY <1>3, <1>4 DEF Ready
<1> QED BY <1>1, <1>5, QuietWorkKeeps DEF Working

LEMMA FinalizeStagingKeeps ==
  ASSUME MigrationInv, NEW r \in Runners, FinalizeStaging(r)
  PROVE  MigrationInv'
<1>1. /\ step[r] = "finalize" /\ db' = Effect(r, step[r]) /\ Goto(r, "read") /\ db' = Finalized
      /\ UNCHANGED <<holder, inflight, lease, applied, already, mine, returned>>
  BY DEF FinalizeStaging, Effect, outcome
<1>2. TypeInv
  BY DEF MigrationInv
<1>3. db'.shape = "v2"
  BY <1>1, <1>2, Zenon DEF TypeInv, Databases, Finalized
<1>4. Ready(r, "read")'
  BY <1>3 DEF Ready
<1> QED BY <1>1, <1>4, QuietWorkKeeps DEF Working

LEMMA RunBodyKeeps ==
  ASSUME MigrationInv, NEW r \in Runners, RunBody(r)
  PROVE  MigrationInv'
<1>1. /\ step[r] = "body" /\ db' = Effect(r, step[r]) /\ Goto(r, "record") /\ db' = BodySent(r)
      /\ UNCHANGED <<holder, inflight, lease, applied, already, mine, returned>>
  BY DEF RunBody, Effect, outcome
<1>2. /\ TypeInv /\ db.shape = "v2"
      /\ Counted(r) < Len(Plan[r]) /\ db.rows = Take(Plan[r], Counted(r))
  BY <1>1, AtWork DEF Ready, Working
<1>3. Counted(r)' = Counted(r) /\ Pending(r)' = Pending(r)
  BY <1>1 DEF Counted, Pending
<1>4. /\ db'.shape = "v2" /\ db'.rows = db.rows
      /\ Pending(r) \in Ddl => db'.bodies = Append(db.bodies, Pending(r))
  BY <1>1, <1>2, Zenon DEF TypeInv, Databases, BodySent
<1>5. ASSUME Pending(r) \in Ddl
      PROVE  db'.bodies # <<>> /\ db'.bodies[Len(db'.bodies)] = Pending(r)
  <2>1. db.bodies \in Seq(Migrations) /\ Pending(r) \in Migrations
    BY <1>2, PendingIsDeclared, SMTT(30) DEF TypeInv, Databases
  <2> QED BY <1>4, <1>5, <2>1, Appended, SMTT(30)
<1>6. Ready(r, "record")'
  BY <1>2, <1>3, <1>4, <1>5 DEF Ready
<1> QED BY <1>1, <1>6, QuietWorkKeeps DEF Working

(* What is read is a prefix of the declaration; the call goes on with it. *)
LEMMA ReadHistoryKeeps ==
  ASSUME MigrationInv, NEW r \in Runners, ReadHistory(r)
  PROVE  MigrationInv'
<1>1. /\ step[r] = "read" /\ ValidHistoryPrefix(db.rows, Plan[r], 0)
      /\ UNCHANGED <<db, holder, inflight, lease, applied, mine>>
      /\ already' = [already EXCEPT ![r] = db.rows] /\ GoOn(r, Len(db.rows))
  BY SMTT(30) DEF ReadHistory, server
<1>2. /\ TypeInv /\ db.shape = "v2" /\ applied[r] = <<>> /\ applied[r] = mine[r]
      /\ returned[r] = "none" /\ step[r] \in Working
  BY <1>1, AtWork, Zenon DEF Ready, ResultInv, Working
<1>3. db.rows \in Seq(Migrations)
  BY <1>2 DEF TypeInv, Databases
<1>4. Len(db.rows) \in 0..Len(Plan[r]) /\ db.rows = Take(Plan[r], Len(db.rows))
  BY <1>1, <1>3, PlanIsSeq, ValidPrefix
<1>5. /\ already'[r] = db.rows /\ applied'[r] = <<>> /\ mine'[r] = <<>>
      /\ Counted(r)' = Len(db.rows) /\ already'[r] \o applied'[r] = db.rows
  <2>1. already'[r] = db.rows /\ applied'[r] = <<>> /\ mine'[r] = <<>>
    BY <1>1, <1>2 DEF TypeInv
  <2>2. Len(<<>>) = 0 /\ db.rows \o <<>> = db.rows
    BY <1>3, Joined, NoElements
  <2> QED BY <1>4, <2>1, <2>2 DEF Counted
<1>6. CASE Len(db.rows) < Len(Plan[r])
  <2>1. Goto(r, "body") /\ returned' = returned /\ "body" \in Working
    BY <1>1, <1>6 DEF GoOn, Working
  <2>2. step'[r] = "body"
    BY <1>2, <2>1 DEF TypeInv, Goto
  <2>3. ResultInv(r)'
    BY <1>2, <1>4, <1>5, <2>1, <2>2, SMTT(30) DEF ResultInv
  <2>4. Ready(r, "body")'
    BY <1>1, <1>2, <1>4, <1>5, <1>6, SMTT(30) DEF Ready
  <2> QED BY <1>1, <1>2, <1>3, <2>1, <2>3, <2>4, SameAt, WorkKeeps, Zenon
<1>7. CASE ~(Len(db.rows) < Len(Plan[r]))
  <2>1. Goto(r, "release") /\ Return(r, "ok")
    BY <1>1, <1>7 DEF GoOn
  <2>2. step'[r] = "release"
    BY <1>2, <2>1 DEF TypeInv, Goto
  <2>3. db.rows = Plan[r]
    BY <1>4, <1>7, PlanIsSeq, PrefixEnds
  <2>4. ResultInv(r)'
    BY <1>5, <2>2, <2>3 DEF ResultInv, Working
  <2>5. "ok" \in Endings /\ "release" \notin Working
    BY DEF Endings, Working
  <2> QED BY <1>1, <1>2, <1>3, <2>1, <2>4, <2>5, SameAt, WorkKeeps, Zenon DEF Return
<1> QED BY <1>6, <1>7

(* The row that is recorded is the one the declaration puts next. *)
LEMMA RecordHistoryKeeps ==
  ASSUME MigrationInv, NEW r \in Runners, RecordHistory(r)
  PROVE  MigrationInv'
<1> DEFINE n == Counted(r)
           a == Append(applied[r], Pending(r))
<1>1. /\ step[r] = "record" /\ MayRecord(r) /\ db' = Recorded(r) /\ db' = Effect(r, step[r])
      /\ UNCHANGED <<holder, inflight, lease, already>>
      /\ applied' = [applied EXCEPT ![r] = a] /\ Credit(r) /\ GoOn(r, n + 1)
  BY Zenon DEF RecordHistory, Effect, Counted
<1>2. /\ TypeInv /\ db.shape = "v2" /\ n < Len(Plan[r]) /\ db.rows = Take(Plan[r], n)
      /\ already[r] \o applied[r] = Take(Plan[r], n)
      /\ returned[r] = "none" /\ applied[r] = mine[r] /\ step[r] \in Working
  BY <1>1, AtWork, Zenon DEF Ready, ResultInv, Working
<1>3. /\ n \in Nat /\ Len(applied[r]) \in Nat /\ Len(already[r]) \in Nat
      /\ applied[r] \in Seq(Migrations) /\ already[r] \in Seq(Migrations)
      /\ Pending(r) = Plan[r][n + 1] /\ Pending(r) \in Migrations
  BY <1>2, CountedType, PendingIsDeclared
<1>4. a \in Seq(Migrations) /\ Len(a) = Len(applied[r]) + 1
  BY <1>3, Appended
<1>5. db.rows \in Seq(Migrations) /\ db'.rows = Append(db.rows, Pending(r)) /\ db'.shape = "v2"
  BY <1>1, <1>2, SMTT(30) DEF TypeInv, Databases, Recorded
<1>6. db'.rows = Take(Plan[r], n + 1) /\ db'.rows # db.rows
  <2>1. Len(Append(db.rows, Pending(r))) = Len(db.rows) + 1 /\ Len(db.rows) \in Nat
    BY ONLY <1>3, <1>5, Appended, SeqLength
  <2>2. db'.rows # db.rows
    BY ONLY <1>5, <2>1
  <2> HIDE DEF n, a
  <2>3. Append(Take(Plan[r], n), Plan[r][n + 1]) = Take(Plan[r], n + 1)
    <3>1. n \in Nat /\ n < Len(Plan[r])
      BY <1>2, <1>3
    <3> QED BY ONLY r \in Runners, <3>1, PlanIsSeq, PrefixGrows
  <2> QED BY ONLY <1>2, <1>3, <1>5, <2>2, <2>3, Zenon
<1>7. mine' = [mine EXCEPT ![r] = a]
  <2>1. mine[r] = applied[r] /\ step[r] = "record" /\ db'.rows # db.rows
    BY <1>1, <1>2, <1>6
  <2> QED BY ONLY <1>1, <2>1 DEF Credit
<1>8. /\ applied'[r] = a /\ mine'[r] = a /\ already'[r] = already[r] /\ Counted(r)' = n + 1
  <2>1. applied \in [Runners -> Seq(Migrations)] /\ mine \in [Runners -> Seq(Migrations)]
    BY <1>2 DEF TypeInv
  <2> HIDE DEF a
  <2>2. applied'[r] = a /\ mine'[r] = a /\ already'[r] = already[r]
    BY ONLY r \in Runners, <1>1, <1>7, <2>1
  <2>3. /\ Counted(r)' = Len(already'[r]) + Len(applied'[r])
        /\ n = Len(already[r]) + Len(applied[r])
    BY DEF Counted
  <2> HIDE DEF n
  <2>4. Counted(r)' = Len(already[r]) + (Len(applied[r]) + 1)
    BY ONLY <1>4, <2>2, <2>3, Zenon
  <2>5. Counted(r)' = n + 1
    <3>1. \A x, y \in Nat : x + (y + 1) = (x + y) + 1
      OBVIOUS
    <3> QED BY ONLY <1>3, <2>3, <2>4, <3>1, Zenon
  <2> QED BY <2>2, <2>5
<1>9. already[r] \o a = Take(Plan[r], n + 1)
  <2>1. already[r] \o a = Append(already[r] \o applied[r], Pending(r))
    <3>1. \A s, t \in Seq(Migrations), m \in Migrations : s \o Append(t, m) = Append(s \o t, m)
      BY ConcatAppend, SMTT(30)
    <3> QED BY ONLY <1>3, <3>1, Zenon
  <2> QED BY <1>2, <1>3, <2>1, PlanIsSeq, PrefixGrows, Zenon
<1> HIDE DEF n, a
<1>10. CASE n + 1 < Len(Plan[r])
  <2>1. Goto(r, "body") /\ returned' = returned /\ "body" \in Working
    BY <1>1, <1>10 DEF GoOn, Working
  <2>2. step'[r] = "body"
    BY <1>2, <2>1, SMTT(30) DEF TypeInv, Goto
  <2>3. ResultInv(r)'
    <3>1. returned'[r] = "none"
      BY <1>2, <2>1
    <3>2. already'[r] \o applied'[r] = Take(Plan[r], Counted(r)')
      BY <1>8, <1>9
    <3> QED BY ONLY <1>8, <2>2, <3>1, <3>2 DEF ResultInv, Working
  <2>4. Ready(r, "body")'
    BY <1>5, <1>6, <1>8, <1>10, SMTT(30) DEF Ready
  <2> QED BY <1>1, <1>2, <1>4, <1>7, <2>1, <2>3, <2>4, SameAt, WorkKeeps, ZenonT(30)
<1>11. CASE ~(n + 1 < Len(Plan[r]))
  <2>1. Goto(r, "release") /\ Return(r, "ok")
    BY <1>1, <1>11 DEF GoOn
  <2>2. step'[r] = "release"
    BY <1>2, <2>1, SMTT(30) DEF TypeInv, Goto
  <2>3. Take(Plan[r], n + 1) = Plan[r]
    BY <1>2, <1>3, <1>11, PlanIsSeq, PrefixEnds, SMTT(30)
  <2>4. ResultInv(r)'
    BY <1>8, <1>9, <2>2, <2>3, SMTT(30) DEF ResultInv, Working
  <2>5. "ok" \in Endings /\ "release" \notin Working
    BY DEF Endings, Working
  <2> QED BY <1>1, <1>2, <1>4, <1>7, <2>1, <2>4, <2>5, SameAt, WorkKeeps, Zenon DEF Return
<1> QED BY <1>10, <1>11

(* A step that fails gives the lock up, whether or not it took effect. *)
LEMMA StepFailsKeeps ==
  ASSUME MigrationInv, NEW r \in Runners, StepFails(r)
  PROVE  MigrationInv'
<1> DEFINE m == IF step[r] = "record" /\ db'.rows # db.rows
                  THEN Append(mine[r], Pending(r)) ELSE mine[r]
<1>1. /\ step[r] \in Working /\ db' \in {db, Effect(r, step[r])}
      /\ mine' = [mine EXCEPT ![r] = m] /\ Return(r, "failed") /\ Goto(r, "release")
      /\ UNCHANGED <<holder, inflight, lease, applied, already>>
  BY DEF StepFails, Credit
<1>2. TypeInv /\ Ready(r, step[r])
  BY <1>1, AtWork
<1>3. m \in Seq(Migrations)
  <2>1. step[r] = "record" => Pending(r) \in Migrations
    BY <1>2, PendingIsDeclared DEF Ready
  <2> QED BY <1>2, <2>1, CountedType, Appended
<1> HIDE DEF m
<1>4. step'[r] = "release" /\ returned'[r] = "failed" /\ "failed" \in Endings /\ "release" \notin Working
  BY <1>1, <1>2 DEF TypeInv, Goto, Return, Endings, Working
<1>5. ResultInv(r)'
  BY <1>4 DEF ResultInv, Working
<1> QED BY <1>1, <1>2, <1>3, <1>4, <1>5, SameAt, WorkKeeps, ZenonT(30) DEF Return

LEMMA InitEstablishes == Init => MigrationInv
<1> SUFFICES ASSUME Init PROVE MigrationInv
  BY SMTT(30)
<1>1. db \in Databases /\ db.rows = <<>> /\ db.bodies = <<>> /\ db.adopted = <<>>
  <2>1. /\ Empty \in Databases
        /\ Empty.rows = <<>> /\ Empty.bodies = <<>> /\ Empty.adopted = <<>>
    BY NoElements DEF Empty, Databases, Shapes
  <2>2. CASE db \in {Empty, [Empty EXCEPT !.shape = "unknown"]}
    BY <2>1, <2>2 DEF Databases, Shapes
  <2>3. ASSUME NEW names \in Legacies,
               db = [Empty EXCEPT !.shape = "v1", !.legacy = names]
        PROVE  db \in Databases /\ db.rows = <<>> /\ db.bodies = <<>> /\ db.adopted = <<>>
    <3>1. names \in SUBSET UNION Legacies
      OBVIOUS
    <3> QED BY <2>1, <2>3, <3>1, Zenon DEF Databases, Shapes
  <2> QED BY <2>2, <2>3, ZenonT(30) DEF Init
<1>2. TypeInv
  BY <1>1, NoElements, Zenon DEF Init, TypeInv, Steps, Leases, Endings
<1>3. TableInv
  BY <1>1, SMTT(30) DEF TableInv
<1>4. ASSUME NEW r \in Runners PROVE RunnerInv(r)
  <2>1. /\ step[r] = "new" /\ inflight[r] = "none" /\ lease[r] = "none" /\ returned[r] = "none"
        /\ applied[r] = <<>> /\ mine[r] = <<>> /\ holder # r
    BY RunnersAssumption, Zenon DEF Init
  <2> QED BY <2>1, SMTT(30) DEF RunnerInv, LockInv, ResultInv, Working
<1> QED BY <1>2, <1>3, <1>4 DEF MigrationInv

LEMMA NextKeeps == MigrationInv /\ [Next]_vars => MigrationInv'
<1> SUFFICES ASSUME MigrationInv, [Next]_vars PROVE MigrationInv'
  OBVIOUS
<1>1. CASE UNCHANGED vars
  <2>1. UNCHANGED <<db, holder, inflight, step, applied, already, mine, returned, lease>>
    BY <1>1 DEF vars, server, outcome
  <2>2. TypeInv' /\ TableInv'
    BY <2>1, SMTT(30) DEF MigrationInv, TypeInv, TableInv
  <2>3. ASSUME NEW r \in Runners PROVE RunnerInv(r)'
    <3>1. RunnerInv(r)
      BY DEF MigrationInv
    <3> QED BY ONLY <2>1, <3>1, ZenonT(30) DEF RunnerInv, LockInv, ResultInv, Ready, Current, Counted, Pending
  <2> QED BY <2>2, <2>3 DEF MigrationInv
<1>2. ASSUME NEW r \in Runners, Advance(r) PROVE MigrationInv'
  BY <1>2, OutsideKeeps, LockKeeps, EnsureKeeps, FillStagingKeeps, FinalizeStagingKeeps,
     ReadHistoryKeeps, RunBodyKeeps, RecordHistoryKeeps, StepFailsKeeps, SMTT(30) DEF Advance
<1> QED BY <1>1, <1>2, OutsideKeeps, LockKeeps, ServerNoticesKeeps DEF Next

(***************************************************************************)
(* The inductive invariant holds for every set of runners, declarations,   *)
(* legacy tables and DDL bodies.                                           *)
(***************************************************************************)
THEOREM MigrationCorrect == Spec => []MigrationInv
BY InitEstablishes, NextKeeps, PTL DEF Spec

(***************************************************************************)
(* A MigrationResult accounts for the whole declaration, and reports as    *)
(* applied exactly what the call committed itself.                         *)
(***************************************************************************)
THEOREM ResultsAreTruthful == Spec => []ResultIsTruthful
<1>1. MigrationInv => ResultIsTruthful
  BY ZenonT(30) DEF MigrationInv, RunnerInv, ResultInv, ResultIsTruthful
<1> QED BY <1>1, MigrationCorrect, PTL
-----------------------------------------------------------------------------
(* Who writes *)

(***************************************************************************)
(* Every change of the database is the current statement of the holder,    *)
(* and leaves what the other calls and their connections are at alone.     *)
(***************************************************************************)
LEMMA ChangeIsHolders ==
  ASSUME MigrationInv, [Next]_vars
  PROVE  \/ db' = db
         \/ \E r \in Runners : Writes(r) /\ Frame(r)
<1>1. CASE UNCHANGED vars
  BY <1>1 DEF vars, server
<1>2. ASSUME NEW r \in Runners,
             \/ Migrate(r) \/ LockGranted(r) \/ LockTimesOut(r) \/ LockFails(r) \/ ReleaseLock(r)
             \/ ConfirmRelease(r) \/ ReadHistory(r) \/ ConnectionLost(r) \/ Settle(r)
             \/ Crash(r) \/ ServerGrantsLate(r)
      PROVE  db' = db
  BY <1>2 DEF Migrate, LockGranted, LockTimesOut, LockFails, ReleaseLock, ConfirmRelease,
              ReadHistory, ConnectionLost, Settle, Crash, ServerGrantsLate, server
<1>3. ASSUME NEW r \in Runners,
             \/ Ensure(r) \/ FillStaging(r) \/ FinalizeStaging(r) \/ RunBody(r)
             \/ RecordHistory(r) \/ StepFails(r)
      PROVE  Writes(r) /\ Frame(r)
  <2>1. step[r] \in Working /\ db' \in {db, Effect(r, step[r])}
    BY <1>3, Zenon DEF Ensure, FillStaging, FinalizeStaging, RunBody, RecordHistory, StepFails,
                Effect, Working
  <2>2. TypeInv /\ Writes(r)
    BY <2>1, AtWork DEF Writes
  <2>3. CASE StepFails(r)
    BY <2>2, <2>3 DEF StepFails, Goto, Credit, Return, Frame, TypeInv, outcome
  <2>4. CASE Ensure(r) \/ FillStaging(r) \/ FinalizeStaging(r)
    BY <2>2, <2>4 DEF Ensure, FillStaging, FinalizeStaging, GoOn, Goto, Frame, TypeInv, outcome
  <2>5. CASE RunBody(r)
    BY <2>2, <2>5 DEF RunBody, Goto, Frame, TypeInv, outcome
  <2>6. CASE RecordHistory(r)
    <3>1. /\ \E s \in {"body", "release"} : step' = [step EXCEPT ![r] = s]
          /\ \E e \in {returned[r], "ok"} : returned' = [returned EXCEPT ![r] = e]
      BY <2>2, <2>6 DEF RecordHistory, GoOn, Goto, Return, TypeInv
    <3>2. /\ \E m : mine' = [mine EXCEPT ![r] = m]
          /\ \E m : applied' = [applied EXCEPT ![r] = m]
          /\ UNCHANGED <<inflight, already, lease>>
      BY <2>6, Zenon DEF RecordHistory, Credit
    <3>3. \A q \in Runners \ {r} :
            /\ step'[q] = step[q] /\ returned'[q] = returned[q] /\ mine'[q] = mine[q]
            /\ applied'[q] = applied[q]
      BY ONLY <2>2, <3>1, <3>2 DEF TypeInv
    <3> QED BY ONLY <2>2, <3>2, <3>3 DEF Frame
  <2> QED BY <1>3, <2>3, <2>4, <2>5, <2>6
<1>4. ASSUME NEW r \in Runners, ServerNotices(r), db' # db
      PROVE  Writes(r) /\ Frame(r)
  <2>1. TypeInv /\ step[r] = "done"
    BY <1>4, Zenon DEF MigrationInv, RunnerInv, LockInv, ServerNotices
  <2>2. Writes(r)
    BY <1>4, <2>1 DEF ServerNotices, Writes, Current, Working
  <2> QED BY <1>4, <2>1, <2>2, SMTT(30) DEF ServerNotices, Frame, TypeInv, outcome
<1> QED BY <1>1, <1>2, <1>3, <1>4 DEF Next, Advance

(***************************************************************************)
(* Only the connection that holds the advisory lock changes the database,  *)
(* also through a statement that outlives its client.                      *)
(***************************************************************************)
THEOREM LockIsExclusive == Spec => OnlyHolderWrites
<1>1. ASSUME MigrationInv, [Next]_vars
      PROVE  [db' # db => \E r \in Runners :
                 /\ holder = r
                 /\ \A q \in Runners \ {r} : step'[q] = step[q] /\ inflight'[q] = inflight[q]]_vars
  BY <1>1, ChangeIsHolders DEF Writes, Frame
<1> QED BY <1>1, MigrationCorrect, PTL DEF Spec, OnlyHolderWrites
-----------------------------------------------------------------------------
(* The ledger *)

LEMMA DeclaredInLedger ==
  ASSUME NEW r \in Runners, NEW i \in 1..Len(Plan[r])
  PROVE  Plan[r] \in {Plan[q] : q \in Runners} /\ Plan[r][i] \in Promise!Migrations
BY PlanIsSeq DEF Promise!Migrations

(* Taking over a declared prefix, possibly an empty one. *)
LEMMA FinalizeIsLedgerStep ==
  ASSUME MigrationInv, NEW r \in Runners, Ready(r, "finalize"), db' = Finalized
  PROVE  Promise!Next \/ UNCHANGED <<db.rows, db.bodies, db.adopted>>
<1>1. /\ TypeInv /\ db.rows = <<>> /\ db.bodies = <<>> /\ db.adopted = <<>>
  BY DEF MigrationInv, TableInv, Ready
<1>2. PICK n \in 0..Len(Plan[r]) : db.filled = Take(Plan[r], n)
  BY DEF Ready
<1>3. db'.rows = Take(Plan[r], n) /\ db'.adopted = Take(Plan[r], n) /\ db'.bodies = db.bodies
  BY <1>1, <1>2 DEF TypeInv, Databases, Finalized
<1>4. CASE n = 0
  <2>1. Take(Plan[r], n) = <<>>
    BY <1>4, PlanIsSeq, PrefixEnds, SMTT(30)
  <2> QED BY <1>1, <1>3, <2>1
<1>5. CASE n \in 1..Len(Plan[r])
  <2>1. 1 \in 1..Len(Plan[r])
    BY <1>5, PlanIsSeq
  <2>2. Promise!Adopt(Plan[r], n, Plan[r][1])
    BY <1>1, <1>3, <1>5, SMTT(30) DEF Promise!Adopt, Take
  <2> QED BY <1>5, <2>1, <2>2, DeclaredInLedger DEF Promise!Next
<1> QED BY <1>4, <1>5, PlanIsSeq

(* The pending migration is next in the ledger. *)
LEMMA PendingIsNext ==
  ASSUME TypeInv, NEW r \in Runners,
         Counted(r) < Len(Plan[r]), db.rows = Take(Plan[r], Counted(r))
  PROVE  Promise!IsNext(Pending(r)) /\ Pending(r) \in Promise!Migrations
<1>1. Counted(r) \in 0..Len(Plan[r]) /\ Counted(r) + 1 \in 1..Len(Plan[r])
  BY CountedType, PlanIsSeq
<1>2. Len(db.rows) = Counted(r)
  BY <1>1, TakeProperties
<1>3. Pending(r) = Plan[r][Counted(r) + 1]
  BY PendingIsDeclared
<1>4. Plan[r] \in {Plan[q] : q \in Runners} /\ Pending(r) \in Promise!Migrations
  BY <1>1, <1>3, DeclaredInLedger, SMTT(30)
<1> QED BY <1>2, <1>3, <1>4, Zenon DEF Promise!IsNext, Take

(* A DDL body that ran is an unrecorded run; any other waits for COMMIT. *)
LEMMA BodyIsLedgerStep ==
  ASSUME MigrationInv, NEW r \in Runners, Ready(r, "body"), db' = BodySent(r)
  PROVE  Promise!Next \/ UNCHANGED <<db.rows, db.bodies, db.adopted>>
<1>1. TypeInv /\ Promise!IsNext(Pending(r)) /\ Pending(r) \in Promise!Migrations
  BY PendingIsNext DEF MigrationInv, Ready
<1>2. CASE Pending(r) \in Ddl
  <2>1. db'.rows = db.rows /\ db'.adopted = db.adopted /\ db'.bodies = Append(db.bodies, Pending(r))
    BY <1>1, <1>2 DEF TypeInv, Databases, BodySent
  <2>2. Promise!RunUnrecorded(Pending(r))
    BY <1>1, <2>1 DEF Promise!RunUnrecorded
  <2> QED BY <1>1, <2>2 DEF Promise!Next
<1>3. CASE Pending(r) \notin Ddl
  BY <1>3, SMTT(30) DEF BodySent
<1> QED BY <1>2, <1>3

(* COMMIT records a DDL body that ran last, or applies body and row at once. *)
LEMMA RecordIsLedgerStep ==
  ASSUME MigrationInv, NEW r \in Runners, Ready(r, "record"), db' = Recorded(r)
  PROVE  Promise!Next \/ UNCHANGED <<db.rows, db.bodies, db.adopted>>
<1>1. TypeInv /\ Promise!IsNext(Pending(r)) /\ Pending(r) \in Promise!Migrations
  BY PendingIsNext DEF MigrationInv, Ready
<1>2. CASE ~MayRecord(r)
  BY <1>2, SMTT(30) DEF Recorded
<1>3. CASE MayRecord(r) /\ Pending(r) \in Ddl
  <2>1. db'.rows = Append(db.rows, Pending(r)) /\ db'.adopted = db.adopted /\ db'.bodies = db.bodies
    BY <1>1, <1>3, SMTT(30) DEF TypeInv, Databases, Recorded
  <2>2. Promise!Record(Pending(r))
    <3>1. db.bodies # <<>> /\ db.bodies[Len(db.bodies)] = Pending(r)
      BY <1>3, Zenon DEF Ready
    <3> QED BY ONLY <1>1, <2>1, <3>1 DEF Promise!Record
  <2> QED BY <1>1, <2>2 DEF Promise!Next
<1>4. CASE MayRecord(r) /\ Pending(r) \notin Ddl
  <2>1. /\ db'.rows = Append(db.rows, Pending(r)) /\ db'.adopted = db.adopted
        /\ db'.bodies = Append(db.bodies, Pending(r))
    BY <1>1, <1>4 DEF TypeInv, Databases, Recorded
  <2>2. Promise!Apply(Pending(r))
    BY <1>1, <2>1 DEF Promise!Apply
  <2> QED BY <1>1, <2>2 DEF Promise!Next
<1> QED BY <1>2, <1>3, <1>4, SMTT(30)

LEMMA LedgerStep ==
  MigrationInv /\ [Next]_vars => [Promise!Next]_(Promise!ledger)
<1> SUFFICES ASSUME MigrationInv, [Next]_vars, db' # db
             PROVE  Promise!Next \/ UNCHANGED <<db.rows, db.bodies, db.adopted>>
  BY DEF Promise!ledger
<1>1. PICK r \in Runners : Writes(r)
  BY ChangeIsHolders
<1> DEFINE s == Current(r)
<1>2. db' = Effect(r, s) /\ Ready(r, s) /\ TypeInv
  BY <1>1 DEF Writes, MigrationInv, RunnerInv
<1> HIDE DEF s
<1>3. CASE s \in {"ensure", "fill"}
  BY <1>2, <1>3 DEF Effect, Ensured, Filled, TypeInv, Databases
<1>4. CASE s = "finalize"
  BY <1>2, <1>4, FinalizeIsLedgerStep DEF Effect
<1>5. CASE s = "body"
  BY <1>2, <1>5, BodyIsLedgerStep DEF Effect
<1>6. CASE s = "record"
  BY <1>2, <1>6, RecordIsLedgerStep DEF Effect
<1>7. CASE s \notin {"ensure", "fill", "finalize", "body", "record"}
  BY <1>2, <1>7, SMTT(30) DEF Effect
<1> QED BY <1>3, <1>4, <1>5, <1>6, <1>7

LEMMA LedgerInit == Init => Promise!Init
<1> SUFFICES ASSUME Init PROVE db.rows = <<>> /\ db.bodies = <<>> /\ db.adopted = <<>>
  BY DEF Promise!Init
<1>1. ASSUME NEW names \in Legacies,
             db = [Empty EXCEPT !.shape = "v1", !.legacy = names]
      PROVE  db.rows = <<>> /\ db.bodies = <<>> /\ db.adopted = <<>>
  BY <1>1 DEF Empty
<1>2. CASE db \in {Empty, [Empty EXCEPT !.shape = "unknown"]}
  BY <1>2 DEF Empty
<1> QED BY <1>1, <1>2, Zenon DEF Init

(***************************************************************************)
(* migrate() on one MariaDB database implements the ledger whose bodies    *)
(* may run again, staged legacy adoption and late statements included.     *)
(***************************************************************************)
THEOREM DatabaseKeepsLedger == Spec => KeepsLedger
BY LedgerInit, LedgerStep, MigrationCorrect, PTL DEF Spec, KeepsLedger, Promise!Spec
-----------------------------------------------------------------------------
(* Transactional bodies *)

(* No row comes twice, and neither does a transactional body, which has one. *)
BodyInv ==
  /\ \A i, j \in 1..Len(db.rows) : db.rows[i] = db.rows[j] => i = j
  /\ \A i \in 1..Len(db.bodies) :
       db.bodies[i] \notin Ddl =>
         /\ \E k \in 1..Len(db.rows) : db.rows[k] = db.bodies[i]
         /\ \A j \in 1..Len(db.bodies) : db.bodies[j] = db.bodies[i] => j = i

LEMMA PrefixIsDistinct ==
  ASSUME NEW r \in Runners, NEW n \in 0..Len(Plan[r]),
         NEW i \in 1..n, NEW j \in 1..n, Take(Plan[r], n)[i] = Take(Plan[r], n)[j]
  PROVE  i = j
<1>1. Plan[r][i] = Plan[r][j]
  BY PlanIsSeq, PrefixProperties, Zenon
<1>2. i \in DOMAIN Plan[r] /\ j \in DOMAIN Plan[r]
  BY PlanIsSeq
<1> QED BY <1>1, <1>2, DistinctAssumption

(* A recorded row is new, and so is a transactional body. *)
LEMMA RecordKeepsBodies ==
  ASSUME MigrationInv, BodyInv, NEW r \in Runners, Ready(r, "record"), db' = Recorded(r)
  PROVE  BodyInv'
<1> DEFINE n == Counted(r)
           p == Pending(r)
<1>1. /\ TypeInv /\ n < Len(Plan[r]) /\ db.rows = Take(Plan[r], n)
      /\ n \in Nat /\ n \in 0..Len(Plan[r]) /\ n + 1 \in 0..Len(Plan[r])
      /\ p = Plan[r][n + 1] /\ p \in Migrations
  <2>1. TypeInv /\ n < Len(Plan[r]) /\ db.rows = Take(Plan[r], n)
    BY Zenon DEF MigrationInv, Ready
  <2>2. p = Plan[r][n + 1] /\ p \in Migrations /\ n \in Nat
    BY ONLY r \in Runners, <2>1, CountedType, PendingIsDeclared
  <2> HIDE DEF n, p
  <2>3. n \in 0..Len(Plan[r]) /\ n + 1 \in 0..Len(Plan[r])
    BY ONLY r \in Runners, <2>1, <2>2, PlanIsSeq
  <2> QED BY ONLY <2>1, <2>2, <2>3
<1>2. CASE ~MayRecord(r)
  BY <1>2 DEF Recorded, BodyInv
<1>3. CASE MayRecord(r)
  <2>1. /\ db'.rows = Append(db.rows, p)
        /\ db'.bodies = IF p \in Ddl THEN db.bodies ELSE Append(db.bodies, p)
    BY <1>1, <1>3, SMTT(30) DEF TypeInv, Databases, Recorded
  <2>2. /\ db.rows \in Seq(Migrations) /\ db.bodies \in Seq(Migrations)
        /\ Len(db.rows) = n /\ Len(db.bodies) \in Nat
    <3>1. db.rows \in Seq(Migrations) /\ db.bodies \in Seq(Migrations)
      BY <1>1 DEF TypeInv, Databases
    <3> HIDE DEF n, p
    <3>2. Len(db.rows) = n
      BY ONLY r \in Runners, <1>1, TakeProperties
    <3> QED BY ONLY <3>1, <3>2, SeqLength
  <2> HIDE DEF n, p
  <2>3. db'.rows = Take(Plan[r], n + 1)
    <3>1. Append(Take(Plan[r], n), Plan[r][n + 1]) = Take(Plan[r], n + 1)
      BY ONLY r \in Runners, <1>1, PlanIsSeq, PrefixGrows
    <3> QED BY ONLY <1>1, <2>1, <3>1, Zenon
  <2>4. /\ Len(db'.rows) = n + 1 /\ db'.rows[n + 1] = p
        /\ \A i \in 1..n : db'.rows[i] = db.rows[i]
    <3>1. /\ Len(Append(db.rows, p)) = Len(db.rows) + 1
          /\ \A i \in 1..Len(db.rows) : Append(db.rows, p)[i] = db.rows[i]
          /\ Append(db.rows, p)[Len(db.rows) + 1] = p
      BY ONLY <1>1, <2>2, Appended
    <3> QED BY ONLY <2>1, <2>2, <3>1, Zenon
  <2>5. \A i, j \in 1..(n + 1) : db'.rows[i] = db'.rows[j] => i = j
    BY ONLY r \in Runners, <1>1, <2>3, PrefixIsDistinct, Zenon
  <2>6. CASE p \in Ddl
    <3>1. db'.bodies = db.bodies
      BY <2>1, <2>6
    <3>2. \A i \in 1..Len(db.bodies) : db.bodies[i] \notin Ddl =>
            /\ \E k \in 1..n : db.rows[k] = db.bodies[i]
            /\ \A j \in 1..Len(db.bodies) : db.bodies[j] = db.bodies[i] => j = i
      BY <2>2, Zenon DEF BodyInv
    <3>3. \A k \in 1..n : k \in 1..(n + 1) /\ db'.rows[k] = db.rows[k]
      BY <1>1, <2>4
    <3>4. \A i \in 1..Len(db.bodies) : db.bodies[i] \notin Ddl =>
            /\ \E k \in 1..(n + 1) : db'.rows[k] = db.bodies[i]
            /\ \A j \in 1..Len(db.bodies) : db.bodies[j] = db.bodies[i] => j = i
      BY ONLY <3>2, <3>3, Zenon
    <3> QED BY ONLY <2>4, <2>5, <3>1, <3>4, Zenon DEF BodyInv
  <2>7. CASE p \notin Ddl
    <3> DEFINE b == Len(db.bodies)
    <3>1. /\ Len(db'.bodies) = b + 1 /\ db'.bodies[b + 1] = p
          /\ \A i \in 1..b : db'.bodies[i] = db.bodies[i]
      <4>1. /\ Len(Append(db.bodies, p)) = Len(db.bodies) + 1
            /\ \A i \in 1..Len(db.bodies) : Append(db.bodies, p)[i] = db.bodies[i]
            /\ Append(db.bodies, p)[Len(db.bodies) + 1] = p
        BY ONLY <1>1, <2>2, Appended
      <4> QED BY ONLY <2>1, <2>7, <4>1, Zenon DEF b
    <3>2. \A i \in 1..b : db.bodies[i] # p
      <4>1. ASSUME NEW k \in 1..n, db.rows[k] = p PROVE FALSE
        <5>1. n \in Nat /\ k \in 1..(n + 1) /\ n + 1 \in 1..(n + 1) /\ k # n + 1
          BY <1>1
        <5>2. db'.rows[k] = db'.rows[n + 1]
          BY <2>4, <4>1
        <5> QED BY <2>5, <5>1, <5>2
      <4> QED BY <2>2, <2>7, <4>1 DEF BodyInv
    <3> HIDE DEF b
    <3>3. \A i \in 1..(b + 1) : db'.bodies[i] \notin Ddl =>
            /\ \E k \in 1..(n + 1) : db'.rows[k] = db'.bodies[i]
            /\ \A j \in 1..(b + 1) : db'.bodies[j] = db'.bodies[i] => j = i
      <4> SUFFICES ASSUME NEW i \in 1..(b + 1), db'.bodies[i] \notin Ddl
                   PROVE  /\ \E k \in 1..(n + 1) : db'.rows[k] = db'.bodies[i]
                          /\ \A j \in 1..(b + 1) : db'.bodies[j] = db'.bodies[i] => j = i
        OBVIOUS
      <4>0. b \in Nat /\ n \in Nat /\ n + 1 \in 1..(n + 1)
        BY <1>1, <2>2, SMTT(30) DEF b
      <4>1. CASE i = b + 1
        <5>1. db'.bodies[i] = p /\ db'.rows[n + 1] = db'.bodies[i]
          BY <2>4, <3>1, <4>1
        <5>2. \A j \in 1..(b + 1) : db'.bodies[j] = p => j = b + 1
          BY <3>1, <3>2, <4>0, SMTT(30)
        <5> QED BY <4>0, <4>1, <5>1, <5>2, SMTT(30)
      <4>2. CASE i \in 1..b
        <5>1. db'.bodies[i] = db.bodies[i] /\ db.bodies[i] # p
          BY <3>1, <3>2, <4>2, SMTT(30)
        <5>2. PICK k \in 1..n : db.rows[k] = db.bodies[i]
          BY <2>2, <4>2, <5>1, SMTT(30) DEF BodyInv, b
        <5>3. k \in 1..(n + 1) /\ db'.rows[k] = db'.bodies[i]
          BY <2>4, <4>0, <5>1, <5>2, SMTT(30)
        <5>4. \A j \in 1..b : db.bodies[j] = db.bodies[i] => j = i
          BY <4>2, <5>1, SMTT(30) DEF BodyInv, b
        <5>5. \A j \in 1..(b + 1) : db'.bodies[j] = db'.bodies[i] => j = i
          BY <3>1, <4>0, <5>1, <5>4, SMTT(30)
        <5> QED BY <5>3, <5>5
      <4> QED BY <4>0, <4>1, <4>2
    <3> QED BY ONLY <2>4, <2>5, <3>1, <3>3, Zenon DEF BodyInv
  <2> QED BY <2>6, <2>7
<1> QED BY <1>2, <1>3, SMTT(30)

LEMMA BodyKeepsBodies ==
  ASSUME MigrationInv, BodyInv, NEW r \in Runners, Ready(r, "body"), db' = BodySent(r)
  PROVE  BodyInv'
<1>1. TypeInv /\ Pending(r) \in Migrations
  BY PendingIsDeclared DEF MigrationInv, Ready
<1>2. CASE Pending(r) \notin Ddl
  BY <1>2 DEF BodySent, BodyInv
<1>3. CASE Pending(r) \in Ddl
  <2> DEFINE b == Len(db.bodies)
  <2>1. db'.rows = db.rows /\ db'.bodies = Append(db.bodies, Pending(r))
    BY <1>1, <1>3 DEF TypeInv, Databases, BodySent
  <2>2. db.bodies \in Seq(Migrations) /\ b \in Nat
    BY <1>1 DEF TypeInv, Databases
  <2>3. /\ Len(db'.bodies) = b + 1 /\ db'.bodies[b + 1] = Pending(r)
        /\ \A i \in 1..b : db'.bodies[i] = db.bodies[i]
    BY <1>1, <2>1, <2>2, Appended
  <2> QED BY <1>3, <2>1, <2>2, <2>3, SMTT(30) DEF BodyInv
<1> QED BY <1>2, <1>3

LEMMA BodyInvKept == MigrationInv /\ BodyInv /\ [Next]_vars => BodyInv'
<1> SUFFICES ASSUME MigrationInv, BodyInv, [Next]_vars, db' # db PROVE BodyInv'
  BY DEF BodyInv
<1>1. PICK r \in Runners : Writes(r)
  BY ChangeIsHolders
<1> DEFINE s == Current(r)
<1>2. db' = Effect(r, s) /\ Ready(r, s) /\ TypeInv
  BY <1>1 DEF Writes, MigrationInv, RunnerInv
<1> HIDE DEF s
<1>3. CASE s \in {"ensure", "fill"}
  <2>1. db'.rows = db.rows /\ db'.bodies = db.bodies
    BY <1>2, <1>3, SMTT(30) DEF Effect, Ensured, Filled, TypeInv, Databases
  <2> QED BY <2>1 DEF BodyInv
<1>4. CASE s = "finalize"
  <2>1. PICK n \in 0..Len(Plan[r]) : db.filled = Take(Plan[r], n)
    BY <1>2, <1>4 DEF Ready
  <2>2. db'.rows = Take(Plan[r], n) /\ db'.bodies = <<>>
    BY <1>2, <1>4, <2>1, Zenon DEF Effect, Finalized, TypeInv, Databases, MigrationInv, TableInv, Ready
  <2>3. Len(db'.rows) = n /\ Len(db'.bodies) = 0
    BY <2>2, TakeProperties
  <2>4. \A i, j \in 1..Len(db'.rows) : db'.rows[i] = db'.rows[j] => i = j
    <3>1. \A i, j \in 1..n : Take(Plan[r], n)[i] = Take(Plan[r], n)[j] => i = j
      BY ONLY r \in Runners, <2>1, PrefixIsDistinct, Zenon
    <3> QED BY ONLY <2>2, <2>3, <3>1, Zenon
  <2>5. 1..Len(db'.bodies) = {}
    BY ONLY <2>3
  <2> QED BY ONLY <2>4, <2>5, Zenon DEF BodyInv
<1>5. CASE s = "body"
  BY <1>2, <1>5, BodyKeepsBodies DEF Effect
<1>6. CASE s = "record"
  BY <1>2, <1>6, RecordKeepsBodies DEF Effect
<1>7. CASE s \notin {"ensure", "fill", "finalize", "body", "record"}
  BY <1>2, <1>7 DEF Effect
<1> QED BY <1>3, <1>4, <1>5, <1>6, <1>7, SMTT(30)

(***************************************************************************)
(* A transactional body takes effect exactly once, with its history row,   *)
(* whatever fails or dies around the commit.                               *)
(***************************************************************************)
THEOREM TransactionalBodiesRunOnce == Spec => []TransactionalOnce
<1>1. Init => BodyInv
  <2> SUFFICES ASSUME Init PROVE Len(db.rows) = 0 /\ Len(db.bodies) = 0
    BY DEF BodyInv
  <2> QED BY LedgerInit DEF Promise!Init
<1>2. MigrationInv /\ BodyInv => TransactionalOnce
  <2> SUFFICES ASSUME MigrationInv, BodyInv, NEW i \in DOMAIN db.bodies, db.bodies[i] \notin Ddl
               PROVE  Once(db.bodies[i], db.bodies) /\ Once(db.bodies[i], db.rows)
    BY DEF TransactionalOnce
  <2>1. db.bodies \in Seq(Migrations) /\ db.rows \in Seq(Migrations) /\ i \in 1..Len(db.bodies)
    BY DEF MigrationInv, TypeInv, Databases
  <2>2. PICK k \in 1..Len(db.rows) : db.rows[k] = db.bodies[i]
    BY <2>1, Zenon DEF BodyInv
  <2>3. \A j \in 1..Len(db.bodies) : db.bodies[j] = db.bodies[i] => j = i
    BY <2>1, Zenon DEF BodyInv
  <2>4. Once(db.bodies[i], db.bodies)
    <3>1. \A j \in DOMAIN db.bodies : db.bodies[j] = db.bodies[i] <=> j = i
      BY <2>1, <2>3
    <3> QED BY <3>1, Zenon DEF Once
  <2>5. \A j \in 1..Len(db.rows) : db.rows[j] = db.bodies[i] => j = k
    BY <2>2, Zenon DEF BodyInv
  <2>6. Once(db.bodies[i], db.rows)
    <3>1. k \in DOMAIN db.rows /\ \A j \in DOMAIN db.rows : db.rows[j] = db.bodies[i] <=> j = k
      BY <2>1, <2>2, <2>5
    <3> QED BY <3>1, Zenon DEF Once
  <2> QED BY <2>4, <2>6
<1> QED BY <1>1, <1>2, BodyInvKept, MigrationCorrect, PTL DEF Spec
=============================================================================
