------------------------- MODULE TransactionProofs -------------------------
(***************************************************************************)
(* What a Transaction promises, for every set of tasks, contexts and       *)
(* writes: the driver calls that work on the savepoint levels keep         *)
(* TransactionInv too, so it is inductive, and the promises follow.        *)
(***************************************************************************)
EXTENDS TransactionLemmas

(***************************************************************************)
(* Driver calls under the lock                                             *)
(***************************************************************************)
LEMMA CarriedType ==
  ASSUME TransactionInv, NEW call, NEW on, call = "query" => on \in Writes
  PROVE  Carried(call, on) \in Seq(SUBSET Writes)
<1> DEFINE n == Len(levels)
<1>1. levels \in Seq(SUBSET Writes) /\ n \in Nat /\ \A i \in 1..n : levels[i] \in SUBSET Writes
  BY DEF TransactionInv, TypeInv
<1>2. CASE levels = <<>>
  BY <1>1, <1>2 DEF Carried
<1>3. CASE levels # <<>>
  <2>1. n \in 1..n
    BY <1>1, <1>3
  <2>2. CASE call = "query"
    BY <1>1, <1>3, <2>1, <2>2 DEF Carried
  <2>3. CASE call = "savepoint"
    BY <1>1, <1>3, <2>3 DEF Carried
  <2>4. CASE call = "rollbackTo"
    BY <1>1, <1>3, <2>1, <2>4 DEF Carried
  <2>5. CASE call = "release" /\ n > 1
    <3> DEFINE o == Pop(levels)
    <3>1. o \in Seq(SUBSET Writes) /\ Len(o) = n - 1 /\ n - 1 \in 1..(n - 1)
      BY <1>1, <1>3, <2>5, PopElements DEF Pop
    <3>2. Top(levels) \in SUBSET Writes
      BY <1>1, <2>1 DEF Top
    <3>3. Carried(call, on) = [o EXCEPT ![n - 1] = @ \cup Top(levels)]
      BY <1>3, <2>5 DEF Carried
    <3> HIDE DEF o, n
    <3> QED
      BY <3>1, <3>2, <3>3
  <2>6. CASE call \notin {"query", "savepoint", "rollbackTo"} /\ ~(call = "release" /\ n > 1)
    BY <1>1, <1>3, <2>6, Zenon DEF Carried
  <2> QED
    BY <2>2, <2>3, <2>4, <2>5, <2>6
<1> QED
  BY <1>2, <1>3

(* Only the holder drives; it ends a rollback's release itself. *)
LEMMA OnlyHolderDrives ==
  ASSUME TransactionInv, NEW t \in Tasks, Holds(t), NEW u \in Tasks, doing[u].step \in Busy
  PROVE  u = t
BY DEF TransactionInv, LockInv, Holds

(* A statement runs at the innermost level: completed, or failed in part   *)
(* inside a context that is failed from now on.                            *)
LEMMA LevelRuns ==
  ASSUME TransactionInv, NEW t \in Tasks, Moves(t), Driving(t, "query"),
         doing'[t].step = "idle", levels' = Carried("query", doing[t].on),
         UNCHANGED <<nestedStack, undone, issued, connection, close>>, reusable' => reusable,
         \/ completed' = completed \cup {doing[t].on} /\ failed' = failed
         \/ completed' = completed /\ nestedStack # <<>> /\ failed' = failed \cup {Top(nestedStack)}
  PROVE  LevelInv'
<1> DEFINE n == Len(levels)
           w == doing[t].on
           m == Len(nestedStack)
<1>0. TypeInv /\ NestInv /\ ContextInv /\ LevelInv /\ CloseInv
  BY DEF TransactionInv
<1>1. Holds(t) /\ connection /\ nestedOwner \in {NoTask, t}
  BY HolderFacts DEF Driving, Busy
<1>2. \A u \in Tasks : ~Driving(u, "release") /\ ~Driving(u, "release")'
  <2>1. \A u \in Tasks \ {t} : ~Driving(u, "release") /\ ~Driving(u, "release")'
    BY <1>1, OnlyHolderDrives DEF Driving, Busy, Moves
  <2>2. ~Driving(t, "release") /\ ~Driving(t, "release")'
    BY DEF Driving
  <2> QED
    BY <2>1, <2>2
<1>3. /\ w \in Writes /\ issued[w].sent /\ issued[w].inside = Range(nestedStack)
  <2>1. /\ w \in Writes /\ issued[w].sent
        /\ issued[w].inside = IF nestedOwner = t THEN Range(nestedStack) ELSE {}
    BY <1>0, Zenon DEF ContextInv, Asks, Driving
  <2>2. nestedOwner = NoTask => nestedStack = <<>>
    BY <1>0 DEF NestInv
  <2>3. nestedStack = <<>> => Range(nestedStack) = {}
    BY DEF Range
  <2> QED
    BY <1>1, <2>1, <2>2, <2>3, Zenon
<1>4. issued[w].inside \cap undone = {}
  BY <1>0, <1>2, <1>3 DEF ContextInv
<1>5. m \in Nat /\ \A k \in 1..m : nestedStack[k] \in Range(nestedStack)
  BY <1>0, QueueElements, Zenon DEF TypeInv
<1>6. levels \in Seq(SUBSET Writes) /\ n \in Nat
  BY <1>0 DEF TypeInv
<1>7. SUFFICES ASSUME reusable
               PROVE  LevelInv'
  BY Zenon DEF LevelInv
<1>8. /\ n = m + 1
      /\ \A i \in 1..n :
           /\ (i > 1 => nestedStack[i - 1] \notin failed) => levels[i] \subseteq completed
           /\ \A v \in levels[i] :
                /\ issued[v].sent /\ issued[v].inside \cap undone = {}
                /\ \A k \in 1..m : nestedStack[k] \in issued[v].inside <=> k < i
      /\ \A v \in completed : issued[v].inside \cap undone = {} => \E i \in 1..n : v \in levels[i]
  BY <1>0, <1>1, <1>7, Zenon DEF LevelInv
<1>9. /\ Len(levels') = n /\ levels'[n] = levels[n] \cup {w}
      /\ \A i \in 1..n : i # n => levels'[i] = levels[i]
  <2>1. levels # <<>> /\ n \in 1..n
    BY <1>5, <1>8
  <2>2. levels' = [levels EXCEPT ![n] = @ \cup {w}]
    BY <2>1 DEF Carried
  <2> HIDE DEF n, w
  <2>3. Len(levels') = Len(levels) /\ DOMAIN levels = 1..Len(levels)
    BY <1>6, <2>2
  <2> QED
    BY <1>6, <2>1, <2>2, <2>3, Zenon DEF n
<1> HIDE DEF n, w, m
<1>10. ASSUME NEW i \in 1..n, i > 1 => nestedStack[i - 1] \notin failed'
       PROVE  levels'[i] \subseteq completed'
  <2>1. CASE completed' = completed \cup {w} /\ failed' = failed
    BY <1>8, <1>9, <1>10, <2>1, Zenon
  <2>2. CASE completed' = completed /\ nestedStack # <<>> /\ failed' = failed \cup {Top(nestedStack)}
    <3>1. Top(nestedStack) = nestedStack[m] /\ m >= 1
      BY <1>0, <1>5, <2>2 DEF Top, m, TypeInv
    <3>2. i # n
      BY <1>5, <1>8, <1>10, <2>2, <3>1
    <3> QED
      BY <1>8, <1>9, <1>10, <2>2, <3>2, Zenon
  <2> QED
    BY <2>1, <2>2, Zenon DEF w
<1>11. ASSUME NEW i \in 1..n, NEW v \in levels'[i]
       PROVE  /\ issued[v].sent /\ issued[v].inside \cap undone = {}
              /\ \A k \in 1..m : nestedStack[k] \in issued[v].inside <=> k < i
  <2>1. CASE v \in levels[i]
    BY <1>8, <2>1, Zenon
  <2>2. CASE v \notin levels[i]
    <3>1. i = n /\ v = w
      BY <1>9, <2>2, Zenon
    <3>2. \A k \in 1..m : k < n
      BY <1>5, <1>8
    <3> QED
      BY <1>3, <1>4, <1>5, <3>1, <3>2, Zenon
  <2> QED
    BY <2>1, <2>2, Zenon
<1>12. ASSUME NEW v \in completed', issued[v].inside \cap undone = {}
       PROVE  \E i \in 1..n : v \in levels'[i]
  <2>1. n \in 1..n
    BY <1>5, <1>8
  <2>2. CASE v = w
    BY <1>9, <2>1, <2>2, Zenon
  <2>3. CASE v # w
    BY <1>8, <1>9, <1>12, <2>3 DEF w
  <2> QED
    BY <2>2, <2>3, Zenon
<1>13. Len(levels') = Len(nestedStack') + 1
  BY <1>8, <1>9, Zenon DEF m
<1> QED
  BY <1>2, <1>9, <1>10, <1>11, <1>12, <1>13 DEF LevelInv, m

LEMMA CompletesKeeps ==
  ASSUME TransactionInv, NEW t \in Tasks, Completes(t)
  PROVE  TransactionInv'
<1>0. TypeInv /\ EntryInv /\ CloseInv /\ NestInv /\ ContextInv /\ CommitInv
  BY DEF TransactionInv
<1>1. doing[t].step = "driving" /\ doing[t].call = "query" /\ Driving(t, "query")
  BY DEF Completes, Driving
<1>2. /\ Holds(t) /\ connection /\ ~closed /\ doing[t].step \in AtLock
      /\ doing[t].step # "exiting"
  BY <1>1, HolderFacts, Zenon DEF Busy
<1>3. /\ levels' = Carried("query", doing[t].on) /\ completed' = completed \cup {doing[t].on}
      /\ UNCHANGED <<fields, nesting, streamOwner, close, lease, durable, decided, policy,
                     issued, undone>>
  BY DEF Completes
<1>4. /\ doing' \in Doings /\ Moves(t) /\ doing'[t].step = "idle"
      /\ LockType' /\ LockInv'
  BY <1>2, <1>3, HolderLeaves, Zenon DEF Completes
<1>5. doing[t].on \in Writes /\ issued[doing[t].on].sent
  BY <1>0, <1>1, Zenon DEF ContextInv, Asks
<1>6. TypeInv'
  <2>1. levels' \in Seq(SUBSET Writes)
    BY <1>3, <1>5, CarriedType, Zenon
  <2> QED
    BY <1>0, <1>3, <1>4, <1>5, <2>1 DEF TypeInv, LockType, fields, nesting
<1>7. EntryInv'
  BY <1>0, <1>2, <1>3, <1>4, IdleFacts, EntryKept, Zenon DEF fields
<1>8. CloseInv'
  BY <1>0, <1>2, <1>3, <1>4, CloseQuiet, Zenon DEF fields
<1>9. NestInv'
  BY <1>0, <1>3, <1>4, IdleFacts, NestQuiet, Zenon DEF fields, nesting
<1>10. ContextInv'
  <2>1. ReleaseGoesOn(t) /\ \A w \in completed' : issued[w].sent
    BY <1>0, <1>1, <1>3, <1>5, Zenon DEF ReleaseGoesOn, Driving, ContextInv
  <2> QED
    BY <1>0, <1>3, <1>4, <2>1, IdleFacts, ContextMoves, Zenon DEF nesting
<1>11. LevelInv'
  BY <1>1, <1>3, <1>4, LevelRuns, Zenon DEF fields, nesting
<1>12. CommitInv'
  BY <1>0, <1>2, <1>3, CommitQuiet, Zenon DEF fields
<1> QED
  BY <1>4, <1>6, <1>7, <1>8, <1>9, <1>10, <1>11, <1>12, Zenon DEF TransactionInv

LEMMA StatementRejectedKeeps ==
  ASSUME TransactionInv, NEW t \in Tasks, StatementRejected(t)
  PROVE  TransactionInv'
<1>0. TypeInv /\ EntryInv /\ CloseInv /\ NestInv /\ ContextInv /\ LevelInv /\ CommitInv
  BY DEF TransactionInv
<1>1. doing[t].step = "driving" /\ doing[t].call \in {"query", "stream"}
  BY DEF StatementRejected
<1>2. /\ Holds(t) /\ connection /\ ~closed /\ doing[t].step \in AtLock
      /\ doing[t].step # "exiting"
  BY <1>1, HolderFacts DEF Busy
<1>3. /\ levels # <<>> /\ levels' \in {levels, Carried(doing[t].call, doing[t].on)}
      /\ \/ /\ nestedStack # <<>> /\ reusable /\ reusable' = reusable
            /\ failed' = failed \cup {Top(nestedStack)}
         \/ reusable' = FALSE /\ failed' = failed
      /\ UNCHANGED <<entering, connection, closed, outcome, nestedStack, used, nestedOwner,
                     streamOwner, close, lease, durable, decided, policy, history>>
  BY DEF StatementRejected
<1>4. /\ doing' \in Doings /\ Moves(t) /\ doing'[t].step = "idle"
      /\ LockType' /\ LockInv'
  BY <1>2, <1>3, HolderLeaves, Zenon DEF StatementRejected
<1>5. doing[t].call = "query" => doing[t].on \in Writes
  BY <1>0, <1>1, Zenon DEF ContextInv, Asks
<1>6. TypeInv'
  <2>1. levels' \in Seq(SUBSET Writes)
    BY <1>0, <1>3, <1>5, CarriedType DEF TypeInv
  <2>2. nestedStack # <<>> => Top(nestedStack) \in Contexts
    BY <1>0 DEF TypeInv, Top
  <2>3. failed' \in SUBSET Contexts /\ reusable' \in BOOLEAN
    BY <1>0, <1>3, <2>2, Zenon DEF TypeInv
  <2> QED
    BY <1>0, <1>3, <1>4, <2>1, <2>3 DEF TypeInv, LockType, history
<1>7. EntryInv'
  BY <1>0, <1>2, <1>3, <1>4, IdleFacts, EntryKept, Zenon
<1>8. CloseInv'
  BY <1>0, <1>2, <1>3, <1>4, CloseQuiet, Zenon
<1>9. NestInv'
  BY <1>0, <1>3, <1>4, IdleFacts, NestQuiet, Zenon
<1>10. ContextInv'
  <2>1. ReleaseGoesOn(t)
    BY <1>1 DEF ReleaseGoesOn, Driving
  <2> QED
    BY <1>0, <1>3, <1>4, <2>1, IdleFacts, ContextQuiet, Zenon DEF history
<1>11. LevelInv'
  <2>1. CASE reusable' = FALSE
    BY <2>1, LevelUnsafe
  <2>2. CASE reusable' # FALSE
    <3>1. /\ nestedStack # <<>> /\ reusable /\ reusable' = reusable
          /\ failed' = failed \cup {Top(nestedStack)}
      BY <1>3, <2>2, Zenon
    <3>2. CASE levels' = levels
      BY <1>0, <1>3, <1>4, <3>1, <3>2, IdleFacts, LevelQuiet, Zenon DEF history
    <3>3. CASE levels' # levels
      <4>1. Carried("stream", doing[t].on) = levels
        BY <1>3, Zenon DEF Carried
      <4>2. doing[t].call = "query" /\ levels' = Carried("query", doing[t].on)
        BY <1>1, <1>3, <3>3, <4>1, Zenon
      <4>3. Driving(t, "query")
        BY <1>1, <4>2 DEF Driving
      <4> QED
        BY <1>3, <1>4, <3>1, <4>2, <4>3, LevelRuns, Zenon DEF history
    <3> QED
      BY <3>2, <3>3
  <2> QED
    BY <2>1, <2>2, Zenon
<1>12. CommitInv'
  BY <1>0, <1>2, <1>3, CommitQuiet, Zenon
<1> QED
  BY <1>4, <1>6, <1>7, <1>8, <1>9, <1>10, <1>11, <1>12 DEF TransactionInv

(* The innermost context is left by its owner. *)
LEMMA PopsContext ==
  ASSUME TransactionInv, NEW t \in Tasks, Moves(t), Holds(t), Unwinds(t), PopContext,
         doing'[t].step = "idle", UNCHANGED <<used, undone, issued, completed>>
  PROVE  /\ NestInv' /\ ContextInv'
         /\ nestedStack # <<>> /\ nestedStack' \in Seq(Contexts)
         /\ nestedOwner' \in Tasks \cup {NoTask}
<1>0. TypeInv /\ NestInv /\ ContextInv /\ LockInv
  BY DEF TransactionInv
<1>1. nestedOwner = t /\ Top(nestedStack) = doing[t].on
  BY <1>0 DEF NestInv, NestTask
<1>2. nestedStack # <<>> /\ nestedStack \in Seq(Contexts)
  BY <1>0, <1>1, TasksAssumption DEF NestInv, TypeInv
<1>3. /\ nestedStack' \in Seq(Contexts) /\ IsInjective(nestedStack')
      /\ Len(nestedStack') = Len(nestedStack) - 1
      /\ \A x : x \in Range(nestedStack') <=> x \in Range(nestedStack) /\ x # doing[t].on
  BY <1>0, <1>1, <1>2, PopProperties DEF PopContext, Pop, Top, ContextInv
<1>4. nestedOwner' = IF Len(nestedStack) = 1 THEN NoTask ELSE t
  BY <1>1 DEF PopContext
<1>5. nestedStack' = <<>> <=> nestedOwner' = NoTask
  <2>1. Len(nestedStack) \in Nat
    BY <1>2
  <2>2. nestedStack' = <<>> <=> Len(nestedStack') = 0
    BY ONLY <1>3, NoElements, Zenon
  <2> QED
    BY <1>3, <1>4, <2>1, <2>2, TasksAssumption
<1>6. NestInv'
  BY <1>0, <1>1, <1>5, IdleFacts, NestOfHolder, Zenon
<1>7. ContextInv'
  <2>1. \A u \in Tasks \ {t} : /\ doing'[u] = doing[u]
                               /\ \A c : Asks(u, c)' <=> Asks(u, c)
                               /\ ~Driving(u, "release")
    BY OnlyHolderDrives DEF Moves, Asks, Driving, Busy
  <2>2. ~Asks(t, "savepoint")' /\ ~Asks(t, "query")'
    BY DEF Asks
  <2>3. Range(nestedStack') \subseteq Range(nestedStack)
    BY <1>3
  <2>4. \A c \in undone : c \notin Range(nestedStack')
    BY <1>0, <1>3, <2>1 DEF ContextInv
  <2>5. ASSUME NEW u \in Tasks, Asks(u, "savepoint")'
        PROVE  /\ doing'[u].on \in used \ (Range(nestedStack') \cup undone)
               /\ \A w \in Writes : doing'[u].on \notin issued[w].inside
               /\ \A v \in Tasks : Asks(v, "savepoint")' /\ doing'[v].on = doing'[u].on => v = u
    BY <1>0, <2>1, <2>2, <2>3, <2>5 DEF ContextInv
  <2>6. ASSUME NEW u \in Tasks, Asks(u, "query")'
        PROVE  /\ doing'[u].on \in Writes /\ issued[doing'[u].on].sent
               /\ issued[doing'[u].on].inside =
                    IF nestedOwner' = u THEN Range(nestedStack') ELSE {}
    <3>1. u # t /\ nestedOwner # u /\ nestedOwner' # u
      BY <1>1, <1>4, <2>2, <2>6, TasksAssumption, Zenon
    <3> QED
      BY <1>0, <2>1, <2>6, <3>1 DEF ContextInv
  <2> QED
    BY <1>0, <1>3, <2>3, <2>4, <2>5, <2>6, Zenon DEF ContextInv
<1> QED
  BY <1>2, <1>3, <1>4, <1>6, <1>7

LEMMA DriverFailsKeeps ==
  ASSUME TransactionInv, NEW t \in Tasks, DriverFails(t)
  PROVE  TransactionInv'
<1>0. TypeInv /\ EntryInv /\ CloseInv /\ NestInv /\ ContextInv /\ LockInv /\ CommitInv
  BY DEF TransactionInv
<1>1. doing[t].step = "driving" /\ doing \in Doings
  BY <1>0 DEF DriverFails, TypeInv
<1>2. /\ Holds(t) /\ connection /\ ~closed /\ doing[t].step \in AtLock
      /\ nestedOwner \in {NoTask, t} /\ doing[t].step # "exiting"
  BY <1>1, HolderFacts DEF Busy
<1>3. /\ levels' \in {levels, Carried(doing[t].call, doing[t].on), <<>>} /\ reusable' = FALSE
      /\ streamOwner' \in {streamOwner, NoTask}
      /\ UNCHANGED <<entering, connection, closed, outcome, failed, used, close, lease,
                     durable, decided, policy, history>>
  BY DEF DriverFails
<1>4. /\ doing' \in Doings /\ Moves(t) /\ LockType' /\ LockInv'
      /\ doing'[t].step \notin EntrySteps /\ NestInv' /\ ContextInv'
      /\ nestedStack' \in Seq(Contexts) /\ nestedOwner' \in Tasks \cup {NoTask}
  <2>1. CASE doing[t].call = "fetch"
    <3>1. UNCHANGED <<lock, streamOwner, nestedStack, nestedOwner>>
      BY <2>1 DEF DriverFails
    <3>2. /\ doing' \in Doings /\ Moves(t)
          /\ doing'[t].step = "streaming" /\ doing'[t].call = "stream"
      BY <1>1, <2>1, Vocabulary DEF DriverFails, Moves, Doings
    <3>3. LockType' /\ LockInv'
      BY <1>2, <1>3, <3>1, <3>2, HolderGoesOn, Zenon DEF Busy
    <3>4. streamOwner = t
      BY <1>0, <1>1, <2>1 DEF NestInv, NestTask
    <3>5. NestTask(t)'
      BY <1>2, <1>3, <3>1, <3>2, <3>4, Zenon DEF NestTask, Unwinds, Busy
    <3>6. NestInv'
      BY <1>0, <1>3, <3>1, <3>2, <3>5, NestQuiet, Zenon
    <3>7. Same(t, "savepoint") /\ Same(t, "query") /\ ReleaseGoesOn(t)
      BY <2>1, <3>2 DEF Same, Asks, ReleaseGoesOn, Driving
    <3>8. ContextInv'
      BY <1>0, <1>3, <3>1, <3>2, <3>7, ContextQuiet, Zenon DEF history
    <3> QED
      BY <1>0, <3>1, <3>2, <3>3, <3>6, <3>8, Zenon DEF EntrySteps, TypeInv
  <2>2. CASE doing[t].call # "fetch"
    <3>1. Leave(t)
      BY <2>2 DEF DriverFails
    <3>2. /\ doing' \in Doings /\ Moves(t) /\ doing'[t].step = "idle"
          /\ LockType' /\ LockInv'
      BY <1>2, <1>3, <3>1, HolderLeaves, Zenon
    <3>3. CASE doing[t].call \in {"rollbackTo", "release"}
      <4>1. Unwinds(t) /\ PopContext
        BY <1>1, <3>3 DEF Unwinds, DriverFails
      <4> QED
        BY <1>2, <1>3, <3>2, <4>1, PopsContext, Zenon DEF EntrySteps, history
    <3>4. CASE doing[t].call \notin {"rollbackTo", "release"}
      <4>1. UNCHANGED <<nestedStack, nestedOwner>>
        BY <3>4 DEF DriverFails
      <4>2. NestInv'
        BY <1>0, <1>2, <3>2, <4>1, IdleFacts, NestOfHolder, Zenon DEF NestInv
      <4>3. ReleaseGoesOn(t)
        BY <3>4 DEF ReleaseGoesOn, Driving
      <4>4. ContextInv'
        BY <1>0, <1>3, <3>2, <4>1, <4>3, IdleFacts, ContextQuiet, Zenon DEF history
      <4> QED
        BY <1>0, <3>2, <4>1, <4>2, <4>4, Zenon DEF EntrySteps, TypeInv
    <3> QED
      BY <3>3, <3>4
  <2> QED
    BY <2>1, <2>2
<1>5. TypeInv'
  <2>1. doing[t].call = "query" => doing[t].on \in Writes
    BY <1>0, <1>1 DEF ContextInv, Asks
  <2>2. levels' \in Seq(SUBSET Writes)
    <3>1. levels \in Seq(SUBSET Writes) /\ <<>> \in Seq(SUBSET Writes)
      BY <1>0 DEF TypeInv
    <3>2. Carried(doing[t].call, doing[t].on) \in Seq(SUBSET Writes)
      BY <2>1, CarriedType
    <3> QED
      BY <1>3, <3>1, <3>2, Zenon
  <2> QED
    BY <1>0, <1>3, <1>4, <2>2, Zenon DEF TypeInv, LockType, history
<1>6. EntryInv'
  BY <1>0, <1>2, <1>3, <1>4, EntryKept, Zenon
<1>7. CloseInv'
  BY <1>0, <1>2, <1>3, <1>4, CloseQuiet, Zenon
<1>8. LevelInv'
  BY <1>3, LevelUnsafe
<1>9. CommitInv'
  BY <1>0, <1>2, <1>3, CommitQuiet
<1> QED
  BY <1>4, <1>5, <1>6, <1>7, <1>8, <1>9 DEF TransactionInv

(* The innermost level may be released when its context did not fail. *)
LEMMA CleanTop ==
  ASSUME TransactionInv, reusable, connection, nestedStack # <<>>,
         Top(nestedStack) \notin failed
  PROVE  Top(levels) \subseteq completed
<1>1. /\ Len(levels) = Len(nestedStack) + 1
      /\ \A i \in 1..Len(levels) :
           (i > 1 => nestedStack[i - 1] \notin failed) => levels[i] \subseteq completed
  BY DEF TransactionInv, LevelInv
<1>2. Len(nestedStack) \in Nat \ {0} /\ nestedStack[Len(nestedStack)] \notin failed
  BY NoElements DEF TransactionInv, TypeInv, Top
<1>3. ASSUME NEW a \in Nat \ {0}
      PROVE  a + 1 \in 1..(a + 1) /\ a + 1 > 1 /\ (a + 1) - 1 = a
  OBVIOUS
<1> QED
  BY <1>1, <1>2, <1>3, Zenon DEF Top

LEMMA StartUnwindKeeps ==
  ASSUME TransactionInv, NEW t \in Tasks, StartUnwind(t)
  PROVE  TransactionInv'
<1>0. /\ TypeInv /\ LockInv /\ EntryInv /\ CloseInv /\ NestInv /\ ContextInv /\ LevelInv
      /\ CommitInv
  BY DEF TransactionInv
<1>1. /\ doing[t].step = "waiting" /\ doing[t].call = "unwind" /\ Holds(t) /\ doing \in Doings
      /\ doing[t].step \in AtLock /\ doing[t].step # "exiting"
  BY <1>0 DEF StartUnwind, Granted, TypeInv, AtLock
<1>2. /\ Unwinds(t) /\ connection /\ ~closed /\ nestedOwner = t
      /\ Top(nestedStack) = doing[t].on /\ nestedStack # <<>>
  BY <1>0, <1>1, TasksAssumption, Zenon DEF NestInv, NestTask, Unwinds, EntryInv
<1>3. UNCHANGED <<fields, failed, used, streamOwner, close, lease, session, history>>
  BY DEF StartUnwind
<1>4. CASE reusable
  <2> DEFINE call == IF MustUndo(t) THEN "rollbackTo" ELSE "release"
  <2>1. /\ UNCHANGED <<lock, nestedStack, nestedOwner>>
        /\ doing' = [doing EXCEPT ![t].step = "driving", ![t].call = call]
    BY <1>4 DEF StartUnwind
  <2>2. call \in Calls /\ call \in {"rollbackTo", "release"}
    BY Vocabulary
  <2>3. call = "release" => Top(levels) \subseteq completed
    BY <1>2, <1>4, CleanTop DEF MustUndo
  <2> HIDE DEF call
  <2>4. /\ doing' \in Doings /\ Moves(t) /\ doing'[t].step = "driving"
        /\ doing'[t].call = call /\ doing'[t].on = doing[t].on
    BY <1>1, <2>1, <2>2, Vocabulary DEF Moves, Doings
  <2>5. LockType' /\ LockInv'
    BY <1>1, <1>3, <2>1, <2>4, HolderGoesOn, Zenon DEF Busy
  <2>6. NestTask(t)'
    BY <1>2, <1>3, <2>1, <2>2, <2>4, Zenon DEF NestTask, Unwinds, Busy, fields
  <2>7. NestInv'
    BY <1>0, <1>3, <2>1, <2>4, <2>6, NestQuiet, Zenon DEF fields
  <2>8. Same(t, "savepoint") /\ Same(t, "query") /\ ReleaseGoesOn(t)
    BY <1>1, <2>2, <2>4 DEF Same, Asks, ReleaseGoesOn, Driving
  <2>9. Driving(t, "release")' => Top(levels) \subseteq completed
    BY <2>3, <2>4 DEF Driving
  <2> QED
    BY <1>0, <1>1, <1>3, <2>1, <2>4, <2>5, <2>7, <2>8, <2>9, TaskMoves, Zenon
    DEF EntrySteps, nesting, TypeInv
<1>5. CASE ~reusable
  <2>1. Leave(t) /\ PopContext
    BY <1>5 DEF StartUnwind
  <2>2. /\ doing' \in Doings /\ Moves(t) /\ doing'[t].step = "idle"
        /\ LockType' /\ LockInv'
    BY <1>1, <1>3, <2>1, HolderLeaves
  <2>3. /\ NestInv' /\ ContextInv' /\ nestedStack' \in Seq(Contexts)
        /\ nestedOwner' \in Tasks \cup {NoTask}
    BY <1>1, <1>2, <1>3, <2>1, <2>2, PopsContext, Zenon DEF history
  <2>4. TypeInv'
    BY <1>0, <1>3, <2>2, <2>3 DEF TypeInv, LockType, fields, session, history
  <2>5. EntryInv'
    BY <1>0, <1>2, <1>3, <2>2, IdleFacts, EntryKept, Zenon DEF fields
  <2>6. CloseInv'
    BY <1>0, <1>1, <1>2, <1>3, <2>2, CloseQuiet, Zenon DEF fields, session
  <2>7. LevelInv'
    BY <1>3, <1>5, LevelUnsafe DEF fields
  <2>8. CommitInv'
    BY <1>0, <1>2, <1>3, CommitQuiet DEF fields
  <2> QED
    BY <2>2, <2>3, <2>4, <2>5, <2>6, <2>7, <2>8 DEF TransactionInv
<1> QED
  BY <1>4, <1>5

(* The server takes back the innermost level. *)
LEMMA RolledBackToKeeps ==
  ASSUME TransactionInv, NEW t \in Tasks, RolledBackTo(t)
  PROVE  TransactionInv'
<1> DEFINE n == Len(levels)
           m == Len(nestedStack)
           c == doing[t].on
<1>0. /\ TypeInv /\ LockInv /\ EntryInv /\ CloseInv /\ NestInv /\ ContextInv /\ LevelInv
      /\ CommitInv
  BY DEF TransactionInv
<1>1. doing[t].step = "driving" /\ doing[t].call = "rollbackTo" /\ doing \in Doings
  BY <1>0 DEF RolledBackTo, Driving, TypeInv
<1>2. /\ Holds(t) /\ connection /\ ~closed /\ doing[t].step \in AtLock
      /\ doing[t].step # "exiting" /\ nestedOwner \in {NoTask, t}
  BY <1>1, HolderFacts DEF Busy
<1>3. /\ levels' = Carried("rollbackTo", NoTask) /\ undone' = undone \cup {c}
      /\ UNCHANGED <<fields, nesting, streamOwner, lock, close, lease, durable, decided,
                     policy, issued, completed>>
  BY DEF RolledBackTo
<1>4. /\ doing' \in Doings /\ Moves(t) /\ doing'[t].step = "driving"
      /\ doing'[t].call = "release" /\ doing'[t].on = c
  BY <1>1, Vocabulary DEF RolledBackTo, Moves, Doings
<1>5. LockType' /\ LockInv'
  BY <1>2, <1>3, <1>4, HolderGoesOn, Zenon DEF Busy
<1>6. nestedOwner = t /\ nestedStack # <<>> /\ nestedStack[m] = c /\ m \in Nat \ {0}
  BY <1>0, <1>1, TasksAssumption, NoElements DEF NestInv, NestTask, Unwinds, Top, TypeInv
<1>7. c \in Range(nestedStack) /\ c \in Contexts
  BY <1>0, <1>6, QueueElements DEF TypeInv
<1> HIDE DEF c, m
<1>8. TypeInv'
  <2>1. levels' \in Seq(SUBSET Writes)
    BY <1>3, CarriedType
  <2> QED
    BY <1>0, <1>3, <1>4, <1>5, <1>7, <2>1, ZenonT(40) DEF TypeInv, LockType, fields, nesting
<1>9. EntryInv'
  BY <1>0, <1>2, <1>3, <1>4, EntryKept, Zenon DEF fields, EntrySteps
<1>10. CloseInv'
  BY <1>0, <1>2, <1>3, <1>4, CloseQuiet, Zenon DEF fields
<1>11. NestInv'
  <2>1. Top(nestedStack) = c
    BY <1>6 DEF Top, m
  <2>2. NestTask(t)'
    BY <1>2, <1>3, <1>4, <1>6, <2>1, Zenon DEF NestTask, Unwinds, Busy, fields, nesting
  <2> QED
    BY <1>0, <1>3, <1>4, <2>2, NestQuiet, Zenon DEF fields, nesting
<1>12. \A u \in Tasks : ~Driving(u, "release")
  BY <1>1, <1>2, OnlyHolderDrives, Zenon DEF Driving, Busy
<1>13. \A x \in undone : x \notin Range(nestedStack)
  BY <1>0, <1>12, Zenon DEF ContextInv
<1>14. ContextInv'
  <2>1. \A u \in Tasks : Same(u, "savepoint") /\ Same(u, "query")
    BY <1>4 DEF Moves, Same, Asks
  <2>2. \A x \in undone' : x \in Range(nestedStack) =>
          \E u \in Tasks : Driving(u, "release")' /\ doing'[u].on = x
    BY <1>3, <1>4, <1>13, Zenon DEF Driving
  <2>3. ASSUME NEW u \in Tasks, Asks(u, "savepoint")'
        PROVE  /\ doing'[u].on \in used \ (Range(nestedStack) \cup undone')
               /\ \A w \in Writes : doing'[u].on \notin issued[w].inside
               /\ \A v \in Tasks : Asks(v, "savepoint")' /\ doing'[v].on = doing'[u].on => v = u
    <3>1. Asks(u, "savepoint") /\ doing'[u].on = doing[u].on
      BY <2>1, <2>3, Zenon DEF Same
    <3>2. /\ doing[u].on \in used \ (Range(nestedStack) \cup undone)
          /\ \A w \in Writes : doing[u].on \notin issued[w].inside
          /\ \A v \in Tasks : Asks(v, "savepoint") /\ doing[v].on = doing[u].on => v = u
      BY <1>0, <3>1, Zenon DEF ContextInv
    <3>3. doing'[u].on \in used \ (Range(nestedStack) \cup undone')
      BY <1>3, <1>7, <3>1, <3>2, Zenon
    <3>4. \A v \in Tasks : Asks(v, "savepoint")' /\ doing'[v].on = doing'[u].on => v = u
      BY <2>1, <3>1, <3>2, Zenon DEF Same
    <3> QED
      BY <3>1, <3>2, <3>3, <3>4, Zenon
  <2>4. ASSUME NEW u \in Tasks, Asks(u, "query")'
        PROVE  /\ doing'[u].on \in Writes /\ issued[doing'[u].on].sent
               /\ issued[doing'[u].on].inside =
                    IF nestedOwner = u THEN Range(nestedStack) ELSE {}
    BY <1>0, <2>1, <2>4 DEF ContextInv, Same
  <2>5. UNCHANGED <<nestedStack, nestedOwner, used, issued, completed>> /\ undone' \subseteq used
    BY <1>0, <1>3, <1>7, Zenon DEF nesting, ContextInv
  <2> QED
    BY <1>0, <2>2, <2>3, <2>4, <2>5, Zenon DEF ContextInv
<1>15. LevelInv'
  <2>1. UNCHANGED <<reusable, connection, close, nestedStack, failed, issued, completed>>
    BY <1>3 DEF fields, nesting
  <2>2. SUFFICES ASSUME reusable
                 PROVE  LevelInv'
    BY <2>1, Zenon DEF LevelInv
  <2>3. /\ n = m + 1
        /\ \A i \in 1..n :
             /\ (i > 1 => nestedStack[i - 1] \notin failed) => levels[i] \subseteq completed
             /\ \A v \in levels[i] :
                  /\ issued[v].sent /\ issued[v].inside \cap undone = {}
                  /\ \A k \in 1..m : nestedStack[k] \in issued[v].inside <=> k < i
        /\ \A v \in completed : issued[v].inside \cap undone = {} => \E i \in 1..n : v \in levels[i]
    BY <1>0, <1>2, <2>2, Zenon DEF LevelInv, m
  <2>4. /\ Len(levels') = n /\ levels'[n] = {}
        /\ \A i \in 1..n : i # n => levels'[i] = levels[i]
    <3>1. levels \in Seq(SUBSET Writes) /\ levels # <<>> /\ n \in 1..n
      <4>1. levels \in Seq(SUBSET Writes) /\ Len(levels) = m + 1 /\ m \in Nat
        BY <1>0, <1>6, <2>3, Zenon DEF TypeInv
      <4> QED BY ONLY <4>1
    <3>2. levels' = [levels EXCEPT ![n] = {}]
      BY <1>3, <3>1 DEF Carried
    <3> QED
      BY <3>1, <3>2
  <2> HIDE DEF n
  <2>5. ASSUME NEW i \in 1..n, NEW v \in levels'[i]
        PROVE  /\ v \in levels[i] /\ i < n /\ issued[v].sent
               /\ issued[v].inside \cap undone' = {}
               /\ \A k \in 1..m : nestedStack[k] \in issued[v].inside <=> k < i
    <3>1. i # n /\ v \in levels[i] /\ i < n
      <4>1. i # n /\ v \in levels[i]
        BY <2>4, <2>5, Zenon
      <4>2. n = m + 1 /\ m \in Nat
        BY <1>6, <2>3, Zenon
      <4>3. i < n
        BY ONLY <2>5, <4>1, <4>2
      <4> QED BY <4>1, <4>3, Zenon
    <3>2. c \notin issued[v].inside
      BY <1>6, <2>3, <3>1
    <3> QED
      BY <1>3, <2>3, <3>1, <3>2, Zenon
  <2>6. ASSUME NEW v \in completed, issued[v].inside \cap undone' = {}
        PROVE  \E i \in 1..n : v \in levels'[i]
    <3>1. c \notin issued[v].inside /\ issued[v].inside \cap undone = {}
      BY <1>3, <2>6
    <3>2. PICK i \in 1..n : v \in levels[i]
      BY <2>3, <3>1
    <3>3. i # n
      BY <1>6, <2>3, <3>1, <3>2
    <3> QED
      BY <2>4, <3>2, <3>3
  <2>7. \A i \in 1..n : (i > 1 => nestedStack[i - 1] \notin failed) => levels'[i] \subseteq completed
    BY <2>3, <2>4
  <2>8. Top(levels') \subseteq completed
    BY <2>4 DEF Top
  <2>9. Len(levels') = Len(nestedStack) + 1 /\ m = Len(nestedStack)
    BY <2>3, <2>4 DEF m
  <2> QED
    BY <2>1, <2>4, <2>5, <2>6, <2>7, <2>8, <2>9, Zenon DEF LevelInv
<1>16. CommitInv'
  BY <1>0, <1>2, <1>3, CommitQuiet DEF fields
<1> QED
  BY <1>5, <1>8, <1>9, <1>10, <1>11, <1>14, <1>15, <1>16 DEF TransactionInv

(* The server opens a level for the context that is entered. *)
LEMMA SavepointMadeKeeps ==
  ASSUME TransactionInv, NEW t \in Tasks, SavepointMade(t)
  PROVE  TransactionInv'
<1> DEFINE n == Len(levels)
           m == Len(nestedStack)
           c == doing[t].on
<1>0. /\ TypeInv /\ LockInv /\ EntryInv /\ CloseInv /\ NestInv /\ ContextInv /\ LevelInv
      /\ CommitInv
  BY DEF TransactionInv
<1>1. doing[t].step = "driving" /\ doing[t].call = "savepoint" /\ Asks(t, "savepoint")
  BY DEF SavepointMade, Driving, Asks
<1>2. /\ Holds(t) /\ connection /\ ~closed /\ doing[t].step \in AtLock
      /\ doing[t].step # "exiting" /\ nestedOwner \in {NoTask, t}
  BY <1>1, HolderFacts DEF Busy
<1>3. /\ levels' = Carried("savepoint", NoTask) /\ nestedOwner' = t
      /\ nestedStack' = Append(nestedStack, c)
      /\ UNCHANGED <<fields, failed, used, streamOwner, close, lease, durable, decided,
                     policy, history>>
  BY DEF SavepointMade
<1>4. /\ doing' \in Doings /\ Moves(t) /\ doing'[t].step = "idle"
      /\ LockType' /\ LockInv'
  BY <1>2, <1>3, HolderLeaves DEF SavepointMade
<1>5. /\ c \in used /\ c \notin Range(nestedStack) /\ c \notin undone
      /\ \A w \in Writes : c \notin issued[w].inside
      /\ \A u \in Tasks : Asks(u, "savepoint") /\ doing[u].on = c => u = t
  BY <1>0, <1>1 DEF ContextInv
<1>6. /\ nestedStack' \in Seq(Contexts) /\ IsInjective(nestedStack')
      /\ nestedStack' # <<>> /\ Len(nestedStack') = m + 1
      /\ \A x : x \in Range(nestedStack') <=> x \in Range(nestedStack) \/ x = c
  <2>1. c \in Contexts /\ nestedStack \in Seq(Contexts) /\ IsInjective(nestedStack)
    BY <1>0, <1>5, Zenon DEF TypeInv, ContextInv
  <2> HIDE DEF c
  <2> QED
    BY <1>3, <1>5, <2>1, AppendNewProperties
<1>7. m \in Nat /\ nestedStack'[m + 1] = c /\ \A k \in 1..m : nestedStack'[k] = nestedStack[k]
  BY <1>0, <1>3 DEF TypeInv
<1> HIDE DEF c, m
<1>8. TypeInv'
  <2>1. levels' \in Seq(SUBSET Writes)
    BY <1>3, CarriedType
  <2> QED
    BY <1>0, <1>3, <1>4, <1>6, <2>1 DEF TypeInv, LockType, fields, history
<1>9. EntryInv'
  BY <1>0, <1>2, <1>3, <1>4, IdleFacts, EntryKept, Zenon DEF fields
<1>10. CloseInv'
  BY <1>0, <1>2, <1>3, <1>4, CloseQuiet, Zenon DEF fields
<1>11. NestInv'
  BY <1>0, <1>2, <1>3, <1>4, <1>6, IdleFacts, NestOfHolder, TasksAssumption, Zenon
<1>12. \A u \in Tasks : ~Driving(u, "release")
  BY <1>1, <1>2, OnlyHolderDrives DEF Driving, Busy
<1>13. ContextInv'
  <2>1. \A u \in Tasks \ {t} : doing'[u] = doing[u] /\ \A x : Asks(u, x)' <=> Asks(u, x)
    BY <1>4 DEF Moves, Asks
  <2>2. ~Asks(t, "savepoint")' /\ ~Asks(t, "query")'
    BY <1>4 DEF Asks
  <2>3. \A x \in undone : x \notin Range(nestedStack')
    BY <1>0, <1>5, <1>6, <1>12, Zenon DEF ContextInv
  <2>4. ASSUME NEW u \in Tasks, Asks(u, "savepoint")'
        PROVE  /\ doing'[u].on \in used \ (Range(nestedStack') \cup undone)
               /\ \A w \in Writes : doing'[u].on \notin issued[w].inside
               /\ \A v \in Tasks : Asks(v, "savepoint")' /\ doing'[v].on = doing'[u].on => v = u
    <3>1. u # t /\ Asks(u, "savepoint") /\ doing'[u].on = doing[u].on /\ doing[u].on # c
      BY <1>5, <2>1, <2>2, <2>4
    <3> QED
      BY <1>0, <1>6, <2>1, <2>2, <3>1 DEF ContextInv
  <2>5. ASSUME NEW u \in Tasks, Asks(u, "query")'
        PROVE  /\ doing'[u].on \in Writes /\ issued[doing'[u].on].sent
               /\ issued[doing'[u].on].inside =
                    IF nestedOwner' = u THEN Range(nestedStack') ELSE {}
    <3>1. u # t /\ nestedOwner # u /\ nestedOwner' # u
      BY <1>2, <1>3, <2>2, <2>5, TasksAssumption
    <3>2. Asks(u, "query") /\ doing'[u].on = doing[u].on
      BY <2>1, <2>5, <3>1, Zenon
    <3>3. /\ doing[u].on \in Writes /\ issued[doing[u].on].sent
          /\ issued[doing[u].on].inside = IF nestedOwner = u THEN Range(nestedStack) ELSE {}
      BY <1>0, <3>2, Zenon DEF ContextInv
    <3> QED
      BY <3>1, <3>2, <3>3, Zenon
  <2>6. UNCHANGED <<used, undone, issued, completed>> /\ Range(nestedStack') \subseteq used
    BY <1>0, <1>3, <1>5, <1>6, Zenon DEF history, ContextInv
  <2> QED
    BY <1>0, <1>6, <2>3, <2>4, <2>5, <2>6, Zenon DEF ContextInv
<1>14. LevelInv'
  <2>1. UNCHANGED <<reusable, connection, close, failed, issued, completed, undone>>
    BY <1>3 DEF fields, history
  <2>2. SUFFICES ASSUME reusable
                 PROVE  LevelInv'
    BY <2>1 DEF LevelInv
  <2>3. /\ n = m + 1
        /\ \A i \in 1..n :
             /\ (i > 1 => nestedStack[i - 1] \notin failed) => levels[i] \subseteq completed
             /\ \A v \in levels[i] :
                  /\ issued[v].sent /\ issued[v].inside \cap undone = {}
                  /\ \A k \in 1..m : nestedStack[k] \in issued[v].inside <=> k < i
        /\ \A v \in completed : issued[v].inside \cap undone = {} => \E i \in 1..n : v \in levels[i]
    BY <1>0, <1>2, <2>2, Zenon DEF LevelInv, m
  <2>4. /\ Len(levels') = n + 1 /\ levels'[n + 1] = {}
        /\ \A i \in 1..n : levels'[i] = levels[i] /\ levels[i] \subseteq Writes
    <3>1. levels \in Seq(SUBSET Writes) /\ levels # <<>>
      <4>1. levels \in Seq(SUBSET Writes) /\ Len(levels) = m + 1 /\ m \in Nat
        BY <1>0, <1>7, <2>3, Zenon DEF TypeInv
      <4> QED BY ONLY <4>1
    <3>2. levels' = Append(levels, {}) /\ {} \in SUBSET Writes
      BY <1>3, <3>1 DEF Carried
    <3> QED
      BY <3>1, <3>2
  <2> HIDE DEF n
  <2>5. \A i \in 1..(n + 1) : i \in 1..n \/ i = n + 1
    <3>1. n = m + 1 /\ m \in Nat
      BY <1>7, <2>3, Zenon
    <3> QED BY ONLY <3>1
  <2>6. ASSUME NEW i \in 1..(n + 1), i > 1 => nestedStack'[i - 1] \notin failed
        PROVE  levels'[i] \subseteq completed
    <3>1. CASE i \in 1..n
      <4>0. n = m + 1 /\ m \in Nat
        BY <1>7, <2>3, Zenon
      <4>1. i > 1 => i - 1 \in 1..m
        BY ONLY <4>0, <3>1
      <4> QED
        BY <1>7, <2>3, <2>4, <2>6, <3>1, <4>1
    <3>2. CASE i = n + 1
      BY <2>4, <3>2
    <3> QED
      BY <2>5, <3>1, <3>2
  <2>7. ASSUME NEW i \in 1..(n + 1), NEW v \in levels'[i]
        PROVE  /\ issued[v].sent /\ issued[v].inside \cap undone = {}
               /\ \A k \in 1..(m + 1) : nestedStack'[k] \in issued[v].inside <=> k < i
    <3>1. i \in 1..n /\ v \in levels[i] /\ v \in Writes
      BY <2>4, <2>5
    <3>2. c \notin issued[v].inside
      BY <1>5, <3>1
    <3>3. ASSUME NEW k \in 1..(m + 1)
          PROVE  nestedStack'[k] \in issued[v].inside <=> k < i
      <4>1. CASE k \in 1..m
        BY <1>7, <2>3, <3>1, <4>1
      <4>2. CASE k = m + 1
        BY <1>7, <2>3, <3>1, <3>2, <4>2
      <4> QED
        BY <1>7, <4>1, <4>2
    <3> QED
      BY <2>3, <3>1, <3>3
  <2>8. ASSUME NEW v \in completed, issued[v].inside \cap undone = {}
        PROVE  \E i \in 1..(n + 1) : v \in levels'[i]
    <3>1. PICK i \in 1..n : v \in levels[i]
      BY <2>3, <2>8
    <3>2. i \in 1..(n + 1) /\ v \in levels'[i]
      BY <1>7, <2>3, <2>4, <3>1
    <3> QED
      BY <3>2
  <2>9. \A u \in Tasks : ~Driving(u, "release")'
    BY <1>4, <1>12 DEF Driving, Moves
  <2>10. Len(levels') = n + 1 /\ Len(nestedStack') = m + 1 /\ n + 1 = (m + 1) + 1
    BY <1>6, <2>3, <2>4
  <2> QED
    BY <2>1, <2>6, <2>7, <2>8, <2>9, <2>10 DEF LevelInv
<1>15. CommitInv'
  BY <1>0, <1>2, <1>3, CommitQuiet DEF fields
<1> QED
  BY <1>4, <1>8, <1>9, <1>10, <1>11, <1>13, <1>14, <1>15 DEF TransactionInv

(* The innermost level becomes part of the one below it. *)
LEMMA ReleasedKeeps ==
  ASSUME TransactionInv, NEW t \in Tasks, Released(t)
  PROVE  TransactionInv'
<1> DEFINE n == Len(levels)
           m == Len(nestedStack)
<1>0. /\ TypeInv /\ LockInv /\ EntryInv /\ CloseInv /\ NestInv /\ ContextInv /\ LevelInv
      /\ CommitInv
  BY DEF TransactionInv
<1>1. doing[t].step = "driving" /\ doing[t].call = "release" /\ Unwinds(t)
  BY DEF Released, Driving, Unwinds
<1>2. /\ Holds(t) /\ connection /\ ~closed /\ doing[t].step \in AtLock
      /\ doing[t].step # "exiting"
  BY <1>1, HolderFacts DEF Busy
<1>3. /\ levels' = Carried("release", NoTask) /\ PopContext
      /\ UNCHANGED <<fields, failed, used, streamOwner, close, lease, durable, decided,
                     policy, history>>
  BY DEF Released
<1>4. /\ doing' \in Doings /\ Moves(t) /\ doing'[t].step = "idle"
      /\ LockType' /\ LockInv'
  BY <1>2, <1>3, HolderLeaves, Zenon DEF Released
<1>5. /\ NestInv' /\ ContextInv' /\ nestedStack # <<>> /\ nestedStack' \in Seq(Contexts)
      /\ nestedOwner' \in Tasks \cup {NoTask}
  BY <1>1, <1>2, <1>3, <1>4, PopsContext, Zenon DEF history
<1>6. /\ m \in Nat \ {0} /\ Len(nestedStack') = m - 1
      /\ \A k \in 1..(m - 1) : nestedStack'[k] = nestedStack[k]
  <2>1. nestedStack \in Seq(Contexts) /\ m \in Nat \ {0}
    BY <1>0, <1>5, NoElements DEF TypeInv
  <2> QED
    BY <1>3, <1>5, <2>1, PopElements, Zenon DEF PopContext, Pop
<1> HIDE DEF m
<1>7. TypeInv'
  <2>1. levels' \in Seq(SUBSET Writes)
    BY <1>3, CarriedType
  <2> QED
    BY <1>0, <1>3, <1>4, <1>5, <2>1, ZenonT(40) DEF TypeInv, LockType, fields, history
<1>8. EntryInv'
  BY <1>0, <1>2, <1>3, <1>4, IdleFacts, EntryKept, Zenon DEF fields
<1>9. CloseInv'
  BY <1>0, <1>2, <1>3, <1>4, CloseQuiet, Zenon DEF fields
<1>10. LevelInv'
  <2>1. UNCHANGED <<reusable, connection, close, failed, issued, completed, undone>>
    BY <1>3 DEF fields, history
  <2>2. SUFFICES ASSUME reusable
                 PROVE  LevelInv'
    BY <2>1 DEF LevelInv
  <2>3. /\ n = m + 1
        /\ \A i \in 1..n :
             /\ (i > 1 => nestedStack[i - 1] \notin failed) => levels[i] \subseteq completed
             /\ \A v \in levels[i] :
                  /\ issued[v].sent /\ issued[v].inside \cap undone = {}
                  /\ \A k \in 1..m : nestedStack[k] \in issued[v].inside <=> k < i
        /\ \A v \in completed : issued[v].inside \cap undone = {} => \E i \in 1..n : v \in levels[i]
        /\ Top(levels) \subseteq completed
    BY <1>0, <1>1, <1>2, <2>2, Zenon DEF LevelInv, Driving, m
  <2>4. /\ Len(levels') = m /\ levels'[m] = levels[m] \cup levels[m + 1]
        /\ \A i \in 1..m : i # m => levels'[i] = levels[i]
    <3> DEFINE o == Pop(levels)
    <3>1. levels \in Seq(SUBSET Writes) /\ levels # <<>> /\ n > 1 /\ n - 1 = m
      <4>1. levels \in Seq(SUBSET Writes) /\ Len(levels) = m + 1 /\ m \in Nat \ {0}
        BY <1>0, <1>6, <2>3, Zenon DEF TypeInv
      <4>2. levels # <<>>
        BY ONLY <4>1
      <4>3. Len(levels) > 1 /\ Len(levels) - 1 = m
        BY ONLY <4>1
      <4> QED BY <4>1, <4>2, <4>3, Zenon
    <3>2. o \in Seq(SUBSET Writes) /\ Len(o) = m /\ \A i \in 1..m : o[i] = levels[i]
      BY <3>1, PopElements DEF Pop
    <3>3. levels' = [o EXCEPT ![m] = @ \cup Top(levels)]
      BY <1>3, <3>1, Zenon DEF Carried
    <3>4. Top(levels) = levels[m + 1] /\ m \in 1..m
      <4>1. m \in Nat \ {0}
        BY <1>6, Zenon
      <4>2. m \in 1..m
        BY ONLY <4>1
      <4> QED BY <2>3, <4>2, Zenon DEF Top
    <3> HIDE DEF o
    <3>5. Len(levels') = m /\ levels'[m] = o[m] \cup Top(levels)
          /\ \A i \in 1..m : i # m => levels'[i] = o[i]
      <4>1. DOMAIN o = 1..m /\ levels' = [o EXCEPT ![m] = o[m] \cup Top(levels)]
        BY ONLY <3>2, <3>3, <3>4
      <4>2. levels'[m] = o[m] \cup Top(levels) /\ \A i \in 1..m : i # m => levels'[i] = o[i]
        BY <3>4, <4>1, Zenon
      <4>3. Len(levels') = Len(o)
        BY ONLY <3>2, <3>3
      <4> QED BY <3>2, <4>2, <4>3, Zenon
    <3> QED
      BY <3>2, <3>4, <3>5, Zenon
  <2> HIDE DEF n
  <2>5. \A i \in 1..m : i \in 1..n /\ m + 1 \in 1..n /\ m \in 1..m
    BY <1>6, <2>3
  <2>6. ASSUME NEW i \in 1..m, i > 1 => nestedStack'[i - 1] \notin failed
        PROVE  levels'[i] \subseteq completed
    <3>1. i > 1 => i - 1 \in 1..(m - 1)
      BY <1>6
    <3>2. levels[i] \subseteq completed
      BY <1>6, <2>3, <2>5, <2>6, <3>1, Zenon
    <3>3. levels[m + 1] \subseteq completed
      BY <2>3 DEF Top, n
    <3> QED
      BY <2>4, <3>2, <3>3
  <2>7. ASSUME NEW i \in 1..m, NEW v \in levels'[i]
        PROVE  /\ issued[v].sent /\ issued[v].inside \cap undone = {}
               /\ \A k \in 1..(m - 1) : nestedStack'[k] \in issued[v].inside <=> k < i
    <3>1. PICK j \in 1..n : v \in levels[j] /\ (j = i \/ (i = m /\ j = m + 1))
      <4>1. CASE v \in levels[i]
        <5>1. i \in 1..n
          BY <2>5
        <5> QED
          BY <4>1, <5>1, Zenon
      <4>2. CASE v \notin levels[i]
        <5>1. i = m /\ v \in levels[m + 1] /\ m + 1 \in 1..n
          BY <2>4, <2>5, <4>2, Zenon
        <5> QED
          BY <5>1
      <4> QED
        BY <4>1, <4>2
    <3>2. \A k \in 1..(m - 1) : k \in 1..m /\ (k < j <=> k < i)
      BY <1>6, <2>3, <3>1
    <3> QED
      BY <1>6, <2>3, <3>1, <3>2
  <2>8. ASSUME NEW v \in completed, issued[v].inside \cap undone = {}
        PROVE  \E i \in 1..m : v \in levels'[i]
    <3>1. PICK j \in 1..n : v \in levels[j]
      BY <2>3, <2>8
    <3>2. j \in 1..m \/ j = m + 1
      BY <1>6, <2>3
    <3>3. m \in 1..m
      BY <1>6
    <3> QED
      BY <2>4, <3>1, <3>2, <3>3
  <2>9. \A u \in Tasks : ~Driving(u, "release")'
    BY <1>1, <1>2, <1>4, OnlyHolderDrives DEF Driving, Moves, Busy
  <2>10. Len(levels') = m /\ Len(nestedStack') = m - 1 /\ m = (m - 1) + 1
    BY <1>6, <2>4
  <2> QED
    BY <2>1, <2>6, <2>7, <2>8, <2>9, <2>10, Zenon DEF LevelInv
<1>11. CommitInv'
  BY <1>0, <1>2, <1>3, CommitQuiet, Zenon DEF fields
<1> QED
  BY <1>4, <1>5, <1>7, <1>8, <1>9, <1>10, <1>11 DEF TransactionInv

(***************************************************************************)
(* The theorems                                                            *)
(***************************************************************************)
LEMMA TransactionNext ==
  TransactionInv /\ [Next]_vars => TransactionInv'
<1> SUFFICES ASSUME TransactionInv, [Next]_vars
             PROVE  TransactionInv'
  OBVIOUS
<1>1. CASE CloseStep
  BY <1>1, CloseStepKeeps
<1>2. ASSUME NEW t \in Tasks, Answered(t)
      PROVE  TransactionInv'
  BY <1>2, AcquiredKeeps, AcquireFailsKeeps, BegunKeeps, BeginFailsKeeps, StartDriverKeeps,
     RejectedKeeps, CompletesKeeps, StreamOpenedKeeps, FetchedKeeps, StreamClosedKeeps,
     StatementRejectedKeeps, DriverFailsKeeps, SavepointMadeKeeps, StartUnwindKeeps,
     RolledBackToKeeps, ReleasedKeeps DEF Answered, QueryDone, MaterializationFails
<1>3. ASSUME NEW t \in Tasks, Asked(t)
      PROVE  TransactionInv'
  BY <1>3, EnterKeeps, OpenStreamKeeps, UseStreamKeeps, CancelWaitKeeps, QueryKeeps,
     EnterNestedKeeps, ExitNestedKeeps, ExitKeeps DEF Asked
<1>4. CASE UNCHANGED vars
  BY <1>4, TransactionStays, Zenon
<1> QED
  BY <1>1, <1>2, <1>3, <1>4, Zenon DEF Next

(* The invariant holds in every state of a Transaction, whatever tasks     *)
(* share it and whatever the driver answers.                               *)
THEOREM TransactionCorrect == Spec => []TransactionInv
BY TransactionInit, TransactionNext, PTL DEF Spec

(* Only a completed write has rows that could not be materialized.         *)
UnreadInv == unread \subseteq completed

LEMMA UnreadNext ==
  UnreadInv /\ [Next]_vars => UnreadInv'
<1> SUFFICES ASSUME UnreadInv, [Next]_vars
             PROVE  UnreadInv'
  OBVIOUS
<1>1. CASE CloseStep
  <2>1. UNCHANGED history
    BY <1>1, Zenon DEF CloseStep, CloseRefused, CloseDiscards, StartControl, Committed,
       CommitRejected, CommitUnknown, RolledBack, RollbackFails, Restored, RestoreFails
  <2> QED
    BY <2>1 DEF history, UnreadInv
<1>2. ASSUME NEW t \in Tasks, QueryDone(t) \/ MaterializationFails(t)
      PROVE  UnreadInv'
  BY <1>2 DEF QueryDone, MaterializationFails, Completes, UnreadInv
<1>3. ASSUME NEW t \in Tasks, Answered(t)
      PROVE  UnreadInv'
  <2>1. CASE QueryDone(t) \/ MaterializationFails(t)
    BY <1>2, <2>1
  <2>2. CASE ~(QueryDone(t) \/ MaterializationFails(t))
    <3>1. UNCHANGED <<completed, unread>>
      BY <1>3, <2>2, Zenon DEF Answered, Acquired, AcquireFails, Begun, BeginFails,
         StartDriver, Rejected, StreamOpened, Fetched, StreamClosed, StatementRejected,
         DriverFails, SavepointMade, StartUnwind, RolledBackTo, Released, history
    <3> QED
      BY <3>1 DEF UnreadInv
  <2> QED
    BY <2>1, <2>2
<1>4. ASSUME NEW t \in Tasks, Asked(t)
      PROVE  UnreadInv'
  <2>1. UNCHANGED <<completed, unread>>
    BY <1>4, Zenon DEF Asked, Enter, OpenStream, UseStream, CancelWait, Query, EnterNested,
       ExitNested, Exit, history
  <2> QED
    BY <2>1 DEF UnreadInv
<1>5. CASE UNCHANGED vars
  BY <1>5 DEF vars, history, UnreadInv
<1> QED
  BY <1>1, <1>3, <1>4, <1>5, Zenon DEF Next

LEMMA UnreadCorrect == Spec => []UnreadInv
<1>1. Init => UnreadInv
  BY DEF Init, UnreadInv
<1> QED
  BY <1>1, UnreadNext, PTL DEF Spec

(* A commit reported as committed made durable exactly the completed       *)
(* writes that no rollback of their own task's contexts took back, those   *)
(* whose execute() raised while their rows were materialized included.     *)
THEOREM TransactionCommitIsExact == Spec => []CommitIsExact
<1>1. TransactionInv /\ UnreadInv => CommitIsExact
  BY DEF TransactionInv, CommitInv, UnreadInv, CommitIsExact, Kept
<1> QED
  BY <1>1, TransactionCorrect, UnreadCorrect, PTL

(* commit_outcome says "committed" only after a commit, and               *)
(* "not_attempted" or "rejected" only without one.                         *)
THEOREM TransactionOutcomeIsEvidence == Spec => []OutcomeIsEvidence
<1>1. TransactionInv => OutcomeIsEvidence
  BY DEF TransactionInv, CloseInv
<1> QED
  BY <1>1, TransactionCorrect, PTL

(* A lease goes back for reuse with no open transaction, no overridden     *)
(* setting and no driver call under way.                                   *)
THEOREM TransactionReleasedIsClean == Spec => []ReleasedIsClean
<1>1. TransactionInv => ReleasedIsClean
  <2> SUFFICES ASSUME TransactionInv, lease = "released"
               PROVE  /\ levels = <<>> /\ ~policy /\ reusable
                      /\ \A t \in Tasks : doing[t].step \notin {"driving", "streaming"}
    BY DEF ReleasedIsClean
  <2>1. levels = <<>> /\ ~policy /\ reusable /\ ~connection
    BY DEF TransactionInv, EntryInv
  <2> QED
    BY <2>1 DEF TransactionInv, NestInv, NestTask, Busy
<1> QED
  BY <1>1, TransactionCorrect, PTL

(* While contexts are open, only their owner runs statements. *)
THEOREM TransactionNestedIsExclusive == Spec => []NestedIsExclusive
<1>1. TransactionInv => NestedIsExclusive
  BY DEF TransactionInv, NestInv, NestTask, Busy, NestedIsExclusive
<1> QED
  BY <1>1, TransactionCorrect, PTL
=============================================================================
