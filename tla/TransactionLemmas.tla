------------------------- MODULE TransactionLemmas -------------------------
(***************************************************************************)
(* The inductive invariant of a Transaction, and the steps that leave the  *)
(* server's savepoint levels alone or end them all: entry, streams, what   *)
(* waits for the lock, and the close task.  TransactionInv says who is in  *)
(* the queue of the connection lock and what its holder may rely on, who   *)
(* owns the open contexts, and how the server's savepoint levels           *)
(* correspond to them.                                                     *)
(***************************************************************************)
EXTENDS Transaction, SequenceLemmas

AtLock == {"waiting", "driving", "streaming"}
Busy == {"driving", "streaming"}
Control == {"committing", "rollingBack", "restoring"}
Closing == {"waiting"} \cup Control

Things == Contexts \cup Writes \cup {NoTask}
Doings == [Tasks -> [step : Steps, call : Calls, on : Things, raised : BOOLEAN]]

TypeInv ==
  /\ entering \in BOOLEAN /\ connection \in BOOLEAN /\ closed \in BOOLEAN
  /\ reusable \in BOOLEAN /\ decided \in BOOLEAN
  /\ nestedStack \in Seq(Contexts)
  /\ failed \in SUBSET Contexts /\ used \in SUBSET Contexts /\ undone \in SUBSET Contexts
  /\ nestedOwner \in Tasks \cup {NoTask} /\ streamOwner \in Tasks \cup {NoTask}
  /\ lock \in Seq(Tasks \cup {Closer})
  /\ doing \in Doings
  /\ close \in [state : Closing \cup {"none", "done"}, by : Tasks \cup {NoTask},
                raised : BOOLEAN]
  /\ levels \in Seq(SUBSET Writes)
  /\ issued \in [Writes -> [sent : BOOLEAN, inside : SUBSET Contexts]]
  /\ completed \in SUBSET Writes

(* Who is in the queue of the lock, and that the head has it. *)
LockInv ==
  /\ IsInjective(lock)
  /\ Closer \in Range(lock) <=> close.state \in Closing
  /\ close.state \in Control => Holds(Closer)
  /\ \A t \in Tasks : /\ t \in Range(lock) <=> doing[t].step \in AtLock
                      /\ doing[t].step \in Busy => Holds(t)

(* One task enters, once; the connection is there until it is closed. *)
EntryInv ==
  /\ \A t, u \in Tasks : doing[t].step \in {"acquiring", "beginning"} =>
       entering /\ (doing[u].step \in {"acquiring", "beginning"} => t = u)
  /\ entering => ~connection /\ ~closed
  /\ connection => ~closed
  /\ ~connection /\ ~closed =>
       levels = <<>> /\ nestedStack = <<>> /\ completed = {} /\ undone = {}
  /\ lease = "released" => closed /\ levels = <<>> /\ ~policy /\ reusable

(* What the close task knows at each of its suspension points. *)
CloseInv ==
  /\ close.state \in Closing => close.by \in Tasks /\ doing[close.by].step = "exiting"
  /\ close.state \in Control => closed /\ reusable /\ nestedStack = <<>>
  /\ close.state = "restoring" => levels = <<>>
  /\ close.state \in {"none", "waiting"} => outcome = "not_attempted"
  /\ close.state = "committing" => outcome = "unknown"
  /\ close.state \notin {"restoring", "done"} => ~decided
  /\ outcome = "committed" => closed
  /\ OutcomeIsEvidence

Unwinds(t) ==
  /\ doing[t].step \in {"waiting", "driving"}
  /\ doing[t].call \in {"unwind", "rollbackTo", "release"}

Asks(t, call) == doing[t].step \in {"waiting", "driving"} /\ doing[t].call = call

(* What a task in the queue relies on: only its own steps end that. *)
NestTask(t) ==
  /\ doing[t].step = "waiting" =>
       doing[t].call \in {"query", "stream", "savepoint", "unwind"}
  /\ doing[t].step = "driving" =>
       doing[t].call \in {"query", "stream", "fetch", "endStream", "savepoint",
                          "rollbackTo", "release"}
  /\ doing[t].step \in Busy => connection /\ nestedOwner \in {NoTask, t}
  /\ Unwinds(t) => connection /\ nestedOwner = t /\ Top(nestedStack) = doing[t].on
  /\ \/ doing[t].step = "streaming"
     \/ doing[t].step = "driving" /\ doing[t].call \in {"fetch", "endStream"}
     => streamOwner = t

NestInv ==
  /\ nestedStack = <<>> <=> nestedOwner = NoTask
  /\ \A t \in Tasks : NestTask(t)

(* A context is entered once, and a write belongs to the contexts that its *)
(* task had open when it was issued.                                       *)
ContextInv ==
  /\ IsInjective(nestedStack)
  /\ Range(nestedStack) \subseteq used /\ undone \subseteq used
  /\ \A w \in Writes : issued[w].inside \subseteq used
  /\ \A w \in completed : issued[w].sent
  /\ \A c \in undone : c \in Range(nestedStack) =>
       \E t \in Tasks : Driving(t, "release") /\ doing[t].on = c
  /\ \A t \in Tasks : Asks(t, "savepoint") =>
       /\ doing[t].on \in used \ (Range(nestedStack) \cup undone)
       /\ \A w \in Writes : doing[t].on \notin issued[w].inside
       /\ \A u \in Tasks : Asks(u, "savepoint") /\ doing[u].on = doing[t].on => u = t
  /\ \A t \in Tasks : Asks(t, "query") =>
       /\ doing[t].on \in Writes /\ issued[doing[t].on].sent
       /\ issued[doing[t].on].inside = IF nestedOwner = t THEN Range(nestedStack) ELSE {}

(* The server's levels are the client's contexts and the transaction below *)
(* them.  A write is at the level of the innermost open context it belongs *)
(* to, and only a failed context's level holds more than completed writes. *)
LevelInv ==
  reusable /\ (connection \/ close.state = "committing") =>
    /\ Len(levels) = Len(nestedStack) + 1
    /\ \A i \in 1..Len(levels) :
         /\ (i > 1 => nestedStack[i - 1] \notin failed) => levels[i] \subseteq completed
         /\ \A w \in levels[i] :
              /\ issued[w].sent /\ issued[w].inside \cap undone = {}
              /\ \A k \in 1..Len(nestedStack) : nestedStack[k] \in issued[w].inside <=> k < i
    /\ \A w \in completed : issued[w].inside \cap undone = {} =>
         \E i \in 1..Len(levels) : w \in levels[i]
    /\ \A t \in Tasks : Driving(t, "release") => Top(levels) \subseteq completed

(* What a commit reported as committed made durable. *)
CommitInv ==
  outcome = "committed" =>
    durable = {w \in completed : issued[w].inside \cap undone = {}}

TransactionInv ==
  /\ TypeInv /\ LockInv /\ EntryInv /\ CloseInv /\ NestInv /\ ContextInv /\ LevelInv
  /\ CommitInv

(* It holds before anyone enters, and speaks of the Transaction's variables. *)
LEMMA TransactionInit ==
  Init => TransactionInv
<1> SUFFICES ASSUME Init
             PROVE  TransactionInv
  OBVIOUS
<1>1. \A t \in Tasks : doing[t] = Idle /\ doing[t].step = "idle"
  BY DEF Init, Idle
<1>2. doing \in Doings
  BY DEF Init, Idle, Doings, Steps, Calls, Things
<1>3. TypeInv
  <2>1. /\ nestedStack \in Seq(Contexts) /\ lock \in Seq(Tasks \cup {Closer})
        /\ levels \in Seq(SUBSET Writes)
    BY DEF Init
  <2>2. issued \in [Writes -> [sent : BOOLEAN, inside : SUBSET Contexts]]
    BY DEF Init
  <2> QED
    BY <1>2, <2>1, <2>2, Zenon DEF Init, TypeInv
<1>4. Range(<<>>) = {} /\ IsInjective(<<>>)
  BY DEF Range, IsInjective
<1>5. LockInv
  BY <1>1, <1>4, Zenon DEF Init, LockInv, AtLock, Busy, Closing, Control
<1>6. EntryInv
  BY <1>1 DEF Init, EntryInv
<1>7. CloseInv
  BY DEF Init, CloseInv, OutcomeIsEvidence, Closing, Control
<1>8. NestInv
  BY <1>1 DEF Init, NestInv, NestTask, Unwinds, Busy
<1>9. ContextInv
  BY <1>1, <1>4, Zenon DEF Init, ContextInv, Asks
<1>10. LevelInv /\ CommitInv
  BY DEF Init, LevelInv, CommitInv
<1> QED
  BY <1>3, <1>5, <1>6, <1>7, <1>8, <1>9, <1>10, Zenon DEF TransactionInv

LEMMA TransactionStays ==
  ASSUME TransactionInv, UNCHANGED vars
  PROVE  TransactionInv'
<1>1. UNCHANGED <<fields, nesting, streamOwner, lock, doing, close, lease, session, history>>
  BY DEF vars
<1>2. TypeInv' /\ LockInv' /\ EntryInv'
  BY <1>1 DEF TransactionInv, TypeInv, LockInv, Holds, EntryInv, fields, nesting, session,
     history
<1>3. NestInv' /\ CloseInv' /\ CommitInv'
  BY <1>1 DEF TransactionInv, NestInv, NestTask, Unwinds, CloseInv, OutcomeIsEvidence,
     CommitInv, fields, nesting, session, history
<1>4. ContextInv'
  BY <1>1 DEF TransactionInv, ContextInv, Asks, Driving, nesting, history
<1>5. LevelInv'
  BY <1>1 DEF TransactionInv, LevelInv, Driving, fields, nesting, session, history
<1> QED
  BY <1>2, <1>3, <1>4, <1>5 DEF TransactionInv

(***************************************************************************)
(* What a step does to one task, and to the queue of the lock              *)
(***************************************************************************)
LEMMA Vocabulary ==
  /\ "acquiring" \in Steps /\ "beginning" \in Steps /\ "waiting" \in Steps
  /\ "driving" \in Steps /\ "streaming" \in Steps /\ "exiting" \in Steps
  /\ "enter" \in Calls /\ "query" \in Calls /\ "stream" \in Calls
  /\ "fetch" \in Calls /\ "endStream" \in Calls /\ "savepoint" \in Calls
  /\ "unwind" \in Calls /\ "rollbackTo" \in Calls /\ "release" \in Calls
  /\ "exit" \in Calls /\ NoTask \in Things /\ FALSE \in BOOLEAN
BY DEF Steps, Calls, Things

LEMMA DoingIdle ==
  ASSUME NEW d \in Doings, NEW t \in Tasks
  PROVE  LET e == [d EXCEPT ![t] = Idle]
         IN  /\ e \in Doings
             /\ e[t].step = "idle"
             /\ \A u \in Tasks \ {t} : e[u] = d[u]
BY DEF Doings, Idle, Steps, Calls, Things

LockType == lock \in Seq(Tasks \cup {Closer})

(* Only t moves. *)
Moves(t) == \A u \in Tasks \ {t} : doing'[u] = doing[u]

LEMMA LockWait ==
  ASSUME LockType, LockInv, NEW t \in Tasks, Moves(t),
         doing[t].step \notin AtLock, doing'[t].step = "waiting",
         lock' = Append(lock, t), close' = close
  PROVE  LockType' /\ LockInv'
<1>1. t \notin Range(lock)
  BY DEF LockInv
<1>2. /\ LockType' /\ IsInjective(lock')
      /\ lock' # <<>> /\ (lock # <<>> => Head(lock') = Head(lock))
      /\ \A x : x \in Range(lock') <=> x \in Range(lock) \/ x = t
  BY <1>1, AppendNewProperties DEF LockType, LockInv
<1>3. Holds(Closer) => Holds(Closer)'
  BY <1>2 DEF Holds
<1>4. \A u \in Tasks : Holds(u) => Holds(u)'
  BY <1>2 DEF Holds
<1>5. "waiting" \in AtLock /\ "waiting" \notin Busy
  BY DEF AtLock, Busy
<1>6. ASSUME NEW u \in Tasks
      PROVE  /\ u \in Range(lock') <=> doing'[u].step \in AtLock
             /\ doing'[u].step \in Busy => Holds(u)'
  BY <1>2, <1>4, <1>5 DEF LockInv, Moves
<1> QED
  BY <1>2, <1>3, <1>6, TasksAssumption DEF LockInv

LEMMA LockLeave ==
  ASSUME LockType, LockInv, NEW t \in Tasks, Moves(t), Holds(t),
         doing[t].step \in AtLock, doing'[t].step \notin AtLock,
         lock' = Tail(lock), close' = close
  PROVE  LockType' /\ LockInv'
<1>1. /\ LockType' /\ IsInjective(lock')
      /\ \A x : x \in Range(lock') <=> x \in Range(lock) /\ x # t
  BY TailProperties DEF LockType, LockInv, Holds
<1>2. close.state \notin Control /\ \A u \in Tasks \ {t} : doing[u].step \notin Busy
  BY TasksAssumption DEF LockInv, Holds
<1>3. ASSUME NEW u \in Tasks
      PROVE  /\ u \in Range(lock') <=> doing'[u].step \in AtLock
             /\ doing'[u].step \notin Busy
  BY <1>1, <1>2 DEF LockInv, Moves, AtLock, Busy
<1> QED
  BY <1>1, <1>2, <1>3, TasksAssumption DEF LockInv

LEMMA LockCancel ==
  ASSUME LockType, LockInv, NEW t \in Tasks, Moves(t),
         doing[t].step = "waiting", doing'[t].step = "idle",
         lock' = Without(lock, t), close' = close
  PROVE  LockType' /\ LockInv'
<1>1. /\ LockType' /\ IsInjective(lock')
      /\ \A x : x \in Range(lock') <=> x \in Range(lock) /\ x # t
  BY WithoutProperties DEF LockType, LockInv
<1>2. Holds(Closer) => Holds(Closer)'
  BY WithoutKeepsHead, TasksAssumption DEF LockType, LockInv, Holds
<1>3. \A u \in Tasks \ {t} : Holds(u) => Holds(u)'
  BY WithoutKeepsHead DEF LockType, LockInv, Holds
<1>4. ASSUME NEW u \in Tasks
      PROVE  /\ u \in Range(lock') <=> doing'[u].step \in AtLock
             /\ doing'[u].step \in Busy => Holds(u)'
  BY <1>1, <1>3 DEF LockInv, Moves, AtLock, Busy
<1> QED
  BY <1>1, <1>2, <1>4, TasksAssumption DEF LockInv

(* The queue stays as it is: tasks and the close task only go on. *)
LEMMA LockStays ==
  ASSUME LockType, LockInv, lock' = lock,
         close'.state \in Closing <=> close.state \in Closing,
         close'.state \in Control => Holds(Closer),
         \A u \in Tasks : /\ doing'[u].step \in AtLock <=> doing[u].step \in AtLock
                          /\ doing'[u].step \in Busy => Holds(u)
  PROVE  LockType' /\ LockInv'
BY DEF LockType, LockInv, Holds

LEMMA LockExit ==
  ASSUME LockType, LockInv, NEW t \in Tasks, Moves(t),
         doing[t].step = "idle", doing'[t].step = "exiting",
         lock' = Append(lock, Closer), close.state = "none", close'.state = "waiting"
  PROVE  LockType' /\ LockInv'
<1>1. Closer \notin Range(lock) /\ close'.state \in Closing /\ close'.state \notin Control
  BY DEF LockInv, Closing, Control
<1>2. /\ LockType' /\ IsInjective(lock')
      /\ lock' # <<>> /\ (lock # <<>> => Head(lock') = Head(lock))
      /\ \A x : x \in Range(lock') <=> x \in Range(lock) \/ x = Closer
  BY <1>1, AppendNewProperties DEF LockType, LockInv
<1>3. \A u \in Tasks : Holds(u) => Holds(u)'
  BY <1>2 DEF Holds
<1>4. ASSUME NEW u \in Tasks
      PROVE  /\ u \in Range(lock') <=> doing'[u].step \in AtLock
             /\ doing'[u].step \in Busy => Holds(u)'
  BY <1>2, <1>3, TasksAssumption DEF LockInv, Moves, AtLock, Busy
<1> QED
  BY <1>1, <1>2, <1>4 DEF LockInv

LEMMA LockCloseEnds ==
  ASSUME LockType, LockInv, NEW t \in Tasks, Moves(t), Holds(Closer),
         doing[t].step = "exiting", doing'[t].step = "idle",
         lock' = Tail(lock), close'.state = "done"
  PROVE  LockType' /\ LockInv'
<1>1. /\ LockType' /\ IsInjective(lock')
      /\ \A x : x \in Range(lock') <=> x \in Range(lock) /\ x # Closer
  BY TailProperties DEF LockType, LockInv, Holds
<1>2. \A u \in Tasks : doing[u].step \notin Busy
  BY TasksAssumption DEF LockInv, Holds
<1>3. ASSUME NEW u \in Tasks
      PROVE  /\ u \in Range(lock') <=> doing'[u].step \in AtLock
             /\ doing'[u].step \notin Busy
  BY <1>1, <1>2, TasksAssumption DEF LockInv, Moves, AtLock, Busy
<1> QED
  BY <1>1, <1>2, <1>3 DEF LockInv, Closing, Control

(***************************************************************************)
(* Steps that leave a part of the invariant alone                          *)
(***************************************************************************)
EntrySteps == {"acquiring", "beginning"}

LEMMA EntryQuiet ==
  ASSUME EntryInv, NEW t \in Tasks, Moves(t),
         doing'[t].step \in EntrySteps => doing[t].step \in EntrySteps,
         UNCHANGED <<entering, connection, closed, levels, nestedStack, completed, undone,
                     lease, policy, reusable>>
  PROVE  EntryInv'
<1>1. \A u \in Tasks : doing'[u].step \in EntrySteps => doing[u].step \in EntrySteps
  BY DEF Moves
<1> QED
  BY <1>1 DEF EntryInv, EntrySteps

(* Inside an open transaction. *)
LEMMA EntryKept ==
  ASSUME EntryInv, NEW t \in Tasks, Moves(t), doing'[t].step \notin EntrySteps,
         connection, UNCHANGED <<entering, connection, closed, lease>>
  PROVE  EntryInv'
<1>1. ~entering /\ ~closed /\ lease # "released"
  BY DEF EntryInv
<1>2. \A u \in Tasks : doing'[u].step \notin EntrySteps
  BY <1>1 DEF Moves, EntryInv, EntrySteps
<1> QED
  BY <1>1, <1>2 DEF EntryInv, EntrySteps

LEMMA CloseQuiet ==
  ASSUME CloseInv, NEW t \in Tasks, Moves(t), doing[t].step # "exiting",
         UNCHANGED <<close, outcome, decided>>,
         ~closed \/ UNCHANGED <<closed, reusable, nestedStack, levels>>
  PROVE  CloseInv'
<1>1. close'.state \in Closing => close'.by \in Tasks /\ doing'[close'.by].step = "exiting"
  BY DEF CloseInv, Moves
<1>2. OutcomeIsEvidence'
  BY DEF CloseInv, OutcomeIsEvidence
<1>3. CASE ~closed
  <2>1. close.state \notin Control /\ outcome # "committed"
    BY <1>3 DEF CloseInv
  <2> QED
    BY <1>1, <1>2, <2>1 DEF CloseInv, Control
<1>4. CASE UNCHANGED <<closed, reusable, nestedStack, levels>>
  BY <1>1, <1>2, <1>4 DEF CloseInv
<1> QED
  BY <1>3, <1>4

LEMMA NestQuiet ==
  ASSUME NestInv, NEW t \in Tasks, Moves(t), connection => connection',
         UNCHANGED <<nestedStack, nestedOwner, streamOwner>>, NestTask(t)'
  PROVE  NestInv'
<1>1. ASSUME NEW u \in Tasks \ {t}
      PROVE  NestTask(u)'
  <2>1. NestTask(u) /\ doing'[u] = doing[u]
    BY DEF NestInv, Moves
  <2> QED
    BY <2>1 DEF NestTask, Unwinds
<1> QED
  BY <1>1 DEF NestInv

(* The holder of the lock may change the contexts and the stream. *)
LEMMA NestOfHolder ==
  ASSUME NestInv, LockInv, NEW t \in Tasks, Moves(t), Holds(t),
         nestedOwner \in {NoTask, t},
         nestedStack' = <<>> <=> nestedOwner' = NoTask, NestTask(t)'
  PROVE  NestInv'
<1>1. ASSUME NEW u \in Tasks \ {t}
      PROVE  NestTask(u)'
  <2>1. NestTask(u) /\ doing'[u] = doing[u]
    BY DEF NestInv, Moves
  <2>2. doing[u].step \notin Busy
    BY DEF LockInv, Holds
  <2>3. doing[u].step # "driving" /\ doing[u].step # "streaming"
    BY <2>2 DEF Busy
  <2>4. ~Unwinds(u)
    BY <2>1, TasksAssumption, Zenon DEF NestTask
  <2> QED
    BY <2>1, <2>2, <2>3, <2>4, Zenon DEF NestTask, Unwinds
<1> QED
  BY <1>1 DEF NestInv

Same(t, call) == Asks(t, call)' => Asks(t, call) /\ doing'[t].on = doing[t].on

(* The release of a rolled back context goes on. *)
ReleaseGoesOn(t) ==
  Driving(t, "release") => Driving(t, "release")' /\ doing'[t].on = doing[t].on

LEMMA ContextMoves ==
  ASSUME ContextInv, NEW t \in Tasks, Moves(t),
         UNCHANGED <<nestedStack, used, undone, issued, nestedOwner>>,
         \A w \in completed' : issued[w].sent,
         Same(t, "savepoint"), Same(t, "query"), ReleaseGoesOn(t)
  PROVE  ContextInv'
<1>1. \A u \in Tasks : Same(u, "savepoint") /\ Same(u, "query") /\ ReleaseGoesOn(u)
  BY DEF Moves, Same, Asks, ReleaseGoesOn, Driving
<1>2. \A c \in undone' : c \in Range(nestedStack') =>
        \E u \in Tasks : Driving(u, "release")' /\ doing'[u].on = c
  BY <1>1 DEF ContextInv, ReleaseGoesOn
<1>3. ASSUME NEW u \in Tasks, Asks(u, "savepoint")'
      PROVE  /\ doing'[u].on \in used' \ (Range(nestedStack') \cup undone')
             /\ \A w \in Writes : doing'[u].on \notin issued'[w].inside
             /\ \A v \in Tasks : Asks(v, "savepoint")' /\ doing'[v].on = doing'[u].on => v = u
  BY <1>1, <1>3 DEF ContextInv, Same
<1>4. ASSUME NEW u \in Tasks, Asks(u, "query")'
      PROVE  /\ doing'[u].on \in Writes /\ issued'[doing'[u].on].sent
             /\ issued'[doing'[u].on].inside =
                  IF nestedOwner' = u THEN Range(nestedStack') ELSE {}
  BY <1>1, <1>4 DEF ContextInv, Same
<1> QED
  BY <1>2, <1>3, <1>4, Zenon DEF ContextInv

LEMMA ContextQuiet ==
  ASSUME ContextInv, NEW t \in Tasks, Moves(t),
         UNCHANGED <<nestedStack, used, undone, issued, completed, nestedOwner>>,
         Same(t, "savepoint"), Same(t, "query"), ReleaseGoesOn(t)
  PROVE  ContextInv'
<1>1. \A w \in completed' : issued[w].sent
  BY DEF ContextInv
<1> QED
  BY <1>1, ContextMoves

LEMMA LevelQuiet ==
  ASSUME LevelInv, NEW t \in Tasks, Moves(t),
         UNCHANGED <<nestedStack, undone, issued, completed, levels>>,
         failed \subseteq failed', reusable' => reusable,
         connection' \/ close'.state = "committing" => connection \/ close.state = "committing",
         Driving(t, "release")' => Driving(t, "release") \/ Top(levels) \subseteq completed
  PROVE  LevelInv'
<1>1. \A u \in Tasks : Driving(u, "release")' =>
        Driving(u, "release") \/ Top(levels) \subseteq completed
  BY DEF Moves, Driving
<1> QED
  BY <1>1 DEF LevelInv

LEMMA LevelUnsafe ==
  ASSUME ~reusable' PROVE LevelInv'
BY DEF LevelInv

LEMMA CommitQuiet ==
  ASSUME CommitInv, CloseInv, outcome' = outcome,
         ~closed \/ UNCHANGED <<durable, completed, issued, undone>>
  PROVE  CommitInv'
BY DEF CommitInv, CloseInv

(* Steps that only move a task. *)
LEMMA TaskMoves ==
  ASSUME TransactionInv, NEW t \in Tasks, Moves(t), doing' \in Doings,
         LockType' /\ LockInv', NestInv', streamOwner' \in Tasks \cup {NoTask},
         UNCHANGED <<fields, nesting, close, lease, session, history>>,
         doing[t].step # "exiting", doing'[t].step \notin EntrySteps,
         Same(t, "savepoint"), Same(t, "query"), ReleaseGoesOn(t),
         Driving(t, "release")' => Driving(t, "release") \/ Top(levels) \subseteq completed
  PROVE  TransactionInv'
<1> USE DEF TransactionInv, fields, nesting, session, history
<1>1. TypeInv'
  BY DEF TypeInv, LockType
<1>2. EntryInv'
  BY EntryQuiet
<1>3. CloseInv'
  BY CloseQuiet
<1>4. ContextInv'
  BY ContextQuiet
<1>5. LevelInv'
  BY LevelQuiet
<1>6. CommitInv'
  BY CommitQuiet
<1> QED
  BY <1>1, <1>2, <1>3, <1>4, <1>5, <1>6, Zenon

(***************************************************************************)
(* Tasks that queue, go on under the lock, or leave with nothing done      *)
(***************************************************************************)
LEMMA HolderFacts ==
  ASSUME TransactionInv, NEW t \in Tasks, doing[t].step \in Busy
  PROVE  /\ Holds(t) /\ connection /\ ~closed /\ ~entering /\ nestedOwner \in {NoTask, t}
         /\ doing[t].step \in AtLock /\ doing[t].step # "exiting"
         /\ doing[t].step \notin EntrySteps
BY DEF TransactionInv, LockInv, NestInv, NestTask, EntryInv, Busy, AtLock, EntrySteps

LEMMA OpenStreamKeeps ==
  ASSUME TransactionInv, NEW t \in Tasks, OpenStream(t)
  PROVE  TransactionInv'
<1> USE DEF TransactionInv
<1>1. doing \in Doings /\ LockType /\ doing[t].step = "idle"
  BY DEF TypeInv, LockType, OpenStream, Idle
<1>2. /\ doing' \in Doings /\ Moves(t)
      /\ doing'[t].step = "waiting" /\ doing'[t].call = "stream"
  BY <1>1, Vocabulary DEF OpenStream, Wait, Call, Moves, Doings
<1>3. LockType' /\ LockInv'
  BY <1>1, <1>2, LockWait, Zenon DEF OpenStream, Wait, AtLock
<1>4. NestTask(t)'
  BY <1>2 DEF NestTask, Unwinds, Busy
<1>5. NestInv'
  BY <1>2, <1>4, NestQuiet DEF OpenStream, nesting, fields
<1>6. Same(t, "savepoint") /\ Same(t, "query") /\ ReleaseGoesOn(t) /\ ~Driving(t, "release")'
  BY <1>1, <1>2 DEF Same, Asks, ReleaseGoesOn, Driving
<1> QED
  BY <1>1, <1>2, <1>3, <1>5, <1>6, TaskMoves, Zenon DEF OpenStream, EntrySteps, TypeInv

LEMMA ExitNestedKeeps ==
  ASSUME TransactionInv, NEW t \in Tasks, NEW c \in Contexts, NEW raised \in BOOLEAN,
         ExitNested(t, c, raised)
  PROVE  TransactionInv'
<1> USE DEF TransactionInv
<1>1. doing \in Doings /\ LockType /\ doing[t].step = "idle"
  <2>1. doing[t] = Idle
    BY Zenon DEF ExitNested
  <2>2. Idle.step = "idle"
    BY DEF Idle
  <2> QED
    BY <2>1, <2>2, Zenon DEF TypeInv, LockType
<1>2. /\ doing' \in Doings /\ Moves(t)
      /\ doing'[t].step = "waiting" /\ doing'[t].call = "unwind" /\ doing'[t].on = c
  BY <1>1, Vocabulary DEF ExitNested, Wait, Call, Moves, Doings, Things
<1>3. LockType' /\ LockInv'
  BY <1>1, <1>2, LockWait, Zenon DEF ExitNested, Wait, AtLock
<1>4. connection' /\ nestedOwner' = t /\ Top(nestedStack') = c
  BY DEF ExitNested, CheckAccess, CheckNestedOwner, NestInv, fields, nesting
<1>5. NestTask(t)'
  BY <1>2, <1>4 DEF NestTask, Unwinds, Busy
<1>6. NestInv'
  BY <1>2, <1>5, NestQuiet DEF ExitNested, nesting, fields
<1>7. Same(t, "savepoint") /\ Same(t, "query") /\ ReleaseGoesOn(t) /\ ~Driving(t, "release")'
  BY <1>1, <1>2 DEF Same, Asks, ReleaseGoesOn, Driving
<1> QED
  BY <1>1, <1>2, <1>3, <1>6, <1>7, TaskMoves, Zenon DEF ExitNested, EntrySteps, TypeInv

LEMMA StartDriverKeeps ==
  ASSUME TransactionInv, NEW t \in Tasks, StartDriver(t)
  PROVE  TransactionInv'
<1> USE DEF TransactionInv
<1>1. doing \in Doings /\ LockType /\ doing[t].step = "waiting" /\ Holds(t)
  BY DEF TypeInv, LockType, StartDriver, Granted
<1>2. /\ doing' \in Doings /\ Moves(t)
      /\ doing'[t].step = "driving" /\ doing'[t].call = doing[t].call
      /\ doing'[t].on = doing[t].on
  BY <1>1, Vocabulary DEF StartDriver, Moves, Doings
<1>3. LockType' /\ LockInv'
  <2>1. \A u \in Tasks : /\ doing'[u].step \in AtLock <=> doing[u].step \in AtLock
                         /\ doing'[u].step \in Busy => Holds(u)
    BY <1>1, <1>2 DEF Moves, LockInv, AtLock, Busy
  <2> QED
    BY <1>1, <2>1, LockStays, Zenon DEF StartDriver, LockInv
<1>4. connection' /\ nestedOwner' \in {NoTask, t}
  BY DEF StartDriver, RequireConnection, CheckNestedOwner, fields, nesting
<1>5. NestTask(t)'
  BY <1>2, <1>4, Zenon DEF NestTask, Unwinds, Busy, StartDriver
<1>6. NestInv'
  BY <1>2, <1>5, NestQuiet DEF StartDriver, nesting, fields
<1>7. Same(t, "savepoint") /\ Same(t, "query") /\ ReleaseGoesOn(t) /\ ~Driving(t, "release")'
  BY <1>1, <1>2 DEF Same, Asks, ReleaseGoesOn, Driving, StartDriver
<1> QED
  BY <1>1, <1>2, <1>3, <1>6, <1>7, TaskMoves, Zenon DEF StartDriver, EntrySteps, TypeInv

(* What a task leaves behind that goes back to application code. *)
LEMMA IdleFacts ==
  ASSUME NEW t \in Tasks, doing'[t].step = "idle"
  PROVE  /\ NestTask(t)' /\ Same(t, "savepoint") /\ Same(t, "query")
         /\ ~Driving(t, "release")' /\ doing'[t].step \notin EntrySteps
         /\ doing'[t].step \notin AtLock
BY DEF NestTask, Unwinds, Busy, Same, Asks, Driving, EntrySteps, AtLock

LEMMA RejectedKeeps ==
  ASSUME TransactionInv, NEW t \in Tasks, Rejected(t)
  PROVE  TransactionInv'
<1> USE DEF TransactionInv
<1>1. doing \in Doings /\ LockType /\ doing[t].step = "waiting" /\ Holds(t)
  BY DEF TypeInv, LockType, Rejected, Granted
<1>2. doing' \in Doings /\ Moves(t) /\ doing'[t].step = "idle"
  BY <1>1, DoingIdle, Zenon DEF Rejected, Leave, Moves
<1>3. LockType' /\ LockInv'
  BY <1>1, <1>2, LockLeave, Zenon DEF Rejected, Leave, AtLock
<1>4. NestInv'
  BY <1>2, IdleFacts, NestQuiet, Zenon DEF Rejected, nesting, fields
<1>5. ReleaseGoesOn(t)
  BY <1>1 DEF ReleaseGoesOn, Driving
<1> QED
  BY <1>1, <1>2, <1>3, <1>4, <1>5, IdleFacts, TaskMoves, Zenon DEF Rejected, TypeInv

LEMMA CancelWaitKeeps ==
  ASSUME TransactionInv, NEW t \in Tasks, CancelWait(t)
  PROVE  TransactionInv'
<1> USE DEF TransactionInv
<1>1. doing \in Doings /\ LockType /\ doing[t].step = "waiting"
  BY DEF TypeInv, LockType, CancelWait
<1>2. doing' \in Doings /\ Moves(t) /\ doing'[t].step = "idle"
  BY <1>1, DoingIdle, Zenon DEF CancelWait, Moves
<1>3. LockType' /\ LockInv'
  BY <1>1, <1>2, LockCancel DEF CancelWait
<1>4. NestInv'
  BY <1>2, IdleFacts, NestQuiet DEF CancelWait, nesting, fields
<1>5. ReleaseGoesOn(t)
  BY <1>1 DEF ReleaseGoesOn, Driving
<1> QED
  BY <1>1, <1>2, <1>3, <1>4, <1>5, IdleFacts, TaskMoves, Zenon DEF CancelWait, TypeInv

(* A task that drives the connection or holds a stream goes on with it. *)
LEMMA HolderGoesOn ==
  ASSUME TransactionInv, NEW t \in Tasks, Moves(t), Holds(t),
         doing[t].step \in AtLock, doing'[t].step \in Busy, UNCHANGED <<lock, close>>
  PROVE  LockType' /\ LockInv'
<1>1. \A u \in Tasks : /\ doing'[u].step \in AtLock <=> doing[u].step \in AtLock
                       /\ doing'[u].step \in Busy => Holds(u)
  BY DEF TransactionInv, Moves, LockInv, AtLock, Busy
<1> QED
  BY <1>1, LockStays, Zenon DEF TransactionInv, LockInv, TypeInv, LockType

LEMMA StreamOpenedKeeps ==
  ASSUME TransactionInv, NEW t \in Tasks, StreamOpened(t)
  PROVE  TransactionInv'
<1> USE DEF TransactionInv
<1>1. doing \in Doings /\ doing[t].step = "driving" /\ doing[t].call = "stream"
  BY DEF TypeInv, StreamOpened, Driving
<1>2. Holds(t) /\ connection /\ nestedOwner \in {NoTask, t} /\ doing[t].step \in AtLock
  BY <1>1, HolderFacts DEF Busy
<1>3. /\ doing' \in Doings /\ Moves(t)
      /\ doing'[t].step = "streaming" /\ doing'[t].call = "stream"
  BY <1>1, Vocabulary DEF StreamOpened, Moves, Doings
<1>4. LockType' /\ LockInv'
  BY <1>2, <1>3, HolderGoesOn DEF StreamOpened, Busy
<1>5. NestTask(t)'
  BY <1>2, <1>3 DEF NestTask, Unwinds, Busy, StreamOpened, fields, nesting
<1>6. NestInv'
  BY <1>2, <1>3, <1>5, NestOfHolder DEF StreamOpened, nesting, NestInv
<1>7. Same(t, "savepoint") /\ Same(t, "query") /\ ReleaseGoesOn(t) /\ ~Driving(t, "release")'
  BY <1>1, <1>3 DEF Same, Asks, ReleaseGoesOn, Driving
<1> QED
  BY <1>1, <1>3, <1>4, <1>6, <1>7, TaskMoves, Zenon DEF StreamOpened, EntrySteps

LEMMA UseStreamKeeps ==
  ASSUME TransactionInv, NEW t \in Tasks, UseStream(t)
  PROVE  TransactionInv'
<1> USE DEF TransactionInv
<1>1. doing \in Doings /\ doing[t].step = "streaming" /\ streamOwner = t
  BY DEF TypeInv, UseStream, NestInv, NestTask
<1>2. Holds(t) /\ connection /\ nestedOwner \in {NoTask, t} /\ doing[t].step \in AtLock
  BY <1>1, HolderFacts DEF Busy
<1>3. /\ doing' \in Doings /\ Moves(t)
      /\ doing'[t].step = "driving" /\ doing'[t].call \in {"fetch", "endStream"}
  <2>1. PICK call \in {"fetch", "endStream"} :
          doing' = [doing EXCEPT ![t].step = "driving", ![t].call = call]
    BY Zenon DEF UseStream
  <2>2. call \in Calls
    BY Vocabulary
  <2> QED
    BY <1>1, <2>1, <2>2, Vocabulary, Zenon DEF Moves, Doings
<1>4. LockType' /\ LockInv'
  BY <1>2, <1>3, HolderGoesOn, Zenon DEF UseStream, Busy
<1>5. NestTask(t)'
  BY <1>1, <1>2, <1>3, Zenon DEF NestTask, Unwinds, Busy, UseStream, fields, nesting
<1>6. NestInv'
  BY <1>3, <1>5, NestQuiet, Zenon DEF UseStream, nesting, fields
<1>7. Same(t, "savepoint") /\ Same(t, "query") /\ ReleaseGoesOn(t) /\ ~Driving(t, "release")'
  BY <1>1, <1>3 DEF Same, Asks, ReleaseGoesOn, Driving
<1> QED
  BY <1>1, <1>3, <1>4, <1>6, <1>7, TaskMoves, Zenon DEF UseStream, EntrySteps

LEMMA FetchedKeeps ==
  ASSUME TransactionInv, NEW t \in Tasks, Fetched(t)
  PROVE  TransactionInv'
<1> USE DEF TransactionInv
<1>1. /\ doing \in Doings /\ doing[t].step = "driving" /\ doing[t].call = "fetch"
      /\ streamOwner = t
  BY DEF TypeInv, Fetched, Driving, NestInv, NestTask
<1>2. Holds(t) /\ connection /\ nestedOwner \in {NoTask, t} /\ doing[t].step \in AtLock
  BY <1>1, HolderFacts DEF Busy
<1>3. /\ doing' \in Doings /\ Moves(t)
      /\ doing'[t].step = "streaming" /\ doing'[t].call = "stream"
  BY <1>1, Vocabulary DEF Fetched, Moves, Doings
<1>4. LockType' /\ LockInv'
  BY <1>2, <1>3, HolderGoesOn, Zenon DEF Fetched, Busy
<1>5. NestTask(t)'
  BY <1>1, <1>2, <1>3, Zenon DEF NestTask, Unwinds, Busy, Fetched, fields, nesting
<1>6. NestInv'
  BY <1>3, <1>5, NestQuiet DEF Fetched, nesting, fields
<1>7. Same(t, "savepoint") /\ Same(t, "query") /\ ReleaseGoesOn(t) /\ ~Driving(t, "release")'
  BY <1>1, <1>3 DEF Same, Asks, ReleaseGoesOn, Driving
<1> QED
  BY <1>1, <1>3, <1>4, <1>6, <1>7, TaskMoves, Zenon DEF Fetched, EntrySteps

(* The holder lets the lock go. *)
LEMMA HolderLeaves ==
  ASSUME TransactionInv, NEW t \in Tasks, Holds(t), doing[t].step \in AtLock,
         Leave(t), close' = close
  PROVE  /\ doing' \in Doings /\ Moves(t) /\ doing'[t].step = "idle"
         /\ LockType' /\ LockInv'
<1>1. doing' \in Doings /\ Moves(t) /\ doing'[t].step = "idle"
  <2>1. doing \in Doings /\ doing' = [doing EXCEPT ![t] = Idle]
    BY DEF TransactionInv, TypeInv, Leave
  <2> QED
    BY <2>1, DoingIdle, ZenonT(40) DEF Moves
<1> QED
  BY <1>1, IdleFacts, LockLeave, Zenon DEF TransactionInv, TypeInv, LockType, Leave

LEMMA StreamClosedKeeps ==
  ASSUME TransactionInv, NEW t \in Tasks, StreamClosed(t)
  PROVE  TransactionInv'
<1> USE DEF TransactionInv
<1>1. doing[t].step = "driving" /\ doing[t].call = "endStream"
  BY DEF StreamClosed, Driving
<1>2. Holds(t) /\ connection /\ nestedOwner \in {NoTask, t} /\ doing[t].step \in AtLock
  BY <1>1, HolderFacts DEF Busy
<1>3. /\ doing' \in Doings /\ Moves(t) /\ doing'[t].step = "idle"
      /\ LockType' /\ LockInv'
  BY <1>2, HolderLeaves DEF StreamClosed
<1>4. NestInv'
  BY <1>2, <1>3, IdleFacts, NestOfHolder, Zenon DEF StreamClosed, nesting, NestInv
<1>5. ReleaseGoesOn(t)
  BY <1>1 DEF ReleaseGoesOn, Driving
<1> QED
  BY <1>1, <1>3, <1>4, <1>5, IdleFacts, TaskMoves, Zenon DEF StreamClosed, TypeInv

(***************************************************************************)
(* A statement is issued, a context entered                                *)
(***************************************************************************)
LEMMA QueryKeeps ==
  ASSUME TransactionInv, NEW t \in Tasks, NEW w \in Writes, Query(t, w)
  PROVE  TransactionInv'
<1> DEFINE inside == IF nestedOwner = t THEN Range(nestedStack) ELSE {}
<1>0. /\ TypeInv /\ LockInv /\ EntryInv /\ CloseInv /\ NestInv /\ ContextInv /\ LevelInv
      /\ CommitInv
  BY DEF TransactionInv
<1>1. doing \in Doings /\ LockType /\ doing[t].step = "idle" /\ ~issued[w].sent
  <2>1. doing[t] = Idle /\ ~issued[w].sent
    BY Zenon DEF Query
  <2>2. Idle.step = "idle"
    BY DEF Idle
  <2> QED
    BY <1>0, <2>1, <2>2, Zenon DEF TypeInv, LockType
<1>2. /\ doing' \in Doings /\ Moves(t)
      /\ doing'[t].step = "waiting" /\ doing'[t].call = "query" /\ doing'[t].on = w
  BY <1>1, Vocabulary DEF Query, Wait, Call, Moves, Doings, Things
<1>3. LockType' /\ LockInv'
  BY <1>0, <1>1, <1>2, LockWait, Zenon DEF Query, Wait, AtLock
<1>4. UNCHANGED <<fields, nesting, streamOwner, close, lease, session, completed, undone>>
  BY Zenon DEF Query
<1>5. /\ issued' \in [Writes -> [sent : BOOLEAN, inside : SUBSET Contexts]]
      /\ issued'[w].sent /\ issued'[w].inside = inside
      /\ \A v \in Writes \ {w} : issued'[v] = issued[v]
  <2>1. issued' = [issued EXCEPT ![w] = [sent |-> TRUE, inside |-> inside]]
    BY Zenon DEF Query, Range
  <2>2. inside \in SUBSET Contexts
    BY <1>0, QueueElements DEF TypeInv
  <2> HIDE DEF inside
  <2> QED
    BY <1>0, <2>1, <2>2 DEF TypeInv
<1> HIDE DEF inside
<1>6. w \notin completed /\ completed \subseteq Writes
  BY <1>0, <1>1, Zenon DEF ContextInv, TypeInv
<1>7. TypeInv'
  BY <1>0, <1>2, <1>3, <1>4, <1>5, ZenonT(40) DEF TypeInv, LockType, fields, nesting, session
<1>8. EntryInv'
  BY <1>0, <1>2, <1>4, EntryQuiet, Zenon DEF EntrySteps, fields, nesting, session
<1>9. CloseInv'
  BY <1>0, <1>1, <1>2, <1>4, CloseQuiet, Zenon DEF fields, nesting, session
<1>10. NestInv'
  <2>1. NestTask(t)'
    BY <1>2 DEF NestTask, Unwinds, Busy
  <2> QED
    BY <1>0, <1>2, <1>4, <2>1, NestQuiet, Zenon DEF nesting, fields
<1>11. ContextInv'
  <2>1. \A u \in Tasks \ {t} : /\ \A c : Asks(u, c)' <=> Asks(u, c)
                               /\ doing'[u].on = doing[u].on
                               /\ Driving(u, "release")' <=> Driving(u, "release")
    BY <1>2 DEF Moves, Asks, Driving
  <2>2. ~Asks(t, "savepoint")' /\ ~Driving(t, "release")
    BY <1>1, <1>2 DEF Asks, Driving
  <2>3. inside \subseteq Range(nestedStack) /\ Range(nestedStack) \subseteq used
    BY <1>0, Zenon DEF inside, ContextInv
  <2>4. UNCHANGED <<nestedStack, nestedOwner, used, undone, completed>>
    BY <1>4 DEF nesting
  <2>5. \A v \in Writes : issued'[v].inside \subseteq used
    BY <1>0, <1>5, <2>3, Zenon DEF ContextInv
  <2>6. \A v \in completed : issued'[v].sent
    BY <1>0, <1>5, <1>6, Zenon DEF ContextInv
  <2>7. \A c \in undone : c \in Range(nestedStack) =>
          \E u \in Tasks : Driving(u, "release")' /\ doing'[u].on = c
    <3>1. \A c \in undone : c \in Range(nestedStack) =>
            \E u \in Tasks : Driving(u, "release") /\ doing[u].on = c
      BY <1>0, Zenon DEF ContextInv
    <3> QED
      BY <2>1, <2>2, <3>1, Zenon
  <2>8. ASSUME NEW u \in Tasks, Asks(u, "savepoint")'
        PROVE  /\ doing'[u].on \in used \ (Range(nestedStack) \cup undone)
               /\ \A v \in Writes : doing'[u].on \notin issued'[v].inside
               /\ \A v \in Tasks : Asks(v, "savepoint")' /\ doing'[v].on = doing'[u].on => v = u
    <3>1. /\ u # t /\ Asks(u, "savepoint") /\ doing'[u].on = doing[u].on
          /\ \A v \in Tasks : Asks(v, "savepoint")' =>
               Asks(v, "savepoint") /\ doing'[v].on = doing[v].on
      BY <2>1, <2>2, <2>8, Zenon
    <3>2. /\ doing[u].on \in used \ (Range(nestedStack) \cup undone)
          /\ \A v \in Writes : doing[u].on \notin issued[v].inside
          /\ \A v \in Tasks : Asks(v, "savepoint") /\ doing[v].on = doing[u].on => v = u
      BY <1>0, <3>1, Zenon DEF ContextInv
    <3> QED
      BY <1>5, <2>3, <3>1, <3>2, Zenon
  <2>9. ASSUME NEW u \in Tasks, Asks(u, "query")'
        PROVE  /\ doing'[u].on \in Writes /\ issued'[doing'[u].on].sent
               /\ issued'[doing'[u].on].inside =
                    IF nestedOwner = u THEN Range(nestedStack) ELSE {}
    <3>1. CASE u = t
      BY <1>2, <1>5, <3>1 DEF inside
    <3>2. CASE u # t
      <4>1. /\ doing[u].on \in Writes /\ issued[doing[u].on].sent
            /\ issued[doing[u].on].inside =
                 IF nestedOwner = u THEN Range(nestedStack) ELSE {}
        BY <1>0, <2>1, <2>9, <3>2, Zenon DEF ContextInv
      <4>2. doing[u].on # w
        BY <1>1, <4>1
      <4> QED
        BY <1>5, <2>1, <3>2, <4>1, <4>2, Zenon
    <3> QED
      BY <3>1, <3>2, Zenon
  <2> QED
    BY <1>0, <2>4, <2>5, <2>6, <2>7, <2>8, <2>9, Zenon DEF ContextInv
<1>12. LevelInv'
  <2>1. \A u \in Tasks : Driving(u, "release")' => Driving(u, "release")
    BY <1>2 DEF Moves, Driving
  <2>2. UNCHANGED <<nestedStack, undone, completed, levels, failed, reusable, connection, close>>
    BY <1>4 DEF fields, nesting, session
  <2>3. \A v \in Writes : issued[v].sent => issued'[v] = issued[v]
    BY <1>1, <1>5
  <2>4. \A i \in 1..Len(levels) : levels[i] \subseteq Writes
    <3>1. levels \in Seq(SUBSET Writes)
      BY <1>0, Zenon DEF TypeInv
    <3> QED
      BY ONLY <3>1
  <2>5. \A v \in completed : issued'[v] = issued[v]
    BY <1>5, <1>6
  <2> QED
    BY <1>0, <2>1, <2>2, <2>3, <2>4, <2>5, ZenonT(40) DEF LevelInv
<1>13. CommitInv'
  <2>1. \A v \in completed : issued'[v] = issued[v]
    BY <1>5, <1>6
  <2> QED
    BY <1>0, <1>4, <2>1 DEF CommitInv, fields, session
<1> QED
  BY <1>3, <1>7, <1>8, <1>9, <1>10, <1>11, <1>12, <1>13 DEF TransactionInv

LEMMA EnterNestedKeeps ==
  ASSUME TransactionInv, NEW t \in Tasks, NEW c \in Contexts, EnterNested(t, c)
  PROVE  TransactionInv'
<1>0. /\ TypeInv /\ LockInv /\ EntryInv /\ CloseInv /\ NestInv /\ ContextInv /\ LevelInv
      /\ CommitInv
  BY DEF TransactionInv
<1>1. /\ c \notin used /\ used' = used \cup {c}
      /\ UNCHANGED <<fields, nestedStack, failed, nestedOwner, streamOwner, close, lease,
                     session, history>>
  BY DEF EnterNested
<1>2. /\ doing' \in Doings /\ Moves(t) /\ LockType' /\ LockInv' /\ NestTask(t)'
      /\ doing[t].step # "exiting" /\ doing'[t].step \notin EntrySteps
      /\ Same(t, "query") /\ ReleaseGoesOn(t)
      /\ Driving(t, "release")' => Driving(t, "release")
      /\ Same(t, "savepoint") \/ (Asks(t, "savepoint")' /\ doing'[t].on = c)
  <2>1. doing \in Doings /\ LockType /\ doing[t].step \in {"idle", "streaming"}
    BY <1>0, Zenon DEF TypeInv, LockType, EnterNested
  <2>2. CASE CheckAccess(t)
    <3>1. doing[t].step = "idle"
      BY <1>0, <2>1, <2>2, TasksAssumption, Zenon DEF CheckAccess, NestInv, NestTask
    <3>2. /\ doing' \in Doings /\ Moves(t)
          /\ doing'[t].step = "waiting" /\ doing'[t].call = "savepoint" /\ doing'[t].on = c
      <4>1. c \in Things /\ doing' = [doing EXCEPT ![t] = Call("waiting", "savepoint", c, FALSE)]
        BY <2>2, Zenon DEF EnterNested, Wait, Things
      <4> QED
        BY <2>1, <4>1, Vocabulary DEF Call, Moves, Doings
    <3>3. LockType' /\ LockInv'
      BY <1>0, <2>1, <2>2, <3>1, <3>2, LockWait, Zenon DEF EnterNested, Wait, AtLock
    <3>4. NestTask(t)'
      BY <3>2 DEF NestTask, Unwinds, Busy
    <3>5. /\ Same(t, "query") /\ ReleaseGoesOn(t) /\ ~Driving(t, "release")'
          /\ Asks(t, "savepoint")'
      BY <3>1, <3>2 DEF Same, Asks, ReleaseGoesOn, Driving
    <3> QED
      BY <3>1, <3>2, <3>3, <3>4, <3>5, Zenon DEF EntrySteps
  <2>3. CASE ~CheckAccess(t)
    <3>1. UNCHANGED <<doing, lock>>
      BY <2>3, Zenon DEF EnterNested
    <3>2. LockType' /\ LockInv'
      BY <1>0, <1>1, <2>1, <3>1, Zenon DEF LockType, LockInv, Holds
    <3>3. NestTask(t)'
      BY <1>0, <1>1, <3>1, Zenon DEF NestInv, NestTask, Unwinds, fields
    <3> QED
      BY <2>1, <3>1, <3>2, <3>3, Zenon
      DEF Moves, Same, Asks, ReleaseGoesOn, Driving, EntrySteps
  <2> QED
    BY <2>2, <2>3, Zenon
<1>3. TypeInv'
  BY <1>0, <1>1, <1>2, ZenonT(40) DEF TypeInv, LockType, fields, session, history
<1>4. EntryInv'
  BY <1>0, <1>1, <1>2, EntryQuiet, Zenon DEF fields, session, history
<1>5. CloseInv'
  BY <1>0, <1>1, <1>2, CloseQuiet, Zenon DEF fields, session
<1>6. NestInv'
  BY <1>0, <1>1, <1>2, NestQuiet, Zenon DEF fields
<1>7. ContextInv'
  <2>1. \A u \in Tasks : Same(u, "query") /\ ReleaseGoesOn(u)
    BY <1>2, Zenon DEF Moves, Same, Asks, ReleaseGoesOn, Driving
  <2>2. \A u \in Tasks \ {t} : Same(u, "savepoint")
    BY <1>2, Zenon DEF Moves, Same, Asks
  <2>3. UNCHANGED <<nestedStack, nestedOwner, undone, completed, issued>>
    BY <1>1 DEF history
  <2>4. \A x \in undone : x \in Range(nestedStack) =>
          \E u \in Tasks : Driving(u, "release")' /\ doing'[u].on = x
    BY <1>0, <2>1, Zenon DEF ContextInv, ReleaseGoesOn
  <2>5. ASSUME NEW u \in Tasks, Asks(u, "query")'
        PROVE  /\ doing'[u].on \in Writes /\ issued[doing'[u].on].sent
               /\ issued[doing'[u].on].inside =
                    IF nestedOwner = u THEN Range(nestedStack) ELSE {}
    BY <1>0, <2>1, <2>5, Zenon DEF ContextInv, Same
  <2>6. ASSUME NEW u \in Tasks, Asks(u, "savepoint")'
        PROVE  \/ u = t /\ doing'[u].on = c
               \/ Asks(u, "savepoint") /\ doing'[u].on = doing[u].on
    BY <1>2, <2>2, <2>6, Zenon DEF Same
  <2>7. \A u \in Tasks : Asks(u, "savepoint") => doing[u].on \in used
    BY <1>0 DEF ContextInv
  <2>8. c \notin Range(nestedStack) /\ c \notin undone
        /\ \A w \in Writes : c \notin issued[w].inside
    BY <1>0, <1>1, Zenon DEF ContextInv
  <2>9. ASSUME NEW u \in Tasks, Asks(u, "savepoint")'
        PROVE  /\ doing'[u].on \in used' \ (Range(nestedStack) \cup undone)
               /\ \A w \in Writes : doing'[u].on \notin issued[w].inside
               /\ \A v \in Tasks : Asks(v, "savepoint")' /\ doing'[v].on = doing'[u].on => v = u
    <3>1. CASE u = t /\ doing'[u].on = c
      BY <1>1, <2>6, <2>7, <2>8, <3>1
    <3>2. CASE Asks(u, "savepoint") /\ doing'[u].on = doing[u].on
      <4>1. /\ doing[u].on \in used \ (Range(nestedStack) \cup undone)
            /\ \A w \in Writes : doing[u].on \notin issued[w].inside
            /\ \A v \in Tasks : Asks(v, "savepoint") /\ doing[v].on = doing[u].on => v = u
        BY <1>0, <3>2, Zenon DEF ContextInv
      <4> QED
        BY <1>1, <2>6, <2>7, <3>2, <4>1
    <3> QED
      BY <2>6, <2>9, <3>1, <3>2, Zenon
  <2>10. /\ IsInjective(nestedStack)
         /\ Range(nestedStack) \subseteq used' /\ undone \subseteq used'
         /\ \A w \in Writes : issued[w].inside \subseteq used'
         /\ \A w \in completed : issued[w].sent
    BY <1>0, <1>1, Zenon DEF ContextInv
  <2> QED
    BY <2>3, <2>4, <2>5, <2>9, <2>10, Zenon DEF ContextInv
<1>8. LevelInv'
  BY <1>0, <1>1, <1>2, LevelQuiet, Zenon DEF fields, session, history
<1>9. CommitInv'
  BY <1>0, <1>1, CommitQuiet DEF fields, session, history
<1> QED
  BY <1>2, <1>3, <1>4, <1>5, <1>6, <1>7, <1>8, <1>9, Zenon DEF TransactionInv

(***************************************************************************)
(* Entry                                                                   *)
(***************************************************************************)
(* A task enters or fails to: no other is under way, nothing is open. *)
LEMMA EntrantFacts ==
  ASSUME TransactionInv, NEW t \in Tasks, doing[t].step \in EntrySteps
  PROVE  /\ entering /\ ~connection /\ ~closed /\ doing[t].step # "exiting"
         /\ doing[t].step \notin AtLock
         /\ \A u \in Tasks \ {t} : doing[u].step \notin EntrySteps
         /\ levels = <<>> /\ nestedStack = <<>> /\ completed = {} /\ undone = {}
         /\ ReleaseGoesOn(t)
BY DEF TransactionInv, EntryInv, EntrySteps, AtLock, ReleaseGoesOn, Driving

(* Outside the lock a task changes neither the queue nor the contexts. *)
LEMMA OutsideLock ==
  ASSUME TransactionInv, NEW t \in Tasks, Moves(t), doing[t].step \notin AtLock,
         doing'[t].step \notin AtLock, UNCHANGED <<lock, close, nesting, streamOwner, history>>,
         connection => connection'
  PROVE  LockType' /\ LockInv' /\ NestInv' /\ ContextInv'
<1>1. \A u \in Tasks : /\ doing'[u].step \in AtLock <=> doing[u].step \in AtLock
                       /\ doing'[u].step \in Busy => Holds(u)
  BY DEF TransactionInv, Moves, LockInv, AtLock, Busy
<1>2. LockType' /\ LockInv'
  BY <1>1, LockStays, Zenon DEF TransactionInv, LockInv, TypeInv, LockType
<1>3. NestTask(t)' /\ Same(t, "savepoint") /\ Same(t, "query") /\ ReleaseGoesOn(t)
  BY DEF NestTask, Unwinds, Busy, AtLock, Same, Asks, ReleaseGoesOn, Driving
<1>4. NestInv'
  BY <1>3, NestQuiet, Zenon DEF TransactionInv, nesting
<1>5. ContextInv'
  BY <1>3, ContextQuiet, Zenon DEF TransactionInv, nesting, history
<1> QED
  BY <1>2, <1>4, <1>5

LEMMA EnterKeeps ==
  ASSUME TransactionInv, NEW t \in Tasks, Enter(t)
  PROVE  TransactionInv'
<1>0. TypeInv /\ EntryInv /\ CloseInv /\ LevelInv /\ CommitInv
  BY DEF TransactionInv
<1>1. doing \in Doings /\ doing[t].step = "idle" /\ ~entering /\ ~connection /\ ~closed
  <2>1. doing[t] = Idle /\ ~entering /\ ~connection /\ ~closed
    BY Zenon DEF Enter
  <2>2. Idle.step = "idle"
    BY DEF Idle
  <2> QED
    BY <1>0, <2>1, <2>2, Zenon DEF TypeInv
<1>2. doing' \in Doings /\ Moves(t) /\ doing'[t].step = "acquiring"
  BY <1>1, Vocabulary DEF Enter, Call, Moves, Doings
<1>3. /\ entering' = TRUE
      /\ UNCHANGED <<connection, closed, reusable, outcome, nesting, streamOwner, lock,
                     close, lease, session, history>>
  BY DEF Enter
<1>4. LockType' /\ LockInv' /\ NestInv' /\ ContextInv'
  BY <1>1, <1>2, <1>3, OutsideLock DEF AtLock
<1>5. TypeInv'
  BY <1>0, <1>2, <1>3, <1>4, ZenonT(40) DEF TypeInv, LockType, nesting, session, history
<1>6. EntryInv'
  <2>1. \A u \in Tasks : doing[u].step \notin EntrySteps
    BY <1>0, <1>1 DEF EntryInv, EntrySteps
  <2>2. \A u \in Tasks : doing'[u].step \in EntrySteps => u = t
    BY <1>2, <2>1 DEF Moves
  <2> QED
    BY <1>0, <1>1, <1>3, <2>2, Zenon DEF EntryInv, EntrySteps, nesting, session, history
<1>7. CloseInv'
  BY <1>0, <1>1, <1>2, <1>3, CloseQuiet, Zenon DEF session
<1>8. LevelInv'
  <2>1. ~Driving(t, "release")'
    BY <1>2 DEF Driving
  <2> QED
    BY <1>0, <1>2, <1>3, <2>1, LevelQuiet, Zenon DEF nesting, session, history
<1>9. CommitInv'
  BY <1>0, <1>1, <1>3, CommitQuiet
<1> QED
  BY <1>4, <1>5, <1>6, <1>7, <1>8, <1>9, Zenon DEF TransactionInv

LEMMA AcquiredKeeps ==
  ASSUME TransactionInv, NEW t \in Tasks, Acquired(t)
  PROVE  TransactionInv'
<1>0. TypeInv /\ EntryInv /\ CloseInv /\ LevelInv /\ CommitInv
  BY DEF TransactionInv
<1>1. doing \in Doings /\ doing[t].step = "acquiring" /\ doing[t].step \in EntrySteps
  BY <1>0 DEF TypeInv, Acquired, EntrySteps
<1>2. doing' \in Doings /\ Moves(t) /\ doing'[t].step = "beginning"
  BY <1>1, Vocabulary DEF Acquired, Moves, Doings
<1>3. /\ lease' = "held"
      /\ UNCHANGED <<fields, nesting, streamOwner, lock, close, session, history>>
  BY DEF Acquired
<1>4. LockType' /\ LockInv' /\ NestInv' /\ ContextInv'
  BY <1>1, <1>2, <1>3, OutsideLock, Zenon DEF AtLock, fields
<1>5. TypeInv'
  BY <1>0, <1>2, <1>3, <1>4, ZenonT(40)
  DEF TypeInv, LockType, fields, nesting, session, history
<1>6. EntryInv'
  <2>1. \A u \in Tasks : doing'[u].step \in EntrySteps => u = t
    BY <1>1, <1>2, EntrantFacts, Zenon DEF Moves
  <2> QED
    BY <1>0, <1>1, <1>3, <2>1, EntrantFacts, Zenon
    DEF EntryInv, EntrySteps, fields, nesting, session, history
<1>7. CloseInv'
  BY <1>0, <1>1, <1>2, <1>3, CloseQuiet, Zenon DEF fields, nesting, session
<1>8. LevelInv'
  <2>1. ~Driving(t, "release")'
    BY <1>2, Zenon DEF Driving
  <2> QED
    BY <1>0, <1>2, <1>3, <2>1, LevelQuiet, Zenon DEF fields, nesting, session, history
<1>9. CommitInv'
  BY <1>0, <1>3, CommitQuiet, Zenon DEF fields, session, history
<1> QED
  BY <1>4, <1>5, <1>6, <1>7, <1>8, <1>9, Zenon DEF TransactionInv

LEMMA AcquireFailsKeeps ==
  ASSUME TransactionInv, NEW t \in Tasks, AcquireFails(t)
  PROVE  TransactionInv'
<1>0. TypeInv /\ EntryInv /\ CloseInv /\ LevelInv /\ CommitInv
  BY DEF TransactionInv
<1>1. doing \in Doings /\ doing[t].step = "acquiring" /\ doing[t].step \in EntrySteps
  BY <1>0 DEF TypeInv, AcquireFails, EntrySteps
<1>2. doing' \in Doings /\ Moves(t) /\ doing'[t].step = "idle"
  BY <1>1, DoingIdle, Zenon DEF AcquireFails, Moves
<1>3. /\ entering' = FALSE
      /\ UNCHANGED <<connection, closed, reusable, outcome, nesting, streamOwner, lock,
                     close, lease, session, history>>
  BY DEF AcquireFails
<1>4. LockType' /\ LockInv' /\ NestInv' /\ ContextInv'
  BY <1>1, <1>2, <1>3, OutsideLock, Zenon DEF AtLock
<1>5. TypeInv'
  BY <1>0, <1>2, <1>3, <1>4, Zenon DEF TypeInv, LockType, nesting, session, history
<1>6. EntryInv'
  <2>1. \A u \in Tasks : doing'[u].step \notin EntrySteps
    BY <1>1, <1>2, EntrantFacts, IdleFacts DEF Moves
  <2> QED
    BY <1>0, <1>3, <2>1, Zenon DEF EntryInv, EntrySteps, nesting, session, history
<1>7. CloseInv'
  BY <1>0, <1>1, <1>2, <1>3, CloseQuiet, Zenon DEF nesting, session
<1>8. LevelInv'
  BY <1>0, <1>2, <1>3, IdleFacts, LevelQuiet, Zenon DEF nesting, session, history
<1>9. CommitInv'
  BY <1>0, <1>3, CommitQuiet DEF session, history
<1> QED
  BY <1>4, <1>5, <1>6, <1>7, <1>8, <1>9, Zenon DEF TransactionInv

LEMMA BegunKeeps ==
  ASSUME TransactionInv, NEW t \in Tasks, Begun(t)
  PROVE  TransactionInv'
<1>0. TypeInv /\ EntryInv /\ CloseInv /\ NestInv /\ CommitInv
  BY DEF TransactionInv
<1>1. doing \in Doings /\ doing[t].step = "beginning" /\ doing[t].step \in EntrySteps
  BY <1>0 DEF TypeInv, Begun, EntrySteps
<1>2. doing' \in Doings /\ Moves(t) /\ doing'[t].step = "idle"
  BY <1>1, DoingIdle, Zenon DEF Begun, Moves
<1>3. /\ levels' = <<{}>> /\ policy' = override /\ connection' = TRUE /\ entering' = FALSE
      /\ UNCHANGED <<closed, reusable, outcome, nesting, streamOwner, lock, close, lease,
                     durable, decided, history>>
  BY DEF Begun
<1>4. /\ ~connection /\ ~closed /\ nestedStack = <<>> /\ completed = {}
      /\ \A u \in Tasks \ {t} : doing[u].step \notin EntrySteps
  BY <1>1, EntrantFacts
<1>5. LockType' /\ LockInv' /\ NestInv' /\ ContextInv'
  BY <1>1, <1>2, <1>3, OutsideLock, Zenon DEF AtLock
<1>6. TypeInv'
  <2>1. levels' \in Seq(SUBSET Writes)
    BY <1>3
  <2> QED
    BY <1>0, <1>2, <1>3, <1>5, <2>1, Zenon DEF TypeInv, LockType, nesting, history
<1>7. EntryInv'
  <2>1. \A u \in Tasks : doing'[u].step \notin EntrySteps
    BY <1>2, <1>4, IdleFacts DEF Moves
  <2> QED
    BY <1>0, <1>3, <1>4, <2>1, Zenon DEF EntryInv, EntrySteps
<1>8. CloseInv'
  BY <1>0, <1>1, <1>2, <1>3, <1>4, CloseQuiet, Zenon
<1>9. LevelInv'
  <2>1. \A u \in Tasks : ~Driving(u, "release")'
    <3>1. \A u \in Tasks : doing[u].step # "driving"
      BY <1>0, <1>4 DEF NestInv, NestTask, Busy
    <3> QED
      BY <1>2, <3>1 DEF Driving, Moves
  <2>2. nestedStack' = <<>> /\ completed' = {} /\ Len(nestedStack') = 0
    BY <1>3, <1>4 DEF nesting, history
  <2>3. Len(levels') = 1 /\ levels'[1] = {}
    BY <1>3
  <2>4. Len(levels') = Len(nestedStack') + 1
    BY ONLY <2>2, <2>3
  <2>5. \A i \in 1..Len(levels') : i = 1
    BY ONLY <2>3
  <2>6. \A i \in 1..Len(levels') : levels'[i] = {}
    BY <2>3, <2>5, Zenon
  <2> QED
    BY <2>1, <2>2, <2>4, <2>6, Zenon DEF LevelInv
<1>10. CommitInv'
  BY <1>0, <1>3, <1>4, CommitQuiet
<1> QED
  BY <1>5, <1>6, <1>7, <1>8, <1>9, <1>10, Zenon DEF TransactionInv

LEMMA BeginFailsKeeps ==
  ASSUME TransactionInv, NEW t \in Tasks, BeginFails(t)
  PROVE  TransactionInv'
<1>0. TypeInv /\ EntryInv /\ CloseInv /\ CommitInv
  BY DEF TransactionInv
<1>1. doing \in Doings /\ doing[t].step = "beginning" /\ doing[t].step \in EntrySteps
  BY <1>0 DEF TypeInv, BeginFails, EntrySteps
<1>2. doing' \in Doings /\ Moves(t) /\ doing'[t].step = "idle"
  BY <1>1, DoingIdle, Zenon DEF BeginFails, Moves
<1>3. /\ lease' = "discarded" /\ reusable' = FALSE /\ closed' = TRUE /\ entering' = FALSE
      /\ UNCHANGED <<connection, outcome, nesting, streamOwner, lock, close, session, history>>
  BY DEF BeginFails
<1>4. /\ ~connection /\ ~closed
      /\ \A u \in Tasks \ {t} : doing[u].step \notin EntrySteps
  BY <1>1, EntrantFacts
<1>5. LockType' /\ LockInv' /\ NestInv' /\ ContextInv'
  BY <1>1, <1>2, <1>3, OutsideLock DEF AtLock
<1>6. TypeInv'
  BY <1>0, <1>2, <1>3, <1>5, Zenon DEF TypeInv, LockType, nesting, session, history
<1>7. EntryInv'
  <2>1. \A u \in Tasks : doing'[u].step \notin EntrySteps
    BY <1>2, <1>4, IdleFacts DEF Moves
  <2> QED
    BY <1>3, <1>4, <2>1, Zenon DEF EntryInv, EntrySteps
<1>8. CloseInv'
  BY <1>0, <1>1, <1>2, <1>3, <1>4, CloseQuiet, Zenon DEF session
<1>9. LevelInv'
  BY <1>3, LevelUnsafe
<1>10. CommitInv'
  BY <1>0, <1>3, <1>4, CommitQuiet, Zenon
<1> QED
  BY <1>5, <1>6, <1>7, <1>8, <1>9, <1>10, Zenon DEF TransactionInv

(***************************************************************************)
(* The close task                                                          *)
(***************************************************************************)
LEMMA ExitKeeps ==
  ASSUME TransactionInv, NEW t \in Tasks, NEW raised \in BOOLEAN, Exit(t, raised)
  PROVE  TransactionInv'
<1>0. /\ TypeInv /\ LockInv /\ EntryInv /\ CloseInv /\ NestInv /\ ContextInv /\ LevelInv
      /\ CommitInv
  BY DEF TransactionInv
<1>1. doing[t].step = "idle" /\ doing \in Doings /\ LockType
  <2>1. doing[t] = Idle
    BY Zenon DEF Exit
  <2>2. Idle.step = "idle"
    BY DEF Idle
  <2> QED
    BY <1>0, <2>1, <2>2, Zenon DEF TypeInv, LockType
<1>2. /\ close.state = "none" /\ close' = [state |-> "waiting", by |-> t, raised |-> raised]
      /\ lock' = Append(lock, Closer)
      /\ UNCHANGED <<fields, nesting, streamOwner, lease, session, history>>
  BY DEF Exit
<1>3. /\ doing' \in Doings /\ Moves(t) /\ doing'[t].step = "exiting"
  BY <1>1, Vocabulary DEF Exit, Call, Moves, Doings
<1>4. close'.state = "waiting" /\ close'.by = t
  BY <1>2
<1>5. LockType' /\ LockInv'
  BY <1>0, <1>1, <1>2, <1>3, <1>4, LockExit, Zenon
<1>6. TypeInv'
  <2>1. close' \in [state : Closing \cup {"none", "done"}, by : Tasks \cup {NoTask},
                    raised : BOOLEAN]
    BY <1>2 DEF Closing
  <2> QED
    BY <1>0, <1>2, <1>3, <1>5, <2>1, Zenon DEF TypeInv, LockType, fields, nesting, session, history
<1>7. EntryInv'
  BY <1>0, <1>2, <1>3, EntryQuiet, Zenon DEF fields, nesting, session, history, EntrySteps
<1>8. CloseInv'
  <2>1. close'.state \notin Control /\ close'.state \notin {"restoring", "committing", "done"}
    BY <1>4 DEF Control
  <2>2. outcome' = outcome /\ decided' = decided /\ closed' = closed
    BY <1>2 DEF fields, session
  <2>3. outcome = "not_attempted" /\ ~decided
    BY <1>0, <1>2 DEF CloseInv
  <2> QED
    BY <1>3, <1>4, <2>1, <2>2, <2>3, Zenon DEF CloseInv, OutcomeIsEvidence
<1>9. NestInv'
  <2>1. NestTask(t)'
    BY <1>3 DEF NestTask, Unwinds, Busy
  <2> QED
    BY <1>0, <1>2, <1>3, <2>1, NestQuiet, Zenon DEF fields, nesting
<1>10. /\ Same(t, "savepoint") /\ Same(t, "query") /\ ReleaseGoesOn(t)
       /\ ~Driving(t, "release")'
  BY <1>1, <1>3 DEF Same, Asks, ReleaseGoesOn, Driving
<1>11. ContextInv'
  BY <1>0, <1>2, <1>3, <1>10, ContextQuiet, Zenon DEF nesting, history
<1>12. LevelInv'
  BY <1>0, <1>2, <1>3, <1>4, <1>10, LevelQuiet, Zenon DEF fields, nesting, session, history
<1>13. CommitInv'
  BY <1>0, <1>2, CommitQuiet DEF fields, session, history
<1> QED
  BY <1>5, <1>6, <1>7, <1>8, <1>9, <1>11, <1>12, <1>13, Zenon DEF TransactionInv

CloseType ==
  close \in [state : Closing \cup {"none", "done"}, by : Tasks \cup {NoTask},
             raised : BOOLEAN]

(* The close task has the lock: no task drives, and its caller waits. *)
LEMMA CloserFacts ==
  ASSUME TransactionInv, close.state \in Closing, Holds(Closer)
  PROVE  /\ close.by \in Tasks /\ doing[close.by].step = "exiting"
         /\ ReleaseGoesOn(close.by)
         /\ \A u \in Tasks : doing[u].step \notin Busy
<1>1. close.by \in Tasks /\ doing[close.by].step = "exiting"
  BY DEF TransactionInv, CloseInv
<1>2. \A u \in Tasks : doing[u].step \notin Busy
  BY TasksAssumption, Zenon DEF TransactionInv, LockInv, Holds
<1> QED
  BY <1>1, <1>2, Zenon DEF ReleaseGoesOn, Driving

LEMMA ControlFacts ==
  ASSUME TransactionInv, close.state \in Control
  PROVE  /\ Holds(Closer) /\ close.state \in Closing
         /\ closed /\ ~connection /\ ~entering /\ reusable /\ nestedStack = <<>>
BY Zenon DEF TransactionInv, LockInv, CloseInv, EntryInv, Closing

LEMMA CloseEndsFacts ==
  ASSUME TransactionInv, close.state \in Closing, Holds(Closer), CloseEnds
  PROVE  /\ doing' \in Doings /\ Moves(close.by) /\ doing'[close.by].step = "idle"
         /\ CloseType' /\ close'.state = "done" /\ LockType' /\ LockInv'
<1>1. close.by \in Tasks /\ doing[close.by].step = "exiting"
  BY CloserFacts, Zenon
<1>2. doing \in Doings /\ LockType /\ LockInv /\ CloseType
  BY DEF TransactionInv, TypeInv, LockType, CloseType
<1>3. doing' \in Doings /\ Moves(close.by) /\ doing'[close.by].step = "idle"
  BY <1>1, <1>2, DoingIdle, Zenon DEF CloseEnds, Moves
<1>4. CloseType' /\ close'.state = "done"
  BY <1>2 DEF CloseType, CloseEnds
<1>5. LockType' /\ LockInv'
  BY <1>1, <1>2, <1>3, <1>4, LockCloseEnds, Zenon DEF CloseEnds
<1> QED
  BY <1>3, <1>4, <1>5, Zenon

LEMMA CloseRefusedKeeps ==
  ASSUME TransactionInv, CloseRefused
  PROVE  TransactionInv'
<1> DEFINE t == close.by
<1>0. /\ TypeInv /\ LockInv /\ EntryInv /\ CloseInv /\ NestInv /\ ContextInv /\ LevelInv
      /\ CommitInv
  BY DEF TransactionInv
<1>1. close.state = "waiting" /\ close.state \in Closing /\ Holds(Closer)
  BY DEF CloseRefused, CloseGranted, Closing
<1>2. t \in Tasks /\ ReleaseGoesOn(t)
  BY <1>1, CloserFacts, Zenon
<1>3. UNCHANGED <<fields, nesting, streamOwner, lease, session, history>>
  BY DEF CloseRefused
<1>4. /\ doing' \in Doings /\ Moves(t) /\ doing'[t].step = "idle"
      /\ CloseType' /\ close'.state = "done" /\ LockType' /\ LockInv'
  BY <1>1, CloseEndsFacts, Zenon DEF CloseRefused
<1> HIDE DEF t
<1>5. TypeInv'
  BY <1>0, <1>3, <1>4 DEF TypeInv, LockType, CloseType, fields, nesting, session, history
<1>6. EntryInv'
  BY <1>0, <1>2, <1>3, <1>4, IdleFacts, EntryQuiet, Zenon DEF fields, nesting, session, history
<1>7. CloseInv'
  <2>1. "done" \notin Closing /\ "done" \notin Control
    BY DEF Closing, Control
  <2> QED
    BY <1>0, <1>3, <1>4, <2>1, Zenon DEF CloseInv, OutcomeIsEvidence, fields, session
<1>8. NestInv'
  BY <1>0, <1>2, <1>3, <1>4, IdleFacts, NestQuiet, Zenon DEF fields, nesting
<1>9. ContextInv'
  BY <1>0, <1>2, <1>3, <1>4, IdleFacts, ContextQuiet, Zenon DEF nesting, history
<1>10. LevelInv'
  BY <1>0, <1>2, <1>3, <1>4, IdleFacts, LevelQuiet, Zenon DEF fields, nesting, session, history
<1>11. CommitInv'
  BY <1>0, <1>3, CommitQuiet DEF fields, session, history
<1> QED
  BY <1>4, <1>5, <1>6, <1>7, <1>8, <1>9, <1>10, <1>11, Zenon DEF TransactionInv

(* No task relies on the contexts when their owner's exit takes over. *)
LEMMA NobodyNests ==
  ASSUME TransactionInv, TakeConnection, NEW u \in Tasks
  PROVE  /\ ~Unwinds(u) /\ doing[u].step \notin Busy /\ ~Driving(u, "release")
         /\ Asks(u, "query") => nestedOwner # u
<1>1. /\ close.state \in Closing /\ Holds(Closer) /\ nestedOwner \in {NoTask, close.by}
      /\ NestInv
  BY DEF TakeConnection, CloseGranted, Closing, TransactionInv
<1>2. doing[u].step \notin Busy /\ doing[close.by].step = "exiting"
  BY <1>1, CloserFacts, Zenon
<1>3. nestedOwner = u => doing[u].step = "exiting"
  BY <1>1, <1>2, TasksAssumption, Zenon
<1>4. ~Unwinds(u)
  BY <1>1, <1>3, Zenon DEF NestInv, NestTask, Unwinds
<1>5. Asks(u, "query") => nestedOwner # u
  BY <1>3 DEF Asks
<1> QED
  BY <1>2, <1>4, <1>5, Zenon DEF Driving, Busy

LEMMA CloseDiscardsKeeps ==
  ASSUME TransactionInv, CloseDiscards
  PROVE  TransactionInv'
<1> DEFINE t == close.by
<1>0. TypeInv /\ EntryInv /\ CloseInv /\ NestInv /\ ContextInv
  BY DEF TransactionInv
<1>1. /\ close.state = "waiting" /\ close.state \in Closing /\ Holds(Closer)
      /\ TakeConnection /\ connection /\ connection' = FALSE /\ closed' = TRUE
  BY DEF CloseDiscards, TakeConnection, CloseGranted, Closing
<1>2. t \in Tasks
  BY <1>1, CloserFacts, Zenon
<1>3. /\ reusable' = FALSE /\ nestedStack' = <<>> /\ nestedOwner' = NoTask
      /\ lease' = "discarded" /\ levels' = <<>>
      /\ UNCHANGED <<entering, outcome, failed, used, streamOwner, durable, decided, policy,
                     history>>
  BY <1>0 DEF CloseDiscards, Discard, NestInv
<1>4. /\ doing' \in Doings /\ Moves(t) /\ doing'[t].step = "idle"
      /\ CloseType' /\ close'.state = "done" /\ LockType' /\ LockInv'
  BY <1>1, CloseEndsFacts, Zenon DEF CloseDiscards
<1> HIDE DEF t
<1>5. TypeInv'
  <2>1. levels' \in Seq(SUBSET Writes) /\ nestedStack' \in Seq(Contexts)
    BY <1>3
  <2> QED
    BY <1>0, <1>1, <1>3, <1>4, <2>1, Zenon DEF TypeInv, LockType, CloseType, history
<1>6. EntryInv'
  <2>1. \A u \in Tasks : doing'[u].step \notin EntrySteps
    BY <1>0, <1>1, <1>4, IdleFacts, Zenon DEF EntryInv, EntrySteps, Moves
  <2> QED
    BY <1>0, <1>1, <1>3, <2>1, Zenon DEF EntryInv, EntrySteps
<1>7. CloseInv'
  <2>1. "done" \notin Closing /\ "done" \notin Control
    BY DEF Closing, Control
  <2> QED
    BY <1>0, <1>1, <1>3, <1>4, <2>1, Zenon DEF CloseInv, OutcomeIsEvidence
<1>8. NestInv'
  <2>1. ASSUME NEW u \in Tasks \ {t}
        PROVE  NestTask(u)'
    <3>1. doing'[u] = doing[u] /\ NestTask(u) /\ ~Unwinds(u) /\ doing[u].step \notin Busy
      BY <1>0, <1>1, <1>4, NobodyNests, Zenon DEF Moves, NestInv
    <3> QED
      BY <3>1, Zenon DEF NestTask, Unwinds, Busy
  <2> QED
    BY <1>2, <1>3, <1>4, <2>1, IdleFacts, Zenon DEF NestInv
<1>9. ContextInv'
  <2>1. IsInjective(nestedStack') /\ Range(nestedStack') = {}
    BY <1>3 DEF IsInjective, Range
  <2>2. \A u \in Tasks : Same(u, "savepoint") /\ Same(u, "query")
    BY <1>2, <1>4, IdleFacts, Zenon DEF Moves, Same, Asks
  <2>3. ASSUME NEW u \in Tasks, Asks(u, "savepoint")'
        PROVE  /\ doing'[u].on \in used \ undone
               /\ \A w \in Writes : doing'[u].on \notin issued[w].inside
               /\ \A v \in Tasks : Asks(v, "savepoint")' /\ doing'[v].on = doing'[u].on => v = u
    BY <1>0, <2>2, <2>3, Zenon DEF ContextInv, Same
  <2>4. ASSUME NEW u \in Tasks, Asks(u, "query")'
        PROVE  /\ doing'[u].on \in Writes /\ issued[doing'[u].on].sent
               /\ issued[doing'[u].on].inside = {}
    <3>1. Asks(u, "query") /\ doing'[u].on = doing[u].on
      BY <2>2, <2>4 DEF Same
    <3>2. nestedOwner # u
      BY <1>1, <3>1, NobodyNests, Zenon
    <3> QED
      BY <1>0, <3>1, <3>2, Zenon DEF ContextInv
  <2> QED
    BY <1>0, <1>3, <2>1, <2>3, <2>4, TasksAssumption, Zenon DEF ContextInv, history
<1>10. LevelInv'
  BY <1>3, LevelUnsafe
<1>11. CommitInv'
  BY <1>0, <1>1, <1>3, Zenon DEF CommitInv, CloseInv
<1> QED
  BY <1>4, <1>5, <1>6, <1>7, <1>8, <1>9, <1>10, <1>11 DEF TransactionInv

LEMMA StartControlKeeps ==
  ASSUME TransactionInv, StartControl
  PROVE  TransactionInv'
<1> DEFINE t == close.by
           next == IF close.raised THEN "rollingBack" ELSE "committing"
<1>0. TypeInv /\ LockInv /\ EntryInv /\ CloseInv /\ NestInv /\ ContextInv /\ LevelInv
  BY DEF TransactionInv
<1>1. /\ close.state = "waiting" /\ close.state \in Closing /\ Holds(Closer)
      /\ TakeConnection /\ connection /\ connection' = FALSE /\ closed' = TRUE
      /\ nestedStack = <<>> /\ reusable
  BY DEF StartControl, TakeConnection, CloseGranted, Closing
<1>2. t \in Tasks /\ doing[t].step = "exiting"
  BY <1>1, CloserFacts, Zenon
<1>3. /\ outcome' = IF close.raised THEN outcome ELSE "unknown"
      /\ close' = [close EXCEPT !.state = next]
      /\ UNCHANGED <<entering, reusable, nesting, streamOwner, lock, doing, lease, session,
                     history>>
  BY DEF StartControl
<1>4. /\ CloseType' /\ close'.state = next /\ close'.by = t /\ next \in Control
      /\ next \in Closing
  <2>1. next \in Control /\ next \in Closing
    BY DEF Closing, Control
  <2> HIDE DEF next
  <2> QED
    BY <1>0, <1>3, <2>1, Zenon DEF TypeInv, CloseType
<1>5. Moves(t) /\ Same(t, "savepoint") /\ Same(t, "query") /\ ReleaseGoesOn(t)
  BY <1>3 DEF Moves, Same, Asks, ReleaseGoesOn, Driving
<1>6. outcome = "not_attempted" /\ ~decided /\ ~closed /\ ~entering
  BY <1>0, <1>1, Zenon DEF CloseInv, EntryInv
<1>7. LockType' /\ LockInv'
  BY <1>0, <1>1, <1>3, <1>4, LockStays, Zenon DEF LockInv, TypeInv, LockType
<1>8. TypeInv'
  BY <1>0, <1>1, <1>3, <1>4, <1>7, Zenon DEF TypeInv, LockType, CloseType, nesting, session, history
<1>9. EntryInv'
  BY <1>0, <1>1, <1>3, <1>6, Zenon DEF EntryInv
<1>10. CloseInv'
  BY <1>1, <1>2, <1>3, <1>4, <1>6 DEF CloseInv, OutcomeIsEvidence, nesting, session
<1>11. NestInv'
  <2>1. ASSUME NEW u \in Tasks
        PROVE  NestTask(u)'
    <3>1. doing'[u] = doing[u] /\ NestTask(u) /\ ~Unwinds(u) /\ doing[u].step \notin Busy
      BY <1>0, <1>1, <1>3, NobodyNests DEF NestInv
    <3> QED
      BY <3>1, Zenon DEF NestTask, Unwinds, Busy
  <2> QED
    BY <1>0, <1>3, <2>1 DEF NestInv, nesting
<1>12. ContextInv'
  BY <1>0, <1>2, <1>3, <1>5, ContextQuiet, Zenon DEF nesting, history
<1>13. LevelInv'
  <2>1. Driving(t, "release")' => Driving(t, "release")
    BY <1>3 DEF Driving
  <2> QED
    BY <1>0, <1>1, <1>2, <1>3, <1>5, <2>1, LevelQuiet DEF nesting, session, history
<1>14. CommitInv'
  BY <1>3, <1>6 DEF CommitInv
<1> QED
  BY <1>7, <1>8, <1>9, <1>10, <1>11, <1>12, <1>13, <1>14, Zenon DEF TransactionInv

(* The server's transaction has ended; settings are to be restored. *)
LEMMA CloseRestores ==
  ASSUME TransactionInv, close.state \in {"committing", "rollingBack"},
         close' = [close EXCEPT !.state = "restoring"], levels' = <<>>,
         UNCHANGED <<entering, connection, closed, reusable, nesting, streamOwner, lock,
                     doing, lease, policy, history>>,
         decided' \in BOOLEAN, OutcomeIsEvidence', CommitInv'
  PROVE  TransactionInv'
<1> DEFINE t == close.by
<1>0. TypeInv /\ LockInv /\ EntryInv /\ CloseInv /\ NestInv /\ ContextInv
  BY DEF TransactionInv
<1>1. /\ close.state \in Control /\ Holds(Closer) /\ close.state \in Closing
      /\ closed /\ ~connection /\ reusable /\ nestedStack = <<>>
  BY ControlFacts DEF Control
<1>2. t \in Tasks /\ doing[t].step = "exiting"
  BY <1>1, CloserFacts, Zenon
<1>3. CloseType' /\ close'.state = "restoring" /\ close'.by = t
  BY <1>0, Zenon DEF TypeInv, CloseType, Closing, Control
<1>4. Moves(t) /\ Same(t, "savepoint") /\ Same(t, "query") /\ ReleaseGoesOn(t)
  BY DEF Moves, Same, Asks, ReleaseGoesOn, Driving
<1>5. "restoring" \in Control /\ "restoring" \in Closing
  BY DEF Control, Closing
<1>6. LockType' /\ LockInv'
  BY <1>0, <1>1, <1>3, <1>5, LockStays, Zenon DEF LockInv, TypeInv, LockType
<1>7. TypeInv'
  <2>1. levels' \in Seq(SUBSET Writes)
    OBVIOUS
  <2> QED
    BY <1>0, <1>3, <1>6, <2>1 DEF TypeInv, LockType, CloseType, nesting, history
<1>8. EntryInv'
  BY <1>0, <1>1 DEF EntryInv
<1>9. CloseInv'
  BY <1>1, <1>2, <1>3 DEF CloseInv, nesting
<1>10. NestInv'
  <2>1. NestTask(t)'
    BY <1>2 DEF NestTask, Unwinds, Busy
  <2> QED
    BY <1>0, <1>2, <1>4, <2>1, NestQuiet DEF nesting
<1>11. ContextInv'
  BY <1>0, <1>2, <1>4, ContextQuiet DEF nesting, history
<1>12. LevelInv'
  BY <1>1, <1>3 DEF LevelInv
<1> QED
  BY <1>6, <1>7, <1>8, <1>9, <1>10, <1>11, <1>12 DEF TransactionInv

(* The close task is over, the connection released or discarded. *)
LEMMA CloseFinishes ==
  ASSUME TransactionInv, close.state \in Control, CloseEnds, levels' = <<>>,
         UNCHANGED <<entering, connection, closed, nesting, streamOwner, history>>,
         reusable' \in BOOLEAN, decided' \in BOOLEAN,
         lease' = "released" => ~policy' /\ reusable',
         OutcomeIsEvidence', CommitInv'
  PROVE  TransactionInv'
<1> DEFINE t == close.by
<1>0. TypeInv /\ EntryInv /\ CloseInv /\ NestInv /\ ContextInv
  BY DEF TransactionInv
<1>1. /\ Holds(Closer) /\ close.state \in Closing
      /\ closed /\ ~connection /\ ~entering /\ nestedStack = <<>>
  BY ControlFacts
<1>2. t \in Tasks /\ ReleaseGoesOn(t)
  BY <1>1, CloserFacts
<1>3. /\ doing' \in Doings /\ Moves(t) /\ doing'[t].step = "idle"
      /\ CloseType' /\ close'.state = "done" /\ LockType' /\ LockInv'
  BY <1>1, CloseEndsFacts, Zenon
<1> HIDE DEF t
<1>4. TypeInv'
  <2>1. levels' \in Seq(SUBSET Writes)
    OBVIOUS
  <2> QED
    BY <1>0, <1>3, <2>1, Zenon DEF TypeInv, LockType, CloseType, nesting, history
<1>5. EntryInv'
  <2>1. \A u \in Tasks : doing'[u].step \notin EntrySteps
    BY <1>0, <1>1, <1>2, <1>3, IdleFacts, Zenon DEF EntryInv, EntrySteps, Moves
  <2> QED
    BY <1>1, <2>1, Zenon DEF EntryInv, EntrySteps
<1>6. CloseInv'
  <2>1. "done" \notin Closing /\ "done" \notin Control
    BY DEF Closing, Control
  <2> QED
    BY <1>1, <1>3, <2>1, Zenon DEF CloseInv
<1>7. NestInv'
  BY <1>0, <1>2, <1>3, IdleFacts, NestQuiet, Zenon DEF nesting
<1>8. ContextInv'
  BY <1>0, <1>2, <1>3, IdleFacts, ContextQuiet, Zenon DEF nesting, history
<1>9. LevelInv'
  BY <1>1, <1>3, Zenon DEF LevelInv
<1> QED
  BY <1>3, <1>4, <1>5, <1>6, <1>7, <1>8, <1>9, Zenon DEF TransactionInv

(* What COMMIT makes durable once no context is open. *)
LEMMA CommittedWrites ==
  ASSUME TransactionInv, close.state = "committing"
  PROVE  Sum(levels) = {w \in completed : issued[w].inside \cap undone = {}}
<1>1. reusable /\ nestedStack = <<>> /\ Len(nestedStack) = 0
  BY ControlFacts DEF Control
<1>2. /\ Len(levels) = 1 /\ levels[1] \subseteq completed
      /\ \A v \in levels[1] : issued[v].inside \cap undone = {}
      /\ \A v \in completed : issued[v].inside \cap undone = {} => v \in levels[1]
  <2>1. /\ Len(levels) = 1
        /\ \A i \in 1..Len(levels) :
             /\ (i > 1 => nestedStack[i - 1] \notin failed) => levels[i] \subseteq completed
             /\ \A v \in levels[i] : issued[v].inside \cap undone = {}
        /\ \A v \in completed : issued[v].inside \cap undone = {} =>
             \E i \in 1..Len(levels) : v \in levels[i]
    <3>1. 0 + 1 = 1
      OBVIOUS
    <3> QED
      BY <1>1, <3>1, Zenon DEF TransactionInv, LevelInv
  <2>2. \A i : i \in 1..Len(levels) <=> i = 1
    BY <2>1
  <2>3. levels[1] \subseteq completed
    BY <2>1, <2>2
  <2> QED
    BY <2>1, <2>2, <2>3, Zenon
<1>3. DOMAIN levels = {1}
  <2>1. levels \in Seq(SUBSET Writes) /\ Len(levels) = 1
    BY <1>2, Zenon DEF TransactionInv, TypeInv
  <2> QED
    BY ONLY <2>1
<1>4. Sum(levels) = levels[1]
  BY <1>3 DEF Sum
<1> QED
  BY <1>2, <1>4

LEMMA CloseStepKeeps ==
  ASSUME TransactionInv, CloseStep
  PROVE  TransactionInv'
<1>0. TypeInv /\ CloseInv /\ CommitInv
  BY DEF TransactionInv
<1>1. CASE CloseRefused
  BY <1>1, CloseRefusedKeeps
<1>2. CASE CloseDiscards
  BY <1>2, CloseDiscardsKeeps, Zenon
<1>3. CASE StartControl
  BY <1>3, StartControlKeeps
<1>4. CASE Committed
  <2>1. CommitInv'
    BY <1>4, CommittedWrites DEF CommitInv, Committed, history
  <2>2. OutcomeIsEvidence' /\ decided' \in BOOLEAN
    BY <1>4 DEF OutcomeIsEvidence, Committed
  <2> QED
    BY <1>4, <2>1, <2>2, CloseRestores, Zenon DEF Committed
<1>5. CASE CommitRejected
  <2>1. close.state \in Control /\ ~decided
    BY <1>0, <1>5, Zenon DEF CommitRejected, Control, CloseInv
  <2>2. OutcomeIsEvidence' /\ CommitInv' /\ decided' \in BOOLEAN /\ reusable' \in BOOLEAN
    BY <1>0, <1>5, <2>1, Zenon DEF OutcomeIsEvidence, CommitInv, CommitRejected, TypeInv
  <2> QED
    BY <1>5, <2>1, <2>2, CloseFinishes, Zenon DEF CommitRejected, Discard
<1>6. CASE CommitUnknown
  <2>1. close.state \in Control /\ outcome = "unknown" /\ outcome' = outcome
    BY <1>0, <1>6, Zenon DEF CommitUnknown, Control, CloseInv
  <2>2. OutcomeIsEvidence' /\ CommitInv' /\ decided' \in BOOLEAN /\ reusable' \in BOOLEAN
    BY <1>0, <1>6, <2>1, Zenon DEF OutcomeIsEvidence, CommitInv, CommitUnknown, TypeInv
  <2> QED
    BY <1>6, <2>1, <2>2, CloseFinishes, Zenon DEF CommitUnknown, Discard
<1>7. CASE RolledBack
  <2>1. OutcomeIsEvidence' /\ CommitInv' /\ decided' \in BOOLEAN
    BY <1>0, <1>7 DEF OutcomeIsEvidence, CommitInv, RolledBack, TypeInv, CloseInv,
       fields, history
  <2> QED
    BY <1>7, <2>1, CloseRestores, Zenon DEF RolledBack, fields
<1>8. CASE RollbackFails
  <2>1. close.state \in Control
    BY <1>8 DEF RollbackFails, Control
  <2>2. OutcomeIsEvidence' /\ CommitInv' /\ decided' \in BOOLEAN /\ reusable' \in BOOLEAN
    BY <1>0, <1>8, Zenon DEF OutcomeIsEvidence, CommitInv, RollbackFails, TypeInv, CloseInv,
       history
  <2> QED
    BY <1>8, <2>1, <2>2, CloseFinishes, Zenon DEF RollbackFails, Discard
<1>9. CASE Restored
  <2>1. close.state \in Control /\ levels' = <<>>
    BY <1>0, <1>9 DEF Restored, Control, CloseInv
  <2>2. reusable' /\ reusable' \in BOOLEAN
    BY <1>0, <1>9, <2>1, Zenon DEF Restored, CloseInv, TypeInv, fields
  <2>3. OutcomeIsEvidence' /\ CommitInv' /\ decided' \in BOOLEAN
    BY <1>0, <1>9, Zenon DEF OutcomeIsEvidence, CommitInv, Restored, TypeInv, CloseInv,
       fields, history
  <2> QED
    BY <1>9, <2>1, <2>2, <2>3, CloseFinishes DEF Restored, fields
<1>10. CASE RestoreFails
  <2>1. close.state \in Control /\ levels' = <<>>
    BY <1>0, <1>10, Zenon DEF RestoreFails, Control, CloseInv, session
  <2>2. OutcomeIsEvidence' /\ CommitInv' /\ decided' \in BOOLEAN /\ reusable' \in BOOLEAN
    BY <1>0, <1>10, Zenon DEF OutcomeIsEvidence, CommitInv, RestoreFails, TypeInv, CloseInv,
       session, history
  <2> QED
    BY <1>10, <2>1, <2>2, CloseFinishes DEF RestoreFails, Discard
<1> QED
  BY <1>1, <1>2, <1>3, <1>4, <1>5, <1>6, <1>7, <1>8, <1>9, <1>10 DEF CloseStep
=============================================================================
