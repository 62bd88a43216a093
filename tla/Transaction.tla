---------------------------- MODULE Transaction ----------------------------
(***************************************************************************)
(* One Transaction object of snekql/runtime.py shared by several tasks:    *)
(* entry, buffered queries, chunk streams, nested contexts (savepoints)    *)
(* and the owned close task that ends it.  A step is the code between two  *)
(* suspension points.  The connection's server session (open savepoint     *)
(* levels, durable writes, session policy) is external and modelled from   *)
(* how the adapters use it.                                                *)
(***************************************************************************)
EXTENDS Queues, FiniteSets

CONSTANTS
    Tasks,      \* tasks that share the Transaction object
    Entrants,   \* tasks that enter it with "async with"
    Strays,     \* tasks that may call __aexit__ without having entered
    Nesters,    \* tasks that open nested contexts
    Contexts,   \* nested context objects
    Writes,     \* statements that write, each issued at most once
    NoTask,     \* no owner
    Closer      \* the owned close task, as a waiter of the lock

ASSUME TasksAssumption == NoTask \notin Tasks /\ Closer \notin Tasks

VARIABLES
    entering, connection, closed, reusable, outcome,    \* Transaction fields
    nestedStack, failed, used,                          \* nested contexts
    nestedOwner, streamOwner,
    lock,       \* FIFO of the connection lock: its head holds it
    doing,      \* what each task is doing with the Transaction
    entrant,    \* the task whose __aenter__ returned
    close,      \* the close task: its state, owner and pending exception
    lease,      \* the pool's view of the leased connection
    span,       \* the "transaction" measurement
    levels,     \* server: writes per savepoint level, <<>> outside a transaction
    durable,    \* server: committed writes
    decided,    \* server: whether COMMIT was carried out
    override,   \* the transaction was opened with explicit SQLite policies
    policy,     \* server: whether session settings are overridden
    issued,     \* writes passed to execute(), with their task's open contexts
    completed,  \* writes whose driver call completed, cursor cleanup included
    unread,     \* completed writes whose rows could not be materialized
    undone      \* contexts that were left by rolling them back

fields == <<entering, connection, closed, reusable, outcome>>
nesting == <<nestedStack, failed, used, nestedOwner>>
session == <<levels, durable, decided, policy>>
history == <<issued, completed, unread, undone>>
vars == <<fields, nesting, streamOwner, lock, doing, entrant, close, lease, span,
          session, override, history>>

Idle == [step |-> "idle", call |-> "none", on |-> NoTask, raised |-> FALSE]

Call(step, call, on, raised) ==
    [step |-> step, call |-> call, on |-> on, raised |-> raised]

Steps == {"idle", "acquiring", "beginning", "waiting", "driving", "streaming", "exiting"}
Calls == {"none", "enter", "query", "stream", "fetch", "endStream", "savepoint",
          "unwind", "rollbackTo", "release", "exit"}

Init ==
    /\ entering = FALSE /\ connection = FALSE /\ closed = FALSE
    /\ reusable = TRUE /\ outcome = "not_attempted"
    /\ nestedStack = <<>> /\ failed = {} /\ used = {}
    /\ nestedOwner = NoTask /\ streamOwner = NoTask
    /\ lock = <<>>
    /\ doing = [t \in Tasks |-> Idle]
    /\ entrant = NoTask
    /\ close = [state |-> "none", by |-> NoTask, raised |-> FALSE]
    /\ lease = "none" /\ span = "none"
    /\ levels = <<>> /\ durable = {} /\ decided = FALSE
    /\ override \in BOOLEAN /\ policy = FALSE
    /\ issued = [w \in Writes |-> [sent |-> FALSE, inside |-> {}]]
    /\ completed = {} /\ unread = {} /\ undone = {}

(***************************************************************************)
(* Helpers                                                                 *)
(***************************************************************************)
Top(s) == s[Len(s)]
Pop(s) == SubSeq(s, 1, Len(s) - 1)

\* _check_nested_owner: savepoints reserve the Transaction for one task.
CheckNestedOwner(t) == nestedOwner \in {NoTask, t}

\* require_connection: started, open, safe, and no rollback is required.
RequireConnection ==
    /\ ~closed /\ connection /\ reusable
    /\ nestedStack # <<>> => Top(nestedStack) \notin failed

\* A task queues for the lock; an uncontended lock is its at once.
Wait(t, call, on, raised) ==
    /\ doing' = [doing EXCEPT ![t] = Call("waiting", call, on, raised)]
    /\ lock' = Append(lock, t)

\* A task that holds the lock drops it and returns to application code.
Leave(t) ==
    /\ doing' = [doing EXCEPT ![t] = Idle]
    /\ lock' = Tail(lock)

Holds(p) == lock # <<>> /\ Head(lock) = p
Granted(t) == doing[t].step = "waiting" /\ Holds(t)
Driving(t, call) == doing[t].step = "driving" /\ doing[t].call = call

\* What the server does to the open levels when it carries out a call.
Carried(call, on) ==
    IF levels = <<>> THEN levels
    ELSE CASE call = "query" -> [levels EXCEPT ![Len(levels)] = @ \cup {on}]
           [] call = "savepoint" -> Append(levels, {})
           [] call = "rollbackTo" -> [levels EXCEPT ![Len(levels)] = {}]
           [] call = "release" /\ Len(levels) > 1 ->
                [Pop(levels) EXCEPT ![Len(levels) - 1] = @ \cup Top(levels)]
           [] OTHER -> levels

Sum(ls) == UNION {ls[i] : i \in DOMAIN ls}

(***************************************************************************)
(* Entry                                                                   *)
(***************************************************************************)
\* __aenter__ reserves entry before its first await.
Enter(t) ==
    /\ t \in Entrants /\ doing[t] = Idle
    /\ ~entering /\ ~connection /\ ~closed
    /\ entering' = TRUE
    /\ doing' = [doing EXCEPT ![t] = Call("acquiring", "enter", NoTask, FALSE)]
    /\ UNCHANGED <<connection, closed, reusable, outcome, nesting, streamOwner, lock,
                   entrant, close, lease, span, session, override, history>>

\* The pool hands over a lease; the measurement starts and BEGIN is sent.
Acquired(t) ==
    /\ doing[t].step = "acquiring"
    /\ lease' = "held" /\ span' = "open"
    /\ doing' = [doing EXCEPT ![t].step = "beginning"]
    /\ UNCHANGED <<fields, nesting, streamOwner, lock, entrant, close, session,
                   override, history>>

\* The acquisition fails or is cancelled: the object may be entered again.
AcquireFails(t) ==
    /\ doing[t].step = "acquiring"
    /\ entering' = FALSE
    /\ doing' = [doing EXCEPT ![t] = Idle]
    /\ UNCHANGED <<connection, closed, reusable, outcome, nesting, streamOwner, lock,
                   entrant, close, lease, span, session, override, history>>

\* begin() set the requested policies and opened the server's transaction.
Begun(t) ==
    /\ doing[t].step = "beginning"
    /\ levels' = <<{}>> /\ policy' = override
    /\ connection' = TRUE /\ entering' = FALSE /\ entrant' = t
    /\ doing' = [doing EXCEPT ![t] = Idle]
    /\ UNCHANGED <<closed, reusable, outcome, nesting, streamOwner, lock, close, lease,
                   span, durable, decided, override, history>>

\* begin() failed, timed out or was cancelled, with or without effect.
BeginFails(t) ==
    /\ doing[t].step = "beginning"
    /\ lease' = "discarded" /\ span' = "ended"
    /\ reusable' = FALSE /\ closed' = TRUE /\ entering' = FALSE
    /\ doing' = [doing EXCEPT ![t] = Idle]
    /\ UNCHANGED <<connection, outcome, nesting, streamOwner, lock, entrant, close,
                   session, override, history>>

(***************************************************************************)
(* Buffered queries and streams                                            *)
(***************************************************************************)
\* execute and fetch_*: check the owner, then wait for the lock.
Query(t, w) ==
    /\ doing[t] = Idle /\ ~issued[w].sent
    /\ CheckNestedOwner(t)
    /\ Wait(t, "query", w, FALSE)
    /\ issued' = [issued EXCEPT ![w] =
            [sent |-> TRUE,
             inside |-> IF nestedOwner = t
                        THEN {nestedStack[i] : i \in DOMAIN nestedStack} ELSE {}]]
    /\ UNCHANGED <<fields, nesting, streamOwner, entrant, close, lease, span, session,
                   override, completed, unread, undone>>

\* ChunkStream.__aenter__: the stream will keep the lock for its lifetime.
OpenStream(t) ==
    /\ doing[t] = Idle
    /\ CheckNestedOwner(t)
    /\ Wait(t, "stream", NoTask, FALSE)
    /\ UNCHANGED <<fields, nesting, streamOwner, entrant, close, lease, span, session,
                   override, history>>

\* Mutant of StartDriver: ownership is not checked again under the lock.
StartDriverUnchecked(t) ==
    /\ Granted(t) /\ doing[t].call \in {"query", "stream", "savepoint"}
    /\ RequireConnection
    /\ doing' = [doing EXCEPT ![t].step = "driving"]
    /\ UNCHANGED <<fields, nesting, streamOwner, lock, entrant, close, lease, span,
                   session, override, history>>

\* With the lock, ownership and the connection are checked again.
StartDriver(t) ==
    /\ Granted(t) /\ doing[t].call \in {"query", "stream", "savepoint"}
    /\ CheckNestedOwner(t) /\ RequireConnection
    /\ doing' = [doing EXCEPT ![t].step = "driving"]
    /\ UNCHANGED <<fields, nesting, streamOwner, lock, entrant, close, lease, span,
                   session, override, history>>

\* A check under the lock fails, or the plan is rejected before driver I/O.
Rejected(t) ==
    /\ Granted(t) /\ doing[t].call \in {"query", "stream", "savepoint"}
    /\ doing[t].call = "savepoint" => ~(CheckNestedOwner(t) /\ RequireConnection)
    /\ Leave(t)
    /\ UNCHANGED <<fields, nesting, streamOwner, entrant, close, lease, span, session,
                   override, history>>

\* A task cancelled while it waits for the lock leaves the queue.
CancelWait(t) ==
    /\ doing[t].step = "waiting"
    /\ lock' = Without(lock, t)
    /\ doing' = [doing EXCEPT ![t] = Idle]
    /\ UNCHANGED <<fields, nesting, streamOwner, entrant, close, lease, span, session,
                   override, history>>

\* A buffered statement completes, cursor cleanup included.
Completes(t) ==
    /\ Driving(t, "query")
    /\ levels' = Carried("query", doing[t].on)
    /\ completed' = completed \cup {doing[t].on}
    /\ Leave(t)
    /\ UNCHANGED <<fields, nesting, streamOwner, entrant, close, lease, span, durable,
                   decided, policy, override, issued, undone>>

\* execute() returns the rowcount or the materialized rows.
QueryDone(t) == Completes(t) /\ UNCHANGED unread

\* The rows are rejected (shape, cardinality, decoding or validation) after
\* the driver call: execute() raises, and neither the write, the innermost
\* context nor the connection is affected.
MaterializationFails(t) == Completes(t) /\ unread' = unread \cup {doing[t].on}

\* A stream's cursor is open: the lock stays with the stream.
StreamOpened(t) ==
    /\ Driving(t, "stream")
    /\ streamOwner' = t
    /\ doing' = [doing EXCEPT ![t].step = "streaming"]
    /\ UNCHANGED <<fields, nesting, lock, entrant, close, lease, span, session,
                   override, history>>

\* __anext__ and __aexit__ of the stream by its owning task.
UseStream(t) ==
    /\ doing[t].step = "streaming"
    /\ CheckNestedOwner(t)
    /\ \E call \in {"fetch", "endStream"} :
            doing' = [doing EXCEPT ![t].step = "driving", ![t].call = call]
    /\ UNCHANGED <<fields, nesting, streamOwner, lock, entrant, close, lease, span,
                   session, override, history>>

Fetched(t) ==
    /\ Driving(t, "fetch")
    /\ doing' = [doing EXCEPT ![t].step = "streaming", ![t].call = "stream"]
    /\ UNCHANGED <<fields, nesting, streamOwner, lock, entrant, close, lease, span,
                   session, override, history>>

\* ChunkStream.__aexit__ closed the cursor and lets the lock go.
StreamClosed(t) ==
    /\ Driving(t, "endStream")
    /\ streamOwner' = NoTask
    /\ Leave(t)
    /\ UNCHANGED <<fields, nesting, entrant, close, lease, span, session, override,
                   history>>

\* A recognised constraint failure while the server's transaction is open,
\* possibly with part of the statement applied: the innermost context must
\* be rolled back; outside contexts the connection is unsafe.
StatementRejected(t) ==
    /\ doing[t].step = "driving" /\ doing[t].call \in {"query", "stream"}
    /\ levels # <<>>
    /\ levels' \in {levels, Carried(doing[t].call, doing[t].on)}
    /\ IF nestedStack # <<>> /\ reusable
       THEN failed' = failed \cup {Top(nestedStack)} /\ UNCHANGED reusable
       ELSE reusable' = FALSE /\ UNCHANGED failed
    /\ Leave(t)
    /\ UNCHANGED <<entering, connection, closed, outcome, nestedStack, used, nestedOwner,
                   streamOwner, entrant, close, lease, span, durable, decided, policy,
                   override, history>>

\* The stack after a context's exit: popped, and unowned once it is empty.
PopContext ==
    /\ nestedStack' = Pop(nestedStack)
    /\ nestedOwner' = IF Len(nestedStack) = 1 THEN NoTask ELSE nestedOwner

\* Every other end of a driver call (timeout, cancellation, unknown error,
\* failed cleanup, further raw results): the connection becomes unsafe, and
\* the server did the call, did not, or lost the whole transaction.
DriverFails(t) ==
    /\ doing[t].step = "driving"
    /\ reusable' = FALSE
    /\ levels' \in {levels, Carried(doing[t].call, doing[t].on), <<>>}
    /\ IF doing[t].call = "fetch"
       THEN /\ doing' = [doing EXCEPT ![t].step = "streaming", ![t].call = "stream"]
            /\ UNCHANGED lock
       ELSE Leave(t)
    /\ streamOwner' = IF doing[t].call = "endStream" THEN NoTask ELSE streamOwner
    /\ IF doing[t].call \in {"rollbackTo", "release"}
       THEN PopContext ELSE UNCHANGED <<nestedStack, nestedOwner>>
    /\ UNCHANGED <<entering, connection, closed, outcome, failed, used, entrant, close,
                   lease, span, durable, decided, policy, override, history>>

(***************************************************************************)
(* Nested contexts                                                         *)
(***************************************************************************)
\* _check_access: foreign tasks and held cursors are rejected before waiting.
CheckAccess(t) == CheckNestedOwner(t) /\ streamOwner = NoTask

\* A context is used up by its first __aenter__, also by a rejected one.
EnterNested(t, c) ==
    /\ t \in Nesters /\ doing[t].step \in {"idle", "streaming"} /\ c \notin used
    /\ used' = used \cup {c}
    /\ IF CheckAccess(t) THEN Wait(t, "savepoint", c, FALSE)
       ELSE UNCHANGED <<doing, lock>>
    /\ UNCHANGED <<fields, nestedStack, failed, nestedOwner, streamOwner, entrant, close,
                   lease, span, session, override, history>>

SavepointMade(t) ==
    /\ Driving(t, "savepoint")
    /\ levels' = Carried("savepoint", NoTask)
    /\ nestedStack' = Append(nestedStack, doing[t].on)
    /\ nestedOwner' = t
    /\ Leave(t)
    /\ UNCHANGED <<fields, failed, used, streamOwner, entrant, close, lease, span,
                   durable, decided, policy, override, history>>

\* __aexit__ of the innermost context, with or without an exception.
ExitNested(t, c, raised) ==
    /\ doing[t] = Idle
    /\ CheckAccess(t) /\ connection /\ ~closed
    /\ nestedStack # <<>> /\ Top(nestedStack) = c
    /\ Wait(t, "unwind", c, raised)
    /\ UNCHANGED <<fields, nesting, streamOwner, entrant, close, lease, span, session,
                   override, history>>

\* Mutant of MustUndo: a caught constraint failure leaves its context cleanly.
MustUndoIfRaised(t) == doing[t].raised

MustUndo(t) == doing[t].raised \/ doing[t].on \in failed

\* With the lock: an unsafe connection only loses the context, otherwise
\* savepoint control starts.
StartUnwind(t) ==
    /\ Granted(t) /\ doing[t].call = "unwind"
    /\ IF reusable
       THEN /\ doing' = [doing EXCEPT ![t].step = "driving",
                   ![t].call = IF MustUndo(t) THEN "rollbackTo" ELSE "release"]
            /\ UNCHANGED <<lock, nestedStack, nestedOwner>>
       ELSE Leave(t) /\ PopContext
    /\ UNCHANGED <<fields, failed, used, streamOwner, entrant, close, lease, span,
                   session, override, history>>

RolledBackTo(t) ==
    /\ Driving(t, "rollbackTo")
    /\ levels' = Carried("rollbackTo", NoTask)
    /\ undone' = undone \cup {doing[t].on}
    /\ doing' = [doing EXCEPT ![t].call = "release"]
    /\ UNCHANGED <<fields, nesting, streamOwner, lock, entrant, close, lease, span,
                   durable, decided, policy, override, issued, completed, unread>>

Released(t) ==
    /\ Driving(t, "release")
    /\ levels' = Carried("release", NoTask)
    /\ PopContext
    /\ Leave(t)
    /\ UNCHANGED <<fields, failed, used, streamOwner, entrant, close, lease, span,
                   durable, decided, policy, override, history>>

\* The first accepted __aexit__ starts the close task and joins it, whatever
\* cancels its caller; competing exits only wait for that task and fail.
Exit(t, raised) ==
    /\ t = entrant \/ t \in Strays
    /\ doing[t] = Idle
    /\ CheckNestedOwner(t) /\ streamOwner # t
    /\ close.state = "none"
    /\ close' = [state |-> "waiting", by |-> t, raised |-> raised]
    /\ doing' = [doing EXCEPT ![t] = Call("exiting", "exit", NoTask, raised)]
    /\ lock' = Append(lock, Closer)
    /\ UNCHANGED <<fields, nesting, streamOwner, entrant, lease, span, session,
                   override, history>>

CloseGranted == close.state = "waiting" /\ Holds(Closer)

\* The close task ends, drops the lock and lets its caller go on.
CloseEnds ==
    /\ close' = [close EXCEPT !.state = "done"]
    /\ doing' = [doing EXCEPT ![close.by] = Idle]
    /\ lock' = Tail(lock)

\* Mutant of CloseRefused: unfinished contexts of the caller refuse it too.
CloseRefusedIfNested ==
    /\ CloseGranted
    /\ nestedOwner # NoTask \/ ~connection
    /\ CloseEnds
    /\ UNCHANGED <<fields, nesting, streamOwner, entrant, lease, span, session,
                   override, history>>

\* Another task's savepoint, or no connection: nothing is closed.
CloseRefused ==
    /\ CloseGranted
    /\ nestedOwner \notin {NoTask, close.by} \/ ~connection
    /\ CloseEnds
    /\ UNCHANGED <<fields, nesting, streamOwner, entrant, lease, span, session,
                   override, history>>

\* The point of no return: the Transaction gives up its connection.
TakeConnection ==
    /\ CloseGranted
    /\ nestedOwner \in {NoTask, close.by} /\ connection
    /\ connection' = FALSE /\ closed' = TRUE

Discard == lease' = "discarded" /\ span' = "ended"

\* Unfinished nested contexts or an unsafe connection: no transaction control.
CloseDiscards ==
    /\ TakeConnection
    /\ nestedStack # <<>> \/ ~reusable
    /\ reusable' = FALSE
    /\ nestedStack' = <<>>
    /\ nestedOwner' = IF nestedStack = <<>> THEN nestedOwner ELSE NoTask
    /\ Discard
    /\ levels' = <<>>
    /\ CloseEnds
    /\ UNCHANGED <<entering, outcome, failed, used, streamOwner, entrant, durable,
                   decided, policy, override, history>>

\* A clean exit sends COMMIT, an exceptional one ROLLBACK.
StartControl ==
    /\ TakeConnection
    /\ nestedStack = <<>> /\ reusable
    /\ outcome' = IF close.raised THEN outcome ELSE "unknown"
    /\ close' = [close EXCEPT !.state = IF close.raised THEN "rollingBack" ELSE "committing"]
    /\ UNCHANGED <<entering, reusable, nesting, streamOwner, lock, doing, entrant, lease,
                   span, session, override, history>>

\* COMMIT is acknowledged: the evidence is kept before cleanup starts.
Committed ==
    /\ close.state = "committing"
    /\ durable' = Sum(levels) /\ decided' = TRUE /\ levels' = <<>>
    /\ outcome' = "committed"
    /\ close' = [close EXCEPT !.state = "restoring"]
    /\ UNCHANGED <<entering, connection, closed, reusable, nesting, streamOwner, lock,
                   doing, entrant, lease, span, policy, override, history>>

\* COMMIT is answered by an error that proves nothing was committed.
CommitRejected ==
    /\ close.state = "committing"
    /\ levels' = <<>>
    /\ outcome' = "rejected" /\ reusable' = FALSE
    /\ Discard
    /\ CloseEnds
    /\ UNCHANGED <<entering, connection, closed, nesting, streamOwner, entrant, durable,
                   decided, policy, override, history>>

\* Mutant of CommitUnknown: every failed COMMIT counts as rejected.
CommitUnknownRejected ==
    /\ close.state = "committing"
    /\ \/ durable' = Sum(levels) /\ decided' = TRUE
       \/ UNCHANGED <<durable, decided>>
    /\ levels' = <<>> /\ reusable' = FALSE /\ outcome' = "rejected"
    /\ Discard
    /\ CloseEnds
    /\ UNCHANGED <<entering, connection, closed, nesting, streamOwner, entrant, policy,
                   override, history>>

\* COMMIT times out or fails without evidence: it was carried out or not.
CommitUnknown ==
    /\ close.state = "committing"
    /\ \/ durable' = Sum(levels) /\ decided' = TRUE
       \/ UNCHANGED <<durable, decided>>
    /\ levels' = <<>> /\ reusable' = FALSE
    /\ Discard
    /\ CloseEnds
    /\ UNCHANGED <<entering, connection, closed, outcome, nesting, streamOwner, entrant,
                   policy, override, history>>

RolledBack ==
    /\ close.state = "rollingBack"
    /\ levels' = <<>>
    /\ close' = [close EXCEPT !.state = "restoring"]
    /\ UNCHANGED <<fields, nesting, streamOwner, lock, doing, entrant, lease, span,
                   durable, decided, policy, override, history>>

RollbackFails ==
    /\ close.state = "rollingBack"
    /\ levels' = <<>> /\ reusable' = FALSE
    /\ Discard
    /\ CloseEnds
    /\ UNCHANGED <<entering, connection, closed, outcome, nesting, streamOwner, entrant,
                   durable, decided, policy, override, history>>

\* _restore_transaction_policy ends and the lease goes back to the pool.
Restored ==
    /\ close.state = "restoring"
    /\ policy' = FALSE
    /\ lease' = "released" /\ span' = "ended"
    /\ CloseEnds
    /\ UNCHANGED <<fields, nesting, streamOwner, entrant, levels, durable, decided,
                   override, history>>

\* Mutant of RestoreFails: the committed connection is reused all the same.
RestoreFailsReleased ==
    /\ close.state = "restoring"
    /\ lease' = "released" /\ span' = "ended"
    /\ CloseEnds
    /\ UNCHANGED <<fields, nesting, streamOwner, entrant, session, override, history>>

\* Cleanup or restoration fails after the transaction has ended.
RestoreFails ==
    /\ close.state = "restoring"
    /\ reusable' = FALSE
    /\ Discard
    /\ CloseEnds
    /\ UNCHANGED <<entering, connection, closed, outcome, nesting, streamOwner, entrant,
                   session, override, history>>

CloseStep ==
    \/ CloseRefused \/ CloseDiscards \/ StartControl \/ Committed \/ CommitRejected
    \/ CommitUnknown \/ RolledBack \/ RollbackFails \/ Restored \/ RestoreFails

Answered(t) ==
    \/ Acquired(t) \/ AcquireFails(t) \/ Begun(t) \/ BeginFails(t)
    \/ StartDriver(t) \/ Rejected(t) \/ QueryDone(t) \/ MaterializationFails(t)
    \/ StreamOpened(t) \/ Fetched(t)
    \/ StreamClosed(t) \/ StatementRejected(t) \/ DriverFails(t) \/ SavepointMade(t)
    \/ StartUnwind(t) \/ RolledBackTo(t) \/ Released(t)

Asked(t) ==
    \/ Enter(t) \/ OpenStream(t) \/ UseStream(t) \/ CancelWait(t)
    \/ \E w \in Writes : Query(t, w)
    \/ \E c \in Contexts : EnterNested(t, c)
    \/ \E c \in Contexts, raised \in BOOLEAN : ExitNested(t, c, raised)
    \/ \E raised \in BOOLEAN : Exit(t, raised)

Next == CloseStep \/ \E t \in Tasks : Answered(t) \/ Asked(t)

Spec == Init /\ [][Next]_vars

(***************************************************************************)
(* Every driver call has a deadline (anyio.fail_after), the event loop     *)
(* runs ready tasks, and the application leaves the streams it opened.     *)
(***************************************************************************)
LeaveStream(t) == UseStream(t) /\ doing'[t].call = "endStream"

Fairness ==
    /\ WF_vars(CloseStep)
    /\ \A t \in Tasks : WF_vars(Answered(t)) /\ SF_vars(LeaveStream(t))

FairSpec == Spec /\ Fairness

(***************************************************************************)
(* Properties                                                              *)
(***************************************************************************)
\* Those writes that no rollback of a context their own task had entered took
\* back.
Kept(writes) == {w \in writes : issued[w].inside \cap undone = {}}

\* A commit that is reported as committed made durable exactly the writes
\* whose driver call completed and that no rollback of a context their own
\* task had entered took back: no partial statement, no work of a failed or
\* raised context, no other task's work lost to that context's rollback.  A
\* write whose execute() raised while its rows were materialized is one of
\* them: catching that error takes nothing back.
CommitIsExact ==
    outcome = "committed" => durable = Kept(completed) /\ Kept(unread) \subseteq durable

\* commit_outcome is evidence: "committed" only if the server committed,
\* "not_attempted" and "rejected" only if it did not.
OutcomeIsEvidence ==
    /\ outcome = "committed" => decided
    /\ outcome \in {"not_attempted", "rejected"} => ~decided

\* A lease goes back to the pool for reuse only when the server has no open
\* transaction and no overridden setting, and no driver call is under way.
ReleasedIsClean ==
    lease = "released" =>
        /\ levels = <<>> /\ ~policy /\ reusable
        /\ \A t \in Tasks : doing[t].step \notin {"driving", "streaming"}

\* While contexts are open, no other task runs a statement inside them.
NestedIsExclusive ==
    nestedStack # <<>> =>
        /\ nestedOwner # NoTask
        /\ \A t \in Tasks : doing[t].step \in {"driving", "streaming"} => t = nestedOwner

\* Once the close task is over, the lease went back to the pool.
LeaseReturned == close.state = "done" => lease \notin {"held"}

\* An accepted exit ends: its close task gets the lock and finishes.  Unless
\* another task's savepoint refuses it, the entrant's exit also returns the
\* lease, its own unfinished contexts and failed control statements included.
ExitEnds ==
    close.state = "waiting" ~>
        /\ close.state = "done"
        /\ close.by = entrant /\ lease = "held" => nestedOwner \notin {NoTask, entrant}

============================================================================
