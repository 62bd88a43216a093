----------------------------- MODULE SQLitePool -----------------------------
(***************************************************************************)
(* SQLiteConnectionPool (src/snekql/sqlite/pool.py): the lazily filled     *)
(* pool behind the admission gate, the detached tasks that close what is   *)
(* not given back, and the one shutdown task.                              *)
(*                                                                         *)
(* An acquisition keeps its admission slot from admission to the end of    *)
(* the lease, and beyond it while a detached task still opens or closes    *)
(* its connection; phase says which.  A step is the code between two       *)
(* suspension points: admission and the checkout of an idle connection     *)
(* are one step, and so are the return of a connection and the release of  *)
(* its slot.                                                               *)
(***************************************************************************)
EXTENDS AdmissionGate

CONSTANTS Conns,   \* the physical connections that may exist at one time
          NoConn   \* no connection

ASSUME ConnsAssumption == IsFiniteSet(Conns) /\ NoConn \notin Conns

PoolSize == Capacity   \* pool_size

VARIABLES
  closed, closing,            \* closed, closing
  idle,         \* idle_connections, last in first out
  pending,      \* _pending_close_connections: handles still to be closed
  phase,        \* what the slot of an acquisition is used for
  conn,         \* the connection behind that slot
  closer,       \* where the task of _close() is, "none" when there is none
  attempt,      \* the handles the current close_connections() has yet to try
  closeFailed   \* whether one of its closes raised

shutdownVars == <<closed, closing, pending, closer, attempt, closeFailed>>
vars == <<where, waiters, admitted, closed, closing, idle, pending, phase,
          conn, closer, attempt, closeFailed>>

(***************************************************************************)
(* "none": no slot.  "opening": the opening task runs and the caller waits *)
(* for it.  "opened": it has a connection, the caller has not resumed.     *)
(* "leased": the caller has the connection.  "abandoned": the opening task *)
(* failed or was cancelled, _close_opening reaps it.  "discarding":        *)
(* _close_discarded closes the connection.                                 *)
(***************************************************************************)
Phases == {"none", "opening", "opened", "leased", "abandoned", "discarding"}
WithConn == {"opened", "leased", "discarding"}

(***************************************************************************)
(* "flush": the first close_connections().  "drain": looks at admitted.    *)
(* "waiting": in condition.wait().  "notified": woken from it.  "finish":  *)
(* the second close_connections().                                         *)
(***************************************************************************)
CloserPlaces == {"none", "flush", "drain", "waiting", "notified", "finish"}

(* check_accepting_work() does not raise. *)
CheckAcceptingWork == ~closed /\ ~closing

(* What idle_connections.pop() returns, and what it leaves. *)
LastIdle == idle[Len(idle)]
OtherIdle == SubSeq(idle, 1, Len(idle) - 1)

InUse == Range(idle) \cup pending \cup {conn[a] : a \in Acquirers}

Init ==
  /\ GateInit
  /\ closed = FALSE /\ closing = FALSE
  /\ \E c \in Conns : idle = <<c>>
  /\ pending = {}
  /\ phase = [a \in Acquirers |-> "none"]
  /\ conn = [a \in Acquirers |-> NoConn]
  /\ closer = "none" /\ attempt = {} /\ closeFailed = FALSE
-----------------------------------------------------------------------------
(* The acquisition looks at the gate, and is not admitted. *)
LookAtGate(a) ==
  \/ /\ CheckAcceptingWork
     /\ AdmitObserverRaises(a) \/ Park(a) \/ ExpireBeforeWait(a)
  \/ ~CheckAcceptingWork /\ Reject(a)

WaitAtGate(a) ==
  /\ Call(a) \/ LookAtGate(a) \/ ExpireWaiting(a) \/ Cancel(a)
  /\ UNCHANGED <<idle, phase, conn, shutdownVars>>

(* Admitted: the gate found the pool accepting work. *)
Enter(a) == CheckAcceptingWork /\ Admit(a)

Use(a, p, c) ==
  /\ phase' = [phase EXCEPT ![a] = p]
  /\ conn' = [conn EXCEPT ![a] = c]

(* Mutant of FreeSlot: the task of _close() is not woken. *)
FreeSlotWithoutWakeup(a) ==
  /\ ReleaseSlot(a)
  /\ Use(a, "none", NoConn)
  /\ UNCHANGED closer

(* gate.release(), with the wake-up of the task of _close(). *)
FreeSlot(a) ==
  /\ ReleaseSlot(a)
  /\ Use(a, "none", NoConn)
  /\ closer' = IF closer = "waiting" THEN "notified" ELSE closer
-----------------------------------------------------------------------------
(* acquire() *)

(* Mutant of CheckoutIdle: the connection stays in the idle list. *)
CheckoutIdleKeeping(a) ==
  /\ Enter(a)
  /\ idle # <<>>
  /\ Use(a, "leased", LastIdle)
  /\ UNCHANGED <<idle, shutdownVars>>

(* Admitted, and an idle connection is at hand. *)
CheckoutIdle(a) ==
  /\ Enter(a)
  /\ idle # <<>>
  /\ Use(a, "leased", LastIdle)
  /\ idle' = OtherIdle
  /\ UNCHANGED shutdownVars

(* The same, and the observer of "pool_checkout" raises: discard(). *)
CheckoutIdleObserverRaises(a) ==
  /\ Enter(a)
  /\ idle # <<>>
  /\ Use(a, "discarding", LastIdle)
  /\ idle' = OtherIdle
  /\ UNCHANGED shutdownVars

(* Admitted with no idle connection: a task opens one. *)
StartOpening(a) ==
  /\ Enter(a)
  /\ idle = <<>>
  /\ Use(a, "opening", NoConn)
  /\ UNCHANGED <<idle, shutdownVars>>

OpenSucceeds(a) ==
  /\ phase[a] = "opening"
  /\ \E c \in Conns \ InUse : Use(a, "opened", c)
  /\ UNCHANGED <<gateVars, idle, shutdownVars>>

(* The opener closes what it opened, and raises. *)
OpenFails(a) ==
  /\ phase[a] = "opening"
  /\ Use(a, "abandoned", NoConn)
  /\ UNCHANGED <<gateVars, idle, shutdownVars>>

(* Mutant of AbandonOpening: no task reaps the opening. *)
AbandonOpeningUnreaped(a) ==
  /\ phase[a] \in {"opening", "opened"}
  /\ Use(a, "none", NoConn)
  /\ UNCHANGED <<gateVars, idle, shutdownVars>>

(***************************************************************************)
(* The caller of acquire() runs out of time, or is cancelled, while it     *)
(* waits for the opening task.  opening.cancel() has no effect on a task   *)
(* that is done; _close_opening() then closes the connection.              *)
(***************************************************************************)
AbandonOpening(a) ==
  /\ \/ phase[a] = "opening" /\ Use(a, "abandoned", NoConn)
     \/ phase[a] = "opened" /\ Use(a, "discarding", conn[a])
  /\ UNCHANGED <<gateVars, idle, shutdownVars>>

(***************************************************************************)
(* The caller resumes: it takes the connection unless the pool stopped     *)
(* accepting work meanwhile, or the observer raises.                       *)
(***************************************************************************)
TakeOpened(a) ==
  /\ phase[a] = "opened"
  /\ CheckAcceptingWork
  /\ Use(a, "leased", conn[a])
  /\ UNCHANGED <<gateVars, idle, shutdownVars>>

RejectOpened(a) ==
  /\ phase[a] = "opened"
  /\ ~CheckAcceptingWork
  /\ Use(a, "discarding", conn[a])
  /\ UNCHANGED <<gateVars, idle, shutdownVars>>

TakeOpenedObserverRaises(a) ==
  /\ phase[a] = "opened"
  /\ CheckAcceptingWork
  /\ Use(a, "discarding", conn[a])
  /\ UNCHANGED <<gateVars, idle, shutdownVars>>

(* _close_opening(): the opening task ended without a connection. *)
ReapOpening(a) ==
  /\ phase[a] = "abandoned"
  /\ FreeSlot(a)
  /\ UNCHANGED <<idle, closed, closing, pending, attempt, closeFailed>>
-----------------------------------------------------------------------------
(* release() and discard() *)

(* The connection is idle before the slot is free. *)
ReturnConnection(a) ==
  /\ phase[a] = "leased"
  /\ CheckAcceptingWork
  /\ idle' = Append(idle, conn[a])
  /\ FreeSlot(a)
  /\ UNCHANGED <<closed, closing, pending, attempt, closeFailed>>

(* release() during a shutdown: closed in the background, as by discard(). *)
ReturnWhileClosing(a) ==
  /\ phase[a] = "leased"
  /\ ~CheckAcceptingWork
  /\ Use(a, "discarding", conn[a])
  /\ UNCHANGED <<gateVars, idle, shutdownVars>>

Discard(a) ==
  /\ phase[a] = "leased"
  /\ Use(a, "discarding", conn[a])
  /\ UNCHANGED <<gateVars, idle, shutdownVars>>

(* _close_discarded(): the slot is free once the handle is closed. *)
CloseDiscarded(a) ==
  /\ phase[a] = "discarding"
  /\ FreeSlot(a)
  /\ UNCHANGED <<idle, closed, closing, pending, attempt, closeFailed>>

(***************************************************************************)
(* The physical close raises: the handle is kept for a later close() and   *)
(* the pool refuses work before the slot is freed.                         *)
(***************************************************************************)
CloseDiscardedFails(a) ==
  /\ phase[a] = "discarding"
  /\ pending' = pending \cup {conn[a]}
  /\ closing' = TRUE
  /\ FreeSlot(a)
  /\ UNCHANGED <<idle, closed, attempt, closeFailed>>
-----------------------------------------------------------------------------
(* close() *)

(* close() starts the task when there is none; otherwise it joins it. *)
StartClose ==
  /\ closer = "none"
  /\ ~closed
  /\ closing' = TRUE
  /\ pending' = pending \cup Range(idle)
  /\ idle' = <<>>
  /\ attempt' = pending'
  /\ closer' = "flush"
  /\ NotifyEveryone
  /\ UNCHANGED <<closed, closeFailed, phase, conn>>

(* close_connections() tries every handle, in no particular order here. *)
CloseHandle(c) ==
  /\ c \in attempt
  /\ attempt' = attempt \ {c}
  /\ pending' = pending \ {c}
  /\ UNCHANGED <<gateVars, closed, closing, idle, phase, conn, closer, closeFailed>>

CloseHandleFails(c) ==
  /\ c \in attempt
  /\ attempt' = attempt \ {c}
  /\ closeFailed' = TRUE
  /\ UNCHANGED <<gateVars, closed, closing, idle, pending, phase, conn, closer>>

(* close_connections() raises: _close() ends and work stays refused. *)
CloseRaises ==
  /\ closer \in {"flush", "finish"}
  /\ attempt = {}
  /\ closeFailed
  /\ closer' = "none"
  /\ closeFailed' = FALSE
  /\ UNCHANGED <<gateVars, closed, closing, idle, pending, phase, conn, attempt>>

FlushDone ==
  /\ closer = "flush"
  /\ attempt = {}
  /\ ~closeFailed
  /\ closer' = "drain"
  /\ UNCHANGED <<gateVars, closed, closing, idle, pending, phase, conn, attempt, closeFailed>>

(* Mutant of Drained: the checked-out connections are not waited for. *)
DrainedEarly ==
  /\ closer \in {"drain", "notified"}
  /\ pending' = pending \cup Range(idle)
  /\ idle' = <<>>
  /\ attempt' = pending'
  /\ closer' = "finish"
  /\ UNCHANGED <<gateVars, closed, closing, phase, conn, closeFailed>>

Drained ==
  /\ closer \in {"drain", "notified"}
  /\ admitted = 0
  /\ pending' = pending \cup Range(idle)
  /\ idle' = <<>>
  /\ attempt' = pending'
  /\ closer' = "finish"
  /\ UNCHANGED <<gateVars, closed, closing, phase, conn, closeFailed>>

WaitForDrain ==
  /\ closer \in {"drain", "notified"}
  /\ admitted # 0
  /\ closer' = "waiting"
  /\ UNCHANGED <<gateVars, closed, closing, idle, pending, phase, conn, attempt, closeFailed>>

(***************************************************************************)
(* The close deadline passes.  It may pass in condition.wait() after the   *)
(* last slot was freed.  The pool opens again unless a handle is retained. *)
(***************************************************************************)
DrainExpires ==
  /\ \/ closer = "drain" /\ admitted # 0
     \/ closer \in {"waiting", "notified"}
  /\ closing' = (pending # {})
  /\ closer' = "none"
  /\ NotifyEveryone
  /\ UNCHANGED <<closed, idle, pending, phase, conn, attempt, closeFailed>>

CloseDone ==
  /\ closer = "finish"
  /\ attempt = {}
  /\ ~closeFailed
  /\ closed' = TRUE
  /\ closing' = FALSE
  /\ closer' = "none"
  /\ NotifyEveryone
  /\ UNCHANGED <<idle, pending, phase, conn, attempt, closeFailed>>
-----------------------------------------------------------------------------
AcquireStep(a) ==
  \/ WaitAtGate(a)
  \/ CheckoutIdle(a) \/ CheckoutIdleObserverRaises(a) \/ StartOpening(a)
  \/ OpenSucceeds(a) \/ OpenFails(a) \/ AbandonOpening(a)
  \/ TakeOpened(a) \/ RejectOpened(a) \/ TakeOpenedObserverRaises(a)

ReturnStep(a) ==
  \/ ReturnConnection(a) \/ ReturnWhileClosing(a) \/ Discard(a)

ReapStep(a) ==
  \/ ReapOpening(a) \/ CloseDiscarded(a) \/ CloseDiscardedFails(a)

CloseStep ==
  \/ \E c \in Conns : CloseHandle(c) \/ CloseHandleFails(c)
  \/ CloseRaises \/ FlushDone \/ Drained \/ WaitForDrain \/ CloseDone

Next ==
  \/ \E a \in Acquirers : AcquireStep(a) \/ ReturnStep(a) \/ ReapStep(a)
  \/ StartClose
  \/ CloseStep
  \/ DrainExpires

Spec == Init /\ [][Next]_vars

(* The event loop runs the task of acquire() that looks at the gate. *)
RunAtGate(a) == Looks(a) /\ AcquireStep(a)

(* The opening task ends, or the deadline of acquire() passes; the caller resumes. *)
RunOpening(a) == phase[a] \in {"opening", "opened"} /\ AcquireStep(a)

(***************************************************************************)
(* The event loop runs every ready task, drivers answer, leases are given  *)
(* back.  Nothing is assumed of the deadline of close().                   *)
(***************************************************************************)
Fairness ==
  /\ \A a \in Acquirers :
       /\ WF_vars(RunAtGate(a))
       /\ WF_vars(RunOpening(a))
       /\ WF_vars(ReturnStep(a))
       /\ WF_vars(ReapStep(a))
  /\ WF_vars(CloseStep)

FairSpec == Spec /\ Fairness
-----------------------------------------------------------------------------
(***************************************************************************)
(* A connection has one owner: it is idle, or behind one slot, or retained *)
(* for close(), never two of these, on every path of acquire, release,     *)
(* discard and close.                                                      *)
(***************************************************************************)
OneOwner ==
  /\ IsInjective(idle)
  /\ Range(idle) \cap pending = {}
  /\ \A a \in Acquirers :
       /\ phase[a] # "none" <=> where[a] = "in"
       /\ phase[a] \in WithConn <=> conn[a] # NoConn
       /\ conn[a] \notin Range(idle) \cup pending
       /\ \A b \in Acquirers : conn[a] = conn[b] /\ conn[a] # NoConn => a = b

(* After a close() that succeeded nothing physical is left. *)
ClosedIsEmpty ==
  closed => /\ admitted = 0 /\ idle = <<>> /\ pending = {}
            /\ closer = "none" /\ ~closing

(***************************************************************************)
(* Every call of acquire() ends, in a lease or an error, although slots    *)
(* stay taken while detached tasks open and close connections.             *)
(***************************************************************************)
Acquiring(a) ==
  \/ where[a] \in {"fresh", "parked", "woken"}
  \/ phase[a] \in {"opening", "opened"}

AcquireEnds == \A a \in Acquirers : Acquiring(a) ~> ~Acquiring(a)

(* close() ends without help from its deadline when leases are given back. *)
CloseEnds == closer # "none" ~> closer = "none"
=============================================================================
