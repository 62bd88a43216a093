---------------------------- MODULE MariaDBPool ----------------------------
(***************************************************************************)
(* MariaDBConnectionPool (src/snekql/mariadb/runtime.py) behind the        *)
(* admission gate and in front of the aiomysql pool, whose filling and     *)
(* closing src/snekql/mariadb/_pool.py overrides.                          *)
(*                                                                         *)
(* The driver opens a connection while it holds its own lock, so an        *)
(* admitted acquisition may have to wait for the lock.  Everything else in *)
(* the driver pool runs between two suspension points.  The suspension     *)
(* points of acquire() are the driver's lock, opening a connection, the    *)
(* checkpoint after a recycled one, the health probe and the session       *)
(* configuration; a physical close does not suspend and does not raise.    *)
(***************************************************************************)
EXTENDS AdmissionGate

CONSTANTS Conns,   \* the physical connections that may exist at one time
          NoConn   \* no connection

ASSUME ConnsAssumption == IsFiniteSet(Conns) /\ NoConn \notin Conns

PoolSize == Capacity   \* pool_size, and maxsize of the driver pool

VARIABLES
  probing,    \* whether health_check is "checkout"; it never changes
  closed, closing,   \* closed, closing
  free,       \* _free of the driver pool
  used,       \* _used of the driver pool
  marked,     \* the connections that carry _snekql_configured
  settled,    \* the connections whose server session has the settings
  phase,      \* where an admitted acquisition is
  conn,       \* the connection it has in hand
  closer      \* where the task of _close() is, "none" when there is none

driverVars == <<free, used, marked, settled>>
vars == <<where, waiters, admitted, probing, closed, closing, free, used, marked,
          settled, phase, conn, closer>>

(***************************************************************************)
(* "none": no slot.  "locking": waits for the driver's lock.  "connecting":*)
(* holds it and opens a connection.  "retry": at the checkpoint after an   *)
(* expired connection.  "probing", "configuring": ping, session settings.  *)
(* "leased": acquire() has returned.                                       *)
(***************************************************************************)
Phases == {"none", "locking", "connecting", "retry", "probing", "configuring", "leased"}
WithConn == {"probing", "configuring", "leased"}

CheckAcceptingWork == ~closed /\ ~closing

Opening == {a \in Acquirers : phase[a] = "connecting"}

(* size of the driver pool *)
Size == Cardinality(free) + Cardinality(used) + Cardinality(Opening)

Use(a, p, c) ==
  /\ phase' = [phase EXCEPT ![a] = p]
  /\ conn' = [conn EXCEPT ![a] = c]

(* Mutant of WakeCloser: release() does not reach the task of _close(). *)
WakeCloserNever == UNCHANGED closer

WakeCloser == closer' = IF closer = "waiting" THEN "notified" ELSE closer

(* gate.release() *)
FreeSlot(a) ==
  /\ ReleaseSlot(a)
  /\ Use(a, "none", NoConn)
  /\ WakeCloser

Init ==
  /\ GateInit
  /\ probing \in BOOLEAN
  /\ closed = FALSE /\ closing = FALSE
  /\ free = {} /\ used = {} /\ marked = {} /\ settled = {}
  /\ phase = [a \in Acquirers |-> "none"]
  /\ conn = [a \in Acquirers |-> NoConn]
  /\ closer = "none"
-----------------------------------------------------------------------------
(* acquire() *)

LookAtGate(a) ==
  \/ /\ CheckAcceptingWork
     /\ AdmitObserverRaises(a) \/ Park(a) \/ ExpireBeforeWait(a)
  \/ ~CheckAcceptingWork /\ Reject(a)

WaitAtGate(a) ==
  /\ Call(a) \/ LookAtGate(a) \/ ExpireWaiting(a) \/ Cancel(a)
  /\ UNCHANGED <<probing, closed, closing, driverVars, phase, conn, closer>>

(***************************************************************************)
(* The acquisition calls acquire() of the driver pool: on admission, or    *)
(* again after an expired connection.  The driver refuses when it is       *)
(* closing, which it is as soon as this pool is.                           *)
(***************************************************************************)
Arrives(a) ==
  /\ CheckAcceptingWork
  /\ \/ Admit(a)
     \/ phase[a] = "retry" /\ UNCHANGED gateVars

LockTaken == \E b \in Acquirers : phase[b] \in {"connecting", "locking"}

(* It holds the driver's lock, at once or after waiting for it. *)
GetsLock(a) ==
  \/ Arrives(a) /\ ~LockTaken
  \/ phase[a] = "locking" /\ Opening = {} /\ UNCHANGED gateVars

WaitForLock(a) ==
  /\ Arrives(a)
  /\ LockTaken
  /\ Use(a, "locking", NoConn)
  /\ UNCHANGED <<probing, closed, closing, driverVars, closer>>

(* _fill_free_pool opens a connection if none is free and there is room. *)
HasRoom(f) ==
  f = {} /\ Cardinality(f) + Cardinality(used) + Cardinality(Opening) < PoolSize

(* _fill_free_pool drops the stale connections and opens one. *)
StartOpening(a) ==
  /\ GetsLock(a)
  /\ \E fresh \in SUBSET free : HasRoom(fresh) /\ free' = fresh
  /\ Use(a, "connecting", NoConn)
  /\ UNCHANGED <<probing, closed, closing, used, marked, settled, closer>>

(* What follows on a connection that is checked out and not expired. *)
AfterCheckout(c) ==
  IF probing THEN "probing" ELSE IF c \in marked THEN "leased" ELSE "configuring"

(* A connection c in hand: it is expired and closed, or p follows on it. *)
InHand(a, c, p) ==
  \/ /\ Use(a, "retry", NoConn)
     /\ UNCHANGED used
  \/ /\ p = "leased" => CheckAcceptingWork
     /\ Use(a, p, c)
     /\ used' = used \cup {c}

(* A free connection is checked out, after the stale ones were dropped. *)
TakeFree(a) ==
  /\ GetsLock(a)
  /\ \E fresh \in SUBSET free : \E c \in fresh :
       /\ free' = fresh \ {c}
       /\ InHand(a, c, AfterCheckout(c))
  /\ UNCHANGED <<probing, closed, closing, marked, settled, closer>>

(* The new connection is appended, and checked out under the same lock. *)
Connected(a) ==
  /\ phase[a] = "connecting"
  /\ free = {}
  /\ \E c \in Conns \ (free \cup used) :
       /\ InHand(a, c, IF probing THEN "probing" ELSE "configuring")
       /\ marked' = marked \ {c}
       /\ settled' = settled \ {c}
  /\ UNCHANGED <<probing, gateVars, closed, closing, free, closer>>

(***************************************************************************)
(* A lease was given back during the opening: that connection is ahead of  *)
(* the new one in _free and is checked out, and the new one stays free,    *)
(* without settings.  What is checked out may be one acquire() cannot keep *)
(* (see TakeFreeAndDiscard).                                               *)
(***************************************************************************)
ConnectedBehind(a) ==
  /\ phase[a] = "connecting"
  /\ \E new \in Conns \ (free \cup used), c \in free :
       /\ free' = (free \ {c}) \cup {new}
       /\ marked' = marked \ {new}
       /\ settled' = settled \ {new}
       /\ \/ InHand(a, c, AfterCheckout(c)) /\ UNCHANGED <<gateVars, closer>>
          \/ AfterCheckout(c) = "leased" /\ FreeSlot(a) /\ UNCHANGED used
  /\ UNCHANGED <<probing, closed, closing>>

(***************************************************************************)
(* acquire() cannot keep the configured connection it checked out: work is *)
(* refused by now, or the observer of "pool_checkout" raises.  It closes   *)
(* the connection and frees the slot.                                      *)
(***************************************************************************)
TakeFreeAndDiscard(a) ==
  /\ \E fresh \in SUBSET free : \E c \in fresh :
       /\ AfterCheckout(c) = "leased"
       /\ free' = fresh \ {c}
  /\ \/ /\ CheckAcceptingWork /\ ~LockTaken
        /\ AdmitObserverRaises(a)
        /\ UNCHANGED <<phase, conn, closer>>
     \/ /\ phase[a] = "retry" /\ CheckAcceptingWork /\ ~LockTaken
        /\ FreeSlot(a)
     \/ /\ phase[a] = "locking" /\ Opening = {}
        /\ FreeSlot(a)
  /\ UNCHANGED <<probing, closed, closing, used, marked, settled>>

(* Mutant of ProbeSucceeds: ping() reconnects the lost session. *)
ProbeReconnects(a) ==
  /\ phase[a] = "probing"
  /\ conn[a] \in marked => CheckAcceptingWork
  /\ Use(a, IF conn[a] \in marked THEN "leased" ELSE "configuring", conn[a])
  /\ settled' \in {settled, settled \ {conn[a]}}
  /\ UNCHANGED <<probing, gateVars, closed, closing, free, used, marked, closer>>

(* ping(reconnect=False) answers. *)
ProbeSucceeds(a) ==
  /\ phase[a] = "probing"
  /\ conn[a] \in marked => CheckAcceptingWork
  /\ Use(a, IF conn[a] \in marked THEN "leased" ELSE "configuring", conn[a])
  /\ UNCHANGED <<probing, gateVars, closed, closing, driverVars, closer>>

(* configure_mariadb_connection() is done, and work is still accepted. *)
Configured(a) ==
  /\ phase[a] = "configuring"
  /\ CheckAcceptingWork
  /\ Use(a, "leased", conn[a])
  /\ marked' = marked \cup {conn[a]}
  /\ settled' = settled \cup {conn[a]}
  /\ UNCHANGED <<probing, gateVars, closed, closing, free, used, closer>>

(* Mutant of CheckoutFails: the connection is not given back to the driver. *)
CheckoutFailsLeaking(a) ==
  /\ phase[a] \in {"locking", "connecting", "retry", "probing", "configuring"}
  /\ FreeSlot(a)
  /\ UNCHANGED <<probing, closed, closing, free, used, marked, settled>>

(***************************************************************************)
(* A step of _acquire() raises, or is cancelled, or the deadline passes,   *)
(* or work is refused at its end, or the observer raises: what is in hand  *)
(* is closed and given back to the driver, then the slot is freed.         *)
(***************************************************************************)
CheckoutFails(a) ==
  /\ phase[a] \in {"locking", "connecting", "retry", "probing", "configuring"}
  /\ used' = used \ {conn[a]}
  /\ FreeSlot(a)
  /\ UNCHANGED <<probing, closed, closing, free, marked, settled>>
-----------------------------------------------------------------------------
(* release() and discard() *)

(***************************************************************************)
(* The driver keeps the connection if it is alive, outside a transaction   *)
(* and the pool is not closing, and closes it otherwise.                   *)
(***************************************************************************)
Release(a) ==
  /\ phase[a] = "leased"
  /\ used' = used \ {conn[a]}
  /\ \/ CheckAcceptingWork /\ free' = free \cup {conn[a]}
     \/ UNCHANGED free
  /\ FreeSlot(a)
  /\ UNCHANGED <<probing, closed, closing, marked, settled>>

Discard(a) ==
  /\ phase[a] = "leased"
  /\ used' = used \ {conn[a]}
  /\ FreeSlot(a)
  /\ UNCHANGED <<probing, closed, closing, free, marked, settled>>
-----------------------------------------------------------------------------
(* close() *)

(* wait_closed(): every idle socket is closed; those that raise are kept. *)
ShutDriver ==
  \E failed \in SUBSET free :
    /\ free' = failed
    /\ closed' = (failed = {})
    /\ closing' = (failed # {})
    /\ closer' = "none"

(* The task of _close() starts; an earlier one has ended without success. *)
StartClose ==
  /\ closer = "none"
  /\ ~closed
  /\ NotifyEveryone
  /\ \/ admitted = 0 /\ ShutDriver
     \/ /\ admitted # 0
        /\ closing' = TRUE
        /\ closer' = "waiting"
        /\ UNCHANGED <<closed, free>>
  /\ UNCHANGED <<probing, used, marked, settled, phase, conn>>

(* _close() is woken: it waits again unless the last slot was freed. *)
Drain ==
  /\ closer = "notified"
  /\ \/ admitted = 0 /\ ShutDriver
     \/ /\ admitted # 0
        /\ closer' = "waiting"
        /\ UNCHANGED <<closed, closing, free>>
  /\ UNCHANGED <<probing, gateVars, used, marked, settled, phase, conn>>

(* The close deadline passes: the pool goes on refusing work. *)
CloseExpires ==
  /\ closer \in {"waiting", "notified"}
  /\ closer' = "none"
  /\ UNCHANGED <<probing, gateVars, closed, closing, driverVars, phase, conn>>
-----------------------------------------------------------------------------
CheckoutStep(a) ==
  \/ WaitForLock(a) \/ StartOpening(a) \/ TakeFree(a) \/ TakeFreeAndDiscard(a)
  \/ Connected(a) \/ ConnectedBehind(a) \/ ProbeSucceeds(a) \/ Configured(a)
  \/ CheckoutFails(a)

ReturnStep(a) == Release(a) \/ Discard(a)

Next ==
  \/ \E a \in Acquirers : WaitAtGate(a) \/ CheckoutStep(a) \/ ReturnStep(a)
  \/ StartClose \/ Drain \/ CloseExpires

Spec == Init /\ [][Next]_vars

(* The event loop runs the task of acquire() that looks at the gate. *)
RunAtGate(a) == Looks(a) /\ (WaitAtGate(a) \/ CheckoutStep(a))

(***************************************************************************)
(* The event loop runs every ready task, leases are given back, and the    *)
(* deadline of acquire() passes.  Nothing is assumed of the one of close().*)
(***************************************************************************)
Fairness ==
  /\ \A a \in Acquirers : /\ WF_vars(RunAtGate(a))
                          /\ WF_vars(CheckoutFails(a))
                          /\ WF_vars(ReturnStep(a))
  /\ WF_vars(Drain)

FairSpec == Spec /\ Fairness
-----------------------------------------------------------------------------
(***************************************************************************)
(* The driver's books and the gate's agree: what the driver counts as used *)
(* is what admitted acquisitions have in hand, each its own, and none of   *)
(* it is free.                                                             *)
(***************************************************************************)
OneOwner ==
  /\ free \cap used = {}
  /\ used = {conn[a] : a \in Acquirers} \ {NoConn}
  /\ \A a \in Acquirers :
       /\ phase[a] # "none" <=> where[a] = "in"
       /\ phase[a] \in WithConn <=> conn[a] # NoConn
       /\ \A b \in Acquirers : conn[a] = conn[b] /\ conn[a] # NoConn => a = b

(***************************************************************************)
(* "pool.acquire() always finds a free connection and never blocks": an    *)
(* acquisition that was admitted, or could be, finds a free connection or  *)
(* room for one in the driver pool, so the gate alone decides the order.   *)
(***************************************************************************)
DriverNeverBlocks ==
  \/ \E a \in Acquirers : phase[a] \in {"locking", "retry"}
  \/ admitted < PoolSize
  => free # {} \/ Size < PoolSize

(* A lease is on a session that has the required settings. *)
LeasedIsSettled ==
  \A a \in Acquirers : phase[a] = "leased" => conn[a] \in settled

Acquiring(a) ==
  \/ where[a] \in {"fresh", "parked", "woken"}
  \/ phase[a] \in Phases \ {"none", "leased"}

(* close() ends without help from its deadline when leases are given back. *)
CloseEnds == closer # "none" ~> closer = "none"
=============================================================================
