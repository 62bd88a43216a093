---------------------------- MODULE AdmissionGate ----------------------------
(***************************************************************************)
(* FairAdmissionGate (src/snekql/_pool_gate.py), the FIFO ticket queue in  *)
(* front of both backends' connection pools: its state and its steps.      *)
(* The pools, and AdmissionGateSpec, extend this module and say when the   *)
(* steps may happen.                                                       *)
(*                                                                         *)
(* An element of Acquirers is one acquisition: one call of admit() and the *)
(* slot it may win.  A task that holds several leases is several           *)
(* acquisitions.  A ticket number is unique to the acquisition that drew   *)
(* it, so the deque of tickets is modelled as the sequence of their        *)
(* owners.                                                                 *)
(*                                                                         *)
(* The gate runs on one event loop.  No critical section of the condition  *)
(* suspends except in condition.wait(), which gives the lock up, so taking *)
(* the lock never suspends and the code between two suspension points is   *)
(* one step.  The suspension points are checkpoint() at the top of the     *)
(* loop of _admit (where = "fresh" the first time, "woken" after a wait)   *)
(* and condition.wait() (where = "parked").                                *)
(***************************************************************************)
EXTENDS FiniteSets, Queues

CONSTANTS Acquirers,   \* the acquisitions that may exist at one time
          Capacity     \* capacity, the pool's maximum number of connections

ASSUME AcquirersAssumption == IsFiniteSet(Acquirers)
ASSUME CapacityAssumption == Capacity \in Nat \ {0}

VARIABLES
  where,      \* where each acquisition is in the protocol
  waiters,    \* _waiters: the owners of the queued tickets, oldest first
  admitted    \* admitted: the number of slots taken

gateVars == <<where, waiters, admitted>>

(***************************************************************************)
(* "out": no call of admit and no slot.  "fresh": at the first checkpoint, *)
(* no ticket.  "parked": inside condition.wait().  "woken": notified, or   *)
(* at a later checkpoint; still owns its ticket.  "in": owns a slot.       *)
(***************************************************************************)
Places == {"out", "fresh", "parked", "woken", "in"}

Holders == {a \in Acquirers : where[a] = "in"}

(* condition.notify_all(): every acquisition in condition.wait() wakes. *)
NotifyAll(w) ==
  [a \in Acquirers |-> IF w[a] = "parked" THEN "woken" ELSE w[a]]

(* _discard_waiter: the ticket goes, and everyone looks again. *)
DiscardWaiter(a) ==
  /\ waiters' = Without(waiters, a)
  /\ where' = [NotifyAll(where) EXCEPT ![a] = "out"]

(* Mutant of WaiterIsServedFirst: a newcomer does not look at the queue. *)
ServedFirstBarging(a) ==
  where[a] = "fresh" \/ (waiters # <<>> /\ Head(waiters) = a)

(* _waiter_is_served_first: nobody is queued, or the own ticket is first. *)
WaiterIsServedFirst(a) ==
  IF where[a] = "fresh"
    THEN waiters = <<>>
    ELSE waiters # <<>> /\ Head(waiters) = a

(* The acquisition is past its checkpoint and looks at the gate. *)
Looks(a) == where[a] \in {"fresh", "woken"}

(* Mutant of MayClaim: one slot too many. *)
MayClaimOffByOne(a) == WaiterIsServedFirst(a) /\ admitted <= Capacity

MayClaim(a) == WaiterIsServedFirst(a) /\ admitted < Capacity

(* popleft() of the own ticket; a fresh acquisition has none. *)
PopOwnTicket(a) ==
  waiters' = IF where[a] = "woken" THEN Tail(waiters) ELSE waiters

(* Mutant of WakeNewHead: a remaining slot is not offered (#540). *)
WakeNobody(w) == w

(* With a slot still free the queue is woken: the other tickets may have *)
(* looked, and parked again, before this one was admitted.               *)
WakeNewHead(w) == IF admitted + 1 < Capacity THEN NotifyAll(w) ELSE w

GateInit ==
  /\ where = [a \in Acquirers |-> "out"]
  /\ waiters = <<>>
  /\ admitted = 0
-----------------------------------------------------------------------------
(* admit() is called; it suspends at the first checkpoint. *)
Call(a) ==
  /\ where[a] = "out"
  /\ where' = [where EXCEPT ![a] = "fresh"]
  /\ UNCHANGED <<waiters, admitted>>

(* The acquisition claims a slot. *)
Admit(a) ==
  /\ Looks(a)
  /\ MayClaim(a)
  /\ PopOwnTicket(a)
  /\ admitted' = admitted + 1
  /\ where' = [WakeNewHead(where) EXCEPT ![a] = "in"]

(* Mutant of AdmitObserverRaises: the slot is not given back. *)
ObserverRaisesLeaking(a) ==
  /\ Looks(a)
  /\ MayClaim(a)
  /\ PopOwnTicket(a)
  /\ where' = [NotifyAll(where) EXCEPT ![a] = "out"]
  /\ admitted' = admitted + 1

(* admit(): the observer of "pool_wait" raises after the slot was claimed, *)
(* and release() gives the slot back before the call returns.              *)
AdmitObserverRaises(a) ==
  /\ Looks(a)
  /\ MayClaim(a)
  /\ PopOwnTicket(a)
  /\ where' = [NotifyAll(where) EXCEPT ![a] = "out"]
  /\ UNCHANGED admitted

(* No slot, or not this acquisition's turn: it queues and waits. *)
Park(a) ==
  /\ Looks(a)
  /\ ~MayClaim(a)
  /\ waiters' = IF where[a] = "fresh" THEN Append(waiters, a) ELSE waiters
  /\ where' = [where EXCEPT ![a] = "parked"]
  /\ UNCHANGED admitted

(* It is about to wait, and its deadline has passed already. *)
ExpireBeforeWait(a) ==
  /\ Looks(a)
  /\ ~MayClaim(a)
  /\ DiscardWaiter(a)
  /\ UNCHANGED admitted

(* The deadline passes in condition.wait(), notified or not. *)
ExpireWaiting(a) ==
  /\ where[a] \in {"parked", "woken"}
  /\ DiscardWaiter(a)
  /\ UNCHANGED admitted

(* The call ends by an exception: finally drops the ticket, if there is one. *)
Finally(a) ==
  IF where[a] = "fresh"
    THEN /\ where' = [where EXCEPT ![a] = "out"]
         /\ UNCHANGED waiters
    ELSE DiscardWaiter(a)

(* _check_accepting_work() raises. *)
Reject(a) ==
  /\ Looks(a)
  /\ Finally(a)
  /\ UNCHANGED admitted

(* The task is cancelled in condition.wait() or at a checkpoint. *)
Cancel(a) ==
  /\ where[a] \in {"fresh", "parked", "woken"}
  /\ Finally(a)
  /\ UNCHANGED admitted

(* Mutant of ReleaseSlot: nobody is notified. *)
ReleaseWithoutNotify(a) ==
  /\ where[a] = "in"
  /\ admitted' = admitted - 1
  /\ where' = [where EXCEPT ![a] = "out"]
  /\ UNCHANGED waiters

(* release(): the slot is free, and everyone looks again. *)
ReleaseSlot(a) ==
  /\ where[a] = "in"
  /\ admitted' = admitted - 1
  /\ where' = [NotifyAll(where) EXCEPT ![a] = "out"]
  /\ UNCHANGED waiters

(* A pool that begins or ends a shutdown notifies everyone. *)
NotifyEveryone ==
  /\ where' = NotifyAll(where)
  /\ UNCHANGED <<waiters, admitted>>

(* A step at the gate that neither claims nor frees a slot. *)
WaitStep(a) ==
  \/ Call(a) \/ AdmitObserverRaises(a) \/ Park(a) \/ ExpireBeforeWait(a)
  \/ ExpireWaiting(a) \/ Reject(a) \/ Cancel(a)

GateStep(a) == WaitStep(a) \/ Admit(a) \/ ReleaseSlot(a)
-----------------------------------------------------------------------------
GateTypeOK ==
  /\ where \in [Acquirers -> Places]
  /\ waiters \in Seq(Acquirers)
  /\ admitted \in 0..Capacity

(***************************************************************************)
(* The counter of admit() and release() is the number of acquisitions that *)
(* own a slot, on every path: no slot is leaked and none is freed twice.   *)
(***************************************************************************)
SlotsOwned == admitted = Cardinality(Holders)

(***************************************************************************)
(* The queue holds exactly one ticket of each acquisition that waits, and  *)
(* none of one that was admitted, rejected, cancelled or timed out: a dead *)
(* ticket at the head would block every later waiter.                      *)
(***************************************************************************)
TicketsOwned ==
  /\ IsInjective(waiters)
  /\ \A a \in Acquirers : a \in Range(waiters) <=> where[a] \in {"parked", "woken"}

(***************************************************************************)
(* While a slot is free the first in the queue is awake, so it will look   *)
(* again without waiting for another release (#540).                       *)
(***************************************************************************)
NoLostWakeup ==
  (admitted < Capacity /\ waiters # <<>>) => where[Head(waiters)] = "woken"

GateInv == GateTypeOK /\ SlotsOwned /\ TicketsOwned /\ NoLostWakeup
=============================================================================
