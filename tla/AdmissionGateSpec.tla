-------------------------- MODULE AdmissionGateSpec --------------------------
(***************************************************************************)
(* The admission gate as a system of its own: its clients, and a pool that *)
(* stops and resumes accepting work.                                       *)
(***************************************************************************)
EXTENDS AdmissionGate

VARIABLE accepting   \* whether _check_accepting_work() returns without raising

systemVars == <<where, waiters, admitted, accepting>>

SystemInit == GateInit /\ accepting = TRUE

(* What the event loop does when it runs a task that looks at the gate. *)
Run(a) ==
  \/ /\ accepting
     /\ Admit(a) \/ AdmitObserverRaises(a) \/ Park(a) \/ ExpireBeforeWait(a)
  \/ ~accepting /\ Reject(a)

ClientStep(a) ==
  \/ Call(a) \/ Run(a) \/ ExpireWaiting(a) \/ Cancel(a) \/ ReleaseSlot(a)

(* The pool begins or abandons its shutdown under the condition's lock. *)
SetAccepting ==
  /\ accepting' = ~accepting
  /\ NotifyEveryone

(* A pool that quarantines itself does so in the step that frees the slot. *)
ReleaseRefusing(a) ==
  /\ ReleaseSlot(a)
  /\ accepting' = FALSE

SystemNext ==
  \/ \E a \in Acquirers : ClientStep(a) /\ UNCHANGED accepting
  \/ \E a \in Acquirers : ReleaseRefusing(a)
  \/ SetAccepting

SystemSpec == SystemInit /\ [][SystemNext]_systemVars

(* The event loop runs every ready task, and every lease is given back. *)
SystemFairness ==
  \A a \in Acquirers : /\ WF_systemVars(Run(a) /\ UNCHANGED accepting)
                       /\ WF_systemVars(ReleaseSlot(a) /\ UNCHANGED accepting)

SystemFairSpec == SystemSpec /\ SystemFairness
-----------------------------------------------------------------------------
(* Once work is refused nobody stays asleep in the queue. *)
RefusalWakesAll ==
  ~accepting => \A a \in Acquirers : where[a] # "parked"

(***************************************************************************)
(* The gate seen through its promise.  ImplementsFifo: admit() and         *)
(* release() implement a first-come first-served semaphore, and a client   *)
(* that is first while there is room is let in: no ticket overtakes        *)
(* another and no wake-up is lost.                                         *)
(***************************************************************************)
Promise == INSTANCE FifoSemaphore
             WITH Clients <- Acquirers, Slots <- Capacity,
                  line <- waiters, inside <- Holders, open <- accepting

ImplementsFifo == Promise!FifoFairSpec

(***************************************************************************)
(* Every acquisition that calls admit() is served or gives up, if leases   *)
(* are given back: a stream of newcomers cannot starve a queued ticket.    *)
(***************************************************************************)
NobodyStarves ==
  \A a \in Acquirers :
    (where[a] \in {"fresh", "parked", "woken"}) ~> (where[a] \in {"out", "in"})
=============================================================================
