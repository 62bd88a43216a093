------------------------- MODULE AdmissionGateProofs -------------------------
(***************************************************************************)
(* The invariants of the admission gate, for every set of acquisitions and *)
(* every capacity.  GateInv is inductive as it stands: each conjunct needs *)
(* the others.  The modules that extend AdmissionGate use these lemmas.    *)
(***************************************************************************)
EXTENDS AdmissionGateSpec, SequenceLemmas, FiniteSetTheorems, TLAPS

(* What notify_all leaves behind. *)
LEMMA NotifyAllProperties ==
  ASSUME NEW w \in [Acquirers -> Places]
  PROVE  /\ NotifyAll(w) \in [Acquirers -> Places]
         /\ \A a \in Acquirers :
              /\ NotifyAll(w)[a] # "parked"
              /\ w[a] \in {"parked", "woken"} <=> NotifyAll(w)[a] = "woken"
              /\ w[a] \notin {"parked", "woken"} => NotifyAll(w)[a] = w[a]
BY DEF NotifyAll, Places

(* The slots change hands with the counter. *)
LEMMA HoldersFinite == IsFiniteSet(Holders) /\ Cardinality(Holders) \in Nat
<1>1. Holders \subseteq Acquirers
  BY DEF Holders
<1> QED BY <1>1, AcquirersAssumption, FS_Subset, FS_CardinalityType

(***************************************************************************)
(* An acquisition drops out of the gate by _discard_waiter.                *)
(***************************************************************************)
LEMMA DiscardPreserves ==
  ASSUME GateInv, NEW a \in Acquirers, where[a] # "in",
         DiscardWaiter(a), UNCHANGED admitted
  PROVE  GateInv'
<1> USE DEF GateInv
<1>1. where \in [Acquirers -> Places] /\ waiters \in Seq(Acquirers) /\ IsInjective(waiters)
  BY DEF GateTypeOK, TicketsOwned
<1>2. /\ waiters' \in Seq(Acquirers)
      /\ IsInjective(waiters')
      /\ \A x \in Acquirers : x \in Range(waiters') <=> x \in Range(waiters) /\ x # a
  BY <1>1, WithoutProperties DEF DiscardWaiter
<1>3. /\ where' \in [Acquirers -> Places]
      /\ where'[a] = "out"
      /\ \A x \in Acquirers :
           /\ where'[x] # "parked"
           /\ x # a => (where'[x] = "woken" <=> where[x] \in {"parked", "woken"})
           /\ where'[x] = "in" <=> where[x] = "in"
  BY <1>1, NotifyAllProperties DEF DiscardWaiter, Places
<1>4. GateTypeOK'
  BY <1>2, <1>3 DEF GateTypeOK
<1>5. SlotsOwned'
  <2>1. Holders' = Holders
    BY <1>3 DEF Holders
  <2> QED BY <2>1 DEF SlotsOwned
<1>6. TicketsOwned'
  BY <1>2, <1>3 DEF TicketsOwned
<1>7. NoLostWakeup'
  BY <1>2, <1>3, <1>6, TailProperties DEF NoLostWakeup, TicketsOwned
<1> QED BY <1>4, <1>5, <1>6, <1>7

(* A slot is given back. *)
LEMMA ReleasePreserves ==
  ASSUME GateInv, NEW a \in Acquirers, ReleaseSlot(a)
  PROVE  GateInv'
<1> USE DEF GateInv
<1>1. where \in [Acquirers -> Places] /\ waiters \in Seq(Acquirers) /\ IsInjective(waiters)
  BY DEF GateTypeOK, TicketsOwned
<1>2. where[a] = "in" /\ waiters' = waiters /\ admitted' = admitted - 1
  BY DEF ReleaseSlot
<1>3. /\ where' \in [Acquirers -> Places]
      /\ \A x \in Acquirers :
           /\ where'[x] # "parked"
           /\ where'[x] = "woken" <=> where[x] \in {"parked", "woken"}
           /\ where'[x] = "in" <=> where[x] = "in" /\ x # a
  BY <1>1, <1>2, NotifyAllProperties DEF ReleaseSlot, Places
<1>4. admitted' \in 0..Capacity /\ SlotsOwned'
  <2>1. Holders' = Holders \ {a} /\ a \in Holders
    BY <1>2, <1>3 DEF Holders
  <2>2. Cardinality(Holders') = Cardinality(Holders) - 1
    BY <2>1, HoldersFinite, FS_RemoveElement
  <2>3. Cardinality(Holders') \in Nat
    BY <2>1, HoldersFinite, FS_RemoveElement, FS_CardinalityType
  <2> QED BY <1>2, <2>2, <2>3, CapacityAssumption DEF SlotsOwned, GateTypeOK
<1>5. GateTypeOK'
  BY <1>1, <1>2, <1>3, <1>4 DEF GateTypeOK
<1>6. TicketsOwned'
  BY <1>2, <1>3 DEF TicketsOwned
<1>7. NoLostWakeup'
  BY <1>1, <1>2, <1>3, <1>6, TailProperties DEF NoLostWakeup, TicketsOwned
<1> QED BY <1>4, <1>5, <1>6, <1>7

(***************************************************************************)
(* The head of the queue takes its ticket, or a newcomer finds no queue.   *)
(***************************************************************************)
LEMMA PopOwnTicketProperties ==
  ASSUME GateTypeOK, TicketsOwned, NEW a \in Acquirers, Looks(a),
         WaiterIsServedFirst(a), PopOwnTicket(a)
  PROVE  /\ waiters' \in Seq(Acquirers)
         /\ IsInjective(waiters')
         /\ \A x \in Acquirers : x \in Range(waiters') <=> x \in Range(waiters) /\ x # a
<1>1. waiters \in Seq(Acquirers) /\ IsInjective(waiters)
  BY DEF GateTypeOK, TicketsOwned
<1>2. CASE where[a] = "fresh"
  <2>1. waiters' = waiters /\ a \notin Range(waiters)
    BY <1>2 DEF PopOwnTicket, TicketsOwned
  <2> QED BY <1>1, <2>1
<1>3. CASE where[a] = "woken"
  <2>1. waiters # <<>> /\ Head(waiters) = a /\ waiters' = Tail(waiters)
    BY <1>3 DEF WaiterIsServedFirst, PopOwnTicket
  <2> QED BY <1>1, <2>1, TailProperties
<1> QED BY <1>2, <1>3 DEF Looks

LEMMA AdmitPreserves ==
  ASSUME GateInv, NEW a \in Acquirers, Admit(a)
  PROVE  GateInv'
<1> USE DEF GateInv
<1>1. where \in [Acquirers -> Places] /\ Looks(a) /\ admitted \in Nat /\ admitted < Capacity
  BY CapacityAssumption DEF Admit, MayClaim, GateTypeOK
<1>2. /\ waiters' \in Seq(Acquirers)
      /\ IsInjective(waiters')
      /\ \A x \in Acquirers : x \in Range(waiters') <=> x \in Range(waiters) /\ x # a
  BY PopOwnTicketProperties DEF Admit, MayClaim
<1>3. /\ where' \in [Acquirers -> Places]
      /\ where'[a] = "in"
      /\ \A x \in Acquirers \ {a} :
           /\ where'[x] \in {"parked", "woken"} <=> where[x] \in {"parked", "woken"}
           /\ where'[x] = "in" <=> where[x] = "in"
           /\ admitted' < Capacity => where'[x] # "parked"
  <2>1. CASE admitted + 1 < Capacity
    BY <1>1, <2>1, NotifyAllProperties DEF Admit, Places, WakeNewHead
  <2>2. CASE ~(admitted + 1 < Capacity)
    BY <1>1, <2>2 DEF Admit, Places, WakeNewHead
  <2> QED BY <2>1, <2>2
<1>4. admitted' \in 0..Capacity /\ SlotsOwned'
  <2>1. Holders' = Holders \cup {a} /\ a \notin Holders
    BY <1>1, <1>3 DEF Holders, Looks
  <2>2. Cardinality(Holders') = Cardinality(Holders) + 1
    BY <2>1, HoldersFinite, FS_AddElement
  <2>3. admitted' = admitted + 1
    BY DEF Admit
  <2> QED BY <1>1, <2>2, <2>3, CapacityAssumption DEF SlotsOwned
<1>5. GateTypeOK'
  BY <1>2, <1>3, <1>4 DEF GateTypeOK
<1>6. TicketsOwned'
  BY <1>2, <1>3 DEF TicketsOwned
<1>7. NoLostWakeup'
  <2> SUFFICES ASSUME admitted' < Capacity, waiters' # <<>>
               PROVE  where'[Head(waiters')] = "woken"
    BY DEF NoLostWakeup
  <2>1. Head(waiters') \in Acquirers /\ Head(waiters') \in Range(waiters')
    BY <1>2, TailProperties
  <2> QED BY <1>2, <1>3, <1>6, <2>1 DEF TicketsOwned
<1> QED BY <1>4, <1>5, <1>6, <1>7

LEMMA AdmitObserverRaisesPreserves ==
  ASSUME GateInv, NEW a \in Acquirers, AdmitObserverRaises(a)
  PROVE  GateInv'
<1> USE DEF GateInv
<1>1. where \in [Acquirers -> Places] /\ Looks(a) /\ admitted' = admitted
  BY DEF AdmitObserverRaises, GateTypeOK
<1>2. /\ waiters' \in Seq(Acquirers)
      /\ IsInjective(waiters')
      /\ \A x \in Acquirers : x \in Range(waiters') <=> x \in Range(waiters) /\ x # a
  BY PopOwnTicketProperties DEF AdmitObserverRaises, MayClaim
<1>3. /\ where' \in [Acquirers -> Places]
      /\ where'[a] = "out"
      /\ \A x \in Acquirers :
           /\ where'[x] # "parked"
           /\ x # a => (where'[x] = "woken" <=> where[x] \in {"parked", "woken"})
           /\ where'[x] = "in" <=> where[x] = "in"
  BY <1>1, NotifyAllProperties DEF AdmitObserverRaises, Places, Looks
<1>4. GateTypeOK'
  BY <1>1, <1>2, <1>3 DEF GateTypeOK
<1>5. SlotsOwned'
  <2>1. Holders' = Holders
    BY <1>3 DEF Holders
  <2> QED BY <1>1, <2>1 DEF SlotsOwned
<1>6. TicketsOwned'
  BY <1>2, <1>3 DEF TicketsOwned
<1>7. NoLostWakeup'
  BY <1>2, <1>3, <1>6, TailProperties DEF NoLostWakeup, TicketsOwned
<1> QED BY <1>4, <1>5, <1>6, <1>7

(***************************************************************************)
(* Waiting is safe only because the one that parks could not have claimed: *)
(* if it is first in the queue, no slot is free.                           *)
(***************************************************************************)
LEMMA ParkPreserves ==
  ASSUME GateInv, NEW a \in Acquirers, Park(a)
  PROVE  GateInv'
<1> USE DEF GateInv
<1>1. /\ where \in [Acquirers -> Places]
      /\ waiters \in Seq(Acquirers)
      /\ IsInjective(waiters)
      /\ where[a] \in {"fresh", "woken"}
      /\ admitted' = admitted
  BY DEF Park, GateTypeOK, TicketsOwned, Looks
<1>2. /\ where' \in [Acquirers -> Places]
      /\ where'[a] = "parked"
      /\ \A x \in Acquirers \ {a} : where'[x] = where[x]
  BY <1>1 DEF Park, Places
<1>3. /\ waiters' \in Seq(Acquirers)
      /\ IsInjective(waiters')
      /\ waiters' # <<>>
      /\ Head(waiters') = IF waiters = <<>> THEN a ELSE Head(waiters)
      /\ \A x \in Acquirers : x \in Range(waiters') <=> x \in Range(waiters) \/ x = a
  <2>1. CASE where[a] = "fresh"
    <3>1. waiters' = Append(waiters, a) /\ a \notin Range(waiters)
      BY <2>1 DEF Park, TicketsOwned
    <3> QED BY <1>1, <3>1, AppendNewProperties
  <2>2. CASE where[a] = "woken"
    <3>1. waiters' = waiters /\ a \in Range(waiters)
      BY <2>2 DEF Park, TicketsOwned
    <3>2. waiters # <<>>
      BY <3>1, NoElements, QueueElements DEF Range
    <3> QED BY <1>1, <3>1, <3>2
  <2> QED BY <1>1, <2>1, <2>2
<1>4. GateTypeOK'
  BY <1>1, <1>2, <1>3 DEF GateTypeOK
<1>5. SlotsOwned'
  <2>1. Holders' = Holders
    BY <1>1, <1>2 DEF Holders
  <2> QED BY <1>1, <2>1 DEF SlotsOwned
<1>6. TicketsOwned'
  BY <1>2, <1>3 DEF TicketsOwned
<1>7. NoLostWakeup'
  <2> SUFFICES ASSUME admitted < Capacity
               PROVE  where'[Head(waiters')] = "woken"
    BY <1>1 DEF NoLostWakeup
  <2>1. ~WaiterIsServedFirst(a)
    BY DEF Park, MayClaim
  <2>2. waiters # <<>> /\ Head(waiters) # a
    <3>1. CASE where[a] = "fresh"
      <4>1. waiters # <<>> /\ a \notin Range(waiters)
        BY <2>1, <3>1 DEF WaiterIsServedFirst, TicketsOwned
      <4> QED BY <1>1, <4>1, TailProperties
    <3>2. CASE where[a] = "woken"
      <4>1. a \in Range(waiters)
        BY <3>2 DEF TicketsOwned
      <4>2. waiters # <<>>
        BY <4>1, NoElements, QueueElements DEF Range
      <4> QED BY <2>1, <3>2, <4>2 DEF WaiterIsServedFirst
    <3> QED BY <1>1, <3>1, <3>2
  <2>3. Head(waiters) \in Acquirers /\ where[Head(waiters)] = "woken"
    BY <1>1, <2>2, TailProperties DEF NoLostWakeup
  <2> QED BY <1>2, <1>3, <2>2, <2>3
<1> QED BY <1>4, <1>5, <1>6, <1>7

(* An acquisition that owns neither ticket nor slot enters or leaves. *)
LEMMA MovePreserves ==
  ASSUME GateInv, NEW a \in Acquirers, NEW p \in {"out", "fresh"},
         where[a] \in {"out", "fresh"}, where' = [where EXCEPT ![a] = p],
         UNCHANGED <<waiters, admitted>>
  PROVE  GateInv'
<1> USE DEF GateInv
<1>1. /\ where' \in [Acquirers -> Places]
      /\ where'[a] \in {"out", "fresh"}
      /\ \A x \in Acquirers \ {a} : where'[x] = where[x]
  BY DEF GateTypeOK, Places
<1>2. GateTypeOK'
  BY <1>1 DEF GateTypeOK
<1>3. SlotsOwned'
  <2>1. Holders' = Holders
    BY <1>1 DEF Holders
  <2> QED BY <2>1 DEF SlotsOwned
<1>4. TicketsOwned'
  BY <1>1 DEF TicketsOwned
<1>5. NoLostWakeup'
  <2> SUFFICES ASSUME admitted < Capacity, waiters # <<>>
               PROVE  where'[Head(waiters)] = "woken"
    BY DEF NoLostWakeup
  <2>1. Head(waiters) \in Acquirers
    BY TailProperties DEF GateTypeOK, TicketsOwned
  <2> QED BY <1>1, <2>1 DEF NoLostWakeup
<1> QED BY <1>2, <1>3, <1>4, <1>5

(* A pool wakes everyone, at either end of a shutdown. *)
LEMMA NotifyPreserves ==
  ASSUME GateInv, NotifyEveryone
  PROVE  GateInv'
<1> USE DEF GateInv
<1>1. where \in [Acquirers -> Places] /\ waiters \in Seq(Acquirers) /\ IsInjective(waiters)
  BY DEF GateTypeOK, TicketsOwned
<1>2. /\ where' \in [Acquirers -> Places]
      /\ \A x \in Acquirers :
           /\ where'[x] # "parked"
           /\ where'[x] = "woken" <=> where[x] \in {"parked", "woken"}
           /\ where'[x] = "in" <=> where[x] = "in"
  BY <1>1, NotifyAllProperties DEF NotifyEveryone, Places
<1>3. waiters' = waiters /\ admitted' = admitted
  BY DEF NotifyEveryone, GateTypeOK
<1>4. GateTypeOK'
  BY <1>2, <1>3 DEF GateTypeOK
<1>5. SlotsOwned'
  <2>1. Holders' = Holders
    BY <1>2 DEF Holders
  <2> QED BY <1>3, <2>1 DEF SlotsOwned
<1>6. TicketsOwned'
  BY <1>2, <1>3 DEF TicketsOwned
<1>7. NoLostWakeup'
  BY <1>1, <1>2, <1>3, <1>6, TailProperties DEF NoLostWakeup, TicketsOwned
<1> QED BY <1>4, <1>5, <1>6, <1>7
-----------------------------------------------------------------------------
LEMMA GateInitEstablishes == GateInit => GateInv
<1> SUFFICES ASSUME GateInit PROVE GateInv
  OBVIOUS
<1>1. waiters = <<>> /\ admitted = 0 /\ where = [a \in Acquirers |-> "out"]
  BY DEF GateInit
<1>2. Holders = {}
  BY <1>1 DEF Holders
<1>3. SlotsOwned
  BY <1>1, <1>2, FS_EmptySet DEF SlotsOwned
<1>4. GateTypeOK
  BY <1>1, CapacityAssumption, NoElements DEF GateTypeOK, Places
<1>5. TicketsOwned
  BY <1>1 DEF TicketsOwned, IsInjective, Range
<1>6. NoLostWakeup
  BY <1>1 DEF NoLostWakeup
<1> QED BY <1>3, <1>4, <1>5, <1>6 DEF GateInv

(* Every step of an acquisition at the gate keeps the invariant. *)
LEMMA GateStepPreserves ==
  ASSUME GateInv, NEW a \in Acquirers, GateStep(a)
  PROVE  GateInv'
<1>1. CASE Call(a)
  BY <1>1, MovePreserves DEF Call
<1>2. CASE Admit(a)
  BY <1>2, AdmitPreserves
<1>3. CASE AdmitObserverRaises(a)
  BY <1>3, AdmitObserverRaisesPreserves
<1>4. CASE Park(a)
  BY <1>4, ParkPreserves
<1>5. CASE ExpireBeforeWait(a)
  BY <1>5, DiscardPreserves DEF ExpireBeforeWait, Looks
<1>6. CASE ExpireWaiting(a)
  BY <1>6, DiscardPreserves DEF ExpireWaiting
<1>7. CASE (Reject(a) \/ Cancel(a)) /\ where[a] = "fresh"
  BY <1>7, MovePreserves DEF Reject, Cancel, Finally
<1>8. CASE (Reject(a) \/ Cancel(a)) /\ where[a] # "fresh"
  BY <1>8, DiscardPreserves DEF Reject, Cancel, Finally, Looks
<1>9. CASE ReleaseSlot(a)
  BY <1>9, ReleasePreserves
<1> QED BY <1>1, <1>2, <1>3, <1>4, <1>5, <1>6, <1>7, <1>8, <1>9
        DEF GateStep, WaitStep

(* The invariant speaks of the gate's variables only. *)
LEMMA GateStutterPreserves ==
  ASSUME GateInv, UNCHANGED gateVars
  PROVE  GateInv'
BY DEF gateVars, GateInv, GateTypeOK, SlotsOwned, Holders, TicketsOwned, NoLostWakeup

(* Only Park puts an acquisition to sleep. *)
LEMMA OnlyParkSleeps ==
  ASSUME GateTypeOK, NEW a \in Acquirers, NEW b \in Acquirers,
         \/ Call(a) \/ AdmitObserverRaises(a) \/ ExpireBeforeWait(a)
         \/ ExpireWaiting(a) \/ Reject(a) \/ Cancel(a)
         \/ Admit(a) \/ ReleaseSlot(a),
         where'[b] = "parked"
  PROVE  where[b] = "parked"
<1>1. where \in [Acquirers -> Places]
  BY DEF GateTypeOK
<1> QED BY <1>1, NotifyAllProperties
        DEF Call, Admit, WakeNewHead, AdmitObserverRaises, ExpireBeforeWait,
            ExpireWaiting, Reject, Cancel, Finally, DiscardWaiter, ReleaseSlot, Places

(* A freed slot and a notification leave nobody asleep. *)
LEMMA NotifiedWakesAll ==
  ASSUME GateTypeOK, NotifyEveryone \/ \E a \in Acquirers : ReleaseSlot(a)
  PROVE  \A b \in Acquirers : where'[b] # "parked"
<1>1. where \in [Acquirers -> Places]
  BY DEF GateTypeOK
<1> QED BY <1>1, NotifyAllProperties DEF NotifyEveryone, ReleaseSlot, Places
-----------------------------------------------------------------------------
(* Who owns a slot after a step, for the pools. *)

(* A step that neither claims nor frees a slot. *)
LEMMA WaitKeepsSlots ==
  ASSUME GateInv, NEW a \in Acquirers, WaitStep(a)
  PROVE  /\ admitted' = admitted
         /\ \A b \in Acquirers : where'[b] = "in" <=> where[b] = "in"
<1>1. where \in [Acquirers -> Places]
  BY DEF GateInv, GateTypeOK
<1> QED BY <1>1, Zenon DEF WaitStep, Call, AdmitObserverRaises, Park, ExpireBeforeWait,
                    ExpireWaiting, Reject, Cancel, Finally, DiscardWaiter, Looks, NotifyAll

(* admit() hands one slot to one acquisition. *)
LEMMA AdmitClaimsSlot ==
  ASSUME GateInv, NEW a \in Acquirers, Admit(a)
  PROVE  /\ admitted' = admitted + 1 /\ admitted < Capacity
         /\ where[a] # "in" /\ where'[a] = "in"
         /\ \A b \in Acquirers \ {a} : where'[b] = "in" <=> where[b] = "in"
<1>1. where \in [Acquirers -> Places]
  BY DEF GateInv, GateTypeOK
<1> QED BY <1>1 DEF Admit, Looks, MayClaim, WakeNewHead, NotifyAll

(* release() takes it back. *)
LEMMA ReleaseFreesSlot ==
  ASSUME GateInv, NEW a \in Acquirers, ReleaseSlot(a)
  PROVE  /\ admitted' = admitted - 1 /\ admitted # 0
         /\ where[a] = "in" /\ where'[a] # "in"
         /\ \A b \in Acquirers \ {a} : where'[b] = "in" <=> where[b] = "in"
<1>1. where \in [Acquirers -> Places]
  BY DEF GateInv, GateTypeOK
<1>2. a \in Holders
  BY DEF ReleaseSlot, Holders
<1>3. admitted # 0
  BY <1>2, HoldersFinite, FS_EmptySet DEF GateInv, SlotsOwned
<1> QED BY <1>1, <1>3 DEF ReleaseSlot, NotifyAll

(* A notification moves no slot. *)
LEMMA NotifyKeepsSlots ==
  ASSUME GateInv, NotifyEveryone
  PROVE  /\ admitted' = admitted
         /\ \A b \in Acquirers : where'[b] = "in" <=> where[b] = "in"
BY DEF GateInv, GateTypeOK, NotifyEveryone, NotifyAll
-----------------------------------------------------------------------------
(* What a step changes of the line and the slots, for the semaphore. *)

(* It is not seen. *)
Stays == UNCHANGED <<waiters, Holders>>

Joins(a) ==
  /\ a \notin Holders /\ a \notin Range(waiters)
  /\ waiters' = Append(waiters, a) /\ UNCHANGED Holders

Quits(a) ==
  a \in Range(waiters) /\ waiters' = Without(waiters, a) /\ UNCHANGED Holders

(* It was first in the line, or there was none. *)
Enters(a) ==
  /\ Cardinality(Holders) < Capacity
  /\ Holders' = Holders \cup {a}
  /\ \/ waiters # <<>> /\ Head(waiters) = a /\ waiters' = Tail(waiters)
     \/ waiters = <<>> /\ a \notin Holders /\ UNCHANGED waiters

Leaves(a) == a \in Holders /\ Holders' = Holders \ {a} /\ UNCHANGED waiters

LEMMA DiscardMoves ==
  ASSUME GateInv, NEW a \in Acquirers, where[a] # "in", DiscardWaiter(a)
  PROVE  Stays \/ Quits(a)
<1>1. Holders' = Holders
  <2>1. where \in [Acquirers -> Places]
    BY DEF GateInv, GateTypeOK
  <2> QED BY <2>1, NotifyAllProperties DEF DiscardWaiter, Holders
<1>2. CASE a \in Range(waiters)
  BY <1>1, <1>2 DEF DiscardWaiter, Quits
<1>3. CASE a \notin Range(waiters)
  BY <1>1, <1>3 DEF DiscardWaiter, Without, Stays
<1> QED BY <1>2, <1>3

(* The slot that admit() claimed and gave back was never seen. *)
LEMMA ObserverRaisesMoves ==
  ASSUME GateInv, NEW a \in Acquirers, AdmitObserverRaises(a)
  PROVE  Stays \/ Quits(a)
<1>1. where \in [Acquirers -> Places] /\ Looks(a) /\ WaiterIsServedFirst(a) /\ PopOwnTicket(a)
  BY DEF AdmitObserverRaises, MayClaim, GateInv, GateTypeOK
<1>2. Holders' = Holders
  BY <1>1, NotifyAllProperties DEF AdmitObserverRaises, Holders, Looks, Places
<1>3. CASE where[a] = "fresh"
  BY <1>1, <1>2, <1>3 DEF PopOwnTicket, Stays
<1>4. CASE where[a] = "woken"
  <2>1. waiters # <<>> /\ Head(waiters) = a /\ waiters' = Tail(waiters)
    BY <1>1, <1>4 DEF WaiterIsServedFirst, PopOwnTicket
  <2>2. waiters \in Seq(Acquirers) /\ IsInjective(waiters)
    BY DEF GateInv, GateTypeOK, TicketsOwned
  <2>3. waiters' = Without(waiters, a) /\ a \in Range(waiters)
    BY <2>1, <2>2, WithoutHead, TailProperties
  <2> QED BY <1>2, <2>3 DEF Quits
<1> QED BY <1>1, <1>3, <1>4 DEF Looks

(* An acquisition that gets no slot joins the line, leaves it, or stays. *)
LEMMA WaitMoves ==
  ASSUME GateInv, NEW a \in Acquirers, WaitStep(a)
  PROVE  Stays \/ Joins(a) \/ Quits(a)
<1>1. where \in [Acquirers -> Places]
  BY DEF GateInv, GateTypeOK
<1>2. CASE Call(a)
  BY <1>1, <1>2 DEF Call, Holders, Stays
<1>3. CASE AdmitObserverRaises(a)
  BY <1>3, ObserverRaisesMoves
<1>4. CASE Park(a)
  <2>1. Holders' = Holders /\ a \notin Holders /\ where[a] \in {"fresh", "woken"}
    BY <1>1, <1>4 DEF Park, Holders, Looks
  <2>2. CASE where[a] = "fresh"
    <3>1. a \notin Range(waiters)
      BY <2>2 DEF GateInv, TicketsOwned
    <3> QED BY <1>4, <2>1, <2>2, <3>1 DEF Park, Joins
  <2>3. CASE where[a] = "woken"
    BY <1>4, <2>1, <2>3 DEF Park, Stays
  <2> QED BY <2>1, <2>2, <2>3
<1>5. CASE ExpireBeforeWait(a) \/ ExpireWaiting(a)
  BY <1>5, DiscardMoves DEF ExpireBeforeWait, ExpireWaiting, Looks
<1>6. CASE (Reject(a) \/ Cancel(a)) /\ where[a] = "fresh"
  BY <1>1, <1>6 DEF Reject, Cancel, Finally, Holders, Stays
<1>7. CASE (Reject(a) \/ Cancel(a)) /\ where[a] # "fresh"
  BY <1>7, DiscardMoves DEF Reject, Cancel, Finally, Looks
<1> QED BY <1>2, <1>3, <1>4, <1>5, <1>6, <1>7 DEF WaitStep

(* Whoever is admitted was first, and there was room. *)
LEMMA AdmitMoves ==
  ASSUME GateInv, NEW a \in Acquirers, Admit(a)
  PROVE  Enters(a)
<1>1. where \in [Acquirers -> Places] /\ Looks(a)
  BY DEF Admit, GateInv, GateTypeOK
<1>2. Holders' = Holders \cup {a} /\ a \notin Holders
  BY <1>1, NotifyAllProperties DEF Admit, WakeNewHead, Holders, Looks, Places
<1>3. Cardinality(Holders) < Capacity
  BY DEF Admit, MayClaim, GateInv, SlotsOwned
<1>4. CASE where[a] = "fresh"
  BY <1>2, <1>3, <1>4 DEF Admit, MayClaim, WaiterIsServedFirst, PopOwnTicket, Enters
<1>5. CASE where[a] = "woken"
  BY <1>2, <1>3, <1>5 DEF Admit, MayClaim, WaiterIsServedFirst, PopOwnTicket, Enters
<1> QED BY <1>1, <1>4, <1>5 DEF Looks

LEMMA ReleaseMoves ==
  ASSUME GateInv, NEW a \in Acquirers, ReleaseSlot(a)
  PROVE  Leaves(a)
<1>1. where \in [Acquirers -> Places]
  BY DEF GateInv, GateTypeOK
<1> QED BY <1>1, NotifyAllProperties DEF ReleaseSlot, Holders, Places, Leaves

LEMMA NotifyMoves ==
  ASSUME GateInv, NotifyEveryone
  PROVE  Stays
<1>1. where \in [Acquirers -> Places]
  BY DEF GateInv, GateTypeOK
<1> QED BY <1>1, NotifyAllProperties DEF NotifyEveryone, Holders, Stays

LEMMA StutterMoves ==
  ASSUME UNCHANGED gateVars
  PROVE  Stays
BY DEF gateVars, Holders, Stays
-----------------------------------------------------------------------------
(* The gate with its clients, and the semaphore that it implements. *)

(* Each step of the system is one of the gate, or a notification. *)
LEMMA NextIsGateStep ==
  ASSUME [SystemNext]_systemVars
  PROVE  \/ \E a \in Acquirers : GateStep(a)
         \/ NotifyEveryone
         \/ UNCHANGED gateVars
BY DEF SystemNext, ClientStep, Run, ReleaseRefusing, SetAccepting, GateStep, WaitStep,
       systemVars, gateVars

LEMMA GateNext == GateInv /\ [SystemNext]_systemVars => GateInv'
BY NextIsGateStep, GateStepPreserves, NotifyPreserves, GateStutterPreserves

(* Acquisitions only park while work is accepted, and refusing wakes them. *)
LEMMA RefusalNext == GateInv /\ RefusalWakesAll /\ [SystemNext]_systemVars => RefusalWakesAll'
<1> SUFFICES ASSUME GateInv, RefusalWakesAll, [SystemNext]_systemVars, ~accepting',
                    NEW b \in Acquirers, where'[b] = "parked"
             PROVE  FALSE
  BY DEF RefusalWakesAll
<1>1. GateTypeOK /\ where \in [Acquirers -> Places]
  BY DEF GateInv, GateTypeOK
<1>2. ASSUME NEW a \in Acquirers, ClientStep(a), UNCHANGED accepting PROVE FALSE
  BY <1>1, <1>2, OnlyParkSleeps DEF ClientStep, Run, RefusalWakesAll
<1>3. ASSUME NEW a \in Acquirers, ReleaseRefusing(a) PROVE FALSE
  BY <1>1, <1>3, NotifiedWakesAll DEF ReleaseRefusing
<1>4. CASE SetAccepting
  BY <1>1, <1>4, NotifiedWakesAll DEF SetAccepting
<1>5. CASE UNCHANGED systemVars
  BY <1>5 DEF systemVars, RefusalWakesAll
<1> QED BY <1>2, <1>3, <1>4, <1>5 DEF SystemNext

(***************************************************************************)
(* The counter and the queue of FairAdmissionGate always describe exactly  *)
(* the acquisitions that own a slot and those that wait, and nobody sleeps *)
(* through a free slot.                                                    *)
(***************************************************************************)
THEOREM GateCorrect == SystemSpec => []GateInv
<1>1. SystemInit => GateInv
  BY GateInitEstablishes DEF SystemInit
<1> QED BY <1>1, GateNext, PTL DEF SystemSpec

(* admit() never has more than capacity slots out, whatever is cancelled. *)
THEOREM GateSlotsOwned == SystemSpec => []SlotsOwned
<1>1. GateInv => SlotsOwned
  BY DEF GateInv
<1> QED BY <1>1, GateCorrect, PTL

(* No free slot with the first of the queue asleep (#540). *)
THEOREM GateNoLostWakeup == SystemSpec => []NoLostWakeup
<1>1. GateInv => NoLostWakeup
  BY DEF GateInv
<1> QED BY <1>1, GateCorrect, PTL

(* No ticket of an acquisition that no longer waits. *)
THEOREM GateTicketsOwned == SystemSpec => []TicketsOwned
<1>1. GateInv => TicketsOwned
  BY DEF GateInv
<1> QED BY <1>1, GateCorrect, PTL

(* A pool that refuses work has nobody asleep in its queue. *)
THEOREM GateRefusalWakesAll == SystemSpec => []RefusalWakesAll
<1>1. SystemInit => RefusalWakesAll
  BY DEF SystemInit, RefusalWakesAll
<1> QED BY <1>1, RefusalNext, GateCorrect, PTL DEF SystemSpec
-----------------------------------------------------------------------------
(* The operators that FifoSemaphore takes from the library are the gate's. *)
LEMMA SameOperators ==
  /\ \A S : Promise!Cardinality(S) = Cardinality(S)
  /\ \A s : Promise!Range(s) = Range(s)
  /\ \A s, e : Promise!Without(s, e) = Without(s, e)
<1>1. \A S : Promise!Cardinality(S) = Cardinality(S)
  BY Zenon DEF Promise!Cardinality, Cardinality, Promise!IsFiniteSet, IsFiniteSet
<1>2. \A s : Promise!Range(s) = Range(s)
  BY DEF Promise!Range, Range
<1>3. \A s, e : Promise!Without(s, e) = Without(s, e)
  BY <1>2 DEF Promise!Without, Without
<1> QED BY <1>1, <1>2, <1>3

(* What is seen of a step is a step of the semaphore. *)
LEMMA SeenIsFifoStep ==
  ASSUME NEW a \in Acquirers,
         \/ (Stays \/ Joins(a) \/ Quits(a) \/ Leaves(a)) /\ UNCHANGED accepting
         \/ Enters(a) /\ accepting /\ UNCHANGED accepting
         \/ Leaves(a) /\ accepting' = FALSE
  PROVE  [Promise!FifoNext]_(Promise!fifoVars)
<1> USE SameOperators DEF Promise!FifoNext
<1>1. CASE Stays /\ UNCHANGED accepting
  BY <1>1 DEF Stays, Promise!fifoVars
<1>2. CASE Joins(a) /\ UNCHANGED accepting
  BY <1>2 DEF Joins, Promise!Join
<1>3. CASE Quits(a) /\ UNCHANGED accepting
  BY <1>3 DEF Quits, Promise!Quit
<1>4. CASE Leaves(a) /\ UNCHANGED accepting
  BY <1>4 DEF Leaves, Promise!Leave
<1>5. CASE Enters(a) /\ accepting /\ UNCHANGED accepting
  BY <1>5 DEF Enters, Promise!Enter, Promise!EnterAtOnce, Promise!Room
<1>6. CASE Leaves(a) /\ accepting' = FALSE
  BY <1>6 DEF Leaves, Promise!LeaveAndShut
<1> QED BY <1>1, <1>2, <1>3, <1>4, <1>5, <1>6

LEMMA GateStepIsFifoStep ==
  ASSUME GateInv, [SystemNext]_systemVars
  PROVE  [Promise!FifoNext]_(Promise!fifoVars)
<1>1. ASSUME NEW a \in Acquirers, ClientStep(a), UNCHANGED accepting
      PROVE  [Promise!FifoNext]_(Promise!fifoVars)
  <2>1. CASE WaitStep(a)
    BY <1>1, <2>1, WaitMoves, SeenIsFifoStep
  <2>2. CASE Admit(a) /\ accepting
    BY <1>1, <2>2, AdmitMoves, SeenIsFifoStep
  <2>3. CASE ReleaseSlot(a)
    BY <1>1, <2>3, ReleaseMoves, SeenIsFifoStep
  <2> QED BY <1>1, <2>1, <2>2, <2>3 DEF ClientStep, Run, WaitStep
<1>2. ASSUME NEW a \in Acquirers, ReleaseRefusing(a)
      PROVE  [Promise!FifoNext]_(Promise!fifoVars)
  BY <1>2, ReleaseMoves, SeenIsFifoStep DEF ReleaseRefusing
<1>3. CASE SetAccepting
  BY <1>3, NotifyMoves DEF SetAccepting, Stays, Promise!FifoNext, Promise!OpenOrShut
<1>4. CASE UNCHANGED systemVars
  BY <1>4, StutterMoves DEF systemVars, gateVars, Stays, Promise!fifoVars
<1> QED BY <1>1, <1>2, <1>3, <1>4 DEF SystemNext

(***************************************************************************)
(* Tickets, wake-ups and re-checks add up to a first-come first-served     *)
(* semaphore: every step of the gate is a step of FifoSemaphore or none.   *)
(***************************************************************************)
THEOREM GateImplementsFifo == SystemSpec => Promise!FifoSpec
<1>1. SystemInit => Promise!FifoInit
  BY DEF SystemInit, GateInit, Promise!FifoInit, Holders
<1>2. GateInv /\ [SystemNext]_systemVars => [Promise!FifoNext]_(Promise!fifoVars)
  BY GateStepIsFifoStep
<1> QED BY <1>1, <1>2, GateCorrect, PTL DEF SystemSpec, Promise!FifoSpec
==============================================================================
