-------------------------- MODULE MariaDBPoolProofs --------------------------
(***************************************************************************)
(* Ownership, size and settings of the MariaDB pool, for every set of      *)
(* acquisitions, every pool_size and every set of connections.  PoolInv is *)
(* inductive: the gate's own invariant says who holds a slot, OneOwner     *)
(* what the driver counts behind it, and a marked connection is one whose  *)
(* session has the settings.                                               *)
(***************************************************************************)
EXTENDS MariaDBPool, AdmissionGateProofs

CloserPlaces == {"none", "waiting", "notified"}

PoolTypeOK ==
  /\ closed \in BOOLEAN /\ closing \in BOOLEAN
  /\ free \in SUBSET Conns /\ used \in SUBSET Conns
  /\ settled \in SUBSET Conns /\ marked \in SUBSET settled
  /\ phase \in [Acquirers -> Phases]
  /\ conn \in [Acquirers -> Conns \cup {NoConn}]
  /\ closer \in CloserPlaces

(* The driver opens no connection beyond its maxsize. *)
WithinPoolSize == Size <= PoolSize

(* A closed pool has no free connection, and nobody has one in hand. *)
ClosedIsEmpty == closed => free = {} /\ admitted = 0

PoolInv ==
  GateInv /\ PoolTypeOK /\ OneOwner /\ LeasedIsSettled /\ WithinPoolSize /\ ClosedIsEmpty
-----------------------------------------------------------------------------
(* The size of the driver pool *)

(* Two sets of connections that share none. *)
LEMMA SizeOfBoth ==
  ASSUME NEW F \in SUBSET Conns, NEW U \in SUBSET Conns, F \cap U = {}
  PROVE  /\ Cardinality(F) \in Nat /\ Cardinality(U) \in Nat
         /\ IsFiniteSet(F \cup U)
         /\ Cardinality(F) + Cardinality(U) = Cardinality(F \cup U)
<1>1. IsFiniteSet(F) /\ IsFiniteSet(U)
  BY ConnsAssumption, FS_Subset
<1>2. Cardinality(F) \in Nat /\ Cardinality(U) \in Nat
  BY <1>1, FS_CardinalityType
<1>3. /\ IsFiniteSet(F \cup U)
      /\ Cardinality(F \cup U) = Cardinality(F) + Cardinality(U) - Cardinality(F \cap U)
  BY <1>1, FS_Union
<1>4. Cardinality(F \cap U) = 0
  BY FS_EmptySet
<1> QED BY <1>2, <1>3, <1>4

LEMMA OpeningSize ==
  ASSUME NEW O \in SUBSET Acquirers
  PROVE  IsFiniteSet(O) /\ Cardinality(O) \in Nat
BY AcquirersAssumption, FS_Subset, FS_CardinalityType

(* A step that brings no connection into the driver pool. *)
LEMMA NothingOpened ==
  ASSUME PoolTypeOK, OneOwner, WithinPoolSize,
         free' \cap used' = {}, free' \cup used' \subseteq free \cup used,
         Opening' \subseteq Opening
  PROVE  WithinPoolSize'
<1>1. /\ Cardinality(free) \in Nat /\ Cardinality(used) \in Nat /\ IsFiniteSet(free \cup used)
      /\ Cardinality(free) + Cardinality(used) = Cardinality(free \cup used)
  <2>1. free \in SUBSET Conns /\ used \in SUBSET Conns /\ free \cap used = {}
    BY DEF PoolTypeOK, OneOwner
  <2> QED BY <2>1, SizeOfBoth, Zenon
<1>2. /\ Cardinality(free') \in Nat /\ Cardinality(used') \in Nat
      /\ Cardinality(free') + Cardinality(used') = Cardinality(free' \cup used')
  <2>1. free' \in SUBSET Conns /\ used' \in SUBSET Conns
    BY DEF PoolTypeOK
  <2> QED BY <2>1, SizeOfBoth
<1>3. Cardinality(free' \cup used') <= Cardinality(free \cup used)
  BY <1>1, FS_Subset
<1>4. /\ Cardinality(Opening) \in Nat /\ Cardinality(Opening') \in Nat
      /\ Cardinality(Opening') <= Cardinality(Opening)
  <2>1. Opening \in SUBSET Acquirers /\ Opening' \in SUBSET Acquirers
    BY DEF Opening
  <2> QED BY <2>1, OpeningSize, FS_Subset
<1>5. PoolSize \in Nat /\ PoolSize' = PoolSize
  BY CapacityAssumption DEF PoolSize
<1>6. Size <= PoolSize
  BY DEF WithinPoolSize
<1> HIDE DEF Opening
<1> QED BY <1>1, <1>2, <1>3, <1>4, <1>5, <1>6 DEF WithinPoolSize, Size

(* What acquisitions have in hand is never more than their slots. *)
LEMMA InHandWithinSlots ==
  ASSUME GateInv, PoolTypeOK, OneOwner, NEW H \in SUBSET Holders,
         \A a \in Acquirers : phase[a] \in WithConn \cup {"connecting"} => a \in H
  PROVE  /\ Cardinality(used) \in Nat /\ Cardinality(Opening) \in Nat
         /\ Cardinality(used) + Cardinality(Opening) <= Cardinality(H)
<1> DEFINE W == {a \in Acquirers : phase[a] \in WithConn}
           f == [a \in W |-> conn[a]]
<1>1. /\ IsFiniteSet(W) /\ Cardinality(W) \in Nat
      /\ IsFiniteSet(Opening) /\ Cardinality(Opening) \in Nat
  BY OpeningSize DEF Opening
<1>2. f \in Surjection(W, used)
  <2>1. \A a \in W : f[a] \in used
    BY DEF OneOwner
  <2>2. \A c \in used : \E a \in W : f[a] = c
    BY DEF OneOwner
  <2> QED BY <2>1, <2>2, Zenon DEF Surjection
<1>3. IsFiniteSet(used) /\ Cardinality(used) \in Nat /\ Cardinality(used) <= Cardinality(W)
  BY <1>1, <1>2, FS_Surjection, FS_CardinalityType
<1>4. W \cap Opening = {} /\ W \cup Opening \subseteq H
  BY DEF Opening, WithConn
<1>5. Cardinality(W \cup Opening) = Cardinality(W) + Cardinality(Opening)
  <2>1. Cardinality(W \cup Opening)
          = Cardinality(W) + Cardinality(Opening) - Cardinality(W \cap Opening)
    BY <1>1, FS_Union
  <2>2. Cardinality(W \cap Opening) = 0
    BY <1>4, FS_EmptySet
  <2> QED BY <1>1, <2>1, <2>2
<1>6. Cardinality(W \cup Opening) <= Cardinality(H) /\ Cardinality(H) \in Nat
  <2>1. IsFiniteSet(H)
    BY HoldersFinite, FS_Subset
  <2> QED BY <1>4, <2>1, FS_Subset, FS_CardinalityType
<1> HIDE DEF W, f
<1> QED BY <1>1, <1>3, <1>5, <1>6

(***************************************************************************)
(* The driver has a connection, or room for one, for everybody admitted.   *)
(***************************************************************************)
LEMMA SlotsAreEnough ==
  ASSUME GateInv, PoolTypeOK, OneOwner
  PROVE  DriverNeverBlocks
<1> SUFFICES ASSUME \/ \E a \in Acquirers : phase[a] \in {"locking", "retry"}
                    \/ admitted < PoolSize,
                    free = {}
             PROVE  Size < PoolSize
  BY DEF DriverNeverBlocks
<1>1. PICK H \in SUBSET Holders :
        /\ \A a \in Acquirers : phase[a] \in WithConn \cup {"connecting"} => a \in H
        /\ Cardinality(H) < PoolSize
  <2>1. \A a \in Acquirers : phase[a] \in WithConn \cup {"connecting"} => a \in Holders
    BY DEF OneOwner, Holders, WithConn
  <2>2. /\ admitted \in Nat /\ PoolSize \in Nat /\ admitted <= PoolSize
        /\ admitted = Cardinality(Holders)
    BY CapacityAssumption DEF GateInv, GateTypeOK, SlotsOwned, PoolSize
  <2>3. CASE admitted < PoolSize
    BY <2>1, <2>2, <2>3
  <2>4. ASSUME NEW a \in Acquirers, phase[a] \in {"locking", "retry"}
        PROVE  \E H \in SUBSET Holders :
                 /\ \A b \in Acquirers : phase[b] \in WithConn \cup {"connecting"} => b \in H
                 /\ Cardinality(H) < PoolSize
    <3>1. a \in Holders
      BY <2>4 DEF OneOwner, Holders
    <3>2. Cardinality(Holders \ {a}) = Cardinality(Holders) - 1
      BY <3>1, HoldersFinite, FS_RemoveElement, Zenon
    <3>3. \A b \in Acquirers : phase[b] \in WithConn \cup {"connecting"} => b \in Holders \ {a}
      BY <2>1, <2>4 DEF WithConn
    <3> WITNESS Holders \ {a} \in SUBSET Holders
    <3> QED BY <2>2, <3>2, <3>3
  <2> QED BY <2>3, <2>4
<1>2. /\ Cardinality(used) \in Nat /\ Cardinality(Opening) \in Nat
      /\ Cardinality(used) + Cardinality(Opening) <= Cardinality(H)
  BY <1>1, InHandWithinSlots
<1>3. Cardinality(H) \in Nat /\ PoolSize \in Nat
  BY HoldersFinite, FS_Subset, FS_CardinalityType, CapacityAssumption DEF PoolSize
<1>4. Cardinality(free) = 0
  BY FS_EmptySet
<1> HIDE DEF Opening
<1> QED BY <1>1, <1>2, <1>3, <1>4 DEF Size
-----------------------------------------------------------------------------
(* Ownership *)

(* Nobody holds a slot of a closed pool. *)
LEMMA ClosedHasNoSlots ==
  ASSUME PoolInv, NEW a \in Acquirers, phase[a] # "none" \/ CheckAcceptingWork
  PROVE  ~closed
<1> SUFFICES ASSUME closed PROVE FALSE
  OBVIOUS
<1>1. Cardinality(Holders) = 0 /\ a \in Holders
  BY DEF PoolInv, ClosedIsEmpty, GateInv, SlotsOwned, OneOwner, Holders, CheckAcceptingWork
<1> QED BY <1>1, HoldersFinite, FS_EmptySet

(***************************************************************************)
(* One acquisition changes what its slot is used for: what becomes free    *)
(* was free, in its own hands or in nobody's, what it takes nobody else    *)
(* has, and the driver counts as used what is in hand.                     *)
(***************************************************************************)
LEMMA UseKeepsOwner ==
  ASSUME PoolTypeOK, OneOwner, NEW a \in Acquirers, NEW p \in Phases,
         NEW c \in Conns \cup {NoConn}, Use(a, p, c),
         p # "none" <=> where'[a] = "in",
         \A b \in Acquirers \ {a} : where'[b] = "in" <=> where[b] = "in",
         p \in WithConn <=> c # NoConn,
         c \in {conn[a], NoConn} \/ c \notin used,
         c \notin free', NoConn \notin free',
         \A x \in free' : x \in free \/ x = conn[a] \/ x \in Conns \ used,
         \A x : x \in used' <=> (x \in used /\ x # conn[a]) \/ (x = c /\ x # NoConn)
  PROVE  /\ OneOwner' /\ phase' \in [Acquirers -> Phases]
         /\ conn' \in [Acquirers -> Conns \cup {NoConn}]
         /\ used' \in SUBSET Conns /\ free' \in SUBSET Conns
         /\ phase'[a] = p /\ conn'[a] = c
         /\ \A b \in Acquirers \ {a} : phase'[b] = phase[b] /\ conn'[b] = conn[b]
<1>1. /\ phase' \in [Acquirers -> Phases] /\ conn' \in [Acquirers -> Conns \cup {NoConn}]
      /\ phase'[a] = p /\ conn'[a] = c
      /\ \A b \in Acquirers \ {a} : phase'[b] = phase[b] /\ conn'[b] = conn[b]
  BY DEF PoolTypeOK, Use
<1>2. /\ \A x : x \in used <=> x # NoConn /\ \E b \in Acquirers : conn[b] = x
      /\ \A x : ~(x \in free /\ x \in used)
      /\ \A b \in Acquirers :
           /\ phase[b] # "none" <=> where[b] = "in"
           /\ phase[b] \in WithConn <=> conn[b] # NoConn
           /\ \A d \in Acquirers : conn[b] = conn[d] /\ conn[b] # NoConn => b = d
  BY DEF OneOwner
<1>3. \A b \in Acquirers \ {a} : conn[b] # NoConn => conn[b] # c /\ conn[b] # conn[a]
  BY <1>2
<1>4. \A x : ~(x \in free' /\ x \in used')
  BY <1>2
<1>5. \A x : x \in used' <=> x # NoConn /\ \E b \in Acquirers : conn'[b] = x
  <2> TAKE x
  <2>1. CASE x = c \/ x = NoConn
    BY <1>1, <1>2, <2>1
  <2>2. CASE x # c /\ x # NoConn
    <3>1. x \in used' <=> x \in used /\ x # conn[a]
      BY <2>2
    <3>2. x \in used /\ x # conn[a] <=> \E b \in Acquirers \ {a} : conn[b] = x
      BY <1>2, <1>3, <2>2
    <3>3. (\E b \in Acquirers : conn'[b] = x) <=> \E b \in Acquirers \ {a} : conn[b] = x
      BY <1>1, <2>2
    <3> QED BY <2>2, <3>1, <3>2, <3>3
  <2> QED BY <2>1, <2>2
<1>6. ASSUME NEW b \in Acquirers
      PROVE  /\ phase'[b] # "none" <=> where'[b] = "in"
             /\ phase'[b] \in WithConn <=> conn'[b] # NoConn
             /\ \A d \in Acquirers : conn'[b] = conn'[d] /\ conn'[b] # NoConn => b = d
  <2>1. CASE b = a
    BY <1>1, <1>3, <2>1
  <2>2. CASE b # a
    BY <1>1, <1>2, <1>3, <2>2
  <2> QED BY <2>1, <2>2
<1>7. used' \in SUBSET Conns /\ free' \in SUBSET Conns
  BY DEF PoolTypeOK
<1>8. OneOwner'
  <2>1. free' \cap used' = {}
    BY <1>4
  <2>2. used' = {conn'[b] : b \in Acquirers} \ {NoConn}
    BY <1>5
  <2> QED BY <1>6, <2>1, <2>2 DEF OneOwner
<1> QED BY <1>1, <1>7, <1>8

(* The connections that could have been leased stay settled. *)
LEMMA UseKeepsSettled ==
  ASSUME OneOwner, LeasedIsSettled, NEW a \in Acquirers,
         phase'[a] = "leased" => conn'[a] \in settled',
         \A b \in Acquirers \ {a} : phase'[b] = phase[b] /\ conn'[b] = conn[b],
         \A x \in used : x \in settled => x \in settled'
  PROVE  LeasedIsSettled'
<1>1. \A b \in Acquirers : phase[b] = "leased" => conn[b] \in used /\ conn[b] \in settled
  BY DEF OneOwner, LeasedIsSettled, WithConn
<1> QED BY <1>1 DEF LeasedIsSettled

(***************************************************************************)
(* A step of one acquisition on its slot.                                  *)
(***************************************************************************)
LEMMA SlotStepKeeps ==
  ASSUME PoolInv, GateInv', NEW a \in Acquirers, NEW p \in Phases,
         NEW c \in Conns \cup {NoConn}, Use(a, p, c),
         p # "none" <=> where'[a] = "in",
         \A b \in Acquirers \ {a} : where'[b] = "in" <=> where[b] = "in",
         p \in WithConn <=> c # NoConn,
         c \in {conn[a], NoConn} \/ c \notin used,
         c \notin free', NoConn \notin free',
         \A x \in free' : x \in free \/ x = conn[a] \/ x \in Conns \ used,
         \A x : x \in used' <=> (x \in used /\ x # conn[a]) \/ (x = c /\ x # NoConn),
         p = "leased" => c \in settled',
         settled' \in SUBSET Conns, marked' \in SUBSET settled',
         \A x \in used : x \in settled => x \in settled',
         WithinPoolSize', ~closed, UNCHANGED <<closed, closing>>, closer' \in CloserPlaces
  PROVE  PoolInv'
<1>1. PoolTypeOK /\ OneOwner /\ LeasedIsSettled
  BY DEF PoolInv
<1>2. /\ OneOwner' /\ phase' \in [Acquirers -> Phases]
      /\ conn' \in [Acquirers -> Conns \cup {NoConn}]
      /\ used' \in SUBSET Conns /\ free' \in SUBSET Conns
      /\ phase'[a] = p /\ conn'[a] = c
      /\ \A b \in Acquirers \ {a} : phase'[b] = phase[b] /\ conn'[b] = conn[b]
  BY <1>1, UseKeepsOwner
<1>3. LeasedIsSettled'
  BY <1>1, <1>2, UseKeepsSettled
<1>4. PoolTypeOK'
  BY <1>1, <1>2 DEF PoolTypeOK
<1>5. ClosedIsEmpty'
  BY DEF ClosedIsEmpty
<1> QED BY <1>2, <1>3, <1>4, <1>5 DEF PoolInv

(* It opened no connection and is not about to. *)
LEMMA OpensNone ==
  ASSUME PoolTypeOK, OneOwner, WithinPoolSize, NEW a \in Acquirers,
         NEW p \in Phases \ {"connecting"}, NEW c \in Conns \cup {NoConn}, Use(a, p, c),
         \A x : ~(x \in free' /\ x \in used'),
         \A x \in free' : x \in free \/ x = conn[a],
         \A x \in used' : x \in used \/ x \in free,
         NoConn \notin free'
  PROVE  WithinPoolSize'
<1>1. Opening' \subseteq Opening
  BY DEF PoolTypeOK, Use, Opening
<1>2. conn[a] # NoConn => conn[a] \in used
  BY DEF OneOwner
<1>3. free' \cap used' = {} /\ free' \cup used' \subseteq free \cup used
  BY <1>2
<1> QED BY <1>1, <1>3, NothingOpened

(* It opened one connection, which takes the place of the opening. *)
LEMMA OpensOne ==
  ASSUME PoolTypeOK, OneOwner, WithinPoolSize, NEW a \in Acquirers, phase[a] = "connecting",
         NEW p \in Phases \ {"connecting"}, NEW c \in Conns \cup {NoConn}, Use(a, p, c),
         NEW new \in Conns, free' \cap used' = {},
         free' \cup used' \subseteq free \cup used \cup {new}
  PROVE  WithinPoolSize'
<1>1. /\ Cardinality(free) \in Nat /\ Cardinality(used) \in Nat /\ IsFiniteSet(free \cup used)
      /\ Cardinality(free) + Cardinality(used) = Cardinality(free \cup used)
  <2>1. free \in SUBSET Conns /\ used \in SUBSET Conns /\ free \cap used = {}
    BY DEF PoolTypeOK, OneOwner
  <2> QED BY <2>1, SizeOfBoth, Zenon
<1>2. /\ Cardinality(free') \in Nat /\ Cardinality(used') \in Nat
      /\ Cardinality(free') + Cardinality(used') = Cardinality(free' \cup used')
  <2>1. free' \in SUBSET Conns /\ used' \in SUBSET Conns
    BY DEF PoolTypeOK
  <2> QED BY <2>1, SizeOfBoth
<1>3. Cardinality(free' \cup used') <= Cardinality(free \cup used) + 1
  <2> DEFINE N == free \cup used
  <2>1. /\ IsFiniteSet(N) /\ Cardinality(N) \in Nat
        /\ IsFiniteSet(N \cup {new})
        /\ Cardinality(N \cup {new}) = IF new \in N THEN Cardinality(N) ELSE Cardinality(N) + 1
    BY <1>1, FS_AddElement, FS_CardinalityType
  <2>2. Cardinality(free' \cup used') <= Cardinality(N \cup {new})
    BY <2>1, FS_Subset
  <2> HIDE DEF N
  <2>3. Cardinality(free' \cup used') \in Nat
    BY <1>2
  <2>4. Cardinality(free' \cup used') <= Cardinality(N) + 1
    BY <2>1, <2>2, <2>3
  <2> QED BY <2>4 DEF N
<1>4. /\ Cardinality(Opening) \in Nat /\ Cardinality(Opening') \in Nat
      /\ Cardinality(Opening') = Cardinality(Opening) - 1
  <2>1. Opening' = Opening \ {a} /\ a \in Opening
    BY DEF PoolTypeOK, Use, Opening
  <2>2. IsFiniteSet(Opening) /\ Cardinality(Opening) \in Nat /\ Cardinality(Opening') \in Nat
    BY OpeningSize DEF Opening
  <2> QED BY <2>1, <2>2, FS_RemoveElement, Zenon
<1>5. PoolSize \in Nat /\ PoolSize' = PoolSize
  BY CapacityAssumption DEF PoolSize
<1>6. Size <= PoolSize
  BY DEF WithinPoolSize
<1> HIDE DEF Opening
<1> QED BY <1>1, <1>2, <1>3, <1>4, <1>5, <1>6 DEF WithinPoolSize, Size
-----------------------------------------------------------------------------
(* acquire() *)

LEMMA WaitAtGateKeeps ==
  ASSUME PoolInv, NEW a \in Acquirers, WaitAtGate(a)
  PROVE  PoolInv'
<1>1. WaitStep(a) /\ UNCHANGED <<probing, closed, closing, driverVars, phase, conn, closer>>
  BY DEF WaitAtGate, LookAtGate, WaitStep
<1>2. GateInv'
  BY <1>1, GateStepPreserves DEF PoolInv, GateStep
<1>3. admitted' = admitted /\ \A b \in Acquirers : where'[b] = "in" <=> where[b] = "in"
  BY <1>1, WaitKeepsSlots DEF PoolInv
<1>4. OneOwner'
  BY <1>1, <1>3 DEF PoolInv, OneOwner, driverVars
<1> QED BY <1>1, <1>2, <1>3, <1>4 DEF PoolInv, PoolTypeOK, LeasedIsSettled, WithinPoolSize,
        Size, Opening, PoolSize, ClosedIsEmpty, driverVars

(* An acquisition that comes to the driver has a slot, and no connection. *)
LEMMA AtDriver ==
  ASSUME PoolInv, NEW a \in Acquirers, Arrives(a) \/ GetsLock(a)
  PROVE  /\ GateInv' /\ where'[a] = "in" /\ ~closed
         /\ \A b \in Acquirers \ {a} : where'[b] = "in" <=> where[b] = "in"
         /\ conn[a] = NoConn /\ phase[a] # "connecting"
<1>1. GateInv /\ OneOwner
  BY DEF PoolInv
<1>2. CASE Admit(a) /\ CheckAcceptingWork
  <2>1. /\ GateInv' /\ where[a] # "in" /\ where'[a] = "in"
        /\ \A b \in Acquirers \ {a} : where'[b] = "in" <=> where[b] = "in"
    BY <1>1, <1>2, AdmitPreserves, AdmitClaimsSlot
  <2>2. phase[a] = "none" /\ conn[a] = NoConn
    BY <1>1, <2>1 DEF OneOwner, WithConn
  <2> QED BY <1>2, <2>1, <2>2 DEF CheckAcceptingWork
<1>3. CASE phase[a] \in {"retry", "locking"} /\ UNCHANGED gateVars
  <2>1. where[a] = "in" /\ conn[a] = NoConn
    BY <1>1, <1>3 DEF OneOwner, WithConn
  <2>2. GateInv'
    BY <1>1, <1>3, GateStutterPreserves
  <2> QED BY <1>3, <2>1, <2>2, ClosedHasNoSlots DEF gateVars
<1> QED BY <1>2, <1>3 DEF Arrives, GetsLock

LEMMA WaitForLockKeeps ==
  ASSUME PoolInv, NEW a \in Acquirers, WaitForLock(a)
  PROVE  PoolInv'
<1>1. /\ GateInv' /\ where'[a] = "in" /\ ~closed
      /\ \A b \in Acquirers \ {a} : where'[b] = "in" <=> where[b] = "in"
      /\ conn[a] = NoConn
  BY AtDriver DEF WaitForLock
<1>2. /\ Use(a, "locking", NoConn) /\ "locking" \in Phases /\ "locking" \notin WithConn
      /\ UNCHANGED <<closed, closing, free, used, marked, settled, closer>>
  BY DEF WaitForLock, driverVars, Phases, WithConn
<1>3. /\ PoolTypeOK /\ OneOwner /\ WithinPoolSize
      /\ \A x : ~(x \in free /\ x \in used)
      /\ NoConn \notin free /\ NoConn \notin used
  BY ConnsAssumption DEF PoolInv, OneOwner, PoolTypeOK
<1>4. WithinPoolSize'
  BY <1>2, <1>3, OpensNone
<1> QED BY <1>1, <1>2, <1>3, <1>4, SlotStepKeeps DEF PoolTypeOK

LEMMA StartOpeningKeeps ==
  ASSUME PoolInv, NEW a \in Acquirers, StartOpening(a)
  PROVE  PoolInv'
<1>1. /\ GateInv' /\ where'[a] = "in" /\ ~closed
      /\ \A b \in Acquirers \ {a} : where'[b] = "in" <=> where[b] = "in"
      /\ conn[a] = NoConn /\ phase[a] # "connecting"
  BY AtDriver DEF StartOpening
<1>2. /\ Use(a, "connecting", NoConn) /\ "connecting" \in Phases /\ "connecting" \notin WithConn
      /\ free' = {} /\ HasRoom({})
      /\ UNCHANGED <<closed, closing, used, marked, settled, closer>>
  BY DEF StartOpening, HasRoom, Phases, WithConn
<1>3. PoolTypeOK /\ OneOwner /\ NoConn \notin used
  BY ConnsAssumption DEF PoolInv, PoolTypeOK
<1>4. WithinPoolSize'
  <2>1. Opening' = Opening \cup {a} /\ a \notin Opening
    BY <1>1, <1>2, <1>3 DEF PoolTypeOK, Use, Opening
  <2>2. IsFiniteSet(Opening) /\ Cardinality(Opening) \in Nat
    BY OpeningSize DEF Opening
  <2>3. Cardinality(Opening') = Cardinality(Opening) + 1
    BY <2>1, <2>2, FS_AddElement
  <2>4. /\ Cardinality({}) = 0 /\ Cardinality(used) \in Nat
        /\ PoolSize \in Nat /\ PoolSize' = PoolSize
    BY <1>3, FS_EmptySet, SizeOfBoth, CapacityAssumption, Zenon DEF PoolTypeOK, OneOwner, PoolSize
  <2> HIDE DEF Opening
  <2> QED BY <1>2, <2>2, <2>3, <2>4 DEF HasRoom, WithinPoolSize, Size
<1> QED BY <1>1, <1>2, <1>3, <1>4, SlotStepKeeps DEF PoolTypeOK

(* A free connection is taken, and kept or found expired. *)
LEMMA TakeFreeKeeps ==
  ASSUME PoolInv, NEW a \in Acquirers, TakeFree(a)
  PROVE  PoolInv'
<1>1. /\ GateInv' /\ where'[a] = "in" /\ ~closed
      /\ \A b \in Acquirers \ {a} : where'[b] = "in" <=> where[b] = "in"
      /\ conn[a] = NoConn
  BY AtDriver DEF TakeFree
<1>2. PICK fresh \in SUBSET free, c \in free :
        c \in fresh /\ free' = fresh \ {c} /\ InHand(a, c, AfterCheckout(c))
  BY DEF TakeFree
<1>3. UNCHANGED <<closed, closing, marked, settled, closer>>
  BY DEF TakeFree
<1>4. /\ PoolTypeOK /\ OneOwner /\ WithinPoolSize
      /\ \A x : ~(x \in free /\ x \in used)
      /\ NoConn \notin free /\ NoConn \notin used /\ c \in free /\ c \in Conns /\ c # NoConn
      /\ free' \subseteq free /\ c \notin free'
  BY <1>2, ConnsAssumption DEF PoolInv, OneOwner, PoolTypeOK
<1>5. CASE Use(a, "retry", NoConn) /\ used' = used
  <2>1. "retry" \in Phases \ {"connecting", "none"} /\ "retry" \notin WithConn
    BY DEF Phases, WithConn
  <2>2. WithinPoolSize'
    BY <1>4, <1>5, <2>1, OpensNone
  <2> QED BY <1>1, <1>3, <1>4, <1>5, <2>1, <2>2, SlotStepKeeps DEF PoolTypeOK
<1>6. CASE Use(a, AfterCheckout(c), c) /\ used' = used \cup {c}
  <2> DEFINE p == AfterCheckout(c)
  <2>1. /\ p \in Phases \ {"connecting", "none"} /\ p \in WithConn
        /\ p = "leased" => c \in settled
    BY <1>4 DEF AfterCheckout, Phases, WithConn, PoolTypeOK
  <2> HIDE DEF p
  <2>2. WithinPoolSize'
    BY <1>4, <1>6, <2>1, OpensNone DEF p
  <2> QED BY <1>1, <1>3, <1>4, <1>6, <2>1, <2>2, SlotStepKeeps DEF PoolTypeOK, p
<1> QED BY <1>2, <1>5, <1>6 DEF InHand

(* The new connection is nobody's, and takes the place of the opening. *)
LEMMA ConnectedKeeps ==
  ASSUME PoolInv, NEW a \in Acquirers, Connected(a)
  PROVE  PoolInv'
<1>1. /\ phase[a] = "connecting"
      /\ UNCHANGED <<where, waiters, admitted, closed, closing, free, closer>>
  BY DEF Connected, gateVars
<1>2. PICK c \in Conns \ (free \cup used) :
        /\ InHand(a, c, IF probing THEN "probing" ELSE "configuring")
        /\ marked' = marked \ {c} /\ settled' = settled \ {c}
  BY DEF Connected
<1>3. /\ PoolTypeOK /\ OneOwner /\ WithinPoolSize /\ GateInv
      /\ \A x : ~(x \in free /\ x \in used)
      /\ NoConn \notin free /\ NoConn \notin used /\ c # NoConn
  BY ConnsAssumption DEF PoolInv, OneOwner, PoolTypeOK
<1>4. where[a] = "in" /\ conn[a] = NoConn /\ ~closed
  BY <1>1, <1>3, ClosedHasNoSlots DEF OneOwner, WithConn
<1>5. GateInv'
  BY <1>1, <1>3, GateStutterPreserves DEF gateVars
<1>6. settled' \in SUBSET Conns /\ marked' \in SUBSET settled' /\ closer' \in CloserPlaces
  BY <1>1, <1>2, <1>3 DEF PoolTypeOK
<1>7. \A x \in used : x \in settled => x \in settled'
  BY <1>2
<1>8. CASE Use(a, "retry", NoConn) /\ used' = used
  <2>1. "retry" \in Phases \ {"connecting", "none"} /\ "retry" \notin WithConn
    BY DEF Phases, WithConn
  <2>2. WithinPoolSize'
    BY <1>1, <1>3, <1>8, <2>1, OpensNone
  <2> QED BY <1>1, <1>3, <1>4, <1>5, <1>6, <1>7, <1>8, <2>1, <2>2, SlotStepKeeps
<1>9. CASE used' = used \cup {c} /\ \E p \in {"probing", "configuring"} : Use(a, p, c)
  <2>1. PICK p \in {"probing", "configuring"} : Use(a, p, c)
    BY <1>9
  <2>2. p \in Phases \ {"connecting", "none", "leased"} /\ p \in WithConn
    BY DEF Phases, WithConn
  <2>3. WithinPoolSize'
    <3>1. free' \cap used' = {} /\ free' \cup used' \subseteq free \cup used \cup {c}
      BY <1>1, <1>2, <1>3, <1>9
    <3> QED BY <1>1, <1>3, <2>1, <2>2, <3>1, OpensOne
  <2> QED BY <1>1, <1>3, <1>4, <1>5, <1>6, <1>7, <1>9, <2>1, <2>2, <2>3, SlotStepKeeps
<1> QED BY <1>2, <1>8, <1>9 DEF InHand

(* The new connection is nobody's and stays free; one that was free is taken. *)
LEMMA ConnectedBehindKeeps ==
  ASSUME PoolInv, NEW a \in Acquirers, ConnectedBehind(a)
  PROVE  PoolInv'
<1>1. phase[a] = "connecting" /\ UNCHANGED <<closed, closing>>
  BY DEF ConnectedBehind
<1>2. PICK new \in Conns \ (free \cup used), c \in free :
        /\ free' = (free \ {c}) \cup {new}
        /\ marked' = marked \ {new} /\ settled' = settled \ {new}
        /\ \/ InHand(a, c, AfterCheckout(c)) /\ UNCHANGED <<gateVars, closer>>
           \/ FreeSlot(a) /\ UNCHANGED used
  BY DEF ConnectedBehind
<1>3. /\ PoolTypeOK /\ OneOwner /\ WithinPoolSize /\ GateInv
      /\ \A x : ~(x \in free /\ x \in used)
      /\ NoConn \notin free /\ NoConn \notin used /\ new # NoConn
      /\ c \in Conns /\ c # NoConn /\ c # new /\ c \notin used
  BY <1>2, ConnsAssumption DEF PoolInv, OneOwner, PoolTypeOK
<1>4. where[a] = "in" /\ conn[a] = NoConn /\ ~closed
  BY <1>1, <1>3, ClosedHasNoSlots DEF OneOwner, WithConn
<1>5. /\ settled' \in SUBSET Conns /\ marked' \in SUBSET settled'
      /\ \A x \in used : x \in settled => x \in settled'
      /\ c \in marked => c \in settled'
  BY <1>2, <1>3 DEF PoolTypeOK
<1>6. /\ c \notin free' /\ NoConn \notin free'
      /\ \A x \in free' : x \in free \/ x = conn[a] \/ x \in Conns \ used
      /\ free' \cap used = {} /\ free' \cup used \subseteq free \cup used \cup {new}
      /\ free' \cup (used \cup {c}) \subseteq free \cup used \cup {new}
  BY <1>2, <1>3
<1>7. CASE InHand(a, c, AfterCheckout(c)) /\ UNCHANGED <<gateVars, closer>>
  <2>1. GateInv' /\ UNCHANGED where /\ closer' \in CloserPlaces
    BY <1>3, <1>7, GateStutterPreserves DEF gateVars, PoolTypeOK
  <2>2. CASE Use(a, "retry", NoConn) /\ used' = used
    <3>1. "retry" \in Phases \ {"connecting", "none"} /\ "retry" \notin WithConn
      BY DEF Phases, WithConn
    <3>2. WithinPoolSize'
      BY <1>1, <1>3, <1>6, <2>2, <3>1, OpensOne
    <3> QED BY <1>1, <1>3, <1>4, <1>5, <1>6, <2>1, <2>2, <3>1, <3>2, SlotStepKeeps
  <2>3. CASE Use(a, AfterCheckout(c), c) /\ used' = used \cup {c}
    <3> DEFINE p == AfterCheckout(c)
    <3>1. /\ p \in Phases \ {"connecting", "none"} /\ p \in WithConn
          /\ p = "leased" => c \in settled'
      BY <1>5 DEF AfterCheckout, Phases, WithConn
    <3>2. Use(a, p, c)
      BY <2>3
    <3> HIDE DEF p
    <3>3. free' \cap used' = {} /\ free' \cup used' \subseteq free \cup used \cup {new}
      BY <1>6, <2>3
    <3>4. WithinPoolSize'
      BY <1>1, <1>3, <3>1, <3>2, <3>3, OpensOne
    <3> QED BY <1>1, <1>3, <1>4, <1>5, <1>6, <2>1, <2>3, <3>1, <3>2, <3>4, SlotStepKeeps
  <2> QED BY <1>7, <2>2, <2>3 DEF InHand
<1>8. CASE FreeSlot(a) /\ UNCHANGED used
  <2>1. ReleaseSlot(a) /\ Use(a, "none", NoConn) /\ closer' \in CloserPlaces
    BY <1>3, <1>8 DEF FreeSlot, WakeCloser, PoolTypeOK, CloserPlaces
  <2>2. /\ GateInv' /\ where'[a] # "in"
        /\ \A b \in Acquirers \ {a} : where'[b] = "in" <=> where[b] = "in"
    BY <1>3, <2>1, ReleasePreserves, ReleaseFreesSlot
  <2>3. "none" \in Phases \ {"connecting"} /\ "none" \notin WithConn
    BY DEF Phases, WithConn
  <2>4. WithinPoolSize'
    BY <1>1, <1>3, <1>6, <1>8, <2>1, <2>3, OpensOne
  <2>5. \A x : x \in used' <=> (x \in used /\ x # conn[a]) \/ (x = NoConn /\ x # NoConn)
    BY <1>3, <1>4, <1>8
  <2>6. NoConn \in Conns \cup {NoConn} /\ NoConn \in {conn[a], NoConn}
    OBVIOUS
  <2> QED BY <1>1, <1>4, <1>5, <1>6, <2>1, <2>2, <2>3, <2>4, <2>5, <2>6, SlotStepKeeps
<1> QED BY <1>2, <1>7, <1>8

(* The phase changes and the connection in hand stays. *)
LEMMA ProbeKeeps ==
  ASSUME PoolInv, NEW a \in Acquirers, ProbeSucceeds(a) \/ Configured(a)
  PROVE  PoolInv'
<1>1. /\ PoolTypeOK /\ OneOwner /\ WithinPoolSize /\ GateInv
      /\ \A x : ~(x \in free /\ x \in used)
      /\ NoConn \notin free /\ NoConn \notin used
  BY ConnsAssumption DEF PoolInv, OneOwner, PoolTypeOK
<1>2. /\ phase[a] \in {"probing", "configuring"}
      /\ UNCHANGED <<where, waiters, admitted, closed, closing, free, used, closer>>
  BY DEF ProbeSucceeds, Configured, gateVars, driverVars
<1>3. /\ where[a] = "in" /\ conn[a] # NoConn /\ conn[a] \in used /\ conn[a] \in Conns
      /\ ~closed
  BY <1>1, <1>2, ClosedHasNoSlots DEF OneOwner, WithConn, PoolTypeOK
<1>4. PICK p \in {"leased", "configuring"} :
        /\ Use(a, p, conn[a])
        /\ p = "leased" => conn[a] \in settled'
  BY <1>1 DEF ProbeSucceeds, Configured, driverVars, PoolTypeOK
<1>5. /\ settled' \in SUBSET Conns /\ marked' \in SUBSET settled' /\ closer' \in CloserPlaces
      /\ \A x \in used : x \in settled => x \in settled'
  BY <1>1, <1>2, <1>3 DEF ProbeSucceeds, Configured, driverVars, PoolTypeOK
<1>6. p \in Phases \ {"connecting", "none"} /\ p \in WithConn
  BY DEF Phases, WithConn
<1>7. WithinPoolSize'
  BY <1>1, <1>2, <1>3, <1>4, <1>6, OpensNone
<1>8. GateInv'
  BY <1>1, <1>2, GateStutterPreserves DEF gateVars
<1> QED BY <1>1, <1>2, <1>3, <1>4, <1>5, <1>6, <1>7, <1>8, SlotStepKeeps

(***************************************************************************)
(* The slot is freed.  What was in hand is closed, or free again.          *)
(***************************************************************************)
LEMMA FreeSlotKeeps ==
  ASSUME PoolInv, NEW a \in Acquirers, phase[a] # "none", FreeSlot(a),
         used' = used \ {conn[a]},
         \A x \in free' : x \in free \/ (x = conn[a] /\ x # NoConn),
         UNCHANGED <<closed, closing, marked, settled>>
  PROVE  PoolInv'
<1>1. /\ PoolTypeOK /\ OneOwner /\ WithinPoolSize /\ GateInv
      /\ \A x : ~(x \in free /\ x \in used)
      /\ NoConn \notin free /\ NoConn \notin used
  BY ConnsAssumption DEF PoolInv, OneOwner, PoolTypeOK
<1>2. ReleaseSlot(a) /\ Use(a, "none", NoConn) /\ closer' \in CloserPlaces
  BY <1>1 DEF FreeSlot, WakeCloser, PoolTypeOK, CloserPlaces
<1>3. /\ GateInv' /\ where'[a] # "in"
      /\ \A b \in Acquirers \ {a} : where'[b] = "in" <=> where[b] = "in"
  BY <1>1, <1>2, ReleasePreserves, ReleaseFreesSlot
<1>4. ~closed
  BY ClosedHasNoSlots
<1>5. "none" \in Phases \ {"connecting"} /\ "none" \notin WithConn
  BY DEF Phases, WithConn
<1>6. /\ \A x : ~(x \in free' /\ x \in used') /\ NoConn \notin free'
      /\ \A x \in free' : x \in free \/ x = conn[a]
      /\ \A x : x \in used' <=> x \in used /\ x # conn[a]
  BY <1>1
<1>7. WithinPoolSize'
  BY <1>1, <1>2, <1>5, <1>6, OpensNone
<1> QED BY <1>1, <1>2, <1>3, <1>4, <1>5, <1>6, <1>7, SlotStepKeeps DEF PoolTypeOK

LEMMA GiveBackKeeps ==
  ASSUME PoolInv, NEW a \in Acquirers, CheckoutFails(a) \/ Release(a) \/ Discard(a)
  PROVE  PoolInv'
<1>1. phase[a] \in WithConn <=> conn[a] # NoConn
  BY DEF PoolInv, OneOwner
<1>2. /\ phase[a] # "none" /\ FreeSlot(a) /\ used' = used \ {conn[a]}
      /\ \A x \in free' : x \in free \/ (x = conn[a] /\ x # NoConn)
      /\ UNCHANGED <<closed, closing, marked, settled>>
  BY <1>1 DEF CheckoutFails, Release, Discard, WithConn
<1> QED BY <1>2, FreeSlotKeeps

(* A free connection is closed instead of leased. *)
LEMMA TakeFreeAndDiscardKeeps ==
  ASSUME PoolInv, NEW a \in Acquirers, TakeFreeAndDiscard(a)
  PROVE  PoolInv'
<1>1. /\ PoolTypeOK /\ OneOwner /\ WithinPoolSize /\ GateInv
      /\ \A x : ~(x \in free /\ x \in used) /\ NoConn \notin used
  BY ConnsAssumption DEF PoolInv, OneOwner, PoolTypeOK
<1>2. free' \subseteq free /\ UNCHANGED <<closed, closing, used, marked, settled>>
  BY DEF TakeFreeAndDiscard
<1>3. CASE /\ CheckAcceptingWork /\ AdmitObserverRaises(a)
           /\ UNCHANGED <<phase, conn, closer>>
  <2>1. WaitStep(a)
    BY <1>3 DEF WaitStep
  <2>2. GateInv' /\ \A b \in Acquirers : where'[b] = "in" <=> where[b] = "in"
    BY <1>1, <2>1, GateStepPreserves, WaitKeepsSlots DEF GateStep
  <2>3. OneOwner'
    BY <1>1, <1>2, <1>3, <2>2 DEF OneOwner
  <2>4. WithinPoolSize'
    <3>1. Opening' = Opening /\ free' \cap used' = {} /\ free' \cup used' \subseteq free \cup used
      BY <1>1, <1>2, <1>3 DEF Opening
    <3> QED BY <1>1, <3>1, NothingOpened
  <2> QED BY <1>1, <1>2, <1>3, <2>2, <2>3, <2>4 DEF PoolInv, PoolTypeOK, LeasedIsSettled,
            ClosedIsEmpty, CheckAcceptingWork
<1>4. CASE phase[a] \in {"retry", "locking"} /\ FreeSlot(a)
  <2>1. conn[a] = NoConn
    BY <1>1, <1>4 DEF OneOwner, WithConn
  <2>2. used' = used \ {conn[a]}
    BY <1>1, <1>2, <2>1
  <2> QED BY <1>2, <1>4, <2>2, FreeSlotKeeps
<1> QED BY <1>3, <1>4 DEF TakeFreeAndDiscard
-----------------------------------------------------------------------------
(* close() *)

LEMMA CloserKeeps ==
  ASSUME PoolInv, StartClose \/ Drain \/ CloseExpires
  PROVE  PoolInv'
<1>1. /\ PoolTypeOK /\ OneOwner /\ WithinPoolSize /\ GateInv
      /\ \A x : ~(x \in free /\ x \in used)
  BY DEF PoolInv, OneOwner
<1>2. UNCHANGED <<used, marked, settled, phase, conn>> /\ free' \subseteq free
  BY DEF StartClose, Drain, CloseExpires, ShutDriver, driverVars
<1>3. /\ GateInv' /\ admitted' = admitted
      /\ \A b \in Acquirers : where'[b] = "in" <=> where[b] = "in"
  <2>1. CASE NotifyEveryone
    BY <1>1, <2>1, NotifyPreserves, NotifyKeepsSlots
  <2>2. CASE UNCHANGED gateVars
    BY <1>1, <2>2, GateStutterPreserves DEF gateVars
  <2> QED BY <2>1, <2>2 DEF StartClose, Drain, CloseExpires
<1>4. /\ closed' \in BOOLEAN /\ closing' \in BOOLEAN /\ closer' \in CloserPlaces
      /\ closed' => closed \/ (free' = {} /\ admitted = 0)
  <2>1. CASE ShutDriver /\ admitted = 0
    <3>1. PICK failed \in SUBSET free :
            /\ free' = failed /\ closed' = (failed = {}) /\ closing' = (failed # {})
            /\ closer' = "none"
      BY <2>1 DEF ShutDriver
    <3>2. closed' \in BOOLEAN /\ closing' \in BOOLEAN
      BY <3>1, Zenon
    <3>3. closed' => free' = {}
      BY <3>1, Zenon
    <3> QED BY <2>1, <3>1, <3>2, <3>3 DEF CloserPlaces
  <2>2. CASE closed' = closed /\ closing' \in {closing, TRUE} /\ closer' \in CloserPlaces
    BY <1>1, <2>2, Zenon DEF PoolTypeOK
  <2> QED BY <2>1, <2>2, Zenon DEF StartClose, Drain, CloseExpires, CloserPlaces
<1>5. OneOwner'
  BY <1>1, <1>2, <1>3 DEF OneOwner
<1>6. WithinPoolSize'
  <2>1. Opening' = Opening /\ free' \cap used' = {} /\ free' \cup used' \subseteq free \cup used
    BY <1>1, <1>2 DEF Opening
  <2> QED BY <1>1, <2>1, NothingOpened
<1>7. PoolTypeOK' /\ LeasedIsSettled'
  BY <1>1, <1>2, <1>4 DEF PoolInv, PoolTypeOK, LeasedIsSettled
<1>8. ClosedIsEmpty'
  BY <1>2, <1>3, <1>4 DEF PoolInv, ClosedIsEmpty
<1> QED BY <1>3, <1>5, <1>6, <1>7, <1>8 DEF PoolInv
-----------------------------------------------------------------------------
LEMMA PoolInit == Init => PoolInv
<1> SUFFICES ASSUME Init PROVE PoolInv
  OBVIOUS
<1>1. GateInv
  BY GateInitEstablishes DEF Init
<1>2. PoolTypeOK /\ OneOwner /\ LeasedIsSettled
  BY Zenon DEF Init, GateInit, PoolTypeOK, OneOwner, LeasedIsSettled, Phases, WithConn, CloserPlaces
<1>3. WithinPoolSize
  <2>1. Opening = {} /\ free = {} /\ used = {}
    BY DEF Init, Opening
  <2>2. Cardinality({}) = 0
    BY FS_EmptySet
  <2> QED BY <2>1, <2>2, CapacityAssumption DEF WithinPoolSize, Size, PoolSize
<1>4. ClosedIsEmpty
  BY DEF Init, ClosedIsEmpty
<1> QED BY <1>1, <1>2, <1>3, <1>4 DEF PoolInv

LEMMA PoolNext == PoolInv /\ [Next]_vars => PoolInv'
<1> SUFFICES ASSUME PoolInv, [Next]_vars PROVE PoolInv'
  OBVIOUS
<1>1. CASE UNCHANGED vars
  <2>1. GateInv'
    BY <1>1, GateStutterPreserves DEF vars, gateVars, PoolInv
  <2>2. PoolTypeOK' /\ OneOwner' /\ LeasedIsSettled' /\ ClosedIsEmpty'
    BY <1>1 DEF vars, PoolInv, PoolTypeOK, OneOwner, LeasedIsSettled, ClosedIsEmpty
  <2>3. WithinPoolSize'
    BY <1>1 DEF vars, PoolInv, WithinPoolSize, Size, Opening, PoolSize
  <2> QED BY <2>1, <2>2, <2>3 DEF PoolInv
<1>2. ASSUME NEW a \in Acquirers, WaitAtGate(a) \/ CheckoutStep(a) \/ ReturnStep(a)
      PROVE  PoolInv'
  BY <1>2, WaitAtGateKeeps, WaitForLockKeeps, StartOpeningKeeps, TakeFreeKeeps,
     TakeFreeAndDiscardKeeps, ConnectedKeeps, ConnectedBehindKeeps, ProbeKeeps, GiveBackKeeps
     DEF CheckoutStep, ReturnStep
<1> QED BY <1>1, <1>2, CloserKeeps DEF Next

(* The inductive invariant of the MariaDB pool. *)
THEOREM PoolCorrect == Spec => []PoolInv
BY PoolInit, PoolNext, PTL DEF Spec

(***************************************************************************)
(* The driver's _used is what admitted acquisitions have in hand, each its *)
(* own connection, on every path through acquire(), release(), discard(),  *)
(* a failure at any suspension point, and close().                         *)
(***************************************************************************)
THEOREM PoolOneOwner == Spec => []OneOwner
<1>1. PoolInv => OneOwner
  BY DEF PoolInv
<1> QED BY <1>1, PoolCorrect, PTL

(***************************************************************************)
(* What acquire() returns is a connection whose session was configured     *)
(* after it was opened: the mark on a connection outlives no session.      *)
(***************************************************************************)
THEOREM PoolLeasedIsSettled == Spec => []LeasedIsSettled
<1>1. PoolInv => LeasedIsSettled
  BY DEF PoolInv
<1> QED BY <1>1, PoolCorrect, PTL

(***************************************************************************)
(* An admitted acquisition never has to wait for a connection of another   *)
(* one: the gate's pool_size slots are exactly the driver's maxsize.       *)
(***************************************************************************)
THEOREM PoolDriverNeverBlocks == Spec => []DriverNeverBlocks
<1>1. PoolInv => DriverNeverBlocks
  BY SlotsAreEnough DEF PoolInv
<1> QED BY <1>1, PoolCorrect, PTL

(***************************************************************************)
(* The driver never has more than pool_size connections, free, in hand or  *)
(* being opened, and none at all when close() has succeeded.               *)
(***************************************************************************)
THEOREM PoolWithinSize == Spec => [](WithinPoolSize /\ ClosedIsEmpty)
<1>1. PoolInv => WithinPoolSize /\ ClosedIsEmpty
  BY DEF PoolInv
<1> QED BY <1>1, PoolCorrect, PTL
-----------------------------------------------------------------------------
(***************************************************************************)
(* The callers of acquire() see FifoSemaphore, whatever happens behind the *)
(* gate: the slots serve in the order of arrival, and open is what         *)
(* check_accepting_work() tells them.                                      *)
(***************************************************************************)
Line == INSTANCE FifoSemaphore
          WITH Clients <- Acquirers, Slots <- Capacity,
               line <- waiters, inside <- Holders, open <- CheckAcceptingWork

ServesInOrder == Line!FifoSpec

(* The operators that FifoSemaphore takes from the library are the pool's. *)
LEMMA LineOperators ==
  /\ \A S : Line!Cardinality(S) = Cardinality(S)
  /\ \A s : Line!Range(s) = Range(s)
  /\ \A s, e : Line!Without(s, e) = Without(s, e)
<1>1. \A S : Line!Cardinality(S) = Cardinality(S)
  BY Zenon DEF Line!Cardinality, Cardinality, Line!IsFiniteSet, IsFiniteSet
<1>2. \A s : Line!Range(s) = Range(s)
  BY DEF Line!Range, Range
<1>3. \A s, e : Line!Without(s, e) = Without(s, e)
  BY <1>2 DEF Line!Without, Without
<1> QED BY <1>1, <1>2, <1>3

(* Nobody is seen to move, and the door may open or shut. *)
LEMMA QuietIsLineStep ==
  ASSUME Stays
  PROVE  [Line!FifoNext]_(Line!fifoVars)
<1>1. CheckAcceptingWork \in BOOLEAN /\ CheckAcceptingWork' \in BOOLEAN
  BY DEF CheckAcceptingWork
<1> QED BY <1>1 DEF Stays, Line!FifoNext, Line!OpenOrShut, Line!fifoVars

(* What is seen of a step is a step of the semaphore. *)
LEMMA SeenIsLineStep ==
  ASSUME NEW a \in Acquirers,
         \/ (Joins(a) \/ Quits(a) \/ Leaves(a)) /\ UNCHANGED CheckAcceptingWork
         \/ Enters(a) /\ CheckAcceptingWork /\ UNCHANGED CheckAcceptingWork
         \/ Leaves(a) /\ CheckAcceptingWork' = FALSE
         \/ Stays
  PROVE  [Line!FifoNext]_(Line!fifoVars)
<1> DEFINE open == CheckAcceptingWork
<1> USE LineOperators DEF Line!FifoNext
<1>1. CASE Joins(a) /\ UNCHANGED open
  BY <1>1 DEF Joins, Line!Join
<1>2. CASE Quits(a) /\ UNCHANGED open
  BY <1>2 DEF Quits, Line!Quit
<1>3. CASE Leaves(a) /\ UNCHANGED open
  BY <1>3 DEF Leaves, Line!Leave
<1>4. CASE Enters(a) /\ open /\ UNCHANGED open
  BY <1>4 DEF Enters, Line!Enter, Line!EnterAtOnce, Line!Room
<1>5. CASE Leaves(a) /\ open' = FALSE
  BY <1>5 DEF Leaves, Line!LeaveAndShut
<1>6. CASE Stays
  BY <1>6, QuietIsLineStep
<1> QED BY <1>1, <1>2, <1>3, <1>4, <1>5, <1>6, Zenon

LEMMA PoolStepIsLineStep ==
  ASSUME GateInv, [Next]_vars
  PROVE  [Line!FifoNext]_(Line!fifoVars)
<1>1. ASSUME NEW a \in Acquirers, WaitAtGate(a) PROVE [Line!FifoNext]_(Line!fifoVars)
  <2>1. WaitStep(a) /\ UNCHANGED CheckAcceptingWork
    BY <1>1 DEF WaitAtGate, LookAtGate, WaitStep, CheckAcceptingWork
  <2> QED BY <2>1, WaitMoves, SeenIsLineStep, Zenon
<1>2. ASSUME NEW a \in Acquirers, UNCHANGED CheckAcceptingWork,
             \/ Admit(a) /\ CheckAcceptingWork
             \/ AdmitObserverRaises(a) \/ ReleaseSlot(a) \/ UNCHANGED gateVars
      PROVE  [Line!FifoNext]_(Line!fifoVars)
  <2>1. CASE Admit(a) /\ CheckAcceptingWork
    BY <1>2, <2>1, AdmitMoves, SeenIsLineStep
  <2>2. CASE AdmitObserverRaises(a)
    BY <1>2, <2>2, ObserverRaisesMoves, SeenIsLineStep, Zenon
  <2>3. CASE ReleaseSlot(a)
    BY <1>2, <2>3, ReleaseMoves, SeenIsLineStep
  <2>4. CASE UNCHANGED gateVars
    BY <2>4, StutterMoves, QuietIsLineStep
  <2> QED BY <1>2, <2>1, <2>2, <2>3, <2>4
<1>3. ASSUME NEW a \in Acquirers, CheckoutStep(a) \/ ReturnStep(a)
      PROVE  [Line!FifoNext]_(Line!fifoVars)
  <2>1. UNCHANGED <<closed, closing>>
    BY <1>3, Zenon DEF CheckoutStep, ReturnStep, WaitForLock, StartOpening, TakeFree,
                TakeFreeAndDiscard, Connected, ConnectedBehind, ProbeSucceeds, Configured,
                CheckoutFails, Release, Discard
  <2>2. \/ Admit(a) /\ CheckAcceptingWork
        \/ AdmitObserverRaises(a) \/ ReleaseSlot(a) \/ UNCHANGED gateVars
    BY <1>3, Zenon DEF CheckoutStep, ReturnStep, WaitForLock, StartOpening, TakeFree, GetsLock, Arrives,
                TakeFreeAndDiscard, Connected, ConnectedBehind, ProbeSucceeds, Configured,
                CheckoutFails, Release, Discard, FreeSlot
  <2> QED BY <1>2, <2>1, <2>2 DEF CheckAcceptingWork
<1>4. ASSUME StartClose \/ Drain \/ CloseExpires \/ UNCHANGED vars
      PROVE  [Line!FifoNext]_(Line!fifoVars)
  <2>1. NotifyEveryone \/ UNCHANGED gateVars
    BY <1>4 DEF StartClose, Drain, CloseExpires, vars, gateVars
  <2> QED BY <2>1, NotifyMoves, StutterMoves, QuietIsLineStep
<1> QED BY <1>1, <1>3, <1>4 DEF Next

(***************************************************************************)
(* MariaDBConnectionPool serves the callers of acquire() in the order in   *)
(* which they queue, at most pool_size at a time and only while work is    *)
(* accepted, whatever is cancelled, times out or fails behind the gate:    *)
(* every step of the pool is a step of FifoSemaphore or none.              *)
(***************************************************************************)
THEOREM PoolServesInOrder == Spec => ServesInOrder
<1>1. Init => Line!FifoInit
  BY DEF Init, GateInit, Line!FifoInit, Holders, CheckAcceptingWork
<1>2. GateInv /\ [Next]_vars => [Line!FifoNext]_(Line!fifoVars)
  BY PoolStepIsLineStep
<1>3. PoolInv => GateInv
  BY DEF PoolInv
<1> QED BY <1>1, <1>2, <1>3, PoolCorrect, PTL DEF Spec, ServesInOrder, Line!FifoSpec
-----------------------------------------------------------------------------
(* Whoever waits when the pool stops accepting work is awake to be refused. *)
RefusedIsAwake == ~CheckAcceptingWork => \A a \in Acquirers : where[a] # "parked"

(* The task of _close() runs only while work is refused. *)
CloserRefuses == closer # "none" => ~CheckAcceptingWork

LEMMA RefusedNext ==
  PoolInv /\ RefusedIsAwake /\ CloserRefuses /\ [Next]_vars => RefusedIsAwake' /\ CloserRefuses'
<1> SUFFICES ASSUME PoolInv, RefusedIsAwake, CloserRefuses, [Next]_vars
             PROVE  RefusedIsAwake' /\ CloserRefuses'
  OBVIOUS
<1>1. GateTypeOK
  BY DEF PoolInv, GateInv
<1>2. ASSUME NEW a \in Acquirers, WaitAtGate(a) \/ CheckoutStep(a) \/ ReturnStep(a)
      PROVE  RefusedIsAwake' /\ CloserRefuses'
  <2>1. UNCHANGED <<closed, closing>> /\ (closer' # "none" => closer # "none")
    BY <1>2, Zenon DEF WaitAtGate, CheckoutStep, ReturnStep, WaitForLock, StartOpening, TakeFree,
                TakeFreeAndDiscard, Connected, ConnectedBehind, ProbeSucceeds, Configured,
                CheckoutFails, Release, Discard, FreeSlot, WakeCloser
  <2>2. ~CheckAcceptingWork =>
          \/ UNCHANGED where \/ ReleaseSlot(a)
          \/ Call(a) \/ ExpireWaiting(a) \/ Reject(a) \/ Cancel(a)
    BY <1>2, Zenon DEF WaitAtGate, LookAtGate, CheckoutStep, ReturnStep, WaitForLock, StartOpening,
                TakeFree, GetsLock, Arrives, TakeFreeAndDiscard, Connected, ConnectedBehind,
                ProbeSucceeds, Configured, CheckoutFails, Release, Discard, FreeSlot, gateVars
  <2>3. RefusedIsAwake'
    BY <1>1, <2>1, <2>2, OnlyParkSleeps DEF RefusedIsAwake, CheckAcceptingWork
  <2> QED BY <2>1, <2>3 DEF CloserRefuses, CheckAcceptingWork
<1>3. CASE StartClose
  <2>1. \A b \in Acquirers : where'[b] # "parked"
    BY <1>1, <1>3, NotifiedWakesAll DEF StartClose
  <2> QED BY <1>3, <2>1, Zenon DEF StartClose, ShutDriver, RefusedIsAwake, CloserRefuses, CheckAcceptingWork
<1>4. CASE Drain
  BY <1>4 DEF Drain, ShutDriver, gateVars, RefusedIsAwake, CloserRefuses, CheckAcceptingWork
<1>5. CASE CloseExpires \/ UNCHANGED vars
  BY <1>5 DEF CloseExpires, vars, gateVars, RefusedIsAwake, CloserRefuses, CheckAcceptingWork
<1> QED BY <1>2, <1>3, <1>4, <1>5 DEF Next

(***************************************************************************)
(* Nobody sleeps in the queue of a pool that refuses work, also when the   *)
(* shutdown ended without success: a caller of acquire() is refused and    *)
(* does not wait for its deadline.                                         *)
(***************************************************************************)
THEOREM PoolRefusesPromptly == Spec => []RefusedIsAwake
<1>1. Init => RefusedIsAwake /\ CloserRefuses
  BY DEF Init, RefusedIsAwake, CloserRefuses, CheckAcceptingWork
<1> QED BY <1>1, RefusedNext, PoolCorrect, PTL DEF Spec
=============================================================================
