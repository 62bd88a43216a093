-------------------------- MODULE SQLitePoolProofs --------------------------
(***************************************************************************)
(* Ownership, size and shutdown of the SQLite pool, for every set of       *)
(* acquisitions, every pool_size and every set of connections.  PoolInv is *)
(* inductive: the gate's own invariant says who holds a slot, OneOwner     *)
(* what is behind it, and ShutdownInv what the task of _close() knows at   *)
(* each of its suspension points.                                          *)
(***************************************************************************)
EXTENDS SQLitePool, AdmissionGateProofs

PoolTypeOK ==
  /\ closed \in BOOLEAN /\ closing \in BOOLEAN /\ closeFailed \in BOOLEAN
  /\ idle \in Seq(Conns)
  /\ pending \in SUBSET Conns
  /\ attempt \in SUBSET pending
  /\ phase \in [Acquirers -> Phases]
  /\ conn \in [Acquirers -> Conns \cup {NoConn}]
  /\ closer \in CloserPlaces

(* Every open handle is within pool_size, the retained ones included. *)
WithinPoolSize == Len(idle) + admitted + Cardinality(pending) <= PoolSize

(***************************************************************************)
(* While handles are retained the pool refuses work.  While the task of    *)
(* _close() runs nothing becomes idle; past the drain no slot is out, so   *)
(* no detached task can add a handle to the ones it is closing.            *)
(***************************************************************************)
ShutdownInv ==
  /\ pending # {} => closing
  /\ closer # "none" => closing /\ idle = <<>>
  /\ closer \notin {"flush", "finish"} => attempt = {} /\ ~closeFailed
  /\ closer = "finish" => admitted = 0 /\ (pending = attempt \/ closeFailed)
  /\ ClosedIsEmpty

PoolInv == GateInv /\ PoolTypeOK /\ OneOwner /\ WithinPoolSize /\ ShutdownInv
-----------------------------------------------------------------------------
(* Idle lists *)

LEMMA RangeSize ==
  ASSUME NEW S, NEW q \in Seq(S)
  PROVE  IsFiniteSet(Range(q)) /\ Cardinality(Range(q)) <= Len(q)
<1>1. Len(q) \in Nat /\ DOMAIN q = 1..Len(q)
  BY SeqLength
<1>2. IsFiniteSet(1..Len(q)) /\ Cardinality(1..Len(q)) = Len(q)
  BY <1>1, FS_Interval, SMTT(30)
<1>3. q \in [1..Len(q) -> Range(q)] /\ \A x \in Range(q) : \E i \in 1..Len(q) : q[i] = x
  BY <1>1 DEF Range
<1>4. q \in Surjection(1..Len(q), Range(q))
  BY <1>3 DEF Surjection
<1> QED BY <1>2, <1>4, FS_Surjection

-----------------------------------------------------------------------------
(* Ownership *)

(* NoConn is never idle or retained. *)
LEMMA NoConnIsFree ==
  ASSUME PoolTypeOK
  PROVE  NoConn \notin Range(idle) \cup pending /\ Range(idle) \subseteq Conns
<1>1. \A x \in Range(idle) : x \in Conns
  BY QueueElements DEF PoolTypeOK
<1> QED BY <1>1, ConnsAssumption DEF PoolTypeOK

(* One acquisition changes what its slot is used for; what becomes idle or *)
(* is retained comes from the lists or from its own hands.                 *)
LEMMA UseKeepsOwner ==
  ASSUME PoolTypeOK, OneOwner, NEW a \in Acquirers, NEW p \in Phases,
         NEW c \in Conns \cup {NoConn}, Use(a, p, c),
         p # "none" <=> where'[a] = "in",
         \A b \in Acquirers \ {a} : where'[b] = "in" <=> where[b] = "in",
         p \in WithConn <=> c # NoConn,
         IsInjective(idle'), Range(idle') \cap pending' = {},
         Range(idle') \cup pending' \subseteq Conns,
         \A x \in Range(idle') \cup pending' :
            x \in Range(idle) \cup pending \/ x = conn[a],
         c \notin Range(idle') \cup pending',
         \A b \in Acquirers \ {a} : c # NoConn => conn[b] # c
  PROVE  OneOwner' /\ phase' \in [Acquirers -> Phases] /\ conn' \in [Acquirers -> Conns \cup {NoConn}]
<1>1. /\ phase' \in [Acquirers -> Phases] /\ conn' \in [Acquirers -> Conns \cup {NoConn}]
      /\ phase'[a] = p /\ conn'[a] = c
      /\ \A b \in Acquirers \ {a} : phase'[b] = phase[b] /\ conn'[b] = conn[b]
  BY DEF PoolTypeOK, Use
<1>2. ASSUME NEW b \in Acquirers \ {a}
      PROVE  conn[b] \notin Range(idle') \cup pending'
  <2>1. conn[b] \notin Range(idle) \cup pending
    BY DEF OneOwner
  <2>2. conn[b] # NoConn => conn[b] # conn[a]
    BY DEF OneOwner
  <2>3. NoConn \notin Range(idle') \cup pending'
    BY ConnsAssumption
  <2> QED BY <2>1, <2>2, <2>3
<1>3. ASSUME NEW b \in Acquirers
      PROVE  /\ phase'[b] # "none" <=> where'[b] = "in"
             /\ phase'[b] \in WithConn <=> conn'[b] # NoConn
             /\ conn'[b] \notin Range(idle') \cup pending'
  <2>1. CASE b = a
    BY <1>1, <2>1
  <2>2. CASE b # a
    BY <1>1, <1>2, <2>2 DEF OneOwner
  <2> QED BY <2>1, <2>2
<1>4. ASSUME NEW b \in Acquirers, NEW d \in Acquirers, conn'[b] = conn'[d], conn'[b] # NoConn
      PROVE  b = d
  <2>1. CASE b = a \/ d = a
    BY <1>1, <1>4, <2>1
  <2>2. CASE b # a /\ d # a
    BY <1>1, <1>4, <2>2 DEF OneOwner
  <2> QED BY <2>1, <2>2
<1> QED BY <1>1, <1>3, <1>4 DEF OneOwner

(* Nobody's connection or slot changes. *)
LEMMA SlotsKeepOwner ==
  ASSUME OneOwner, UNCHANGED <<phase, conn>>,
         \A b \in Acquirers : where'[b] = "in" <=> where[b] = "in",
         IsInjective(idle'), Range(idle') \cap pending' = {},
         \A x \in Range(idle') \cup pending' : x \in Range(idle) \cup pending
  PROVE  OneOwner'
BY DEF OneOwner
-----------------------------------------------------------------------------
(* acquire() *)

LEMMA WaitAtGateKeeps ==
  ASSUME PoolInv, NEW a \in Acquirers, WaitAtGate(a)
  PROVE  PoolInv'
<1>1. WaitStep(a) /\ UNCHANGED <<idle, phase, conn, shutdownVars>>
  BY DEF WaitAtGate, LookAtGate, WaitStep
<1>2. GateInv'
  BY <1>1, GateStepPreserves DEF PoolInv, GateStep
<1>3. admitted' = admitted /\ \A b \in Acquirers : where'[b] = "in" <=> where[b] = "in"
  BY <1>1, WaitKeepsSlots DEF PoolInv
<1>4. OneOwner'
  BY <1>1, <1>3, SlotsKeepOwner DEF PoolInv, OneOwner, shutdownVars
<1> QED BY <1>1, <1>2, <1>3, <1>4 DEF PoolInv, PoolTypeOK, WithinPoolSize, ShutdownInv,
                                     ClosedIsEmpty, shutdownVars

(* The slot is kept, and its use changes. *)
LEMMA RephaseKeeps ==
  ASSUME PoolInv, NEW a \in Acquirers, phase[a] # "none",
         NEW p \in Phases \ {"none"}, NEW c \in {conn[a], NoConn} \cup (Conns \ InUse),
         p \in WithConn <=> c # NoConn,
         Use(a, p, c), UNCHANGED <<gateVars, idle, shutdownVars>>
  PROVE  PoolInv'
<1>1. PoolTypeOK /\ OneOwner /\ GateInv
  BY DEF PoolInv
<1>2. c \in Conns \cup {NoConn}
  BY <1>1 DEF PoolTypeOK
<1>3. idle' = idle /\ pending' = pending /\ where' = where
  BY DEF gateVars, shutdownVars
<1>4. c \notin Range(idle) \cup pending
  BY <1>1, NoConnIsFree DEF OneOwner, InUse
<1>5. \A b \in Acquirers \ {a} : c # NoConn => conn[b] # c
  BY <1>1 DEF OneOwner, InUse
<1>6. Range(idle) \cup pending \subseteq Conns
  BY <1>1, NoConnIsFree DEF PoolTypeOK
<1>7. OneOwner' /\ phase' \in [Acquirers -> Phases] /\ conn' \in [Acquirers -> Conns \cup {NoConn}]
  BY <1>1, <1>2, <1>3, <1>4, <1>5, <1>6, UseKeepsOwner DEF OneOwner
<1>8. GateInv'
  BY <1>1, GateStutterPreserves
<1> QED BY <1>7, <1>8 DEF PoolInv, PoolTypeOK, WithinPoolSize, ShutdownInv,
                          ClosedIsEmpty, shutdownVars, gateVars

LEMMA OpeningKeeps ==
  ASSUME PoolInv, NEW a \in Acquirers,
         \/ OpenSucceeds(a) \/ OpenFails(a) \/ AbandonOpening(a) \/ TakeOpened(a)
         \/ RejectOpened(a) \/ TakeOpenedObserverRaises(a)
         \/ ReturnWhileClosing(a) \/ Discard(a)
  PROVE  PoolInv'
<1>1. phase[a] \in WithConn <=> conn[a] # NoConn
  BY DEF PoolInv, OneOwner
<1>2. NoConn \notin Conns
  BY ConnsAssumption
<1>3. PICK p \in Phases \ {"none"}, c \in {conn[a], NoConn} \cup (Conns \ InUse) :
        /\ phase[a] # "none" /\ (p \in WithConn <=> c # NoConn)
        /\ Use(a, p, c) /\ UNCHANGED <<gateVars, idle, shutdownVars>>
  BY <1>1, <1>2 DEF OpenSucceeds, OpenFails, AbandonOpening, TakeOpened, RejectOpened,
     TakeOpenedObserverRaises, ReturnWhileClosing, Discard, Phases, WithConn
<1> QED BY <1>3, RephaseKeeps

(* A pool that accepts work retains no handle and runs no shutdown. *)
LEMMA AcceptingFacts ==
  ASSUME PoolInv, CheckAcceptingWork
  PROVE  ~closed /\ ~closing /\ pending = {} /\ Cardinality(pending) = 0 /\ closer = "none"
BY FS_EmptySet DEF PoolInv, ShutdownInv, CheckAcceptingWork

LEMMA PendingFinite ==
  ASSUME PoolTypeOK
  PROVE  IsFiniteSet(pending) /\ Cardinality(pending) \in Nat
BY ConnsAssumption, FS_Subset, FS_CardinalityType DEF PoolTypeOK

LEMMA CheckoutKeeps ==
  ASSUME PoolInv, NEW a \in Acquirers, CheckoutIdle(a) \/ CheckoutIdleObserverRaises(a)
  PROVE  PoolInv'
<1>1. PICK p \in {"leased", "discarding"} :
        /\ Use(a, p, LastIdle) /\ idle # <<>> /\ idle' = OtherIdle
        /\ CheckAcceptingWork /\ Admit(a) /\ UNCHANGED shutdownVars
  BY DEF CheckoutIdle, CheckoutIdleObserverRaises, Enter
<1>2. PoolTypeOK /\ OneOwner /\ GateInv /\ IsInjective(idle) /\ idle \in Seq(Conns)
  BY DEF PoolInv, OneOwner, PoolTypeOK
<1>3. /\ LastIdle \in Conns /\ idle' \in Seq(Conns) /\ IsInjective(idle')
      /\ Len(idle') = Len(idle) - 1 /\ Len(idle) \in Nat
      /\ \A x : x \in Range(idle') <=> x \in Range(idle) /\ x # LastIdle
  BY <1>1, <1>2, PopProperties, SeqLength DEF LastIdle, OtherIdle
<1>4. /\ admitted' = admitted + 1 /\ where'[a] = "in"
      /\ \A b \in Acquirers \ {a} : where'[b] = "in" <=> where[b] = "in"
  BY <1>1, <1>2, AdmitClaimsSlot
<1>5. ~closed /\ ~closing /\ pending = {} /\ closer = "none"
  BY <1>1, AcceptingFacts
<1>6. pending' = pending
  BY <1>1 DEF shutdownVars
<1>7. LastIdle \in Range(idle)
  BY <1>1, <1>2, <1>3, NoElements, QueueElements DEF LastIdle
<1>8. /\ p \in Phases /\ (p \in WithConn <=> LastIdle # NoConn) /\ p # "none"
  BY <1>3, ConnsAssumption DEF Phases, WithConn
<1>9. /\ Range(idle') \cap pending' = {} /\ Range(idle') \cup pending' \subseteq Conns
      /\ LastIdle \notin Range(idle') \cup pending'
      /\ \A b \in Acquirers \ {a} : conn[b] # LastIdle
  BY <1>2, <1>3, <1>5, <1>6, <1>7, NoConnIsFree DEF OneOwner
<1>10. OneOwner' /\ phase' \in [Acquirers -> Phases] /\ conn' \in [Acquirers -> Conns \cup {NoConn}]
  BY <1>1, <1>2, <1>3, <1>4, <1>6, <1>8, <1>9, UseKeepsOwner
<1>11. GateInv'
  BY <1>1, <1>2, AdmitPreserves
<1>12. PoolTypeOK'
  BY <1>1, <1>2, <1>3, <1>10 DEF PoolTypeOK, shutdownVars
<1>13. WithinPoolSize'
  <2>1. admitted \in Nat /\ Cardinality(pending) \in Nat /\ PoolSize \in Nat
    BY <1>2, PendingFinite, CapacityAssumption DEF GateInv, GateTypeOK, PoolSize
  <2> QED BY <1>3, <1>4, <1>6, <2>1 DEF PoolInv, WithinPoolSize, PoolSize
<1>14. ShutdownInv'
  BY <1>1, <1>5 DEF PoolInv, ShutdownInv, ClosedIsEmpty, shutdownVars
<1> QED BY <1>10, <1>11, <1>12, <1>13, <1>14 DEF PoolInv

LEMMA StartOpeningKeeps ==
  ASSUME PoolInv, NEW a \in Acquirers, StartOpening(a)
  PROVE  PoolInv'
<1>1. /\ Use(a, "opening", NoConn) /\ idle = <<>> /\ CheckAcceptingWork /\ Admit(a)
      /\ UNCHANGED <<idle, shutdownVars>>
  BY DEF StartOpening, Enter
<1>2. PoolTypeOK /\ OneOwner /\ GateInv
  BY DEF PoolInv
<1>3. /\ admitted' = admitted + 1 /\ admitted < Capacity /\ where'[a] = "in"
      /\ \A b \in Acquirers \ {a} : where'[b] = "in" <=> where[b] = "in"
  BY <1>1, <1>2, AdmitClaimsSlot
<1>4. ~closed /\ ~closing /\ pending = {} /\ Cardinality(pending) = 0 /\ closer = "none"
  BY <1>1, AcceptingFacts
<1>5. pending' = pending /\ idle' = idle
  BY <1>1 DEF shutdownVars
<1>6. /\ "opening" \in Phases /\ "opening" \notin WithConn
      /\ Range(idle) \cup pending \subseteq Conns /\ NoConn \notin Range(idle) \cup pending
  BY <1>2, <1>4, NoConnIsFree DEF Phases, WithConn
<1>7. OneOwner' /\ phase' \in [Acquirers -> Phases] /\ conn' \in [Acquirers -> Conns \cup {NoConn}]
  BY <1>1, <1>2, <1>3, <1>5, <1>6, UseKeepsOwner DEF OneOwner
<1>8. GateInv'
  BY <1>1, <1>2, AdmitPreserves
<1>9. PoolTypeOK'
  BY <1>1, <1>2, <1>7 DEF PoolTypeOK, shutdownVars
<1>10. WithinPoolSize'
  <2>1. Len(idle) = 0 /\ admitted \in Nat /\ Capacity \in Nat
    BY <1>1, <1>2, NoElements, CapacityAssumption DEF GateInv, GateTypeOK
  <2> QED BY <1>3, <1>4, <1>5, <2>1 DEF WithinPoolSize, PoolSize
<1>11. ShutdownInv'
  BY <1>1, <1>4 DEF PoolInv, ShutdownInv, ClosedIsEmpty, shutdownVars
<1> QED BY <1>7, <1>8, <1>9, <1>10, <1>11 DEF PoolInv
-----------------------------------------------------------------------------
(* release() and discard() *)

(* What every step that frees a slot has in common. *)
LEMMA FreeSlotFacts ==
  ASSUME PoolInv, NEW a \in Acquirers, FreeSlot(a)
  PROVE  /\ GateInv' /\ ~closed /\ closer # "finish"
         /\ admitted \in Nat /\ admitted' = admitted - 1 /\ admitted # 0
         /\ where'[a] # "in" /\ Use(a, "none", NoConn)
         /\ \A b \in Acquirers \ {a} : where'[b] = "in" <=> where[b] = "in"
         /\ closer' \in CloserPlaces /\ closer' # "finish"
         /\ closer' = "none" <=> closer = "none"
         /\ closer' = "flush" <=> closer = "flush"
<1>1. ReleaseSlot(a) /\ GateInv
  BY DEF FreeSlot, PoolInv
<1>2. /\ admitted' = admitted - 1 /\ admitted # 0 /\ where'[a] # "in"
      /\ \A b \in Acquirers \ {a} : where'[b] = "in" <=> where[b] = "in"
  BY <1>1, ReleaseFreesSlot
<1>3. GateInv'
  BY <1>1, ReleasePreserves
<1>4. ~closed /\ closer # "finish" /\ closer \in CloserPlaces
  BY <1>2 DEF PoolInv, ShutdownInv, ClosedIsEmpty, PoolTypeOK
<1>5. admitted \in Nat
  BY <1>1, CapacityAssumption, SMTT(30) DEF GateInv, GateTypeOK
<1> QED BY <1>2, <1>3, <1>4, <1>5 DEF FreeSlot, CloserPlaces

(* Its owner gives the connection up; the lists take it or it is closed. *)
LEMMA FreeSlotKeepsOwner ==
  ASSUME PoolInv, NEW a \in Acquirers, FreeSlot(a),
         IsInjective(idle'), Range(idle') \cap pending' = {},
         Range(idle') \cup pending' \subseteq Conns,
         \A x \in Range(idle') \cup pending' :
            x \in Range(idle) \cup pending \/ x = conn[a]
  PROVE  OneOwner' /\ phase' \in [Acquirers -> Phases] /\ conn' \in [Acquirers -> Conns \cup {NoConn}]
<1> DEFINE p == "none"
           c == NoConn
<1>1. PoolTypeOK /\ OneOwner
  BY DEF PoolInv
<1>2. /\ Use(a, p, c) /\ where'[a] # "in"
      /\ \A b \in Acquirers \ {a} : where'[b] = "in" <=> where[b] = "in"
  BY FreeSlotFacts
<1>3. p \in Phases /\ p = "none" /\ (p \in WithConn <=> c # NoConn)
  BY DEF Phases, WithConn
<1>4. c = NoConn /\ c \in Conns \cup {NoConn} /\ c \notin Range(idle') \cup pending'
  BY ConnsAssumption
<1> HIDE DEF p, c
<1> QED BY <1>1, <1>2, <1>3, <1>4, UseKeepsOwner

(* The connection of the slot is gone. *)
LEMMA ReapKeeps ==
  ASSUME PoolInv, NEW a \in Acquirers, ReapOpening(a) \/ CloseDiscarded(a)
  PROVE  PoolInv'
<1>1. FreeSlot(a) /\ UNCHANGED <<idle, closed, closing, pending, attempt, closeFailed>>
  BY DEF ReapOpening, CloseDiscarded
<1>2. PoolTypeOK /\ OneOwner
  BY DEF PoolInv
<1>3. /\ IsInjective(idle') /\ Range(idle') \cap pending' = {}
      /\ Range(idle') \cup pending' \subseteq Conns
      /\ Range(idle') = Range(idle) /\ pending' = pending
  BY <1>1, <1>2, NoConnIsFree DEF OneOwner, PoolTypeOK
<1>4. OneOwner' /\ phase' \in [Acquirers -> Phases] /\ conn' \in [Acquirers -> Conns \cup {NoConn}]
  BY <1>1, <1>3, FreeSlotKeepsOwner
<1>5. PoolTypeOK'
  BY <1>1, <1>2, <1>4, FreeSlotFacts DEF PoolTypeOK
<1>6. WithinPoolSize'
  BY <1>1, <1>2, FreeSlotFacts, PendingFinite, SeqLength, CapacityAssumption, SMTT(30)
     DEF PoolInv, PoolTypeOK, WithinPoolSize, PoolSize
<1>7. ShutdownInv'
  BY <1>1, FreeSlotFacts, SMTT(30) DEF PoolInv, ShutdownInv, ClosedIsEmpty
<1> QED BY <1>1, <1>4, <1>5, <1>6, <1>7, FreeSlotFacts DEF PoolInv

(* The connection becomes idle; no shutdown runs and no handle is retained. *)
LEMMA ReturnKeeps ==
  ASSUME PoolInv, NEW a \in Acquirers, ReturnConnection(a)
  PROVE  PoolInv'
<1>1. /\ FreeSlot(a) /\ phase[a] = "leased" /\ CheckAcceptingWork
      /\ idle' = Append(idle, conn[a])
      /\ UNCHANGED <<closed, closing, pending, attempt, closeFailed>>
  BY DEF ReturnConnection
<1>2. PoolTypeOK /\ OneOwner /\ idle \in Seq(Conns) /\ IsInjective(idle)
  BY DEF PoolInv, PoolTypeOK, OneOwner
<1>3. conn[a] \in Conns /\ conn[a] \notin Range(idle)
  BY <1>1, <1>2 DEF PoolTypeOK, OneOwner, WithConn
<1>4. /\ idle' \in Seq(Conns) /\ IsInjective(idle') /\ Len(idle') = Len(idle) + 1
      /\ Len(idle) \in Nat
      /\ \A x : x \in Range(idle') <=> x \in Range(idle) \/ x = conn[a]
  BY <1>1, <1>2, <1>3, AppendNewProperties, SeqLength
<1>5. ~closed /\ ~closing /\ pending = {} /\ Cardinality(pending) = 0 /\ closer = "none"
  BY <1>1, AcceptingFacts
<1>6. Range(idle') \cap pending' = {} /\ Range(idle') \cup pending' \subseteq Conns
  BY <1>1, <1>2, <1>3, <1>4, <1>5, NoConnIsFree
<1>7. OneOwner' /\ phase' \in [Acquirers -> Phases] /\ conn' \in [Acquirers -> Conns \cup {NoConn}]
  <2>1. \A x \in Range(idle') \cup pending' : x \in Range(idle) \cup pending \/ x = conn[a]
    BY <1>1, <1>4
  <2> QED BY <1>1, <1>4, <1>6, <2>1, FreeSlotKeepsOwner
<1>8. PoolTypeOK'
  BY <1>1, <1>2, <1>4, <1>7, FreeSlotFacts, SMTT(30) DEF PoolTypeOK
<1>9. WithinPoolSize'
  BY <1>1, <1>4, <1>5, FreeSlotFacts, CapacityAssumption, SMTT(30) DEF PoolInv, WithinPoolSize, PoolSize
<1>10. ShutdownInv'
  BY <1>1, <1>5, FreeSlotFacts, SMTT(30) DEF PoolInv, ShutdownInv, ClosedIsEmpty
<1> QED BY <1>1, <1>7, <1>8, <1>9, <1>10, FreeSlotFacts DEF PoolInv

(* The handle is retained before its slot is free. *)
LEMMA QuarantineKeeps ==
  ASSUME PoolInv, NEW a \in Acquirers, CloseDiscardedFails(a)
  PROVE  PoolInv'
<1>1. /\ FreeSlot(a) /\ phase[a] = "discarding" /\ pending' = pending \cup {conn[a]}
      /\ closing' = TRUE /\ UNCHANGED <<idle, closed, attempt, closeFailed>>
  BY DEF CloseDiscardedFails
<1>2. PoolTypeOK /\ OneOwner
  BY DEF PoolInv
<1>3. conn[a] \in Conns /\ conn[a] \notin Range(idle) \cup pending
  BY <1>1, <1>2 DEF PoolTypeOK, OneOwner, WithConn
<1>4. /\ IsInjective(idle') /\ Range(idle') \cap pending' = {}
      /\ Range(idle') \cup pending' \subseteq Conns
      /\ \A x \in Range(idle') \cup pending' : x \in Range(idle) \cup pending \/ x = conn[a]
  BY <1>1, <1>2, <1>3, NoConnIsFree DEF OneOwner, PoolTypeOK
<1>5. OneOwner' /\ phase' \in [Acquirers -> Phases] /\ conn' \in [Acquirers -> Conns \cup {NoConn}]
  BY <1>1, <1>4, FreeSlotKeepsOwner
<1>6. PoolTypeOK'
  BY <1>1, <1>2, <1>3, <1>5, FreeSlotFacts, SMTT(30) DEF PoolTypeOK
<1>7. WithinPoolSize'
  <2>1. Cardinality(pending') = Cardinality(pending) + 1 /\ Cardinality(pending) \in Nat
    BY <1>1, <1>2, <1>3, PendingFinite, FS_AddElement, ZenonT(30)
  <2>2. Len(idle) \in Nat
    BY <1>2, SeqLength DEF PoolTypeOK
  <2>3. admitted \in Nat /\ admitted' = admitted - 1 /\ idle' = idle /\ Capacity \in Nat
    BY <1>1, FreeSlotFacts, CapacityAssumption
  <2>4. Len(idle) + admitted + Cardinality(pending) <= Capacity
    BY DEF PoolInv, WithinPoolSize, PoolSize
  <2> QED BY ONLY <2>1, <2>2, <2>3, <2>4 DEF WithinPoolSize, PoolSize
<1>8. ShutdownInv'
  BY <1>1, FreeSlotFacts, Zenon DEF PoolInv, ShutdownInv, ClosedIsEmpty
<1> QED BY <1>1, <1>5, <1>6, <1>7, <1>8, FreeSlotFacts DEF PoolInv
-----------------------------------------------------------------------------
(* close() *)

(* The idle connections become retained handles. *)
LEMMA RetainKeeps ==
  ASSUME PoolTypeOK, OneOwner, WithinPoolSize, admitted \in Nat, admitted' = admitted,
         UNCHANGED <<phase, conn>>, pending' = pending \cup Range(idle), idle' = <<>>,
         \A b \in Acquirers : where'[b] = "in" <=> where[b] = "in"
  PROVE  /\ OneOwner' /\ WithinPoolSize'
         /\ idle' \in Seq(Conns) /\ pending' \in SUBSET Conns
<1>1. idle' \in Seq(Conns) /\ Len(idle') = 0 /\ Range(idle') = {} /\ IsInjective(idle')
  BY NoElements DEF Range, IsInjective
<1>2. pending' \in SUBSET Conns
  BY NoConnIsFree DEF PoolTypeOK
<1>3. OneOwner'
  BY <1>1, SlotsKeepOwner
<1>4. Cardinality(pending') <= Cardinality(pending) + Len(idle)
  <2>1. /\ IsFiniteSet(pending) /\ Cardinality(pending) \in Nat
        /\ IsFiniteSet(Range(idle)) /\ Cardinality(Range(idle)) <= Len(idle)
    BY PendingFinite, RangeSize, SMTT(30) DEF PoolTypeOK
  <2>2. Cardinality(pending') =
          Cardinality(pending) + Cardinality(Range(idle)) - Cardinality(pending \cap Range(idle))
    BY <2>1, FS_Union
  <2>3. Cardinality(pending \cap Range(idle)) = 0
    BY FS_EmptySet, Zenon DEF OneOwner
  <2>4. Cardinality(Range(idle)) \in Nat /\ Len(idle) \in Nat
    BY <2>1, FS_CardinalityType, SeqLength DEF PoolTypeOK
  <2> QED BY <2>1, <2>2, <2>3, <2>4, SMTT(30)
<1>5. Cardinality(pending') \in Nat /\ Cardinality(pending) \in Nat /\ Len(idle) \in Nat
  BY <1>2, PendingFinite, ConnsAssumption, FS_Subset, FS_CardinalityType, SeqLength DEF PoolTypeOK
<1>6. WithinPoolSize'
  BY <1>1, <1>4, <1>5, CapacityAssumption DEF WithinPoolSize, PoolSize
<1> QED BY <1>1, <1>2, <1>3, <1>6, SMTT(30)

LEMMA StartCloseKeeps ==
  ASSUME PoolInv, StartClose
  PROVE  PoolInv'
<1>1. GateInv' /\ admitted' = admitted /\ admitted \in Nat
      /\ \A b \in Acquirers : where'[b] = "in" <=> where[b] = "in"
  BY NotifyPreserves, NotifyKeepsSlots, CapacityAssumption
     DEF StartClose, PoolInv, GateInv, GateTypeOK
<1>2. /\ OneOwner' /\ WithinPoolSize' /\ idle' \in Seq(Conns) /\ pending' \in SUBSET Conns
  BY <1>1, RetainKeeps DEF StartClose, PoolInv
<1>3. PoolTypeOK'
  BY <1>2 DEF StartClose, PoolInv, PoolTypeOK, CloserPlaces
<1>4. ShutdownInv'
  BY DEF StartClose, PoolInv, ShutdownInv, ClosedIsEmpty
<1> QED BY <1>1, <1>2, <1>3, <1>4 DEF PoolInv

LEMMA DrainedKeeps ==
  ASSUME PoolInv, Drained
  PROVE  PoolInv'
<1>1. GateInv' /\ admitted' = admitted /\ admitted \in Nat /\ where' = where
  BY GateStutterPreserves, CapacityAssumption
     DEF Drained, PoolInv, GateInv, GateTypeOK, gateVars
<1>2. /\ OneOwner' /\ WithinPoolSize' /\ idle' \in Seq(Conns) /\ pending' \in SUBSET Conns
  BY <1>1, RetainKeeps DEF Drained, PoolInv
<1>3. PoolTypeOK'
  BY <1>2 DEF Drained, PoolInv, PoolTypeOK, CloserPlaces
<1>4. ShutdownInv'
  BY <1>1 DEF Drained, PoolInv, ShutdownInv, ClosedIsEmpty
<1> QED BY <1>1, <1>2, <1>3, <1>4 DEF PoolInv

(* A handle is closed, or tried in vain. *)
LEMMA HandleKeeps ==
  ASSUME PoolInv, NEW c \in Conns, CloseHandle(c) \/ CloseHandleFails(c)
  PROVE  PoolInv'
<1>1. /\ c \in attempt /\ attempt' = attempt \ {c} /\ UNCHANGED <<gateVars, idle, phase, conn>>
      /\ UNCHANGED <<closed, closing, closer>>
      /\ \/ pending' = pending \ {c} /\ closeFailed' = closeFailed
         \/ pending' = pending /\ closeFailed' = TRUE
  BY DEF CloseHandle, CloseHandleFails
<1>2. PoolTypeOK /\ OneOwner /\ GateInv /\ ShutdownInv
  BY DEF PoolInv
<1>3. GateInv'
  BY <1>1, <1>2, GateStutterPreserves
<1>4. PoolTypeOK'
  BY <1>1, <1>2, Zenon DEF PoolTypeOK
<1>5. OneOwner'
  BY <1>1, <1>2 DEF OneOwner, gateVars
<1>6. WithinPoolSize'
  <2>1. /\ Cardinality(pending') \in Nat /\ Cardinality(pending) \in Nat
        /\ Cardinality(pending') <= Cardinality(pending)
    <3>1. pending' \in SUBSET pending
      BY <1>1
    <3> QED BY <1>2, <3>1, PendingFinite, FS_Subset, FS_CardinalityType
  <2>2. admitted \in Nat /\ admitted' = admitted /\ Len(idle) \in Nat /\ idle' = idle
    BY <1>1, <1>2, SeqLength, CapacityAssumption DEF gateVars, GateInv, GateTypeOK, PoolTypeOK
  <2> QED BY <2>1, <2>2, CapacityAssumption DEF PoolInv, WithinPoolSize, PoolSize
<1>7. ShutdownInv'
  <2>1. closer \in {"flush", "finish"} /\ pending # {}
    BY <1>1, <1>2 DEF ShutdownInv, PoolTypeOK
  <2>2. closing /\ idle = <<>> /\ ~closed
    BY <1>2, <2>1 DEF ShutdownInv, ClosedIsEmpty
  <2>3. closer = "finish" => admitted = 0 /\ (pending' = attempt' \/ closeFailed')
    BY <1>1, <1>2 DEF ShutdownInv
  <2> QED BY <1>1, <2>1, <2>2, <2>3 DEF ShutdownInv, ClosedIsEmpty, gateVars
<1> QED BY <1>3, <1>4, <1>5, <1>6, <1>7 DEF PoolInv

(* The task of _close() moves on and touches no connection. *)
LEMMA CloserKeeps ==
  ASSUME PoolInv,
         \/ CloseRaises \/ FlushDone \/ WaitForDrain \/ DrainExpires \/ CloseDone
  PROVE  PoolInv'
<1>1. UNCHANGED <<idle, pending, phase, conn, attempt>>
  BY DEF CloseRaises, FlushDone, WaitForDrain, DrainExpires, CloseDone
<1>2. NotifyEveryone \/ UNCHANGED gateVars
  BY DEF CloseRaises, FlushDone, WaitForDrain, DrainExpires, CloseDone
<1>3. PoolTypeOK /\ OneOwner /\ GateInv /\ ShutdownInv
  BY DEF PoolInv
<1>4. GateInv'
  BY <1>2, <1>3, NotifyPreserves, GateStutterPreserves
<1>5. admitted' = admitted /\ \A b \in Acquirers : where'[b] = "in" <=> where[b] = "in"
  BY <1>2, <1>3, NotifyKeepsSlots, SMTT(30) DEF gateVars
<1>6. OneOwner'
  BY <1>1, <1>3, <1>5 DEF OneOwner
<1>7. PoolTypeOK'
  <2>1. closed' \in BOOLEAN /\ closing' \in BOOLEAN /\ closeFailed' \in BOOLEAN /\ closer' \in CloserPlaces
    BY <1>3, ZenonT(30) DEF PoolTypeOK, CloserPlaces, CloseRaises, FlushDone, WaitForDrain, DrainExpires, CloseDone
  <2> QED BY <1>1, <1>3, <2>1 DEF PoolTypeOK
<1>8. WithinPoolSize'
  BY <1>1, <1>5 DEF PoolInv, WithinPoolSize, PoolSize
<1>9. ShutdownInv'
  <2>1. CASE CloseRaises \/ FlushDone \/ WaitForDrain
    <3>1. CASE CloseRaises
      BY <1>1, <1>3, <1>5, <3>1 DEF ShutdownInv, ClosedIsEmpty, CloseRaises
    <3>2. CASE FlushDone
      BY <1>1, <1>3, <1>5, <3>2 DEF ShutdownInv, ClosedIsEmpty, FlushDone
    <3>3. CASE WaitForDrain
      BY <1>1, <1>3, <1>5, <3>3 DEF ShutdownInv, ClosedIsEmpty, WaitForDrain
    <3> QED BY <2>1, <3>1, <3>2, <3>3
  <2>2. CASE DrainExpires
    BY <1>1, <1>3, <1>5, <2>2, Zenon DEF ShutdownInv, ClosedIsEmpty, DrainExpires
  <2>3. CASE CloseDone
    BY <1>1, <1>3, <1>5, <2>3 DEF ShutdownInv, ClosedIsEmpty, CloseDone
  <2> QED BY <2>1, <2>2, <2>3
<1> QED BY <1>4, <1>6, <1>7, <1>8, <1>9 DEF PoolInv

LEMMA PoolInit == Init => PoolInv
<1> SUFFICES ASSUME Init PROVE PoolInv
  OBVIOUS
<1>1. PICK c \in Conns : idle = <<c>>
  BY DEF Init
<1>2. /\ idle \in Seq(Conns) /\ Len(idle) = 1 /\ Range(idle) = {c} /\ IsInjective(idle)
  BY <1>1 DEF Range, IsInjective
<1>3. GateInv /\ admitted = 0 /\ \A a \in Acquirers : where[a] = "out"
  BY GateInitEstablishes DEF Init, GateInit
<1>4. PoolTypeOK
  BY <1>2, Zenon DEF Init, PoolTypeOK, Phases, CloserPlaces
<1>5. OneOwner
  BY <1>2, <1>3, ConnsAssumption DEF Init, OneOwner, WithConn
<1>6. WithinPoolSize
  BY <1>2, <1>3, FS_EmptySet, CapacityAssumption DEF Init, WithinPoolSize, PoolSize
<1>7. ShutdownInv
  BY DEF Init, ShutdownInv, ClosedIsEmpty
<1> QED BY <1>3, <1>4, <1>5, <1>6, <1>7 DEF PoolInv

LEMMA PoolNext == PoolInv /\ [Next]_vars => PoolInv'
<1> SUFFICES ASSUME PoolInv, [Next]_vars PROVE PoolInv'
  OBVIOUS
<1>1. ASSUME NEW a \in Acquirers, AcquireStep(a) PROVE PoolInv'
  BY <1>1, WaitAtGateKeeps, CheckoutKeeps, StartOpeningKeeps, OpeningKeeps DEF AcquireStep
<1>2. ASSUME NEW a \in Acquirers, ReturnStep(a) PROVE PoolInv'
  BY <1>2, ReturnKeeps, OpeningKeeps DEF ReturnStep
<1>3. ASSUME NEW a \in Acquirers, ReapStep(a) PROVE PoolInv'
  BY <1>3, ReapKeeps, QuarantineKeeps DEF ReapStep
<1>4. CASE CloseStep
  BY <1>4, HandleKeeps, CloserKeeps, DrainedKeeps DEF CloseStep
<1>5. CASE StartClose
  BY <1>5, StartCloseKeeps
<1>6. CASE DrainExpires
  BY <1>6, CloserKeeps, SMTT(30)
<1>7. CASE UNCHANGED vars
  <2>1. GateInv'
    BY <1>7, GateStutterPreserves, SMTT(30) DEF PoolInv, vars, gateVars
  <2>2. OneOwner'
    BY <1>7, Zenon DEF PoolInv, OneOwner, vars
  <2> QED BY <1>7, <2>1, <2>2 DEF PoolInv, PoolTypeOK, WithinPoolSize, PoolSize, ShutdownInv,
                                 ClosedIsEmpty, vars
<1> QED BY <1>1, <1>2, <1>3, <1>4, <1>5, <1>6, <1>7, SMTT(30) DEF Next
-----------------------------------------------------------------------------
(***************************************************************************)
(* SQLiteConnectionPool keeps its books: the gate's slots, what is behind  *)
(* each, the idle list, the retained handles and the shutdown agree after  *)
(* every step of acquire(), release(), discard(), close() and the tasks    *)
(* they start.                                                             *)
(***************************************************************************)
THEOREM PoolCorrect == Spec => []PoolInv
BY PoolInit, PoolNext, PTL DEF Spec

(***************************************************************************)
(* No connection is handed out twice, leased while it is idle or retained, *)
(* or lost with its slot, whatever is cancelled or fails to open or close. *)
(***************************************************************************)
THEOREM PoolOneOwner == Spec => []OneOwner
<1>1. PoolInv => OneOwner
  BY DEF PoolInv
<1> QED BY <1>1, PoolCorrect, PTL

(* A pool that close() has closed has no slot out and no handle left. *)
THEOREM PoolClosedIsEmpty == Spec => []ClosedIsEmpty
<1>1. PoolInv => ClosedIsEmpty
  BY DEF PoolInv, ShutdownInv
<1> QED BY <1>1, PoolCorrect, PTL

(* pool_size bounds all open handles, those that would not close included. *)
THEOREM PoolWithinSize == Spec => []WithinPoolSize
<1>1. PoolInv => WithinPoolSize
  BY DEF PoolInv
<1> QED BY <1>1, PoolCorrect, PTL
-----------------------------------------------------------------------------
(***************************************************************************)
(* The callers of acquire() see FifoSemaphore, whatever happens behind the *)
(* gate: the slots serve in the order of arrival, and open is what         *)
(* check_accepting_work() tells them.                                      *)
(***************************************************************************)
Line == INSTANCE FifoSemaphore
          WITH Clients <- Acquirers, Slots <- Capacity,
               line <- waiters, inside <- Holders, open <- CheckAcceptingWork

ServesInOrder == Line!FifoSpec

(* The operators that FifoSemaphore takes from the library are the pool's. *)
LEMMA LineOperators ==
  /\ \A S : Line!Cardinality(S) = Cardinality(S)
  /\ \A s : Line!Range(s) = Range(s)
  /\ \A s, e : Line!Without(s, e) = Without(s, e)
<1>1. \A S : Line!Cardinality(S) = Cardinality(S)
  BY Zenon DEF Line!Cardinality, Cardinality, Line!IsFiniteSet, IsFiniteSet
<1>2. \A s : Line!Range(s) = Range(s)
  BY DEF Line!Range, Range
<1>3. \A s, e : Line!Without(s, e) = Without(s, e)
  BY <1>2 DEF Line!Without, Without
<1> QED BY <1>1, <1>2, <1>3

(* Nobody is seen to move, and the door may open or shut. *)
LEMMA QuietIsLineStep ==
  ASSUME Stays
  PROVE  [Line!FifoNext]_(Line!fifoVars)
<1>1. CheckAcceptingWork \in BOOLEAN /\ CheckAcceptingWork' \in BOOLEAN
  BY DEF CheckAcceptingWork
<1> QED BY <1>1 DEF Stays, Line!FifoNext, Line!OpenOrShut, Line!fifoVars

(* What is seen of a step is a step of the semaphore. *)
LEMMA SeenIsLineStep ==
  ASSUME NEW a \in Acquirers,
         \/ (Joins(a) \/ Quits(a) \/ Leaves(a)) /\ UNCHANGED CheckAcceptingWork
         \/ Enters(a) /\ CheckAcceptingWork /\ UNCHANGED CheckAcceptingWork
         \/ Leaves(a) /\ CheckAcceptingWork' = FALSE
         \/ Stays
  PROVE  [Line!FifoNext]_(Line!fifoVars)
<1> DEFINE open == CheckAcceptingWork
<1> USE LineOperators DEF Line!FifoNext
<1>1. CASE Joins(a) /\ UNCHANGED open
  BY <1>1 DEF Joins, Line!Join
<1>2. CASE Quits(a) /\ UNCHANGED open
  BY <1>2 DEF Quits, Line!Quit
<1>3. CASE Leaves(a) /\ UNCHANGED open
  BY <1>3 DEF Leaves, Line!Leave
<1>4. CASE Enters(a) /\ open /\ UNCHANGED open
  BY <1>4 DEF Enters, Line!Enter, Line!EnterAtOnce, Line!Room
<1>5. CASE Leaves(a) /\ open' = FALSE
  BY <1>5 DEF Leaves, Line!LeaveAndShut
<1>6. CASE Stays
  BY <1>6, QuietIsLineStep
<1> QED BY <1>1, <1>2, <1>3, <1>4, <1>5, <1>6, Zenon

LEMMA PoolStepIsLineStep ==
  ASSUME GateInv, [Next]_vars
  PROVE  [Line!FifoNext]_(Line!fifoVars)
<1>1. ASSUME NEW a \in Acquirers, WaitAtGate(a) PROVE [Line!FifoNext]_(Line!fifoVars)
  <2>1. WaitStep(a) /\ UNCHANGED CheckAcceptingWork
    BY <1>1 DEF WaitAtGate, LookAtGate, WaitStep, shutdownVars, CheckAcceptingWork
  <2> QED BY <2>1, WaitMoves, SeenIsLineStep, Zenon
<1>2. ASSUME NEW a \in Acquirers,
             CheckoutIdle(a) \/ CheckoutIdleObserverRaises(a) \/ StartOpening(a)
      PROVE  [Line!FifoNext]_(Line!fifoVars)
  <2>1. Admit(a) /\ CheckAcceptingWork /\ UNCHANGED CheckAcceptingWork
    BY <1>2 DEF CheckoutIdle, CheckoutIdleObserverRaises, StartOpening, Enter,
                shutdownVars, CheckAcceptingWork
  <2> QED BY <2>1, AdmitMoves, SeenIsLineStep
<1>3. ASSUME NEW a \in Acquirers,
             ReapOpening(a) \/ CloseDiscarded(a) \/ CloseDiscardedFails(a) \/ ReturnConnection(a)
      PROVE  [Line!FifoNext]_(Line!fifoVars)
  <2>1. ReleaseSlot(a) /\ (UNCHANGED CheckAcceptingWork \/ CheckAcceptingWork' = FALSE)
    <3>1. FreeSlot(a) /\ UNCHANGED closed /\ (UNCHANGED closing \/ closing' = TRUE)
      BY <1>3, Zenon DEF ReapOpening, CloseDiscarded, CloseDiscardedFails, ReturnConnection
    <3>2. ReleaseSlot(a)
      BY <3>1, Zenon DEF FreeSlot
    <3>3. UNCHANGED CheckAcceptingWork \/ CheckAcceptingWork' = FALSE
      BY ONLY <3>1 DEF CheckAcceptingWork
    <3> QED BY <3>2, <3>3, Zenon
  <2> QED BY <2>1, ReleaseMoves, SeenIsLineStep, Zenon
<1>4. ASSUME NEW a \in Acquirers,
             \/ OpenSucceeds(a) \/ OpenFails(a) \/ AbandonOpening(a) \/ TakeOpened(a)
             \/ RejectOpened(a) \/ TakeOpenedObserverRaises(a)
             \/ ReturnWhileClosing(a) \/ Discard(a)
      PROVE  UNCHANGED <<gateVars, shutdownVars>>
  BY <1>4 DEF OpenSucceeds, OpenFails, AbandonOpening, TakeOpened, RejectOpened,
              TakeOpenedObserverRaises, ReturnWhileClosing, Discard
<1>5. ASSUME CloseStep \/ StartClose \/ DrainExpires PROVE NotifyEveryone \/ UNCHANGED gateVars
  BY <1>5 DEF CloseStep, StartClose, DrainExpires, CloseHandle, CloseHandleFails, CloseRaises,
              FlushDone, Drained, WaitForDrain, CloseDone
<1>6. CASE NotifyEveryone \/ UNCHANGED gateVars
  BY <1>6, NotifyMoves, StutterMoves, QuietIsLineStep
<1>7. UNCHANGED vars => UNCHANGED gateVars
  BY DEF vars, gateVars
<1> QED BY <1>1, <1>2, <1>3, <1>4, <1>5, <1>6, <1>7
        DEF Next, AcquireStep, ReturnStep, ReapStep

(***************************************************************************)
(* SQLiteConnectionPool serves the callers of acquire() in the order in    *)
(* which they queue, at most pool_size at a time and only while work is    *)
(* accepted, whatever is cancelled, times out or fails behind the gate:    *)
(* every step of the pool is a step of FifoSemaphore or none.              *)
(***************************************************************************)
THEOREM PoolServesInOrder == Spec => ServesInOrder
<1>1. Init => Line!FifoInit
  BY DEF Init, GateInit, Line!FifoInit, Holders, CheckAcceptingWork
<1>2. GateInv /\ [Next]_vars => [Line!FifoNext]_(Line!fifoVars)
  BY PoolStepIsLineStep
<1>3. PoolInv => GateInv
  BY DEF PoolInv
<1> QED BY <1>1, <1>2, <1>3, PoolCorrect, PTL DEF Spec, ServesInOrder, Line!FifoSpec
-----------------------------------------------------------------------------
(* Whoever waits when the pool stops accepting work is awake to be refused. *)
RefusedIsAwake == ~CheckAcceptingWork => \A a \in Acquirers : where[a] # "parked"

LEMMA RefusedNext == PoolInv /\ RefusedIsAwake /\ [Next]_vars => RefusedIsAwake'
<1> SUFFICES ASSUME PoolInv, RefusedIsAwake, [Next]_vars, ~CheckAcceptingWork',
                    NEW b \in Acquirers, where'[b] = "parked"
             PROVE  FALSE
  BY DEF RefusedIsAwake
<1>1. GateTypeOK
  BY DEF PoolInv, GateInv
<1>2. ~NotifyEveryone /\ \A a \in Acquirers : ~ReleaseSlot(a)
  BY <1>1, NotifiedWakesAll
<1>3. UNCHANGED <<closed, closing>>
  BY <1>2, Zenon DEF Next, AcquireStep, ReturnStep, ReapStep, CloseStep, vars, shutdownVars,
     WaitAtGate, CheckoutIdle, CheckoutIdleObserverRaises, StartOpening, OpenSucceeds, OpenFails,
     AbandonOpening, TakeOpened, RejectOpened, TakeOpenedObserverRaises, ReturnConnection,
     ReturnWhileClosing, Discard, ReapOpening, CloseDiscarded, CloseDiscardedFails, FreeSlot,
     StartClose, CloseHandle, CloseHandleFails, CloseRaises, FlushDone, Drained, WaitForDrain,
     CloseDone, DrainExpires
<1>4. ~CheckAcceptingWork /\ where[b] # "parked"
  BY <1>3 DEF CheckAcceptingWork, RefusedIsAwake
<1>5. \/ UNCHANGED where
      \/ \E a \in Acquirers :
           \/ Call(a) \/ ExpireWaiting(a) \/ Reject(a) \/ Cancel(a)
  BY <1>2, <1>4, Zenon DEF Next, AcquireStep, ReturnStep, ReapStep, CloseStep, vars, gateVars,
     WaitAtGate, LookAtGate, Enter, CheckoutIdle, CheckoutIdleObserverRaises, StartOpening,
     OpenSucceeds, OpenFails, AbandonOpening, TakeOpened, RejectOpened, TakeOpenedObserverRaises,
     ReturnConnection, ReturnWhileClosing, Discard, ReapOpening, CloseDiscarded,
     CloseDiscardedFails, FreeSlot, StartClose, CloseHandle, CloseHandleFails, CloseRaises,
     FlushDone, Drained, WaitForDrain, CloseDone, DrainExpires
<1> QED BY <1>1, <1>4, <1>5, OnlyParkSleeps

(***************************************************************************)
(* Nobody sleeps in the queue of a pool that refuses work: close(), a      *)
(* handle that would not close and the end of a shutdown all wake it, so a *)
(* caller of acquire() is refused and does not wait for its deadline.      *)
(***************************************************************************)
THEOREM PoolRefusesPromptly == Spec => []RefusedIsAwake
<1>1. Init => RefusedIsAwake
  BY DEF Init, RefusedIsAwake, CheckAcceptingWork
<1> QED BY <1>1, RefusedNext, PoolCorrect, PTL DEF Spec
=============================================================================
