---------------------------- MODULE FifoSemaphore ----------------------------
(***************************************************************************)
(* What the admission gate promises the pools: a counting semaphore that   *)
(* serves in arrival order.  Tickets, wake-ups and re-checks are not seen. *)
(***************************************************************************)
EXTENDS FiniteSets, Queues

CONSTANTS Clients, Slots

VARIABLES
  line,     \* the clients that wait, in the order in which they arrived
  inside,   \* the clients that own a slot
  open      \* whether clients are served

fifoVars == <<line, inside, open>>

Room == open /\ Cardinality(inside) < Slots

FifoInit == line = <<>> /\ inside = {} /\ open = TRUE

(* A client joins the end of the line. *)
Join(c) ==
  /\ c \notin inside
  /\ c \notin Range(line)
  /\ line' = Append(line, c)
  /\ UNCHANGED <<inside, open>>

(* The first of the line takes a free slot. *)
Enter(c) ==
  /\ Room
  /\ line # <<>> /\ Head(line) = c
  /\ line' = Tail(line)
  /\ inside' = inside \cup {c}
  /\ UNCHANGED open

(* A client that finds nobody waiting and a free slot does not queue. *)
EnterAtOnce(c) ==
  /\ Room
  /\ line = <<>>
  /\ c \notin inside
  /\ inside' = inside \cup {c}
  /\ UNCHANGED <<line, open>>

(* A client gives its place in the line up. *)
Quit(c) ==
  /\ c \in Range(line)
  /\ line' = Without(line, c)
  /\ UNCHANGED <<inside, open>>

Leave(c) ==
  /\ c \in inside
  /\ inside' = inside \ {c}
  /\ UNCHANGED <<line, open>>

OpenOrShut == open' = ~open /\ UNCHANGED <<line, inside>>

(* A slot is given back by a client that shuts the door behind it. *)
LeaveAndShut(c) ==
  /\ c \in inside
  /\ inside' = inside \ {c}
  /\ open' = FALSE
  /\ UNCHANGED line

FifoNext ==
  \/ \E c \in Clients :
       Join(c) \/ Enter(c) \/ EnterAtOnce(c) \/ Quit(c) \/ Leave(c) \/ LeaveAndShut(c)
  \/ OpenOrShut

FifoSpec == FifoInit /\ [][FifoNext]_fifoVars

(* A client that stays first in the line while there is room gets in. *)
FifoFairSpec == FifoSpec /\ \A c \in Clients : WF_fifoVars(Enter(c))
=============================================================================
