------------------------------- MODULE Queues -------------------------------
(***************************************************************************)
(* Queues that hold each element once.  Range and IsInjective come with    *)
(* Functions; the module extends nothing larger because modules that are   *)
(* instantiated, and proved about, extend it.                              *)
(***************************************************************************)
EXTENDS Naturals, Sequences, Functions

(* deque.remove(x); the queue itself when x is not in it. *)
Without(q, x) ==
  IF x \in Range(q)
    THEN LET k == CHOOSE i \in DOMAIN q : q[i] = x
         IN  [i \in 1..(Len(q) - 1) |-> IF i < k THEN q[i] ELSE q[i + 1]]
    ELSE q
=============================================================================
