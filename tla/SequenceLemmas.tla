--------------------------- MODULE SequenceLemmas ---------------------------
(***************************************************************************)
(* The sequences of the models: queues and stacks that hold each element   *)
(* once, under deque.remove, popleft, append and pop, and the prefixes of  *)
(* declarations that Take and validate_history_prefix speak of.            *)
(***************************************************************************)
EXTENDS Queues, MigrationHistory, TLAPS

(* The length of a sequence, its positions and its elements. *)
LEMMA SeqLength ==
  ASSUME NEW S, NEW s \in Seq(S)
  PROVE  /\ Len(s) \in Nat /\ DOMAIN s = 1..Len(s)
         /\ s \in [1..Len(s) -> S]
OBVIOUS

(* The empty sequence is the one of length zero. *)
LEMMA NoElements ==
  ASSUME NEW S
  PROVE  <<>> \in Seq(S) /\ \A s \in Seq(S) : Len(s) = 0 <=> s = <<>>
OBVIOUS

(* Sequences with the same elements at the same positions are equal. *)
LEMMA SameElements ==
  ASSUME NEW S, NEW s \in Seq(S), NEW t \in Seq(S), Len(s) = Len(t),
         \A i \in 1..Len(s) : s[i] = t[i]
  PROVE  s = t
<1>1. s \in [1..Len(s) -> S] /\ t \in [1..Len(s) -> S]
  BY SeqLength
<1> QED BY <1>1

(* The sequence an element longer. *)
LEMMA Appended ==
  ASSUME NEW S, NEW s \in Seq(S), NEW x \in S
  PROVE  /\ Append(s, x) \in Seq(S) /\ Append(s, x) # <<>>
         /\ Len(Append(s, x)) = Len(s) + 1
         /\ \A i \in 1..Len(s) : Append(s, x)[i] = s[i]
         /\ Append(s, x)[Len(s) + 1] = x
OBVIOUS

(* The first element of a sequence, and the others. *)
LEMMA HeadAndTail ==
  ASSUME NEW S, NEW s \in Seq(S), s # <<>>
  PROVE  /\ Len(s) \in Nat \ {0} /\ Head(s) = s[1] /\ Head(s) \in S
         /\ Tail(s) \in Seq(S) /\ Len(Tail(s)) = Len(s) - 1
         /\ \A i \in 1..(Len(s) - 1) : Tail(s)[i] = s[i + 1]
OBVIOUS

(* One sequence after another; the empty one adds nothing. *)
LEMMA Joined ==
  ASSUME NEW S, NEW s \in Seq(S), NEW t \in Seq(S)
  PROVE  /\ s \o t \in Seq(S)
         /\ Len(s \o t) = Len(s) + Len(t)
         /\ \A i \in 1..(Len(s) + Len(t)) :
              (s \o t)[i] = IF i <= Len(s) THEN s[i] ELSE t[i - Len(s)]
         /\ s \o <<>> = s /\ <<>> \o t = t
OBVIOUS

(* The elements of a queue, by position. *)
LEMMA QueueElements ==
  ASSUME NEW S, NEW q \in Seq(S)
  PROVE  /\ Len(q) \in Nat
         /\ DOMAIN q = 1..Len(q)
         /\ \A i \in 1..Len(q) : q[i] \in S
         /\ \A x : x \in Range(q) <=> \E i \in 1..Len(q) : q[i] = x
         /\ IsInjective(q) <=> \A i, j \in 1..Len(q) : q[i] = q[j] => i = j
BY SeqLength DEF Range, IsInjective

(* What deque.remove does to a queue that holds each element once. *)
LEMMA WithoutProperties ==
  ASSUME NEW S, NEW q \in Seq(S), IsInjective(q), NEW e \in S
  PROVE  /\ Without(q, e) \in Seq(S)
         /\ IsInjective(Without(q, e))
         /\ \A x : x \in Range(Without(q, e)) <=> x \in Range(q) /\ x # e
<1>1. CASE e \notin Range(q)
  BY <1>1 DEF Without
<1>2. CASE e \in Range(q)
  <2> DEFINE k == CHOOSE i \in DOMAIN q : q[i] = e
             t == [i \in 1..(Len(q) - 1) |-> IF i < k THEN q[i] ELSE q[i + 1]]
  <2>1. /\ Len(q) \in Nat
        /\ \A i \in 1..Len(q) : q[i] \in S
        /\ \A i, j \in 1..Len(q) : q[i] = q[j] => i = j
    BY QueueElements
  <2>2. k \in 1..Len(q) /\ q[k] = e
    BY <1>2, QueueElements DEF Range
  <2>3. Without(q, e) = t
    BY <1>2 DEF Without
  <2> HIDE DEF k
  <2>4. \A i \in 1..(Len(q) - 1) :
          t[i] \in S /\ t[i] = IF i < k THEN q[i] ELSE q[i + 1]
    BY <2>1, <2>2
  <2>5. t \in Seq(S) /\ Len(t) = Len(q) - 1
    BY <2>1, <2>2, <2>4
  <2> HIDE DEF t
  <2>6. IsInjective(t)
    <3> SUFFICES ASSUME NEW i \in 1..(Len(q) - 1), NEW j \in 1..(Len(q) - 1),
                        t[i] = t[j]
                 PROVE  i = j
      BY <2>5, QueueElements
    <3> DEFINE Old(n) == IF n < k THEN n ELSE n + 1
    <3>1. /\ Old(i) \in 1..Len(q) /\ t[i] = q[Old(i)]
          /\ Old(j) \in 1..Len(q) /\ t[j] = q[Old(j)]
      BY <2>1, <2>2, <2>4
    <3>2. Old(i) = Old(j)
      BY <2>1, <3>1, Zenon
    <3> QED BY <2>1, <2>2, <3>2
  <2>7. ASSUME NEW x, x \in Range(t) PROVE x \in Range(q) /\ x # e
    <3>1. PICK i \in 1..(Len(q) - 1) : t[i] = x
      BY <2>5, <2>7, QueueElements
    <3>2. PICK j \in 1..Len(q) : q[j] = x /\ j # k
      BY <2>1, <2>2, <2>4, <3>1
    <3> QED BY <2>1, <2>2, <3>2, QueueElements
  <2>8. ASSUME NEW x, x \in Range(q), x # e PROVE x \in Range(t)
    <3>1. PICK j \in 1..Len(q) : q[j] = x
      BY <2>8, QueueElements
    <3>2. \E i \in 1..(Len(q) - 1) : t[i] = x
      <4>1. CASE j < k
        <5>1. j \in 1..(Len(q) - 1) /\ t[j] = x
          BY <2>1, <2>2, <2>4, <3>1, <4>1
        <5> QED BY <5>1
      <4>2. CASE j > k
        <5>1. j - 1 \in 1..(Len(q) - 1) /\ ~(j - 1 < k) /\ (j - 1) + 1 = j
          BY <2>1, <2>2, <4>2
        <5>2. t[j - 1] = x
          BY <2>4, <3>1, <5>1
        <5> QED BY <5>1, <5>2
      <4> QED BY <2>1, <2>2, <2>8, <3>1, <4>1, <4>2
    <3> QED BY <2>5, <3>2, QueueElements
  <2> QED BY <2>3, <2>5, <2>6, <2>7, <2>8
<1> QED BY <1>1, <1>2

(* What popleft() does to such a queue. *)
LEMMA TailProperties ==
  ASSUME NEW S, NEW q \in Seq(S), IsInjective(q), q # <<>>
  PROVE  /\ Tail(q) \in Seq(S)
         /\ IsInjective(Tail(q))
         /\ Head(q) \in S
         /\ Head(q) \in Range(q)
         /\ \A x : x \in Range(Tail(q)) <=> x \in Range(q) /\ x # Head(q)
<1>1. /\ Len(q) \in Nat \ {0}
      /\ Head(q) = q[1]
      /\ Head(q) \in S
      /\ \A i, j \in 1..Len(q) : q[i] = q[j] => i = j
  BY HeadAndTail, QueueElements
<1>2. PICK t : t = Tail(q)
  BY Zenon
<1>3. /\ t \in Seq(S)
      /\ Len(t) = Len(q) - 1
      /\ \A i \in 1..(Len(q) - 1) : t[i] = q[i + 1]
  BY <1>2, HeadAndTail
<1>4. IsInjective(t)
  BY <1>1, <1>3, QueueElements
<1>5. ASSUME NEW x, x \in Range(t) PROVE x \in Range(q) /\ x # q[1]
  <2>1. PICK i \in 1..(Len(q) - 1) : q[i + 1] = x
    BY <1>3, <1>5, QueueElements
  <2> QED BY <1>1, <2>1, QueueElements
<1>6. ASSUME NEW x, x \in Range(q), x # q[1] PROVE x \in Range(t)
  <2>1. PICK i \in 1..Len(q) : q[i] = x
    BY <1>6, QueueElements
  <2>2. i - 1 \in 1..(Len(q) - 1) /\ (i - 1) + 1 = i
    BY <1>1, <1>6, <2>1
  <2>3. t[i - 1] = x
    BY <1>3, <2>1, <2>2
  <2> QED BY <1>3, <2>2, <2>3, QueueElements
<1>7. q[1] \in Range(q)
  BY <1>1, QueueElements
<1> QED BY <1>1, <1>2, <1>3, <1>4, <1>5, <1>6, <1>7

(* What append() does to such a queue. *)
LEMMA AppendNewProperties ==
  ASSUME NEW S, NEW q \in Seq(S), IsInjective(q), NEW e \in S, e \notin Range(q)
  PROVE  /\ Append(q, e) \in Seq(S)
         /\ IsInjective(Append(q, e))
         /\ Append(q, e) # <<>>
         /\ Len(Append(q, e)) = Len(q) + 1
         /\ Head(Append(q, e)) = IF q = <<>> THEN e ELSE Head(q)
         /\ \A x : x \in Range(Append(q, e)) <=> x \in Range(q) \/ x = e
<1>1. PICK t : t = Append(q, e)
  BY Zenon
<1>2. /\ t \in Seq(S)
      /\ t # <<>>
      /\ Len(t) = Len(q) + 1
      /\ \A i \in 1..Len(q) : t[i] = q[i]
      /\ t[Len(q) + 1] = e
  BY <1>1, Appended
<1>3. /\ Len(q) \in Nat
      /\ \A i, j \in 1..Len(q) : q[i] = q[j] => i = j
      /\ \A i \in 1..Len(q) : q[i] # e
  BY QueueElements
<1>4. IsInjective(t)
  <2>1. ASSUME NEW i \in 1..(Len(q) + 1), NEW j \in 1..(Len(q) + 1), t[i] = t[j]
        PROVE  i = j
    BY <1>2, <1>3, <2>1
  <2> QED BY <1>2, <2>1, QueueElements
<1>5. ASSUME NEW x PROVE x \in Range(t) <=> x \in Range(q) \/ x = e
  <2>1. \A i \in 1..(Len(q) + 1) : i \in 1..Len(q) \/ i = Len(q) + 1
    BY <1>3
  <2>2. Len(q) + 1 \in 1..(Len(q) + 1) /\ \A i \in 1..Len(q) : i \in 1..(Len(q) + 1)
    BY <1>3
  <2> QED BY <1>2, <2>1, <2>2, QueueElements
<1> QED BY <1>1, <1>2, <1>4, <1>5

(* Removing another element leaves the head where it is. *)
LEMMA WithoutKeepsHead ==
  ASSUME NEW S, NEW q \in Seq(S), IsInjective(q), q # <<>>, NEW e \in S, e # Head(q)
  PROVE  Without(q, e) # <<>> /\ Head(Without(q, e)) = Head(q)
<1>1. CASE e \notin Range(q)
  BY <1>1 DEF Without
<1>2. CASE e \in Range(q)
  <2> DEFINE k == CHOOSE i \in DOMAIN q : q[i] = e
             t == [i \in 1..(Len(q) - 1) |-> IF i < k THEN q[i] ELSE q[i + 1]]
  <2>1. /\ Len(q) \in Nat \ {0} /\ DOMAIN q = 1..Len(q)
        /\ Head(q) = q[1]
        /\ \A i \in 1..Len(q) : q[i] \in S
    OBVIOUS
  <2>2. k \in 1..Len(q) /\ q[k] = e
    BY <1>2, <2>1, QueueElements
  <2>3. k > 1
    BY <2>1, <2>2
  <2> HIDE DEF k
  <2>4. t \in Seq(S) /\ Len(t) = Len(q) - 1 /\ t[1] = q[1]
    BY <2>1, <2>2, <2>3
  <2>5. Without(q, e) = t
    BY <1>2 DEF Without, k
  <2> HIDE DEF t
  <2>6. t # <<>> /\ Head(t) = t[1]
    BY <2>1, <2>2, <2>3, <2>4
  <2> QED
    BY <2>1, <2>4, <2>5, <2>6, Zenon
<1> QED
  BY <1>1, <1>2

(* Removing the first element is taking the tail. *)
LEMMA WithoutHead ==
  ASSUME NEW S, NEW q \in Seq(S), IsInjective(q), q # <<>>
  PROVE  Without(q, Head(q)) = Tail(q)
<1>1. /\ Len(q) \in Nat \ {0}
      /\ Head(q) = q[1]
      /\ DOMAIN q = 1..Len(q)
      /\ \A i \in 1..Len(q) : q[i] \in S
      /\ \A i, j \in 1..Len(q) : q[i] = q[j] => i = j
  BY HeadAndTail, QueueElements
<1> DEFINE k == CHOOSE i \in DOMAIN q : q[i] = Head(q)
           t == [i \in 1..(Len(q) - 1) |-> IF i < k THEN q[i] ELSE q[i + 1]]
<1>2. k = 1
  BY <1>1
<1>3. Without(q, Head(q)) = t
  BY <1>1, TailProperties DEF Without
<1>4. \A i \in 1..(Len(q) - 1) : t[i] \in S /\ t[i] = q[i + 1]
  BY <1>1, <1>2
<1>5. t \in Seq(S) /\ Len(t) = Len(q) - 1
  BY <1>1, <1>4
<1>6. PICK u : u = Tail(q)
  BY Zenon
<1>7. /\ u \in Seq(S)
      /\ Len(u) = Len(q) - 1
      /\ \A i \in 1..(Len(q) - 1) : u[i] = q[i + 1]
  BY <1>6, HeadAndTail
<1> HIDE DEF t
<1>8. t = u
  BY <1>4, <1>5, <1>7, SameElements, Zenon
<1> QED BY <1>3, <1>6, <1>8

(* All elements but the last. *)
LEMMA PopElements ==
  ASSUME NEW S, NEW q \in Seq(S), q # <<>>
  PROVE  LET o == SubSeq(q, 1, Len(q) - 1)
         IN  /\ o \in Seq(S) /\ Len(o) = Len(q) - 1
             /\ \A i \in 1..(Len(q) - 1) : o[i] = q[i]
OBVIOUS

(* What pop() does to such a list. *)
LEMMA PopProperties ==
  ASSUME NEW S, NEW q \in Seq(S), IsInjective(q), q # <<>>
  PROVE  LET l == q[Len(q)]
             o == SubSeq(q, 1, Len(q) - 1)
         IN  /\ l \in S
             /\ o \in Seq(S) /\ IsInjective(o) /\ Len(o) = Len(q) - 1
             /\ \A x : x \in Range(o) <=> x \in Range(q) /\ x # l
<1> DEFINE n == Len(q)
           o == SubSeq(q, 1, n - 1)
<1>1. /\ n \in Nat \ {0}
      /\ \A i \in 1..n : q[i] \in S
      /\ \A x : x \in Range(q) <=> \E i \in 1..n : q[i] = x
      /\ \A i, j \in 1..n : q[i] = q[j] => i = j
  BY NoElements, QueueElements
<1>2. /\ o \in Seq(S) /\ Len(o) = n - 1
      /\ \A i \in 1..(n - 1) : o[i] = q[i]
  BY PopElements
<1> HIDE DEF n, o
<1>3. /\ \A x : x \in Range(o) <=> \E i \in 1..(n - 1) : o[i] = x
      /\ IsInjective(o) <=> \A i, j \in 1..(n - 1) : o[i] = o[j] => i = j
  BY <1>2, QueueElements
<1>4. \A i : i \in 1..n <=> i \in 1..(n - 1) \/ i = n
  BY <1>1
<1>5. \A i \in 1..(n - 1) : i # n
  BY <1>1
<1>6. IsInjective(o)
  BY <1>1, <1>2, <1>3, <1>4
<1>7. \A x : x \in Range(o) <=> x \in Range(q) /\ x # q[n]
  BY <1>1, <1>2, <1>3, <1>4, <1>5
<1>8. q[n] \in S
  BY <1>1, <1>4
<1> QED BY <1>2, <1>6, <1>7, <1>8 DEF n, o
-----------------------------------------------------------------------------
(* Prefixes of declarations *)

(* A prefix of a declaration is a sequence of that length. *)
LEMMA PrefixProperties ==
  ASSUME NEW S, NEW plan \in Seq(S), NEW n \in 0..Len(plan)
  PROVE  /\ Take(plan, n) \in Seq(S)
         /\ Len(Take(plan, n)) = n
         /\ \A i \in 1..n : Take(plan, n)[i] = plan[i]
BY DEF Take

(* validate_history_prefix accepts exactly the prefixes of the declaration. *)
LEMMA ValidPrefix ==
  ASSUME NEW S, NEW plan \in Seq(S), NEW rows \in Seq(S), NEW minimum,
         ValidHistoryPrefix(rows, plan, minimum)
  PROVE  Len(rows) \in 0..Len(plan) /\ rows = Take(plan, Len(rows))
<1>1. Len(rows) \in 0..Len(plan) /\ \A i \in 1..Len(rows) : rows[i] = plan[i]
  BY DEF ValidHistoryPrefix
<1>2. /\ Take(plan, Len(rows)) \in Seq(S)
      /\ Len(Take(plan, Len(rows))) = Len(rows)
      /\ \A i \in 1..Len(rows) : Take(plan, Len(rows))[i] = rows[i]
  BY <1>1, PrefixProperties
<1> QED BY <1>1, <1>2, SameElements

(* The whole declaration, and none of it. *)
LEMMA PrefixEnds ==
  ASSUME NEW S, NEW plan \in Seq(S)
  PROVE  Take(plan, Len(plan)) = plan /\ Take(plan, 0) = <<>>
<1>1. Len(plan) \in 0..Len(plan) /\ 0 \in 0..Len(plan)
  OBVIOUS
<1>2. /\ Take(plan, Len(plan)) \in Seq(S)
      /\ Len(Take(plan, Len(plan))) = Len(plan)
      /\ \A i \in 1..Len(plan) : Take(plan, Len(plan))[i] = plan[i]
  BY <1>1, PrefixProperties, Zenon
<1>3. Take(plan, 0) \in Seq(S) /\ Len(Take(plan, 0)) = 0
  BY <1>1, PrefixProperties
<1>4. Take(plan, Len(plan)) = plan
  BY <1>2, SameElements
<1>5. Take(plan, 0) = <<>>
  BY <1>3, NoElements
<1> QED BY <1>4, <1>5

(* The next migration makes the prefix one longer. *)
LEMMA PrefixGrows ==
  ASSUME NEW S, NEW plan \in Seq(S), NEW n \in Nat, n < Len(plan)
  PROVE  Append(Take(plan, n), plan[n + 1]) = Take(plan, n + 1)
<1>1. n \in 0..Len(plan) /\ n + 1 \in 0..Len(plan) /\ plan[n + 1] \in S
  OBVIOUS
<1>2. /\ Take(plan, n) \in Seq(S) /\ Len(Take(plan, n)) = n
      /\ \A i \in 1..n : Take(plan, n)[i] = plan[i]
  BY <1>1, PrefixProperties, Zenon
<1>3. /\ Take(plan, n + 1) \in Seq(S) /\ Len(Take(plan, n + 1)) = n + 1
      /\ \A i \in 1..(n + 1) : Take(plan, n + 1)[i] = plan[i]
  BY <1>1, PrefixProperties
<1> DEFINE longer == Append(Take(plan, n), plan[n + 1])
<1>4. /\ longer \in Seq(S) /\ Len(longer) = n + 1
      /\ \A i \in 1..n : longer[i] = Take(plan, n)[i]
      /\ longer[n + 1] = plan[n + 1]
  BY <1>1, <1>2, Appended
<1>5. \A i \in 1..(n + 1) : longer[i] = Take(plan, n + 1)[i]
  BY <1>2, <1>3, <1>4
<1> QED BY <1>3, <1>4, <1>5, SameElements, Zenon

(* What is appended to the second part is appended to the whole. *)
LEMMA ConcatAppend ==
  ASSUME NEW S, NEW s \in Seq(S), NEW t \in Seq(S), NEW m \in S
  PROVE  s \o Append(t, m) = Append(s \o t, m)
<1>1. s \o Append(t, m) \in Seq(S) /\ Append(s \o t, m) \in Seq(S)
  OBVIOUS
<1>2. /\ Len(s \o Append(t, m)) = Len(s) + Len(t) + 1
      /\ Len(Append(s \o t, m)) = Len(s) + Len(t) + 1
  OBVIOUS
<1>3. \A i \in 1..(Len(s) + Len(t) + 1) :
        (s \o Append(t, m))[i] = Append(s \o t, m)[i]
  OBVIOUS
<1> QED BY <1>1, <1>2, <1>3, SameElements
=============================================================================
