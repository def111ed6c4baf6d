---------------------------- MODULE QueueLemmas ----------------------------
(***************************************************************************)
(* Who stands in a queue after somebody has joined or left it.             *)
(***************************************************************************)
EXTENDS Integers, SequenceTheorems, TLAPS

Among(q, c) == \E n \in DOMAIN q : q[n] = c

Once(q) == \A m, n \in DOMAIN q : q[m] = q[n] => m = n

(* Whoever joins at the end is added, and nobody stands twice if the       *)
(* newcomer was not there (accept queues and the poll server's array).     *)
LEMMA Joined ==
  ASSUME NEW S, NEW q \in Seq(S), NEW c \in S
  PROVE  /\ \A d : Among(Append(q, c), d) <=> Among(q, d) \/ d = c
         /\ Once(q) /\ ~Among(q, c) => Once(Append(q, c))
<1>1. /\ Len(q) \in Nat
      /\ DOMAIN q = 1..Len(q) /\ DOMAIN Append(q, c) = 1..(Len(q) + 1)
      /\ \A n \in 1..Len(q) : Append(q, c)[n] = q[n]
      /\ Append(q, c)[Len(q) + 1] = c
  BY AppendProperties, LenProperties
<1>. QED  BY <1>1 DEF Among, Once

(* The first one leaves, and nobody else does.                             *)
LEMMA Left ==
  ASSUME NEW S, NEW q \in Seq(S), q # <<>>
  PROVE  /\ Head(q) \in S /\ Tail(q) \in Seq(S) /\ Among(q, Head(q))
         /\ Once(q) => /\ Once(Tail(q))
                       /\ \A d : Among(Tail(q), d) <=>
                                   Among(q, d) /\ d # Head(q)
<1>1. /\ Len(q) \in Nat \ {0}
      /\ DOMAIN q = 1..Len(q) /\ DOMAIN Tail(q) = 1..(Len(q) - 1)
      /\ \A n \in 1..(Len(q) - 1) : Tail(q)[n] = q[n + 1]
      /\ Head(q) = q[1] /\ Head(q) \in S /\ Tail(q) \in Seq(S)
  <2>1. Tail(q) \in Seq(S) /\ Len(Tail(q)) = Len(q) - 1
    BY HeadTailProperties
  <2>. QED  BY <2>1, HeadTailProperties, LenProperties, EmptySeq
<1>2. \A d : Among(q, d) /\ d # Head(q) => Among(Tail(q), d)
  <2>1. ASSUME NEW d, NEW n \in DOMAIN q, q[n] = d, d # Head(q)
        PROVE  n - 1 \in DOMAIN Tail(q) /\ Tail(q)[n - 1] = d
    BY <1>1, <2>1
  <2>. QED  BY <2>1 DEF Among
<1>3. ASSUME Once(q)
      PROVE  \A d : Among(Tail(q), d) => Among(q, d) /\ d # Head(q)
  <2>1. ASSUME NEW d, NEW n \in DOMAIN Tail(q), Tail(q)[n] = d
        PROVE  Among(q, d) /\ d # Head(q)
    BY <1>1, <1>3, <2>1 DEF Among, Once
  <2>. QED  BY <2>1 DEF Among
<1>4. Once(q) => Once(Tail(q))
  BY <1>1 DEF Once
<1>5. Among(q, Head(q))
  BY <1>1 DEF Among
<1>. QED  BY <1>1, <1>2, <1>3, <1>4, <1>5
=============================================================================
