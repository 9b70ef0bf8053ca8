--------------------------- MODULE SequenceLemmas ---------------------------
(***************************************************************************)
(* What reading from and writing to a queue of packets does to it.         *)
(***************************************************************************)
EXTENDS Naturals, Sequences, TLAPS

\* Reading takes the first element and shifts the others.
LEMMA HeadTail ==
    ASSUME NEW S, NEW q \in Seq(S), q # <<>>
    PROVE  /\ Head(q) \in S /\ Head(q) = q[1] /\ Tail(q) \in Seq(S)
           /\ 1 \in 1..Len(q)
           /\ \A i \in 1..Len(Tail(q)) : i + 1 \in 1..Len(q) /\ Tail(q)[i] = q[i + 1]
  OBVIOUS

\* Writing adds an element at the end and leaves the others.
LEMMA AppendElements ==
    ASSUME NEW S, NEW q \in Seq(S), NEW e \in S
    PROVE  /\ Append(q, e) \in Seq(S)
           /\ \A i \in 1..Len(Append(q, e)) :
                 \/ i \in 1..Len(q) /\ Append(q, e)[i] = q[i]
                 \/ i = Len(q) + 1 /\ Append(q, e)[i] = e
  OBVIOUS

\* Writing leaves what is read next, if there is something to read.
LEMMA AppendFirst ==
    ASSUME NEW S, NEW q \in Seq(S), q # <<>>, NEW e \in S
    PROVE  /\ Append(q, e) # <<>>
           /\ Append(q, e)[1] = q[1]
           /\ Head(Append(q, e)) = Head(q)
  OBVIOUS

\* What is left to read was there before.
LEMMA TailElement ==
    ASSUME NEW S, NEW q \in Seq(S), q # <<>>, NEW i \in 1..Len(Tail(q))
    PROVE  \E j \in 1..Len(q) : Tail(q)[i] = q[j]
  BY HeadTail

\* What there is to read after a write was there before or has just been written.
LEMMA AppendElement ==
    ASSUME NEW S, NEW q \in Seq(S), NEW e \in S, NEW i \in 1..Len(Append(q, e))
    PROVE  (\E j \in 1..Len(q) : Append(q, e)[i] = q[j]) \/ Append(q, e)[i] = e
  BY AppendElements

\* An element other than the first stays when the queue is read, every element when
\* it is written to.
LEMMA TailStays ==
    ASSUME NEW S, NEW q \in Seq(S), NEW i \in 1..Len(q), q[i] # q[1]
    PROVE  \E k \in 1..Len(Tail(q)) : Tail(q)[k] = q[i]
  <1>1. i - 1 \in 1..Len(Tail(q)) /\ Tail(q)[i - 1] = q[i]
    OBVIOUS
  <1> QED
    BY <1>1

LEMMA AppendStays ==
    ASSUME NEW S, NEW q \in Seq(S), NEW e \in S, NEW i \in 1..Len(q)
    PROVE  i \in 1..Len(Append(q, e)) /\ Append(q, e)[i] = q[i]
  OBVIOUS

\* A function on the first n numbers is a sequence.
LEMMA FunctionIsSeq ==
    ASSUME NEW S, NEW n \in Nat, NEW f \in [1..n -> S]
    PROVE  f \in Seq(S) /\ Len(f) = n
  OBVIOUS
=============================================================================
