---------------------------- MODULE SequenceLemmas ----------------------------
(***************************************************************************)
(* What appending to, reading from and dropping the start of a sequence    *)
(* does to it: the lines of a connection and the reports of a queue.       *)
(***************************************************************************)
EXTENDS Integers, Sequences, TLAPS

(* Appending to a sequence keeps what is in it. *)
LEMMA Appended ==
    ASSUME NEW S, NEW p \in Seq(S), NEW r \in S
    PROVE  /\ Append(p, r) \in Seq(S)
           /\ Len(Append(p, r)) = Len(p) + 1
           /\ \A k \in 1..Len(p) : Append(p, r)[k] = p[k]
           /\ Append(p, r)[Len(p) + 1] = r
  OBVIOUS

(* What stands in a sequence. *)
LEMMA Element ==
    ASSUME NEW S, NEW p \in Seq(S), NEW k \in 1..Len(p)
    PROVE  p[k] \in S
  OBVIOUS

(* Taking the first element off a sequence. *)
LEMMA Shifted ==
    ASSUME NEW S, NEW p \in Seq(S), p # << >>
    PROVE  /\ Len(p) \in Nat \ {0}
           /\ Head(p) \in S /\ Head(p) = p[1]
           /\ Tail(p) \in Seq(S)
           /\ Len(Tail(p)) = Len(p) - 1
           /\ \A k \in 1..Len(p) - 1 : Tail(p)[k] = p[k + 1]
  OBVIOUS

(* Dropping the first n elements of a sequence. *)
LEMMA Dropped ==
    ASSUME NEW S, NEW p \in Seq(S), NEW n \in 0..Len(p)
    PROVE  /\ SubSeq(p, n + 1, Len(p)) \in Seq(S)
           /\ Len(SubSeq(p, n + 1, Len(p))) = Len(p) - n
           /\ \A k \in 1..Len(p) - n : SubSeq(p, n + 1, Len(p))[k] = p[k + n]
<1>1. Len(p) \in Nat /\ n \in Nat /\ n <= Len(p)
  OBVIOUS
<1> QED
  BY <1>1
=============================================================================
