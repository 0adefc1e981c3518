--------------------------- MODULE SequenceLemmas ---------------------------
(***************************************************************************)
(* What the proofs use of the tables of the daemon: arrays that keep their *)
(* entries, of which a step replaces one.                                  *)
(***************************************************************************)
EXTENDS Integers, Sequences, SequenceTheorems, TLAPS

\* One element of a sequence is replaced.
LEMMA Replaced ==
    ASSUME NEW S, NEW seq \in Seq(S), NEW i, NEW e, i \in 1..Len(seq) => e \in S
    PROVE  /\ [seq EXCEPT ![i] = e] \in Seq(S)
           /\ Len([seq EXCEPT ![i] = e]) = Len(seq)
           /\ DOMAIN [seq EXCEPT ![i] = e] = DOMAIN seq
           /\ \A j \in DOMAIN seq : [seq EXCEPT ![i] = e][j] = IF j = i THEN e ELSE seq[j]
<1>1. CASE i \in 1..Len(seq)
  <2>1. e \in S
    BY <1>1
  <2>. QED BY <1>1, <2>1, ExceptSeq
<1>2. CASE i \notin 1..Len(seq)
  <2>1. [seq EXCEPT ![i] = e] = seq
    BY <1>2
  <2>2. i \notin DOMAIN seq
    BY <1>2
  <2>. QED BY <2>1, <2>2
<1>. QED BY <1>1, <1>2
=============================================================================
