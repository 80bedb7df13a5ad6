------------------------------ MODULE MCFutex -------------------------------
(* A small instance of the futex table: two words that share a bucket. *)
EXTENDS Futex

CONSTANTS a, b, w1, w2, w3

OneBucket == [x \in {a, b} |-> 0]
TwoOnOneWord == [w \in {w1, w2, w3} |-> IF w = w3 THEN b ELSE a]
=============================================================================
