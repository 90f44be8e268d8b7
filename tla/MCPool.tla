------------------------------- MODULE MCPool -------------------------------
(* Model-checking instance of ConnectionPool. *)
EXTENDS ConnectionPool

\* Kept selects as SelectSeq does, on the sequences the pool can hold.
ASSUME KeptSelects ==
    \A n \in 0..3 : \A s \in [1..n -> 1..3] : \A S \in SUBSET (1..3) :
        Kept(s, S) = SelectSeq(s, LAMBDA x : x \in S)
=============================================================================
