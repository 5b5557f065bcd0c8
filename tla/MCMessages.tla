----------------------------- MODULE MCMessages -----------------------------
(* Instances of Messages for TLC. *)
EXTENDS Messages, TLC

CONSTANTS m1, m2, d1, d2

\* The first key is the client's, the second the cashier's.
TwoSenders == (m1 :> d1) @@ (m2 :> d2)
OneSender == m1 :> d1

CallSymmetry == Permutations(Calls) \cup Permutations(Purgers)
=============================================================================
