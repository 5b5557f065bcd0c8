-------------------------- MODULE MCAdminSessions --------------------------
(* Instances of AdminSessions for TLC. *)
EXTENDS AdminSessions, TLC

CONSTANTS s1, q1, q2

BothOfOne == (q1 :> s1) @@ (q2 :> s1)
=============================================================================
