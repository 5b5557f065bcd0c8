------------------------- MODULE EvidenceLifecycle -------------------------
(***************************************************************************)
(* What report evidence promises, without the rows, leases, clocks and     *)
(* workers that keep the promise: a key is stored before it supports a     *)
(* report, stays stored while the report is open or under review, and is   *)
(* gone for good when the report is closed or the upload was abandoned.    *)
(***************************************************************************)
CONSTANT Uploads
VARIABLES phase, stored

lifecycleVars == <<phase, stored>>

Init ==
    /\ phase = [u \in Uploads |-> "free"]
    /\ stored = {}

Move(u, p, q) ==
    /\ phase[u] = p
    /\ phase' = [phase EXCEPT ![u] = q]
    /\ UNCHANGED stored

Reserve(u) == Move(u, "free", "reserved")
Report(u) == u \in stored /\ Move(u, "reserved", "open")
Review(u) == Move(u, "open", "review")
RequestClosure(u) == Move(u, "review", "closing")
Closed(u) == u \notin stored /\ Move(u, "closing", "closed")
Abandon(u) == u \notin stored /\ Move(u, "reserved", "abandoned")

\* An upload, or its replay, until the key is released.
Store(u) ==
    /\ phase[u] \in {"reserved", "open", "review", "closing"}
    /\ stored' = stored \cup {u}
    /\ UNCHANGED phase

Remove(u) ==
    /\ phase[u] \in {"reserved", "closing"}
    /\ stored' = stored \ {u}
    /\ UNCHANGED phase

Next == \E u \in Uploads :
    \/ Reserve(u) \/ Report(u) \/ Review(u) \/ RequestClosure(u) \/ Closed(u)
    \/ Abandon(u) \/ Store(u) \/ Remove(u)

Spec == Init /\ [][Next]_lifecycleVars
=============================================================================
