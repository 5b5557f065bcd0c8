----------------------------- MODULE MCRealtime -----------------------------
(* Instances of Realtime and RateLimit for TLC, in one run: `part` names the *)
(* component that runs and who takes part in it, and the other stays as it   *)
(* begins.                                                                   *)
EXTENDS RealtimeServices, TLC

CONSTANTS
    ana, beto, x1, y1, s1, s2, s3, s4,              \* Realtime
    n1, n2, k1, k2, k3, k4                              \* RateLimit

VARIABLE part

gateway ==
    <<ended, suspended, subscribed, lapses, expired, kick, conn, up, known, timers, room,
      before, closing, op, got>>
limiter == <<clock, faults, state, client, link, busy, cell, req, granted>>
vars == <<part, gateway, limiter>>

\* beto has one socket, ana has three; the presence of two of them is announced.
Owners == x1 :> ana @@ y1 :> beto
Cookies == s1 :> x1 @@ s2 :> y1 @@ s3 :> x1 @@ s4 :> x1
Messages == {<<"message", ana>>, <<"typing", s1>>}
Announcements == {"online", "offline"} \X {s3, s4}
AllOps == Messages \cup Announcements

\* Two instances, and packets of two sockets. A local block is shorter than its window.
NodesOf == s1 :> n1 @@ s2 :> n2 @@ s3 :> n1 @@ s4 :> n2
SocketsOf == k1 :> s1 @@ k2 :> s1 @@ k3 :> s1 @@ k4 :> s2
LocalPolicy == [limit |-> 2, ttl |-> 2, block |-> 1]
SharedPolicy == [limit |-> 2, ttl |-> 2, block |-> 2]

\* The packets of one socket are interchangeable.
Symmetry == Permutations({k1, k2, k3})

ASSUME InstanceAssumption == Gateway!RealtimeAssumption /\ Limits!RateLimitAssumption

Init ==
    /\ part \in {"events", "presence", "limits", "faults"}
    /\ Gateway!Init /\ Limits!Init

\* A message and typing between two users.
EventsStep ==
    /\ part = "events" /\ Gateway!Next /\ UNCHANGED <<part, limiter>>
    /\ UNCHANGED <<conn[s3], conn[s4]>>

\* A user who connects twice.
PresenceStep ==
    /\ part = "presence" /\ Gateway!Next /\ UNCHANGED <<part, limiter>>
    /\ UNCHANGED <<conn[s1], ended, suspended, lapses>>
    /\ \A o \in Messages : UNCHANGED op[o]

\* Four packets within several windows, which find the instances connected and are
\* answered in time; and two packets of two sockets while instances and connections
\* fail.
LimitsStep ==
    /\ part = "limits" /\ Limits!Next /\ UNCHANGED <<part, gateway>>
    /\ UNCHANGED faults
    /\ \/ clock' = 0 /\ \A r \in Requests : req'[r] = "idle"
       \/ \A n \in Nodes : state'[n] = "ready"
    /\ \A r \in Requests : req'[r] # "late"

FaultsStep ==
    /\ part = "faults" /\ Limits!Next /\ UNCHANGED <<part, gateway>>
    /\ clock' <= 2 /\ Cardinality({r \in {k1, k2, k3} : req'[r] # "idle"}) <= 1

Next == EventsStep \/ PresenceStep \/ LimitsStep \/ FaultsStep

Spec == Init /\ [][Next]_vars
=============================================================================
