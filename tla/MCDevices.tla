----------------------------- MODULE MCDevices ------------------------------
(* Instances of KeyDirectory, DeviceRegistration and DeviceCandidates for    *)
(* TLC, in one run. The three share no state, so that a behaviour of all of   *)
(* them is one of each: `part` names the component that runs, and the others  *)
(* stay as they begin.                                                       *)
EXTENDS DeviceServices, TLC

CONSTANTS a, b, t, r1, r2, c1, c2, c3, d1

VARIABLE part

keys == <<clock, active, session, otks, fallbacks, slot, uploaded, results, call>>
registration ==
    <<time, faults, regs, nextId, device, sess, late, cookie, known, local, acked, pc>>
ceremony ==
    <<cClock, rollbacks, changes, version, trusted, cSess, cand, flow, tx, told, delivered>>
vars == <<part, keys, registration, ceremony>>

\* Two requesters and one target; the request r1 is sent twice.
Requesters == r1 :> a @@ r2 :> b
Targets == r1 :> t @@ r2 :> t
Sendings == c1 :> r1 @@ c2 :> r1 @@ c3 :> r2
Ranks == t :> 1 @@ a :> 2 @@ b :> 3

\* The sessions that ask and review are interchangeable, and so are the calls of
\* one request.
Symmetry == Permutations(Trusted) \cup Permutations({c1, c2})

ASSUME InstanceAssumption ==
    /\ Keys!KeyDirectoryAssumption
    /\ Registration!RegistrationAssumption
    /\ Ceremony!CandidatesAssumption

Init ==
    /\ part \in {"keys", "registration", "ceremony", "disturbed"}
    /\ Keys!Init /\ Registration!Init /\ Ceremony!Init

\* The session of the target ends with its device.
KeysStep ==
    /\ part = "keys" /\ Keys!Next /\ UNCHANGED <<part, registration, ceremony>>
    /\ session'[t] = active'[t]

RegistrationStep ==
    part = "registration" /\ Registration!Next /\ UNCHANGED <<part, keys, ceremony>>

\* Two ceremonies of one account.
CeremonyStep ==
    /\ part = "ceremony" /\ Ceremony!Next /\ UNCHANGED <<part, keys, registration>>
    /\ UNCHANGED <<rollbacks, changes>>

\* One during which the clock is set back, the password reset or the device revoked.
DisturbedStep ==
    /\ part = "disturbed" /\ Ceremony!Next /\ UNCHANGED <<part, keys, registration>>
    /\ tx' # Ceremony!Silent => tx'.c = d1

Next == KeysStep \/ RegistrationStep \/ CeremonyStep \/ DisturbedStep

Spec == Init /\ [][Next]_vars
=============================================================================
