-------------------------- MODULE DeviceRegistration -------------------------
(***************************************************************************)
(* How the browsers of one account get the account's only device: the      *)
(* reservation, the initial upload and its replay                          *)
(* (e2ee/matrix-key-directory.service.ts), bindSession, revoke and the     *)
(* older register (devices/devices.service.ts), and the life cycle in the  *)
(* browser with its journal in IndexedDB (web: matrixSessionLifecycle.ts,  *)
(* matrixLocalDeviceStore.ts).                                             *)
(*                                                                         *)
(* Every transaction of the server holds the lock of the account's device  *)
(* set and is one action.  Its answer may get lost, a call that was given  *)
(* up may arrive late, and a page may die between any two steps.  A web    *)
(* lock keeps a second page of the same browser out.                       *)
(***************************************************************************)
EXTENDS Naturals, FiniteSets

CONSTANTS
    Browsers, NoBrowser,
    Sessions, NoSession,
    TTL,                   \* REGISTRATION_TTL_MS
    LegacyRoute,           \* whether POST /devices is used
    MaxRegs, MaxTime, MaxFaults   \* bounds

RegistrationAssumption ==
    /\ NoBrowser \notin Browsers /\ NoSession \notin Sessions
    /\ TTL \in Nat \ {0} /\ LegacyRoute \in BOOLEAN
    /\ MaxRegs \in Nat /\ MaxTime \in Nat /\ MaxFaults \in Nat

VARIABLES
    time, faults,
    regs,          \* matrix_device_registrations
    nextId,        \* device identifiers already drawn
    device,        \* the device of the account and whose keys it has
    sess,          \* sessions: unused, in force or ended, and the device bound
    late,          \* completions that were given up and may still arrive
    cookie,        \* the session of each browser
    known,         \* the device of the session, as the page learned it
    local,         \* the record in IndexedDB
    acked,         \* the crypto store knows that its first upload was taken
    pc             \* the step of the life cycle

server == <<regs, nextId, device, sess>>
browser == <<cookie, known, local, acked, pc>>
vars == <<time, faults, server, late, browser>>

Reg == [id : Nat, ses : Sessions, left : 0..TTL, consumed : BOOLEAN, keys : Browsers \cup {NoBrowser}]
Device == [id : Nat, keys : Browsers \cup {NoBrowser}, active : BOOLEAN]
NoDevice == [id |-> 0, keys |-> NoBrowser, active |-> FALSE]
Session == [state : {"unused", "live", "ended"}, dev : Nat]
\* Identifier of the provisional device, the captured upload, the binding
\* secret and the answer that is not acknowledged yet.
Local == [dev : Nat, upload : BOOLEAN, secret : BOOLEAN, response : BOOLEAN]
NoLocal == [dev |-> 0, upload |-> FALSE, secret |-> FALSE, response |-> FALSE]
Completion == [ses : Sessions, id : Nat, keys : Browsers]
Steps == {"off", "bind", "reserve", "crypto", "ready"}

Init ==
    /\ time = 0 /\ faults = 0
    /\ regs = {} /\ nextId = 1 /\ device = NoDevice
    /\ sess = [s \in Sessions |-> [state |-> "unused", dev |-> 0]]
    /\ late = {}
    /\ cookie = [b \in Browsers |-> NoSession]
    /\ known = [b \in Browsers |-> 0]
    /\ local = [b \in Browsers |-> NoLocal]
    /\ acked = [b \in Browsers |-> FALSE]
    /\ pc = [b \in Browsers |-> "off"]

LoggedIn(b) == cookie[b] # NoSession /\ sess[cookie[b]].state = "live"
Bound(b) == sess[cookie[b]].dev

-----------------------------------------------------------------------------
(* The server                                                              *)

Lapsed(s) == {r \in regs : r.ses = s /\ ~r.consumed /\ r.left = 0}
Open(s) == {r \in regs : r.ses = s /\ ~r.consumed /\ r.left > 0}

\* Mutant: the reservation outlives the time to repeat it.
LongReservation(s, id) == [id |-> id, ses |-> s, left |-> TTL + 1, consumed |-> FALSE, keys |-> NoBrowser]

NewReservation(s, id) == [id |-> id, ses |-> s, left |-> TTL, consumed |-> FALSE, keys |-> NoBrowser]

\* reserveDevice: the open reservation of the session, or a new one if the
\* account never had a device.
ReserveDevice(s, id) ==
    /\ sess[s].dev = 0
    /\ \/ /\ \E r \in Open(s) : r.id = id
          /\ regs' = regs \ Lapsed(s)
          /\ UNCHANGED nextId
       \/ /\ Open(s) = {} /\ device.id = 0 /\ id = nextId /\ nextId <= MaxRegs
          /\ regs' = (regs \ Lapsed(s)) \cup {NewReservation(s, id)}
          /\ nextId' = nextId + 1
    /\ UNCHANGED <<device, sess>>

ReserveRefused(s) == sess[s].dev # 0 \/ (Open(s) = {} /\ device.id # 0)

\* Mutant: a device that the account already has is replaced.
CompletesAnyway(s, id) ==
    /\ sess[s].dev = 0
    /\ \E r \in regs : r.id = id /\ r.ses = s /\ ~r.consumed /\ r.left > 0

\* completeInitialUpload is accepted for the open reservation of the session of
\* an account without devices.
Completes(s, id) ==
    /\ sess[s].dev = 0 /\ device.id = 0
    /\ \E r \in regs : r.id = id /\ r.ses = s /\ ~r.consumed /\ r.left > 0

\* Mutant: the reservation that was completed is not found again.
ReplaysOpen(s, id, keys) ==
    /\ sess[s].dev = id /\ device.id = id /\ device.active
    /\ \E r \in regs : r.id = id /\ r.ses = s /\ ~r.consumed /\ r.left > 0

\* replayInitialUpload: the session is bound to the device, and the same keys
\* are repeated before the reservation runs out.
Replays(s, id, keys) ==
    /\ sess[s].dev = id /\ device.id = id /\ device.active
    /\ \E r \in regs : r.id = id /\ r.ses = s /\ r.consumed /\ r.left > 0 /\ r.keys = keys

CompleteDevice(s, id, keys) ==
    \/ /\ Completes(s, id)
       /\ device' = [id |-> id, keys |-> keys, active |-> TRUE]
       /\ sess' = [sess EXCEPT ![s].dev = id]
       /\ regs' = {IF r.id = id THEN [r EXCEPT !.consumed = TRUE, !.keys = keys] ELSE r : r \in regs}
       /\ UNCHANGED nextId
    \/ Replays(s, id, keys) /\ UNCHANGED server

\* bindSession, with the secret of the browser.
BindSession(s, id) ==
    /\ sess[s].dev = 0 /\ device.id = id /\ device.active
    /\ sess' = [sess EXCEPT ![s].dev = id]
    /\ UNCHANGED <<regs, nextId, device>>

BindRefused(s, id) == sess[s].dev # 0 \/ device.id # id \/ ~device.active

-----------------------------------------------------------------------------
(* The browser                                                             *)

Login(b) ==
    /\ ~LoggedIn(b) /\ pc[b] = "off"
    /\ \E s \in Sessions :
          /\ sess[s].state = "unused"
          /\ sess' = [sess EXCEPT ![s].state = "live"]
          /\ cookie' = [cookie EXCEPT ![b] = s]
    /\ known' = [known EXCEPT ![b] = 0]
    /\ UNCHANGED <<time, faults, regs, nextId, device, late, local, acked, pc>>

\* The session ends, by a log-out or its expiry.
EndSession(b) ==
    /\ LoggedIn(b)
    /\ sess' = [sess EXCEPT ![cookie[b]].state = "ended"]
    /\ pc' = [pc EXCEPT ![b] = "off"]
    /\ UNCHANGED <<time, faults, regs, nextId, device, late, cookie, known, local, acked>>

\* The page is opened again and learns the device of its session.
Reload(b) ==
    /\ pc[b] = "off" /\ LoggedIn(b) /\ known[b] # Bound(b)
    /\ known' = [known EXCEPT ![b] = Bound(b)]
    /\ UNCHANGED <<time, faults, server, late, cookie, local, acked, pc>>

\* Mutant: a browser with a secret takes its session for bound.
FirstStepUnbound(b) ==
    IF known[b] # 0 THEN IF known[b] = local[b].dev THEN "crypto" ELSE "off"
    ELSE IF local[b].secret THEN "crypto" ELSE "reserve"

\* resolveLocalDevice: what is stored decides what is asked of the server.
FirstStep(b) ==
    IF known[b] # 0 THEN IF known[b] = local[b].dev THEN "crypto" ELSE "off"
    ELSE IF local[b].secret THEN "bind" ELSE "reserve"

Start(b) ==
    /\ pc[b] = "off" /\ LoggedIn(b) /\ FirstStep(b) # "off"
    /\ pc' = [pc EXCEPT ![b] = FirstStep(b)]
    /\ UNCHANGED <<time, faults, server, late, cookie, known, local, acked>>

\* A reservation other than the one stored ends the attempt; the record stays.
Reserve(b) ==
    /\ pc[b] = "reserve" /\ LoggedIn(b)
    /\ \/ \E id \in 1..MaxRegs :
            /\ ReserveDevice(cookie[b], id)
            /\ local' = IF local[b].dev = 0 THEN [local EXCEPT ![b].dev = id] ELSE local
            /\ pc' = [pc EXCEPT ![b] = IF local[b].dev \in {0, id} THEN "crypto" ELSE "off"]
       \/ ReserveRefused(cookie[b]) /\ pc' = [pc EXCEPT ![b] = "off"] /\ UNCHANGED <<server, local>>
    /\ UNCHANGED <<time, faults, late, cookie, known, acked>>

Bind(b) ==
    /\ pc[b] = "bind" /\ LoggedIn(b)
    /\ \/ BindSession(cookie[b], local[b].dev) /\ pc' = [pc EXCEPT ![b] = "crypto"]
       \/ /\ BindRefused(cookie[b], local[b].dev)
          /\ pc' = [pc EXCEPT ![b] = "off"] /\ UNCHANGED server
    /\ UNCHANGED <<time, faults, late, cookie, known, local, acked>>

Finished(b) == local[b].secret /\ ~local[b].upload /\ ~local[b].response

\* saveInitialKeyUpload: the first upload is captured and stored.
Journal(b) ==
    /\ pc[b] = "crypto" /\ ~local[b].secret /\ ~local[b].upload
    /\ local' = [local EXCEPT ![b].upload = TRUE]
    /\ UNCHANGED <<time, faults, server, late, cookie, known, acked, pc>>

\* Mutant: the upload is sent before it is stored.
ToSendUnstored(b) == ~local[b].secret

\* What is sent was stored before.
ToSend(b) == local[b].upload /\ ~local[b].response

\* Mutant: the answer is stored, and the upload counts as done.
SaveAndFinish(l) == [l EXCEPT !.upload = FALSE, !.secret = TRUE]

\* The secret and the answer are stored together, beside the upload.
SaveInitialCompletion(l) == IF l.upload THEN [l EXCEPT !.secret = TRUE, !.response = TRUE] ELSE l

Complete(b) ==
    /\ pc[b] = "crypto" /\ LoggedIn(b) /\ ToSend(b)
    /\ IF Completes(cookie[b], local[b].dev) \/ Replays(cookie[b], local[b].dev, b)
       THEN /\ CompleteDevice(cookie[b], local[b].dev, b)
            /\ local' = [local EXCEPT ![b] = SaveInitialCompletion(@)]
            /\ UNCHANGED pc
       ELSE pc' = [pc EXCEPT ![b] = "off"] /\ UNCHANGED <<server, local>>
    /\ UNCHANGED <<time, faults, late, cookie, known, acked>>

\* The crypto store marks its upload as sent, unless it did before.
CommitInitialKeyUpload(b) ==
    /\ pc[b] = "crypto" /\ local[b].response /\ ~acked[b]
    /\ acked' = [acked EXCEPT ![b] = TRUE]
    /\ UNCHANGED <<time, faults, server, late, cookie, known, local, pc>>

FinishInitialKeyUpload(b) ==
    /\ pc[b] = "crypto" /\ local[b].response /\ acked[b]
    /\ local' = [local EXCEPT ![b].upload = FALSE, ![b].response = FALSE]
    /\ UNCHANGED <<time, faults, server, late, cookie, known, acked, pc>>

Ready(b) ==
    /\ pc[b] = "crypto" /\ Finished(b)
    /\ pc' = [pc EXCEPT ![b] = "ready"]
    /\ UNCHANGED <<time, faults, server, late, cookie, known, local, acked>>

-----------------------------------------------------------------------------
(* Faults and surroundings                                                 *)

\* The page dies, or the network fails before a call reaches the server.
Crash(b) ==
    /\ pc[b] # "off" /\ faults < MaxFaults
    /\ pc' = [pc EXCEPT ![b] = "off"]
    /\ faults' = faults + 1
    /\ late' = IF pc[b] = "crypto" /\ ToSend(b) /\ LoggedIn(b)
               THEN late \cup {[ses |-> cookie[b], id |-> local[b].dev, keys |-> b]} ELSE late
    /\ UNCHANGED <<time, server, cookie, known, local, acked>>

\* The transaction commits and its answer gets lost.
LoseAnswer(b) ==
    /\ LoggedIn(b) /\ faults < MaxFaults
    /\ \/ pc[b] = "reserve" /\ \E id \in 1..MaxRegs : ReserveDevice(cookie[b], id)
       \/ pc[b] = "bind" /\ BindSession(cookie[b], local[b].dev)
       \/ /\ pc[b] = "crypto" /\ ToSend(b)
          /\ CompleteDevice(cookie[b], local[b].dev, b)
    /\ pc' = [pc EXCEPT ![b] = "off"]
    /\ faults' = faults + 1
    /\ UNCHANGED <<time, late, cookie, known, local, acked>>

\* A completion that nobody waits for reaches the server.
LateCompletion(c) ==
    /\ c \in late /\ late' = late \ {c}
    /\ sess[c.ses].state = "live" /\ CompleteDevice(c.ses, c.id, c.keys)
    /\ UNCHANGED <<time, faults, browser>>

\* register, the older route, for the first device only.
Register(b) ==
    /\ LegacyRoute /\ LoggedIn(b) /\ Bound(b) = 0 /\ device.id = 0 /\ nextId <= MaxRegs
    /\ device' = [id |-> nextId, keys |-> NoBrowser, active |-> TRUE]
    /\ sess' = [sess EXCEPT ![cookie[b]].dev = nextId]
    /\ nextId' = nextId + 1
    /\ UNCHANGED <<time, faults, regs, late, browser>>

\* revoke ends the sessions of the device with it.
Revoke ==
    /\ device.active
    /\ device' = [device EXCEPT !.active = FALSE]
    /\ sess' = [s \in Sessions |-> IF sess[s].dev = device.id THEN [sess[s] EXCEPT !.state = "ended"]
                                   ELSE sess[s]]
    /\ pc' = [b \in Browsers |-> IF LoggedIn(b) /\ Bound(b) = device.id THEN "off" ELSE pc[b]]
    /\ UNCHANGED <<time, faults, regs, nextId, late, cookie, known, local, acked>>

\* The retention worker.
PurgeExpired ==
    /\ \E r \in regs : ~r.consumed /\ r.left = 0
    /\ regs' = {r \in regs : r.consumed \/ r.left > 0}
    /\ UNCHANGED <<time, faults, nextId, device, sess, late, browser>>

Tick ==
    /\ time < MaxTime /\ time' = time + 1
    /\ regs' = {[r EXCEPT !.left = IF @ = 0 THEN 0 ELSE @ - 1] : r \in regs}
    /\ UNCHANGED <<faults, nextId, device, sess, late, browser>>

Progress(b) ==
    \/ Start(b) \/ Reserve(b) \/ Bind(b) \/ Journal(b) \/ Complete(b)
    \/ CommitInitialKeyUpload(b) \/ FinishInitialKeyUpload(b) \/ Ready(b)

Next ==
    \/ \E b \in Browsers :
          \/ Login(b) \/ EndSession(b) \/ Reload(b) \/ Progress(b)
          \/ Crash(b) \/ LoseAnswer(b) \/ Register(b)
    \/ \E c \in late : LateCompletion(c)
    \/ Revoke \/ PurgeExpired \/ Tick

Spec == Init /\ [][Next]_vars

-----------------------------------------------------------------------------
(* Properties                                                              *)

\* Every variable has its type, whatever the order of the steps.
TypeOK ==
    /\ time \in Nat /\ faults \in Nat
    /\ regs \subseteq Reg /\ nextId \in Nat
    /\ device \in Device
    /\ sess \in [Sessions -> Session]
    /\ late \subseteq Completion
    /\ cookie \in [Browsers -> Sessions \cup {NoSession}]
    /\ known \in [Browsers -> Nat]
    /\ local \in [Browsers -> Local]
    /\ acked \in [Browsers -> BOOLEAN]
    /\ pc \in [Browsers -> Steps]

\* A browser that holds a binding secret holds the private keys of the device
\* the account has, although browsers register at the same time and completions
\* arrive late.
SecretMatches ==
    \A b \in Browsers : local[b].secret => device.id = local[b].dev /\ device.keys = b

\* The keys of the published device were stored, under its identifier, by the
\* browser that has their private part: no crash leaves a device that no browser
\* can acknowledge.
PublishedIsJournaled ==
    device.keys # NoBrowser =>
        LET l == local[device.keys] IN l.dev = device.id /\ (l.upload \/ l.secret)

\* The record is cleared of the upload only after the crypto store has marked it
\* as sent, and it does so only for a published device.
AckNotLost ==
    \A b \in Browsers :
        /\ local[b].secret /\ ~local[b].upload => acked[b]
        /\ acked[b] => device.keys = b /\ local[b].secret

\* A life cycle that is ready has its session bound to the device whose keys it
\* holds.
ReadyIsBound ==
    \A b \in Browsers :
        pc[b] = "ready" => Bound(b) = local[b].dev /\ device.id = local[b].dev /\ device.keys = b

\* The browser stored a reservation that ran out before it had the answer to its
\* upload. The server gives another identifier, or refuses the replay, and the
\* record is never cleared: no further attempt of this browser can succeed.
Stranded(b) ==
    /\ local[b].dev # 0 /\ ~local[b].secret
    /\ \A r \in regs : r.id = local[b].dev => r.left = 0

\* The device is had by another browser, or the session of this one ended.
GivenUp(b) ==
    \/ cookie[b] # NoSession /\ ~LoggedIn(b)
    \/ device.id # 0 /\ device.keys # b

\* A browser that insists gets its device, unless another one has it, its session
\* ends, or its reservation runs out before it has the answer: until then the
\* journal makes every step repeatable, whatever crashes and lost answers come.
RegistrationFinishes ==
    \A b \in Browsers : <>(pc[b] = "ready" \/ GivenUp(b) \/ Stranded(b))

\* What every reachable state satisfies: device, keys, journal, acknowledgement
\* and session agree after any crash, late completion or lost answer.
RegistrationSafe ==
    TypeOK /\ SecretMatches /\ PublishedIsJournaled /\ AckNotLost /\ ReadyIsBound
=============================================================================
