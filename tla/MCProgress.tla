----------------------------- MODULE MCProgress -----------------------------
(* Fair instances of Assignments, MatrixSync, KeyDirectory,                  *)
(* DeviceRegistration, Realtime and Onboarding for TLC, in one run, small     *)
(* enough for liveness. `part` names the component that runs: the others stay *)
(* as they begin, and fairness is asked of the one that runs.                 *)
EXTENDS Naturals, FiniteSets, TLC

CONSTANTS
    a, t, r1, r2, c1, c2,                        \* KeyDirectory
    d1, t1, t2, u1,                              \* MatrixSync
    b1, NoBrowser, s1, NoSession,                \* DeviceRegistration
    ana, beto, x1, w1,                           \* Realtime
    v1, p1, e1, i1, NoOne,                       \* Onboarding
    Clients, Cashiers, None                      \* Assignments

VARIABLES
    part,
    clock, kActive, session, otks, fallbacks, slot, uploaded, results, call,
    time, faults, tombs, latest, events, batches, nextId, changes, active, eligible,
    token, loop, answer, late, got, withheld, view, base,
    rTime, rFaults, regs, rNextId, device, sess, rLate, cookie, rKnown, local, acked, pc,
    ended, suspended, subscribed, lapses, expired, kick, conn, up, known, timers, room,
    before, closing, op, gGot,
    now, docs, accepted, inv, tx, lock,
    account, approved, resetRequired, aSubscribed, periodLeft, lookup, aActive, pending,
    attemptCount, retryIn, blocks, reviews, listed

keys == <<clock, kActive, session, otks, fallbacks, slot, uploaded, results, call>>
sync ==
    <<time, faults, tombs, latest, events, batches, nextId, changes, active, eligible,
      token, loop, answer, late, got, withheld, view, base>>
registration ==
    <<rTime, rFaults, regs, rNextId, device, sess, rLate, cookie, rKnown, local, acked, pc>>
gateway ==
    <<ended, suspended, subscribed, lapses, expired, kick, conn, up, known, timers, room,
      before, closing, op, gGot>>
onboarding == <<now, docs, accepted, inv, tx, lock>>
assignments ==
    <<account, approved, resetRequired, aSubscribed, periodLeft, lookup, aActive, pending,
      attemptCount, retryIn, blocks, reviews, listed>>
vars == <<part, keys, sync, registration, gateway, onboarding, assignments>>

\* Two accounts that claim keys from each other: each needs the device set that the
\* other may already hold.
Keys == INSTANCE KeyDirectory WITH
    active <- kActive,
    Devices <- {a, t}, Publishers <- {a, t}, Requests <- {r1, r2},
    From <- (r1 :> a @@ r2 :> t), To <- (r1 :> t @@ r2 :> a), Legacy <- {r2},
    Calls <- {c1, c2}, Of <- (c1 :> r1 @@ c2 :> r2), Rank <- (a :> 1 @@ t :> 2),
    PerUpload <- 1, Fallbacks <- {1}, PoolSize <- 1, MaxUploads <- 1, MaxClock <- 2

Sync == INSTANCE MatrixSync WITH
    Devices <- {d1}, Txns <- {t1, t2}, Targets <- (t1 :> {d1} @@ t2 :> {d1}),
    Subjects <- {u1}, TTL <- 2, MaxWait <- 0, Page <- 1, MaxPending <- 2, IdleSyncs <- FALSE,
    MaxBatches <- 7, MaxChanges <- 1, MaxTime <- 1, MaxFaults <- 1

Registration == INSTANCE DeviceRegistration WITH
    time <- rTime, faults <- rFaults, nextId <- rNextId, late <- rLate, known <- rKnown,
    Browsers <- {b1}, Sessions <- {s1},
    TTL <- 2, LegacyRoute <- FALSE, MaxRegs <- 2, MaxTime <- 2, MaxFaults <- 3

Gateway == INSTANCE Realtime WITH
    got <- gGot,
    Users <- {ana, beto}, Sessions <- {x1}, Owner <- (x1 :> ana), Sockets <- {w1}, Cookie <- (w1 :> x1),
    Ops <- {<<"receipt", beto>>}, MaxEnds <- 2, MaxLapses <- 0

Terms == INSTANCE Onboarding WITH
    Versions <- {v1}, Publishers <- {p1}, Cashiers <- {e1}, Clients <- {},
    Invitations <- {i1}, MaxTime <- 1, InvitationTTL <- 1, MaxAttempts <- 3

Placement == INSTANCE Assignments WITH
    subscribed <- aSubscribed, active <- aActive,
    CASHIER_BLOCK_REVIEW_THRESHOLD <- 1, ASSIGNMENT_BATCH_SIZE <- 1, MaxPeriod <- 1,
    BACKOFF_BASE <- 1, BACKOFF_MAX <- 1, BACKOFF_EXPONENT <- 1

ASSUME InstanceAssumption ==
    /\ Keys!KeyDirectoryAssumption /\ Sync!ConstantsAssumption
    /\ Registration!RegistrationAssumption /\ Gateway!RealtimeAssumption
    /\ Terms!OnboardingAssumption /\ Placement!ConstantsAssumption

Init ==
    /\ part \in {"keys", "sync", "registration", "gateway", "terms", "placement"}
    /\ Keys!Init /\ Sync!Init /\ Registration!Init /\ Gateway!Init /\ Terms!Init
    /\ Placement!Init

\* Sessions may end, which also ends their claims; no device is revoked.
KeysStep ==
    /\ part = "keys" /\ Keys!Next /\ UNCHANGED <<part, sync, registration, gateway, onboarding, assignments>>
    /\ UNCHANGED kActive
SyncStep ==
    part = "sync" /\ Sync!Next /\ UNCHANGED <<part, keys, registration, gateway, onboarding, assignments>>
RegistrationStep ==
    part = "registration" /\ Registration!Next /\ UNCHANGED <<part, keys, sync, gateway, onboarding, assignments>>
GatewayStep ==
    part = "gateway" /\ Gateway!Next /\ UNCHANGED <<part, keys, sync, registration, onboarding, assignments>>
TermsStep ==
    part = "terms" /\ Terms!Next /\ UNCHANGED <<part, keys, sync, registration, gateway, assignments>>

PlacementStep ==
    part = "placement" /\ Placement!Next /\ UNCHANGED <<part, keys, sync, registration, gateway, onboarding>>

Next == KeysStep \/ SyncStep \/ RegistrationStep \/ GatewayStep \/ TermsStep \/ PlacementStep

\* The server carries on with a transaction whose next lock is free or that holds
\* its locks. Nobody has to begin a claim, and nobody repeats one.
Claims(c) == Keys!LockFirst(c) \/ Keys!LockSets(c) \/ Keys!CommitClaim(c) \/ Keys!FailClaim(c)

KeysFair == \A c \in {c1, c2} : WF_keys(part = "keys" /\ Claims(c))

\* A loop that is not aborted goes on by itself, and the server answers.
Loops(d) ==
    \/ Sync!StartSync(d) \/ Sync!ServeSync(d) \/ Sync!RecoverPosition(d)
    \/ Sync!ReceiveSyncChanges(d) \/ Sync!SaveToken(d)

SyncFair == WF_sync(part = "sync" /\ Loops(d1))

\* A life cycle that was started goes on. Whether the page is opened again is up
\* to its user, who is taken to insist.
RegistrationFair ==
    /\ WF_registration(part = "registration" /\ Registration!Login(b1))
    /\ WF_registration(part = "registration" /\ Registration!Progress(b1))
    /\ SF_registration(part = "registration" /\ Registration!Reload(b1))

\* A handshake goes on and the timer fires; neither disconnectUser nor the events
\* that close sockets on their way are relied upon.
GatewayFair ==
    /\ WF_gateway(part = "gateway" /\ Gateway!Handshake(w1))
    /\ WF_gateway(part = "gateway" /\ Gateway!Revalidate(w1))

\* The server carries on with a transaction; PostgreSQL serves those who wait for
\* an advisory lock in turn.
TermsFair ==
    /\ \A p \in {p1, e1} : SF_onboarding(part = "terms" /\ Terms!LockTermsLifecycle(p))
    /\ WF_onboarding(part = "terms" /\ Terms!EndsPublication(p1))
    /\ WF_onboarding(part = "terms" /\ Terms!EndsRegistration(e1))

\* Time passes and the expiry worker runs on its interval. Its cursor
\* (updated_at) serves the expired subscriptions in turn.
PlacementFair ==
    /\ WF_assignments(part = "placement" /\ Placement!Tick)
    /\ \A c \in Cashiers :
          WF_assignments(part = "placement" /\ Placement!ReconcileNextExpiredSubscription(c))
    /\ WF_assignments(part = "placement" /\ Placement!ReconcilePendingReassignments)

Spec ==
    /\ Init /\ [][Next]_vars
    /\ KeysFair /\ SyncFair /\ RegistrationFair /\ GatewayFair /\ TermsFair /\ PlacementFair

-----------------------------------------------------------------------------
(* Properties *)

\* sendToDevice and the sync loop: an event reaches its device in the end.
EventsReachDevice == Sync!EventsReachDevice


\* The life cycle of registration: a browser that insists gets its device while
\* its reservation lasts.
RegistrationFinishes == part = "registration" => Registration!RegistrationFinishes

\* The revalidation timer: a socket of an ended session is closed in the end.
EndedSocketsClose == Gateway!EndedSocketsClose

\* The lock of the terms' life cycle: whoever waits for it gets its turn.
WaitersServed == Terms!WaitersServed

\* The expiry worker: an expired subscription is reconciled and its clients move
\* on, and none of them stays pending while somebody could serve it.
ClientsMoveOn == Placement!ExpiredReleased /\ Placement!PendingPlaced
=============================================================================
