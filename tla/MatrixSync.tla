----------------------------- MODULE MatrixSync -----------------------------
(***************************************************************************)
(* To-device events, from sendToDevice to the crypto store of the web      *)
(* client that they are for.                                               *)
(*                                                                         *)
(*   e2ee/matrix-to-device.service.ts   send, sync                         *)
(*   database/matrix-device-list.publisher.ts   the stream of changes      *)
(*   retention/retention.service.ts     expired events and batches         *)
(*   web: e2ee/matrixTransport.ts, e2ee/matrixSessionLifecycle.ts          *)
(*                                      performSync, runMatrixSyncLoop     *)
(*                                                                         *)
(* Every transaction holds the row of the cursor of each device it writes  *)
(* to, so a send or a sync is one action.  Between the two ends calls and  *)
(* answers get lost, and a call that was given up may arrive late.         *)
(* Deadlines are kept as the time that is left.                            *)
(***************************************************************************)
EXTENDS Naturals, FiniteSets, Sequences

CONSTANTS
    Devices,       \* the devices that receive
    Txns,          \* sender device, event type and transaction identifier
    Targets,       \* the devices each transaction addresses
    Subjects,      \* users whose device lists the recipients follow
    TTL,           \* TO_DEVICE_TTL_MS: lifetime of events and batches
    MaxWait,       \* how long a send may wait for its locks
    Page,          \* MAX_SYNC_EVENTS
    MaxPending,    \* MAX_PENDING_TO_DEVICE_EVENTS_PER_DEVICE
    IdleSyncs,     \* whether a client asks when there is nothing to tell
    MaxBatches, MaxChanges, MaxTime, MaxFaults   \* bounds

ASSUME ConstantsAssumption ==
    /\ Targets \in [Txns -> SUBSET Devices]
    /\ TTL \in Nat /\ MaxWait \in Nat /\ MaxWait < TTL
    /\ Page \in Nat \ {0} /\ MaxPending \in Nat
    /\ IdleSyncs \in BOOLEAN
    /\ MaxBatches \in Nat /\ MaxChanges \in Nat /\ MaxTime \in Nat /\ MaxFaults \in Nat

VARIABLES
    time, faults,
    tombs,         \* matrix_to_device_transactions
    latest,        \* latest_sequence of the cursor of each device
    events,        \* matrix_to_device_events
    batches,       \* matrix_to_device_sync_batches
    nextId,        \* batch identifiers already drawn
    changes,       \* matrix_device_list_changes, by stream position
    active,        \* the device and its session are in force
    eligible,      \* the sender may still write to the device
    token,         \* the token in the browser's store, 0 for none
    loop,          \* the sync loop of the browser
    answer,        \* the answer it is working on
    late,          \* calls given up by the browser that may still arrive
    got,           \* sequence numbers the crypto store has processed
    withheld,      \* those an answer it processed left out
    view, base     \* what it was told of each device list, and since when

serverVars == <<tombs, latest, events, batches, nextId>>
clientVars == <<token, loop, answer, got, withheld, view, base>>
vars == <<time, faults, serverVars, changes, active, eligible, clientVars, late>>

Event == [dev : Devices, seq : Nat, txn : Txns, left : 0..TTL]
Batch == [id : Nat, dev : Devices, prev : Nat, from : Nat, upTo : Nat,
          dlFrom : Nat, dlTo : Nat, left : 0..TTL, acked : BOOLEAN]
Change == [to : SUBSET Devices, subject : Subjects]

\* The sync loop: idle, waiting for an answer, with an answer, and with an
\* answer applied whose token is not saved yet. It has thrown when it is "lost",
\* for a second M_UNKNOWN_POS, or "stopped", for any other error.
Step == {"idle", "waiting", "answered", "applied", "lost", "stopped"}
Loop == [step : Step, since : Nat, recovered : BOOLEAN, flushFailed : BOOLEAN]
IdleLoop == [step |-> "idle", since |-> 0, recovered |-> FALSE, flushFailed |-> FALSE]

\* An answer of sync: the token, the events it brings and those it leaves out,
\* and the position of the last change of each subject, whose type (CHANGED or
\* LEFT) is what an incremental answer reports.
Lists == [Subjects -> Nat]
Answer == [token : Nat, events : SUBSET Nat, withheld : SUBSET Nat,
           incremental : BOOLEAN, lists : Lists, position : Nat]
NoAnswer == [token |-> 0, events |-> {}, withheld |-> {}, incremental |-> FALSE,
             lists |-> [s \in Subjects |-> 0], position |-> 0]

\* Registering the first device publishes the lists of the counterparts that it
\* already has to its user.
Init ==
    /\ time = 0 /\ faults = 0
    /\ tombs = {} /\ events = {} /\ batches = {} /\ nextId = 1
    /\ latest = [d \in Devices |-> 0]
    /\ \E s \in Subjects : changes = <<[to |-> Devices, subject |-> s]>>
    /\ active = [d \in Devices |-> TRUE]
    /\ eligible = [d \in Devices |-> TRUE]
    /\ token = [d \in Devices |-> 0]
    /\ loop = [d \in Devices |-> IdleLoop]
    /\ answer = [d \in Devices |-> NoAnswer]
    /\ late = [d \in Devices |-> {}]
    /\ got = [d \in Devices |-> {}]
    /\ withheld = [d \in Devices |-> {}]
    /\ view = [d \in Devices |-> [s \in Subjects |-> 0]]
    /\ base = [d \in Devices |-> 0]

-----------------------------------------------------------------------------
(* sendToDevice                                                            *)

Unexpired(d) == {e \in events : e.dev = d /\ e.left > 0}

\* Mutant: no tombstone is looked up.
SendAgain(t, wait) ==
    /\ \A d \in Targets[t] :
          active[d] /\ eligible[d] /\ Cardinality(Unexpired(d)) < MaxPending
    /\ tombs' = tombs \cup {t}
    /\ latest' = [d \in Devices |-> IF d \in Targets[t] THEN latest[d] + 1 ELSE latest[d]]
    /\ events' = events \cup
         {[dev |-> d, seq |-> latest[d] + 1, txn |-> t, left |-> TTL - wait] : d \in Targets[t]}
    /\ UNCHANGED <<time, faults, batches, nextId, changes, active, eligible, clientVars, late>>

\* A repeated transaction finds its tombstone and changes nothing. The instant
\* of the events is read before the cursors are locked, so part of their life
\* may have passed.
Send(t, wait) ==
    /\ t \notin tombs
    /\ \A d \in Targets[t] :
          active[d] /\ eligible[d] /\ Cardinality(Unexpired(d)) < MaxPending
    /\ tombs' = tombs \cup {t}
    /\ latest' = [d \in Devices |-> IF d \in Targets[t] THEN latest[d] + 1 ELSE latest[d]]
    /\ events' = events \cup
         {[dev |-> d, seq |-> latest[d] + 1, txn |-> t, left |-> TTL - wait] : d \in Targets[t]}
    /\ UNCHANGED <<time, faults, batches, nextId, changes, active, eligible, clientVars, late>>

-----------------------------------------------------------------------------
(* sync                                                                    *)

InRange(e, b) == e.dev = b.dev /\ b.from < e.seq /\ e.seq <= b.upTo

\* The last element of the first page of positions in a window, or its end when
\* the page is not full.
EndOfPage(window, end, u) ==
    IF Cardinality(window) < Page
    THEN u = end
    ELSE u \in window /\ Cardinality({w \in window : w <= u}) = Page

EventWindow(d, from) == {e.seq : e \in {f \in Unexpired(d) : f.seq > from}}

ChangeWindow(d, from) == {p \in DOMAIN changes : from < p /\ d \in changes[p].to}

\* Mutant: a batch lives its full time whatever it holds.
CreateLongLivedBatch(d, prev, from, dlFrom) ==
    {b \in [id : {nextId}, dev : {d}, prev : {prev}, from : {from}, upTo : from..latest[d],
            dlFrom : {dlFrom}, dlTo : dlFrom..Len(changes), left : {TTL}, acked : {FALSE}] :
        /\ nextId <= MaxBatches
        /\ EndOfPage(EventWindow(d, from), latest[d], b.upTo)
        /\ EndOfPage(ChangeWindow(d, dlFrom), Len(changes), b.dlTo)}

\* The batch that createSyncBatch produces: a page of events and a page of
\* changes. It lives no longer than any unexpired event in its range.
CreateSyncBatch(d, prev, from, dlFrom) ==
    {b \in [id : {nextId}, dev : {d}, prev : {prev}, from : {from}, upTo : from..latest[d],
            dlFrom : {dlFrom}, dlTo : dlFrom..Len(changes), left : 1..TTL, acked : {FALSE}] :
        /\ nextId <= MaxBatches
        /\ EndOfPage(EventWindow(d, from), latest[d], b.upTo)
        /\ EndOfPage(ChangeWindow(d, dlFrom), Len(changes), b.dlTo)
        /\ LET page == {e \in Unexpired(d) : InRange(e, b)}
           IN  /\ \A e \in page : b.left <= e.left
               /\ b.left = TTL \/ \E e \in page : b.left = e.left}

\* A first sync that was not followed up yet is answered again.
OpenInitial(d) == {b \in batches : b.dev = d /\ b.prev = 0 /\ ~b.acked /\ b.left > 0}

\* The batch of a token that still counts: requireSyncBatch.
Current(d, since) == {p \in batches : p.id = since /\ p.dev = d /\ p.left > 0}

Successors(p) == {c \in batches : c.prev = p.id}

\* The first use of a token creates its successor; every further use answers
\* with that one.
Repeated(d, since) ==
    IF since = 0 THEN OpenInitial(d)
    ELSE {c \in batches : c.left > 0 /\ \E p \in Current(d, since) : c \in Successors(p)}

\* Mutant: a successor is created whenever the predecessor still counts.
FreshEachTime(d, since) ==
    IF since = 0
    THEN IF OpenInitial(d) = {} THEN CreateSyncBatch(d, 0, 0, 0) ELSE {}
    ELSE UNION {CreateSyncBatch(d, p.id, p.upTo, p.dlTo) : p \in Current(d, since)}

Fresh(d, since) ==
    IF since = 0
    THEN IF OpenInitial(d) = {} THEN CreateSyncBatch(d, 0, 0, 0) ELSE {}
    ELSE UNION {CreateSyncBatch(d, p.id, p.upTo, p.dlTo) :
                  p \in {q \in Current(d, since) : Successors(q) = {} /\ ~q.acked}}

\* Mutant: what is answered is deleted.
AcknowledgeAnswered(b) ==
    /\ batches' = {IF p.id = b.prev THEN [p EXCEPT !.acked = TRUE] ELSE p : p \in batches}
                    \cup {b}
    /\ events' = {e \in events : e.dev # b.dev \/ e.seq > b.upTo}
    /\ nextId' = nextId + 1

\* A successor acknowledges its predecessor and deletes the events up to it.
Acknowledge(b) ==
    /\ batches' = {IF p.id = b.prev THEN [p EXCEPT !.acked = TRUE] ELSE p : p \in batches}
                    \cup {b}
    /\ events' = {e \in events : e.dev # b.dev \/ e.seq > b.from}
    /\ nextId' = nextId + 1

Sync(d, since, b) ==
    \/ b \in Repeated(d, since) /\ UNCHANGED <<events, batches, nextId>>
    \/ b \in Fresh(d, since) /\ Acknowledge(b)

\* M_UNKNOWN_POS: the token is unknown or expired, or its successor is gone.
UnknownPosition(d, since) ==
    /\ since # 0
    /\ \A p \in Current(d, since) :
          IF Successors(p) = {} THEN p.acked ELSE \A c \in Successors(p) : c.left = 0

\* Mutant: the end of the range is left out.
LastChangesBut(d, b) ==
    [s \in Subjects |->
        LET P == {p \in DOMAIN changes : /\ b.dlFrom < p /\ p < b.dlTo
                                         /\ d \in changes[p].to /\ changes[p].subject = s}
        IN  IF P = {} THEN 0 ELSE CHOOSE p \in P : \A q \in P : q <= p]

\* The last change of each subject in the range of the batch.
LastChanges(d, b) ==
    [s \in Subjects |->
        LET P == {p \in DOMAIN changes : /\ b.dlFrom < p /\ p <= b.dlTo
                                         /\ d \in changes[p].to /\ changes[p].subject = s}
        IN  IF P = {} THEN 0 ELSE CHOOSE p \in P : \A q \in P : q <= p]

\* buildSyncResponse, after the transaction's own deletion. Events whose sender
\* may no longer write to the device are left out.
BuildSyncResponse(d, since, b) ==
    LET page == {e.seq : e \in {f \in events' : InRange(f, b) /\ f.left > 0}}
    IN  [token |-> b.id,
         events |-> IF eligible[d] THEN page ELSE {},
         withheld |-> IF eligible[d] THEN {} ELSE page,
         incremental |-> since # 0,
         lists |-> LastChanges(d, b),
         position |-> b.dlTo]

-----------------------------------------------------------------------------
(* The client: performSync and runMatrixSyncLoop                           *)

Behind(d) ==
    \/ \E e \in Unexpired(d) : e.seq \notin got[d] \cup withheld[d]
    \/ token[d] = 0

\* The stored token is loaded and the request leaves.
StartSync(d) ==
    /\ loop[d].step = "idle"
    /\ IdleSyncs \/ Behind(d)
    /\ loop' = [loop EXCEPT ![d].step = "waiting", ![d].since = token[d]]
    /\ UNCHANGED <<time, faults, serverVars, changes, active, eligible, token, answer,
                   got, withheld, view, base, late>>

\* The transaction of a sync answers with a repeated or a fresh batch.
ServeSync(d) ==
    LET since == loop[d].since IN
    /\ loop[d].step = "waiting" /\ active[d]
    /\ \E b \in Repeated(d, since) \cup Fresh(d, since) :
          /\ Sync(d, since, b)
          /\ answer' = [answer EXCEPT ![d] = BuildSyncResponse(d, since, b)]
    /\ loop' = [loop EXCEPT ![d].step = "answered"]
    /\ UNCHANGED <<time, faults, tombs, latest, changes, active, eligible, token,
                   got, withheld, view, base, late>>

\* The transaction commits and its answer gets lost; the loop backs off.
LoseAnswer(d) ==
    LET since == loop[d].since IN
    /\ loop[d].step = "waiting" /\ active[d] /\ faults < MaxFaults
    /\ \E b \in Repeated(d, since) \cup Fresh(d, since) : Sync(d, since, b)
    /\ loop' = [loop EXCEPT ![d].step = "idle"]
    /\ faults' = faults + 1
    /\ UNCHANGED <<time, tombs, latest, changes, active, eligible, token, answer,
                   got, withheld, view, base, late>>

\* The connection breaks while the call is on its way.
GiveUp(d) ==
    /\ loop[d].step = "waiting" /\ faults < MaxFaults
    /\ late' = [late EXCEPT ![d] = @ \cup {loop[d].since}]
    /\ loop' = [loop EXCEPT ![d].step = "idle"]
    /\ faults' = faults + 1
    /\ UNCHANGED <<time, serverVars, changes, active, eligible, token, answer,
                   got, withheld, view, base>>

\* A call nobody waits for is carried out all the same.
LateCall(d) ==
    /\ active[d]
    /\ \E since \in late[d] :
          /\ \E b \in Repeated(d, since) \cup Fresh(d, since) : Sync(d, since, b)
          /\ late' = [late EXCEPT ![d] = @ \ {since}]
    /\ UNCHANGED <<time, faults, tombs, latest, changes, active, eligible, clientVars>>

\* Mutant: the stored token is not cleared.
RecoverWithToken(d) ==
    /\ loop[d].step = "waiting" /\ active[d] /\ UnknownPosition(d, loop[d].since)
    /\ loop' = IF loop[d].recovered
               THEN [loop EXCEPT ![d].step = "lost"]
               ELSE [loop EXCEPT ![d].step = "idle", ![d].recovered = TRUE]
    /\ UNCHANGED <<time, faults, serverVars, changes, active, eligible, token, answer,
                   got, withheld, view, base, late>>

\* The first M_UNKNOWN_POS since the last complete sync clears the position; a
\* second one ends the loop.
RecoverPosition(d) ==
    /\ loop[d].step = "waiting" /\ active[d] /\ UnknownPosition(d, loop[d].since)
    /\ IF loop[d].recovered
       THEN /\ loop' = [loop EXCEPT ![d].step = "lost"]
            /\ UNCHANGED token
       ELSE /\ loop' = [loop EXCEPT ![d].step = "idle", ![d].recovered = TRUE]
            /\ token' = [token EXCEPT ![d] = 0]
    /\ UNCHANGED <<time, faults, serverVars, changes, active, eligible, answer,
                   got, withheld, view, base, late>>

\* Any other 4xx ends the loop: a revoked device or session, and the 429 of the
\* throttle of the route, which the loop can meet because it asks again at once.
Refuse(d) ==
    /\ loop[d].step = "waiting"
    /\ loop' = [loop EXCEPT ![d].step = "stopped"]
    /\ UNCHANGED <<time, faults, serverVars, changes, active, eligible, token, answer,
                   got, withheld, view, base, late>>

\* An answer that does not parse, or a store that fails before or after the
\* crypto store has it, ends the loop. The stored token stays.
FailSync(d) ==
    /\ loop[d].step \in {"idle", "answered", "applied"} /\ faults < MaxFaults
    /\ loop' = [loop EXCEPT ![d].step = "stopped"]
    /\ answer' = [answer EXCEPT ![d] = NoAnswer]
    /\ faults' = faults + 1
    /\ UNCHANGED <<time, serverVars, changes, active, eligible, token,
                   got, withheld, view, base, late>>

\* A stored token that is not one of the server's form is cleared, and the loop
\* ends; the next one begins with a first sync.
InvalidToken(d) ==
    /\ loop[d].step = "idle" /\ token[d] # 0 /\ faults < MaxFaults
    /\ loop' = [loop EXCEPT ![d].step = "stopped"]
    /\ token' = [token EXCEPT ![d] = 0]
    /\ faults' = faults + 1
    /\ UNCHANGED <<time, serverVars, changes, active, eligible, answer,
                   got, withheld, view, base, late>>

\* The crypto store takes events and device lists; both survive a crash.
ReceiveSyncChanges(d) ==
    /\ loop[d].step = "answered"
    /\ got' = [got EXCEPT ![d] = @ \cup answer[d].events]
    /\ withheld' = [withheld EXCEPT ![d] = @ \cup answer[d].withheld]
    /\ view' = [view EXCEPT ![d] =
                  [s \in Subjects |-> IF answer[d].incremental /\ answer[d].lists[s] # 0
                                      THEN answer[d].lists[s] ELSE @[s]]]
    /\ base' = IF answer[d].incremental THEN base
               ELSE [base EXCEPT ![d] = answer[d].position]
    /\ loop' = [loop EXCEPT ![d].step = "applied"]
    /\ UNCHANGED <<time, faults, serverVars, changes, active, eligible, token, answer, late>>

\* Mutant: the token is not saved.
SaveNothing(d) ==
    /\ loop[d].step = "applied"
    /\ answer' = [answer EXCEPT ![d] = NoAnswer]
    /\ loop' = [loop EXCEPT ![d] = IdleLoop]
    /\ UNCHANGED <<time, faults, serverVars, changes, active, eligible, token,
                   got, withheld, view, base, late>>

\* Only then is next_batch saved. The requests of the crypto store are sent next;
\* when that fails the sync counts as failed although its token is saved, and
\* the loop goes on only if the failure was one of the network. Last, consume
\* gets the result; the loop ends when it throws.
SaveToken(d) ==
    /\ loop[d].step = "applied"
    /\ token' = [token EXCEPT ![d] = answer[d].token]
    /\ answer' = [answer EXCEPT ![d] = NoAnswer]
    /\ \/ loop' = [loop EXCEPT ![d] = IdleLoop] /\ UNCHANGED faults
       \/ /\ faults < MaxFaults /\ faults' = faults + 1
          /\ \E step \in {"idle", "stopped"} :
                loop' = [loop EXCEPT ![d].step = step, ![d].flushFailed = TRUE]
       \/ /\ faults < MaxFaults /\ faults' = faults + 1
          /\ loop' = [loop EXCEPT ![d] = [IdleLoop EXCEPT !.step = "stopped"]]
    /\ UNCHANGED <<time, serverVars, changes, active, eligible, got, withheld, view, base, late>>

\* The page is reloaded or dies. What IndexedDB holds stays.
Crash(d) ==
    /\ loop[d].step # "idle" /\ faults < MaxFaults
    /\ late' = IF loop[d].step = "waiting"
               THEN [late EXCEPT ![d] = @ \cup {loop[d].since}] ELSE late
    /\ loop' = [loop EXCEPT ![d] = IdleLoop]
    /\ answer' = [answer EXCEPT ![d] = NoAnswer]
    /\ faults' = faults + 1
    /\ UNCHANGED <<time, serverVars, changes, active, eligible, token,
                   got, withheld, view, base>>

-----------------------------------------------------------------------------
(* What happens around them                                                *)

\* A position of the stream, for the users that are to hear of it.
Publish(to, subject) ==
    /\ Len(changes) < MaxChanges
    /\ changes' = Append(changes, [to |-> to, subject |-> subject])
    /\ UNCHANGED <<time, faults, serverVars, active, eligible, clientVars, late>>

\* The retention worker deletes expired events and batches.
PurgeExpired ==
    /\ \/ events' = {e \in events : e.left > 0} /\ UNCHANGED batches
       \/ batches' = {b \in batches : b.left > 0} /\ UNCHANGED events
    /\ UNCHANGED <<time, faults, tombs, latest, nextId, changes, active, eligible,
                   clientVars, late>>

EligibilityChanges(d) ==
    /\ eligible' = [eligible EXCEPT ![d] = ~@]
    /\ UNCHANGED <<time, faults, serverVars, changes, active, clientVars, late>>

Revoke(d) ==
    /\ active' = [active EXCEPT ![d] = FALSE]
    /\ UNCHANGED <<time, faults, serverVars, changes, eligible, clientVars, late>>

\* Mutant: time runs below zero.
LessUnchecked(n) == n - 1

Less(n) == IF n = 0 THEN 0 ELSE n - 1

Tick ==
    /\ time < MaxTime /\ time' = time + 1
    /\ events' = {[e EXCEPT !.left = Less(@)] : e \in events}
    /\ batches' = {[b EXCEPT !.left = Less(@)] : b \in batches}
    /\ UNCHANGED <<faults, tombs, latest, nextId, changes, active, eligible, clientVars, late>>

Next ==
    \/ \E t \in Txns, wait \in 0..MaxWait : Send(t, wait)
    \/ \E d \in Devices :
          \/ StartSync(d) \/ ServeSync(d) \/ LoseAnswer(d) \/ GiveUp(d) \/ LateCall(d)
          \/ RecoverPosition(d) \/ Refuse(d) \/ FailSync(d) \/ InvalidToken(d)
          \/ ReceiveSyncChanges(d) \/ SaveToken(d)
          \/ Crash(d) \/ EligibilityChanges(d) \/ Revoke(d)
    \/ \E to \in SUBSET Devices, s \in Subjects : Publish(to, s)
    \/ PurgeExpired \/ Tick

Spec == Init /\ [][Next]_vars

-----------------------------------------------------------------------------
(* Properties                                                              *)

\* Every variable has its type, whatever the order of the steps.
TypeOK ==
    /\ time \in Nat /\ faults \in Nat
    /\ tombs \subseteq Txns
    /\ latest \in [Devices -> Nat]
    /\ events \subseteq Event
    /\ batches \subseteq Batch
    /\ nextId \in Nat
    /\ changes \in Seq(Change)
    /\ active \in [Devices -> BOOLEAN] /\ eligible \in [Devices -> BOOLEAN]
    /\ token \in [Devices -> Nat]
    /\ loop \in [Devices -> Loop]
    /\ answer \in [Devices -> Answer]
    /\ late \in [Devices -> SUBSET Nat]
    /\ got \in [Devices -> SUBSET Nat] /\ withheld \in [Devices -> SUBSET Nat]
    /\ view \in [Devices -> Lists] /\ base \in [Devices -> Nat]

\* An event leaves the server only when it has expired, when the crypto store of
\* its device has processed it, or when an answer that the device processed had
\* to leave it out. Lost answers, late calls, crashes of the browser and a
\* position that was reset do not change that.
NoEventLost ==
    [][\A e \in events :
          \/ \E f \in events' : f.dev = e.dev /\ f.seq = e.seq
          \/ e.left = 0 \/ e.seq \in got[e.dev] \cup withheld[e.dev]]_vars

\* A token has one successor, at most one first sync of a device is open, and
\* the range of a successor begins where that of its predecessor ends: asking
\* again with the same token answers with the same range.
OneSuccessor ==
    /\ \A b, c \in batches : b.prev # 0 /\ b.prev = c.prev => b = c
    /\ \A d \in Devices : \A b, c \in OpenInitial(d) : b = c
    /\ \A b, p \in batches :
          b.prev = p.id => p.acked /\ b.dev = p.dev /\ b.from = p.upTo /\ b.dlFrom = p.dlTo

\* No event in the range of a batch expires before the batch: while its token
\* counts, what it answers does not shrink.
ReplayWindow ==
    \A b \in batches, e \in events : InRange(e, b) /\ e.left > 0 => b.left <= e.left

\* A transaction reaches each of its targets once, however often it is repeated
\* and whatever was delivered and deleted in between.
SentOnce ==
    [][\A t \in tombs : \A e \in events' : e.txn = t =>
          \E f \in events : f.txn = t /\ f.dev = e.dev /\ f.seq = e.seq]_vars

Announced(d, s, from, to) ==
    \A p \in DOMAIN changes :
        from < p /\ p <= to /\ d \in changes[p].to /\ changes[p].subject = s => p <= view[d][s]

\* Of every device list that changed after the first sync, the client was told
\* the last change up to its position: none falls between two batches.
DeviceListsCurrent ==
    \A d \in Devices : \A b \in batches : b.id = token[d] =>
        \A s \in Subjects : Announced(d, s, base[d], b.dlTo)

\* A position the server no longer knows costs the client one first sync. It ends
\* the loop only when that sync was saved and the requests after it could not be
\* sent, so that the loop had not counted it as complete when a position was
\* unknown again.
PositionRecovered ==
    \A d \in Devices : loop[d].step = "lost" => loop[d].flushFailed

\* An event that waits for a device is processed, unless it expires, its sender
\* loses the device, or the loop has ended.
EventsReachDevice ==
    \A d \in Devices : \A t \in Txns :
        (\E e \in events : e.dev = d /\ e.txn = t)
            ~> \/ ~active[d] \/ loop[d].step \in {"stopped", "lost"}
               \/ \A e \in Unexpired(d) : e.txn = t => e.seq \in got[d] \cup withheld[d]

\* What every reachable state satisfies: a chain of batches that answers alike
\* when asked again, complete device lists, and a loop that gets over a lost position.
SyncSafe == TypeOK /\ OneSuccessor /\ ReplayWindow /\ DeviceListsCurrent /\ PositionRecovered

\* What every step observes: an event is stored once and leaves the server only
\* processed, withheld or expired.
EventsKept == NoEventLost /\ SentOnce
=============================================================================
