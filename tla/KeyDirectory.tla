---------------------------- MODULE KeyDirectory ----------------------------
(***************************************************************************)
(* The directory of one-time and fallback keys                             *)
(* (e2ee/matrix-key-directory.service.ts): uploadKeys by the devices,      *)
(* claimKeys and claimRelatedKeys by those that want to write to them.     *)
(*                                                                         *)
(* An account has one device, so a device stands for its account, and a    *)
(* claim names one device.  The advisory lock on the device set of an      *)
(* account is held to the end of a transaction.  An upload has nothing to  *)
(* read before that lock and is one action; a claim takes two of them, one *)
(* after the other, reads keys and then writes what it read.  Instants are *)
(* read from the database's clock.  Unique indexes and triggers that       *)
(* repeat what the locks already ensure are left out; those that compare   *)
(* instants are not.                                                       *)
(***************************************************************************)
EXTENDS Naturals, FiniteSets

CONSTANTS
    Devices,
    Publishers,    \* the devices whose keys are followed
    Requests,      \* claim requests: requester, identifier, conversation and content
    From, To,      \* requester and target of each request
    Legacy,        \* requests that use the route with a conversation
    Calls, Of,     \* calls, and the request each one makes
    Rank,          \* the order of the user identifiers
    PerUpload,     \* one-time keys of an upload
    Fallbacks,     \* uploads that bring a fallback key
    PoolSize,      \* unclaimed one-time keys a device may have
    MaxUploads, MaxClock   \* bounds

KeyDirectoryAssumption ==
    /\ Publishers \subseteq Devices
    /\ From \in [Requests -> Devices] /\ To \in [Requests -> Publishers]
    /\ \A r \in Requests : From[r] # To[r]
    /\ Of \in [Calls -> Requests] /\ Legacy \subseteq Requests
    /\ Rank \in [Devices -> Nat] /\ \A d, e \in Devices : Rank[d] = Rank[e] => d = e
    /\ PerUpload \in Nat /\ PoolSize \in Nat
    /\ MaxUploads \in Nat /\ Fallbacks \subseteq 1..MaxUploads
    /\ MaxClock \in Nat

VARIABLES
    clock,
    active,        \* the device is not revoked
    session,       \* its session is in force
    otks,          \* matrix_one_time_keys; claimed = 0 until it is claimed
    fallbacks,     \* matrix_fallback_keys; first = 0 until its first claim
    slot,          \* the current fallback key, 0 for none
    uploaded,      \* uploads whose answer the device has seen
    results,       \* matrix_key_claim_requests with their results
    call           \* the calls

vars == <<clock, active, session, otks, fallbacks, slot, uploaded, results, call>>
directory == <<otks, fallbacks, slot, uploaded>>

\* A key is named by the upload it came with and, a one-time key, by its place.
OneTimeKey == [dev : Devices, n : 1..MaxUploads, i : 1..PerUpload, at : Nat, claimed : Nat]
FallbackKey == [dev : Devices, n : 1..MaxUploads, at : Nat, first : Nat]
Key == [kind : {"one-time", "fallback", "none"}, n : 0..MaxUploads, i : 0..PerUpload]
NoKey == [kind |-> "none", n |-> 0, i |-> 0]
Result == [req : Requests, key : Key]
Call == [pc : {"idle", "waiting", "first", "locked", "done", "failed"}, now : Nat, key : Key]
IdleCall == [pc |-> "idle", now |-> 0, key |-> NoKey]

Init ==
    /\ clock = 1
    /\ active = [d \in Devices |-> TRUE] /\ session = [d \in Devices |-> TRUE]
    /\ otks = {} /\ fallbacks = {} /\ slot = [d \in Devices |-> 0]
    /\ uploaded = [d \in Devices |-> 0]
    /\ results = {}
    /\ call = [c \in Calls |-> IdleCall]

Requester(c) == From[Of[c]]
Target(c) == To[Of[c]]


\* Device sets are locked in the order of the user identifiers.
First(c) == IF Rank[Requester(c)] < Rank[Target(c)] THEN Requester(c) ELSE Target(c)
Second(c) == IF First(c) = Requester(c) THEN Target(c) ELSE Requester(c)

\* The device sets a call holds.
Held(c) ==
    {d \in {Requester(c), Target(c)} :
        call[c].pc = "locked" \/ (call[c].pc = "first" /\ d = First(c))}

\* Mutant: nobody waits.
LockIgnored(d) == TRUE

\* Nobody holds the device set of the account of d.
LockFree(d) == \A c \in Calls : d \notin Held(c)

Unclaimed(d) == {k \in otks : k.dev = d /\ k.claimed = 0}

-----------------------------------------------------------------------------
(* uploadKeys                                                              *)

\* Mutant: one key more than the upload holds.
SentOneMore(d, n) ==
    {[dev |-> d, n |-> n, i |-> i, at |-> clock, claimed |-> 0] : i \in 0..PerUpload}

Sent(d, n) == {[dev |-> d, n |-> n, i |-> i, at |-> clock, claimed |-> 0] : i \in 1..PerUpload}

\* Mutant: a key that is known is written again.
UpsertOneTimeKeys(d, n) == {k \in otks : k.dev # d \/ k.n # n} \cup Sent(d, n)

\* A key that is known is left as it is, claimed or not.
InsertOneTimeKeys(d, n) ==
    otks \cup {k \in Sent(d, n) : ~\E o \in otks : o.dev = d /\ o.n = n /\ o.i = k.i}

KnownFallback(d, n) == {f \in fallbacks : f.dev = d /\ f.n = n}

\* The slot moves only to a key that was uploaded later than the current one;
\* otherwise the upload is refused as a whole.
RotateFallbackKey(d, n) ==
    IF n \notin Fallbacks THEN UNCHANGED <<fallbacks, slot>>
    ELSE /\ fallbacks' = IF KnownFallback(d, n) # {} THEN fallbacks
                         ELSE fallbacks \cup {[dev |-> d, n |-> n, at |-> clock, first |-> 0]}
         /\ \/ slot[d] \in {0, n}
            \/ \A f \in fallbacks', g \in fallbacks :
                  f.dev = d /\ f.n = n /\ g.dev = d /\ g.n = slot[d] => g.at < f.at
         /\ slot' = [slot EXCEPT ![d] = n]

\* The next upload of a device, or one that it sent before and that arrives
\* again. The answer to the next one may get lost.
UploadKeys(d, n) ==
    /\ n <= uploaded[d] + 1 /\ n <= MaxUploads
    /\ LockFree(d) /\ active[d] /\ session[d]
    /\ otks' = InsertOneTimeKeys(d, n)
    /\ Cardinality({k \in otks' : k.dev = d /\ k.claimed = 0}) <= PoolSize
    /\ RotateFallbackKey(d, n)
    /\ \/ UNCHANGED uploaded
       \/ n = uploaded[d] + 1 /\ uploaded' = [uploaded EXCEPT ![d] = n]
    /\ UNCHANGED <<clock, active, session, results, call>>

-----------------------------------------------------------------------------
(* claimKeys and claimRelatedKeys                                          *)

\* claimRelatedKeys checks its session and reads the clock before it waits for
\* the device sets. Both routes then look for a conversation in force between the
\* two accounts and lock it FOR SHARE to the end of the transaction: a call that
\* finds none is refused and changes nothing, so it does not begin here.
BeginClaim(c) ==
    /\ call[c].pc = "idle" /\ session[Requester(c)]
    /\ call' = [call EXCEPT ![c] = [IdleCall EXCEPT !.pc = "waiting", !.now = clock]]
    /\ UNCHANGED <<clock, active, session, directory, results>>

\* Mutant: an earlier answer is not looked up.
RecordedNever(r) == {}

\* What a request with this identifier was answered before.
Recorded(r) == {x \in results : x.req = r}

\* The key claimRecipientKey takes: the oldest one-time key, else the current
\* fallback key, else none.
ClaimRecipientKey(d, key) ==
    IF ~active[d] THEN key = NoKey
    ELSE IF Unclaimed(d) # {}
         THEN \E k \in Unclaimed(d) :
                /\ \A o \in Unclaimed(d) : k.at <= o.at
                /\ key = [kind |-> "one-time", n |-> k.n, i |-> k.i]
         ELSE key = IF slot[d] = 0 THEN NoKey
                    ELSE [kind |-> "fallback", n |-> slot[d], i |-> 0]

Finish(c, pc, key) == call' = [call EXCEPT ![c].pc = pc, ![c].key = key]

\* Mutant: the clock is read before the wait.
EarlyInstant(c) == call[c].now

\* claimKeys reads the clock once it has its locks.
ClaimInstant(c) == IF Of[c] \in Legacy THEN clock ELSE call[c].now

\* The first device set is locked; the second may have to be waited for.
LockFirst(c) ==
    /\ call[c].pc = "waiting" /\ LockFree(First(c))
    /\ call' = [call EXCEPT ![c].pc = "first"]
    /\ UNCHANGED <<clock, active, session, directory, results>>

\* With both device sets locked, a repeated request is answered from its row and
\* another one reads the key it will take.
LockSets(c) ==
    LET r == Of[c] IN
    /\ call[c].pc = "first" /\ LockFree(Second(c))
    /\ IF r \in Legacy /\ ~session[Requester(c)]
       THEN Finish(c, "failed", NoKey)
       ELSE IF Recorded(r) # {}
       THEN \E x \in Recorded(r) : Finish(c, "done", x.key)
       ELSE IF ~active[Requester(c)]
       THEN Finish(c, "failed", NoKey)
       ELSE \E key \in Key :
              /\ ClaimRecipientKey(Target(c), key)
              /\ call' = [call EXCEPT ![c] = [pc |-> "locked", now |-> ClaimInstant(c), key |-> key]]
    /\ UNCHANGED <<clock, active, session, directory, results>>

IsOneTime(k, d, key) == k.dev = d /\ key.kind = "one-time" /\ k.n = key.n /\ k.i = key.i
IsFallback(f, d, key) == f.dev = d /\ key.kind = "fallback" /\ f.n = key.n

\* The database refuses a claim dated before the upload of its key or before the
\* first claim of a fallback key.
InstantAccepted(c) ==
    /\ \A k \in otks : IsOneTime(k, Target(c), call[c].key) => k.at <= call[c].now
    /\ \A f \in fallbacks : IsFallback(f, Target(c), call[c].key) =>
          f.at <= call[c].now /\ f.first <= call[c].now

CommitClaim(c) ==
    LET d == Target(c)
        key == call[c].key
        now == call[c].now IN
    /\ call[c].pc = "locked" /\ InstantAccepted(c)
    /\ otks' = {IF IsOneTime(k, d, key) THEN [k EXCEPT !.claimed = now] ELSE k : k \in otks}
    /\ fallbacks' = {IF IsFallback(f, d, key) /\ f.first = 0 THEN [f EXCEPT !.first = now] ELSE f :
                       f \in fallbacks}
    /\ results' = results \cup {[req |-> Of[c], key |-> key]}
    /\ Finish(c, "done", key)
    /\ UNCHANGED <<clock, active, session, slot, uploaded>>

\* The transaction is rolled back. Nobody repeats the request: the encryption that
\* needed the key fails with it.
FailClaim(c) ==
    /\ call[c].pc = "locked" /\ ~InstantAccepted(c)
    /\ Finish(c, "failed", NoKey)
    /\ UNCHANGED <<clock, active, session, directory, results>>

-----------------------------------------------------------------------------
\* A device is revoked with its session, under the lock of its account.
Revoke(d) ==
    /\ active[d] /\ LockFree(d)
    /\ active' = [active EXCEPT ![d] = FALSE] /\ session' = [session EXCEPT ![d] = FALSE]
    /\ UNCHANGED <<clock, directory, results, call>>

\* The session alone ends, by a log-out or its expiry.
EndSession(d) ==
    /\ session[d] /\ session' = [session EXCEPT ![d] = FALSE]
    /\ UNCHANGED <<clock, active, directory, results, call>>

Tick ==
    /\ clock < MaxClock /\ clock' = clock + 1
    /\ UNCHANGED <<active, session, directory, results, call>>

Next ==
    \/ \E d \in Publishers, n \in 1..MaxUploads : UploadKeys(d, n)
    \/ \E d \in Devices : Revoke(d) \/ EndSession(d)
    \/ \E c \in Calls :
          \/ BeginClaim(c) \/ LockFirst(c) \/ LockSets(c) \/ CommitClaim(c) \/ FailClaim(c)
    \/ Tick

Spec == Init /\ [][Next]_vars

-----------------------------------------------------------------------------
(* Properties                                                              *)

\* Every variable has its type, whatever the order of the steps.
TypeOK ==
    /\ clock \in Nat
    /\ active \in [Devices -> BOOLEAN] /\ session \in [Devices -> BOOLEAN]
    /\ otks \subseteq OneTimeKey
    /\ fallbacks \subseteq FallbackKey
    /\ slot \in [Devices -> 0..MaxUploads]
    /\ uploaded \in [Devices -> 0..MaxUploads]
    /\ results \subseteq Result
    /\ call \in [Calls -> Call]

\* A one-time key is handed to one request at most, also when several requesters
\* compete for the last one and uploads are repeated, and a key that was handed
\* out stays marked.
HandedOnce ==
    \A x \in results : x.key.kind = "one-time" =>
        /\ \A y \in results : y.key = x.key /\ To[y.req] = To[x.req] => y = x
        /\ \A k \in otks : IsOneTime(k, To[x.req], x.key) => k.claimed # 0

\* Every call of a request that is answered gets the same answer, the empty one
\* included, although keys were uploaded or claimed in between.
SameAnswer ==
    \A c, e \in Calls : Of[c] = Of[e] /\ call[c].pc = "done" /\ call[e].pc = "done" =>
        call[c].key = call[e].key

\* A fallback key is handed out only when no one-time key of the device is left,
\* and then the one that was uploaded last; nothing is handed out only when the
\* device has nothing.
FallbackLast ==
    [][\A x \in results' \ results :
          LET d == To[x.req] IN
          /\ x.key.kind = "fallback" =>
                /\ Unclaimed(d) = {}
                /\ \A f, g \in fallbacks : IsFallback(f, d, x.key) /\ g.dev = d => g.at <= f.at
          /\ x.key.kind = "none" /\ active[d] => Unclaimed(d) = {} /\ slot[d] = 0]_vars

\* A claim fails only when its requester is no longer in force, or when the keys
\* of the target changed between its instant and its turn.
FailsForCause ==
    [][\A c \in Calls : call[c].pc # "failed" /\ call'[c].pc = "failed" =>
          \/ ~session[Requester(c)]
          \/ /\ Of[c] \notin Legacy
             /\ \/ \E k \in otks : k.dev = Target(c) /\ k.at > call[c].now
                \/ \E f \in fallbacks : f.dev = Target(c) /\
                      (f.at > call[c].now \/ f.first > call[c].now)]_vars


\* What every reachable state of the directory satisfies: a one-time key goes to
\* one request, and a request has one answer.
KeysSafe == TypeOK /\ HandedOnce /\ SameAnswer

\* What every claim observes: the order in which the keys of a device are handed
\* out, and the only causes for which it fails.
ClaimsServed == FallbackLast /\ FailsForCause
=============================================================================
