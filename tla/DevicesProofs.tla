--------------------------- MODULE DevicesProofs ----------------------------
(***************************************************************************)
(* Proofs about the devices of an account: the key directory               *)
(* (KeyDirectory), the registration of the account's device                *)
(* (DeviceRegistration) and the quarantine of a new one (DeviceCandidates),*)
(* for every value of their constants.  Each has an inductive invariant, a *)
(* lemma for every action and, from them, the properties that the run      *)
(* Devices checks on its instances.                                        *)
(***************************************************************************)
EXTENDS DeviceServices, FiniteSetTheorems, TLAPS

-----------------------------------------------------------------------------
(* The key directory *)

\* Instants were read from the clock, which starts at 1; a revoked device has no
\* session.
KeysInstants ==
    /\ 1 <= clock
    /\ \A k \in otks : k.at <= clock
    /\ \A f \in fallbacks : f.at <= clock /\ f.first <= clock
    /\ \A c \in Calls : call[c].pc \in {"waiting", "first", "locked"} => 1 <= call[c].now /\ call[c].now <= clock
    /\ \A d \in Devices : session[d] => active[d]

\* The slot names a fallback key of the device that none was uploaded after.
KeysSlotInv ==
    \A d \in Devices :
        /\ slot[d] = 0 => \A f \in fallbacks : f.dev # d
        /\ slot[d] # 0 => \E f \in fallbacks : f.dev = d /\ f.n = slot[d]
        /\ \A f, g \in fallbacks : f.dev = d /\ f.n = slot[d] /\ g.dev = d => g.at <= f.at

\* What is recorded: one answer for each request, of a key that is known, and
\* the answer of each call that is done.
KeysRecordsInv ==
    /\ \A x, y \in results : x.req = y.req => x = y
    /\ \A x \in results : x.key.kind = "one-time" => \E k \in otks : Keys!IsOneTime(k, To[x.req], x.key)
    /\ \A c \in Calls : call[c].pc = "done" => [req |-> Of[c], key |-> call[c].key] \in results

\* No device set is held by two claims, be it the first of its locks or both.
KeysExclusive ==
    \A c, e \in Calls : c # e => \A d \in Keys!Held(c) : d \notin Keys!Held(e)

\* What a claim read stays true while it holds its locks.
KeysReadHolds(c) ==
    LET d == Keys!Target(c)
        key == call[c].key IN
    /\ \A x \in results : x.req # Of[c]
    /\ key.kind = "one-time" => \E k \in otks : Keys!IsOneTime(k, d, key) /\ k.claimed = 0
    /\ key.kind = "fallback" => (\A k \in otks : k.dev = d => k.claimed # 0) /\ slot[d] = key.n
    /\ key.kind = "none" /\ active[d] => (\A k \in otks : k.dev = d => k.claimed # 0) /\ slot[d] = 0
    /\ Of[c] \in Legacy =>
          /\ \A k \in otks : k.dev = d => k.at <= call[c].now
          /\ \A f \in fallbacks : f.dev = d => f.at <= call[c].now /\ f.first <= call[c].now

\* Every claim that holds its locks still has what it read.
KeysLockedInv == \A c \in Calls : call[c].pc = "locked" => KeysReadHolds(c)

\* The inductive invariant of the key directory.
KeysIInv ==
    /\ Keys!TypeOK /\ KeysInstants /\ KeysSlotInv /\ KeysRecordsInv /\ KeysExclusive /\ KeysLockedInv /\ Keys!HandedOnce

\* The key that stands for none and a call that has not begun have their types.
LEMMA KeysKeyTypes ==
    ASSUME Keys!KeyDirectoryAssumption
    PROVE  Keys!NoKey \in Keys!Key /\ Keys!IdleCall \in Keys!Call
  BY DEF Keys!KeyDirectoryAssumption, Keys!NoKey, Keys!Key, Keys!IdleCall, Keys!Call

\* A call that ends keeps its instant.
LEMMA KeysFinishEffect ==
    ASSUME Keys!TypeOK, NEW c \in Calls, NEW end \in {"failed", "done"}, NEW key \in Keys!Key, Keys!Finish(c, end, key)
    PROVE  call' = [call EXCEPT ![c] = [pc |-> end, now |-> call[c].now, key |-> key]]
<1> DEFINE ended == [call[c] EXCEPT !.pc = end]
<1>1. call[c] \in Keys!Call /\ call \in [Calls -> Keys!Call]
  BY DEF Keys!TypeOK
<1>2. ended \in Keys!Call /\ ended.pc = end /\ ended.now = call[c].now
  BY <1>1 DEF Keys!Call
<1>3. call' = [call EXCEPT ![c] = [ended EXCEPT !.key = key]]
  BY <1>1 DEF Keys!Finish
<1> HIDE DEF ended
<1>4. [ended EXCEPT !.key = key] = [pc |-> end, now |-> call[c].now, key |-> key]
  BY <1>2 DEF Keys!Call
<1> QED
  BY <1>3, <1>4

\* What the claim of one key changes: that key alone is marked.
LEMMA KeysClaimedKeys ==
    ASSUME Keys!KeyDirectoryAssumption, KeysIInv, NEW c \in Calls, Keys!CommitClaim(c)
    PROVE  /\ otks' \subseteq Keys!OneTimeKey
           /\ \A k \in otks' : \E o \in otks :
                 /\ k.dev = o.dev /\ k.n = o.n /\ k.i = o.i /\ k.at = o.at
                 /\ IF Keys!IsOneTime(o, Keys!Target(c), call[c].key) THEN k.claimed = call[c].now ELSE k = o
           /\ \A o \in otks : \E k \in otks' :
                 /\ k.dev = o.dev /\ k.n = o.n /\ k.i = o.i /\ k.at = o.at
                 /\ IF Keys!IsOneTime(o, Keys!Target(c), call[c].key) THEN k.claimed = call[c].now ELSE k = o
<1> DEFINE mark(k) == IF Keys!IsOneTime(k, Keys!Target(c), call[c].key)
                      THEN [k EXCEPT !.claimed = call[c].now] ELSE k
<1>1. otks' = {mark(k) : k \in otks}
  BY DEF Keys!CommitClaim
<1>2. ASSUME NEW o \in otks
      PROVE  /\ mark(o) \in Keys!OneTimeKey
             /\ mark(o).dev = o.dev /\ mark(o).n = o.n /\ mark(o).i = o.i /\ mark(o).at = o.at
             /\ IF Keys!IsOneTime(o, Keys!Target(c), call[c].key) THEN mark(o).claimed = call[c].now
                ELSE mark(o) = o
  BY DEF KeysIInv, Keys!TypeOK, Keys!OneTimeKey, Keys!Call
<1> HIDE DEF mark
<1> QED
  BY <1>1, <1>2

\* A fallback key that is claimed keeps the instant of its first claim.
LEMMA KeysClaimedFallbacks ==
    ASSUME Keys!KeyDirectoryAssumption, KeysIInv, NEW c \in Calls, Keys!CommitClaim(c)
    PROVE  /\ fallbacks' \subseteq Keys!FallbackKey
           /\ \A f \in fallbacks' : \E g \in fallbacks :
                 /\ f.dev = g.dev /\ f.n = g.n /\ f.at = g.at
                 /\ f.first = g.first \/ (f.dev = Keys!Target(c) /\ f.first = call[c].now)
           /\ \A g \in fallbacks : \E f \in fallbacks' : f.dev = g.dev /\ f.n = g.n /\ f.at = g.at
<1> DEFINE mark(f) == IF Keys!IsFallback(f, Keys!Target(c), call[c].key) /\ f.first = 0
                      THEN [f EXCEPT !.first = call[c].now] ELSE f
<1>1. fallbacks' = {mark(f) : f \in fallbacks}
  BY DEF Keys!CommitClaim
<1>2. ASSUME NEW g \in fallbacks
      PROVE  /\ mark(g) \in Keys!FallbackKey
             /\ mark(g).dev = g.dev /\ mark(g).n = g.n /\ mark(g).at = g.at
             /\ mark(g).first = g.first \/ (mark(g).dev = Keys!Target(c) /\ mark(g).first = call[c].now)
  BY DEF KeysIInv, Keys!TypeOK, Keys!FallbackKey, Keys!Call, Keys!IsFallback
<1> HIDE DEF mark
<1> QED
  BY <1>1, <1>2

\* The three ways on from the wait for the device sets.
LEMMA KeysLockSetsEffect ==
    ASSUME Keys!KeyDirectoryAssumption, KeysIInv, NEW c \in Calls, Keys!LockSets(c)
    PROVE  \E w \in Keys!Call :
             /\ call' = [call EXCEPT ![c] = w]
             /\ \/ w.pc = "failed"
                \/ w.pc = "done" /\ [req |-> Of[c], key |-> w.key] \in results
                \/ /\ w.pc = "locked" /\ w.now = Keys!ClaimInstant(c) /\ Keys!Recorded(Of[c]) = {}
                   /\ Keys!ClaimRecipientKey(Keys!Target(c), w.key) /\ active[Keys!Requester(c)]
<1> USE DEF KeysIInv
<1>1. ASSUME NEW end \in {"failed", "done"}, NEW key \in Keys!Key, Keys!Finish(c, end, key)
      PROVE  \E w \in Keys!Call : call' = [call EXCEPT ![c] = w] /\ w.pc = end /\ w.key = key
  <2>1. [pc |-> end, now |-> call[c].now, key |-> key] \in Keys!Call
    BY <1>1 DEF Keys!TypeOK, Keys!Call
  <2> QED
    BY <1>1, <2>1, KeysFinishEffect
<1>2. CASE (Of[c] \in Legacy /\ ~session[Keys!Requester(c)]) \/ (Keys!Recorded(Of[c]) = {} /\ ~active[Keys!Requester(c)])
  <2>1. Keys!Finish(c, "failed", Keys!NoKey)
    BY <1>2 DEF Keys!LockSets
  <2> QED
    BY <1>1, <2>1, KeysKeyTypes
<1>3. CASE ~(Of[c] \in Legacy /\ ~session[Keys!Requester(c)]) /\ Keys!Recorded(Of[c]) # {}
  <2>1. PICK x \in Keys!Recorded(Of[c]) : Keys!Finish(c, "done", x.key)
    BY <1>3 DEF Keys!LockSets
  <2>2. x.key \in Keys!Key /\ x = [req |-> Of[c], key |-> x.key] /\ x \in results
    BY <2>1 DEF Keys!Recorded, Keys!TypeOK, Keys!Result
  <2> QED
    BY <1>1, <2>1, <2>2
<1>4. CASE /\ ~(Of[c] \in Legacy /\ ~session[Keys!Requester(c)])
           /\ Keys!Recorded(Of[c]) = {} /\ active[Keys!Requester(c)]
  <2>1. PICK key \in Keys!Key :
           /\ Keys!ClaimRecipientKey(Keys!Target(c), key)
           /\ call' = [call EXCEPT ![c] = [pc |-> "locked", now |-> Keys!ClaimInstant(c), key |-> key]]
    BY <1>4 DEF Keys!LockSets
  <2>2. [pc |-> "locked", now |-> Keys!ClaimInstant(c), key |-> key] \in Keys!Call
    BY <2>1 DEF Keys!TypeOK, Keys!Call, Keys!ClaimInstant
  <2> QED
    BY <1>4, <2>1, <2>2
<1> QED
  BY <1>2, <1>3, <1>4

\* A step that locks no device set for anybody keeps them exclusive.
LEMMA KeysExclusiveKept ==
    ASSUME KeysExclusive,
           \A e \in Calls : call'[e].pc = call[e].pc \/ call'[e].pc \notin {"first", "locked"}
    PROVE  KeysExclusive'
<1>1. ASSUME NEW e \in Calls, NEW d \in Keys!Held(e)' PROVE d \in Keys!Held(e)
  BY <1>1 DEF Keys!Held, Keys!First, Keys!Requester, Keys!Target
<1> QED
  BY <1>1 DEF KeysExclusive

\* The start of claimKeys preserves the invariant.
LEMMA KeysBeginClaimStep ==
    ASSUME Keys!KeyDirectoryAssumption, KeysIInv, NEW c \in Calls, Keys!BeginClaim(c)
    PROVE  KeysIInv'
<1>1. Keys!TypeOK'
  <2>1. [Keys!IdleCall EXCEPT !.pc = "waiting", !.now = clock] \in Keys!Call
    BY KeysKeyTypes DEF KeysIInv, Keys!TypeOK, Keys!IdleCall, Keys!Call
  <2> QED
    BY <2>1 DEF KeysIInv, Keys!TypeOK, Keys!BeginClaim, Keys!directory
<1>2. KeysInstants'
  BY DEF KeysIInv, KeysInstants, Keys!KeyDirectoryAssumption, Keys!TypeOK, Keys!OneTimeKey,
     Keys!FallbackKey, Keys!Key, Keys!NoKey, Keys!Result, Keys!Call, Keys!IdleCall, Keys!Requester,
     Keys!Target, Keys!directory, Keys!BeginClaim
<1>3. KeysSlotInv'
  BY DEF KeysIInv, KeysSlotInv, Keys!KeyDirectoryAssumption, Keys!TypeOK, Keys!OneTimeKey,
     Keys!FallbackKey, Keys!Key, Keys!NoKey, Keys!Result, Keys!Call, Keys!IdleCall, Keys!Requester,
     Keys!Target, Keys!directory, Keys!BeginClaim
<1>4. KeysRecordsInv'
  BY DEF KeysIInv, KeysRecordsInv, Keys!IsOneTime, Keys!KeyDirectoryAssumption, Keys!TypeOK,
     Keys!OneTimeKey, Keys!FallbackKey, Keys!Key, Keys!NoKey, Keys!Result, Keys!Call, Keys!IdleCall,
     Keys!Requester, Keys!Target, Keys!directory, Keys!BeginClaim
<1>5. KeysExclusive'
  BY KeysExclusiveKept DEF KeysIInv, Keys!TypeOK, Keys!Call, Keys!BeginClaim, Keys!IdleCall
<1>6. KeysLockedInv'
  BY DEF KeysIInv, KeysLockedInv, KeysReadHolds, Keys!IsOneTime, Keys!KeyDirectoryAssumption,
     Keys!TypeOK, Keys!OneTimeKey, Keys!FallbackKey, Keys!Key, Keys!NoKey, Keys!Result, Keys!Call,
     Keys!IdleCall, Keys!Requester, Keys!Target, Keys!directory, Keys!BeginClaim
<1>7. Keys!HandedOnce'
  BY DEF KeysIInv, Keys!HandedOnce, Keys!IsOneTime, Keys!KeyDirectoryAssumption, Keys!TypeOK,
     Keys!OneTimeKey, Keys!FallbackKey, Keys!Key, Keys!NoKey, Keys!Result, Keys!Call, Keys!IdleCall,
     Keys!Requester, Keys!Target, Keys!directory, Keys!BeginClaim
<1> QED
  BY <1>1, <1>2, <1>3, <1>4, <1>5, <1>6, <1>7 DEF KeysIInv

\* A claim whose instant the keys of the target refuse is rolled back: the
\* invariant is preserved.
LEMMA KeysFailClaimStep ==
    ASSUME Keys!KeyDirectoryAssumption, KeysIInv, NEW c \in Calls, Keys!FailClaim(c)
    PROVE  KeysIInv'
<1>1. Keys!TypeOK'
  <2>1. [pc |-> "failed", now |-> call[c].now, key |-> Keys!NoKey] \in Keys!Call
    BY KeysKeyTypes DEF KeysIInv, Keys!TypeOK, Keys!Call
  <2> QED
    BY <2>1, KeysFinishEffect, KeysKeyTypes DEF KeysIInv, Keys!TypeOK, Keys!FailClaim,
       Keys!directory
<1>2. KeysInstants'
  BY DEF KeysIInv, KeysInstants, Keys!KeyDirectoryAssumption, Keys!TypeOK, Keys!OneTimeKey,
     Keys!FallbackKey, Keys!Key, Keys!NoKey, Keys!Result, Keys!Call, Keys!IdleCall, Keys!Requester,
     Keys!Target, Keys!directory, Keys!FailClaim, Keys!Finish
<1>3. KeysSlotInv'
  BY DEF KeysIInv, KeysSlotInv, Keys!KeyDirectoryAssumption, Keys!TypeOK, Keys!OneTimeKey,
     Keys!FallbackKey, Keys!Key, Keys!NoKey, Keys!Result, Keys!Call, Keys!IdleCall, Keys!Requester,
     Keys!Target, Keys!directory, Keys!FailClaim, Keys!Finish
<1>4. KeysRecordsInv'
  BY DEF KeysIInv, KeysRecordsInv, Keys!IsOneTime, Keys!KeyDirectoryAssumption, Keys!TypeOK,
     Keys!OneTimeKey, Keys!FallbackKey, Keys!Key, Keys!NoKey, Keys!Result, Keys!Call, Keys!IdleCall,
     Keys!Requester, Keys!Target, Keys!directory, Keys!FailClaim, Keys!Finish
<1>5. KeysExclusive'
  BY KeysExclusiveKept DEF KeysIInv, Keys!TypeOK, Keys!Call, Keys!FailClaim, Keys!Finish
<1>6. KeysLockedInv'
  BY DEF KeysIInv, KeysLockedInv, KeysReadHolds, Keys!IsOneTime, Keys!KeyDirectoryAssumption,
     Keys!TypeOK, Keys!OneTimeKey, Keys!FallbackKey, Keys!Key, Keys!NoKey, Keys!Result, Keys!Call,
     Keys!IdleCall, Keys!Requester, Keys!Target, Keys!directory, Keys!FailClaim, Keys!Finish
<1>7. Keys!HandedOnce'
  BY DEF KeysIInv, Keys!HandedOnce, Keys!IsOneTime, Keys!KeyDirectoryAssumption, Keys!TypeOK,
     Keys!OneTimeKey, Keys!FallbackKey, Keys!Key, Keys!NoKey, Keys!Result, Keys!Call, Keys!IdleCall,
     Keys!Requester, Keys!Target, Keys!directory, Keys!FailClaim, Keys!Finish
<1> QED
  BY <1>1, <1>2, <1>3, <1>4, <1>5, <1>6, <1>7 DEF KeysIInv

\* The first of the two locks preserves the invariant.
LEMMA KeysLockFirstStep ==
    ASSUME Keys!KeyDirectoryAssumption, KeysIInv, NEW c \in Calls, Keys!LockFirst(c)
    PROVE  KeysIInv'
<1> DEFINE w == [call[c] EXCEPT !.pc = "first"]
<1>1. /\ call[c].pc = "waiting" /\ Keys!LockFree(Keys!First(c)) /\ call' = [call EXCEPT ![c] = w]
      /\ UNCHANGED <<clock, active, session, Keys!directory, results>>
  BY DEF Keys!LockFirst, KeysIInv, Keys!TypeOK
<1>2. w \in Keys!Call /\ w.pc = "first" /\ w.now = call[c].now
  BY DEF KeysIInv, Keys!TypeOK, Keys!Call
<1> HIDE DEF w
<1>3. /\ call' \in [Calls -> Keys!Call] /\ call'[c].pc = "first" /\ call'[c].now = call[c].now
      /\ \A e \in Calls : e # c => call'[e] = call[e]
  BY <1>1, <1>2 DEF KeysIInv, Keys!TypeOK
<1>4. Keys!TypeOK'
  BY <1>1, <1>3 DEF KeysIInv, Keys!TypeOK, Keys!directory
<1>5. KeysInstants'
  BY <1>1, <1>3 DEF KeysIInv, KeysInstants, Keys!directory
<1>6. KeysSlotInv'
  BY <1>1 DEF KeysIInv, KeysSlotInv, Keys!directory
<1>7. KeysRecordsInv'
  BY <1>1, <1>3 DEF KeysIInv, KeysRecordsInv, Keys!IsOneTime, Keys!directory
<1>8. KeysExclusive'
  <2>1. \A d : d \in Keys!Held(c)' => d = Keys!First(c)
    BY <1>3 DEF Keys!Held, Keys!First, Keys!Requester, Keys!Target
  <2>2. \A e \in Calls : e # c => Keys!Held(e)' = Keys!Held(e) /\ Keys!First(c) \notin Keys!Held(e)
    BY <1>1, <1>3 DEF Keys!LockFree, Keys!Held, Keys!First, Keys!Requester, Keys!Target
  <2> QED BY <2>1, <2>2 DEF KeysIInv, KeysExclusive
<1>9. KeysLockedInv'
  BY <1>1, <1>3 DEF KeysIInv, KeysLockedInv, KeysReadHolds, Keys!IsOneTime, Keys!Target, Keys!directory
<1>10. Keys!HandedOnce'
  BY <1>1 DEF KeysIInv, Keys!HandedOnce, Keys!IsOneTime, Keys!directory
<1> QED
  BY <1>4, <1>5, <1>6, <1>7, <1>8, <1>9, <1>10 DEF KeysIInv

\* The revocation of a device, which waits for the claims that hold its device
\* set, preserves the invariant.
LEMMA KeysRevokeStep ==
    ASSUME Keys!KeyDirectoryAssumption, KeysIInv, NEW d \in Devices, Keys!Revoke(d)
    PROVE  KeysIInv'
<1>1. Keys!TypeOK'
  BY DEF KeysIInv, Keys!KeyDirectoryAssumption, Keys!TypeOK, Keys!OneTimeKey, Keys!FallbackKey,
     Keys!Key, Keys!NoKey, Keys!Result, Keys!Call, Keys!IdleCall, Keys!Requester, Keys!Target,
     Keys!directory, Keys!Revoke, Keys!LockFree, Keys!Held
<1>2. KeysInstants'
  BY DEF KeysIInv, KeysInstants, Keys!KeyDirectoryAssumption, Keys!TypeOK, Keys!OneTimeKey,
     Keys!FallbackKey, Keys!Key, Keys!NoKey, Keys!Result, Keys!Call, Keys!IdleCall, Keys!Requester,
     Keys!Target, Keys!directory, Keys!Revoke, Keys!LockFree, Keys!Held
<1>3. KeysSlotInv'
  BY DEF KeysIInv, KeysSlotInv, Keys!KeyDirectoryAssumption, Keys!TypeOK, Keys!OneTimeKey,
     Keys!FallbackKey, Keys!Key, Keys!NoKey, Keys!Result, Keys!Call, Keys!IdleCall, Keys!Requester,
     Keys!Target, Keys!directory, Keys!Revoke, Keys!LockFree, Keys!Held
<1>4. KeysRecordsInv'
  BY DEF KeysIInv, KeysRecordsInv, Keys!IsOneTime, Keys!KeyDirectoryAssumption, Keys!TypeOK,
     Keys!OneTimeKey, Keys!FallbackKey, Keys!Key, Keys!NoKey, Keys!Result, Keys!Call, Keys!IdleCall,
     Keys!Requester, Keys!Target, Keys!directory, Keys!Revoke, Keys!LockFree, Keys!Held
<1>5. KeysExclusive'
  BY KeysExclusiveKept DEF KeysIInv, Keys!TypeOK, Keys!Call, Keys!Revoke
<1>6. KeysLockedInv'
  BY DEF KeysIInv, KeysLockedInv, KeysReadHolds, Keys!IsOneTime, Keys!KeyDirectoryAssumption,
     Keys!TypeOK, Keys!OneTimeKey, Keys!FallbackKey, Keys!Key, Keys!NoKey, Keys!Result, Keys!Call,
     Keys!IdleCall, Keys!Requester, Keys!Target, Keys!directory, Keys!Revoke, Keys!LockFree, Keys!Held
<1>7. Keys!HandedOnce'
  BY DEF KeysIInv, Keys!HandedOnce, Keys!IsOneTime, Keys!KeyDirectoryAssumption, Keys!TypeOK,
     Keys!OneTimeKey, Keys!FallbackKey, Keys!Key, Keys!NoKey, Keys!Result, Keys!Call, Keys!IdleCall,
     Keys!Requester, Keys!Target, Keys!directory, Keys!Revoke, Keys!LockFree, Keys!Held
<1> QED
  BY <1>1, <1>2, <1>3, <1>4, <1>5, <1>6, <1>7 DEF KeysIInv

\* The end of a session preserves the invariant.
LEMMA KeysEndSessionStep ==
    ASSUME Keys!KeyDirectoryAssumption, KeysIInv, NEW d \in Devices, Keys!EndSession(d)
    PROVE  KeysIInv'
<1>1. Keys!TypeOK'
  BY DEF KeysIInv, Keys!KeyDirectoryAssumption, Keys!TypeOK, Keys!OneTimeKey, Keys!FallbackKey,
     Keys!Key, Keys!NoKey, Keys!Result, Keys!Call, Keys!IdleCall, Keys!Requester, Keys!Target,
     Keys!directory, Keys!EndSession
<1>2. KeysInstants'
  BY DEF KeysIInv, KeysInstants, Keys!KeyDirectoryAssumption, Keys!TypeOK, Keys!OneTimeKey,
     Keys!FallbackKey, Keys!Key, Keys!NoKey, Keys!Result, Keys!Call, Keys!IdleCall, Keys!Requester,
     Keys!Target, Keys!directory, Keys!EndSession
<1>3. KeysSlotInv'
  BY DEF KeysIInv, KeysSlotInv, Keys!KeyDirectoryAssumption, Keys!TypeOK, Keys!OneTimeKey,
     Keys!FallbackKey, Keys!Key, Keys!NoKey, Keys!Result, Keys!Call, Keys!IdleCall, Keys!Requester,
     Keys!Target, Keys!directory, Keys!EndSession
<1>4. KeysRecordsInv'
  BY DEF KeysIInv, KeysRecordsInv, Keys!IsOneTime, Keys!KeyDirectoryAssumption, Keys!TypeOK,
     Keys!OneTimeKey, Keys!FallbackKey, Keys!Key, Keys!NoKey, Keys!Result, Keys!Call, Keys!IdleCall,
     Keys!Requester, Keys!Target, Keys!directory, Keys!EndSession
<1>5. KeysExclusive'
  BY KeysExclusiveKept DEF KeysIInv, Keys!TypeOK, Keys!Call, Keys!EndSession
<1>6. KeysLockedInv'
  BY DEF KeysIInv, KeysLockedInv, KeysReadHolds, Keys!IsOneTime, Keys!KeyDirectoryAssumption,
     Keys!TypeOK, Keys!OneTimeKey, Keys!FallbackKey, Keys!Key, Keys!NoKey, Keys!Result, Keys!Call,
     Keys!IdleCall, Keys!Requester, Keys!Target, Keys!directory, Keys!EndSession
<1>7. Keys!HandedOnce'
  BY DEF KeysIInv, Keys!HandedOnce, Keys!IsOneTime, Keys!KeyDirectoryAssumption, Keys!TypeOK,
     Keys!OneTimeKey, Keys!FallbackKey, Keys!Key, Keys!NoKey, Keys!Result, Keys!Call, Keys!IdleCall,
     Keys!Requester, Keys!Target, Keys!directory, Keys!EndSession
<1> QED
  BY <1>1, <1>2, <1>3, <1>4, <1>5, <1>6, <1>7 DEF KeysIInv

\* The passing of time preserves the invariant.
LEMMA KeysTickStep ==
    ASSUME Keys!KeyDirectoryAssumption, KeysIInv, Keys!Tick
    PROVE  KeysIInv'
<1>1. Keys!TypeOK'
  BY DEF KeysIInv, Keys!KeyDirectoryAssumption, Keys!TypeOK, Keys!OneTimeKey, Keys!FallbackKey,
     Keys!Key, Keys!NoKey, Keys!Result, Keys!Call, Keys!IdleCall, Keys!Requester, Keys!Target,
     Keys!directory, Keys!Tick
<1>2. KeysInstants'
  BY DEF KeysIInv, KeysInstants, Keys!KeyDirectoryAssumption, Keys!TypeOK, Keys!OneTimeKey,
     Keys!FallbackKey, Keys!Key, Keys!NoKey, Keys!Result, Keys!Call, Keys!IdleCall, Keys!Requester,
     Keys!Target, Keys!directory, Keys!Tick
<1>3. KeysSlotInv'
  BY DEF KeysIInv, KeysSlotInv, Keys!KeyDirectoryAssumption, Keys!TypeOK, Keys!OneTimeKey,
     Keys!FallbackKey, Keys!Key, Keys!NoKey, Keys!Result, Keys!Call, Keys!IdleCall, Keys!Requester,
     Keys!Target, Keys!directory, Keys!Tick
<1>4. KeysRecordsInv'
  BY DEF KeysIInv, KeysRecordsInv, Keys!IsOneTime, Keys!KeyDirectoryAssumption, Keys!TypeOK,
     Keys!OneTimeKey, Keys!FallbackKey, Keys!Key, Keys!NoKey, Keys!Result, Keys!Call, Keys!IdleCall,
     Keys!Requester, Keys!Target, Keys!directory, Keys!Tick
<1>5. KeysExclusive'
  BY KeysExclusiveKept DEF KeysIInv, Keys!TypeOK, Keys!Call, Keys!Tick
<1>6. KeysLockedInv'
  BY DEF KeysIInv, KeysLockedInv, KeysReadHolds, Keys!IsOneTime, Keys!KeyDirectoryAssumption,
     Keys!TypeOK, Keys!OneTimeKey, Keys!FallbackKey, Keys!Key, Keys!NoKey, Keys!Result, Keys!Call,
     Keys!IdleCall, Keys!Requester, Keys!Target, Keys!directory, Keys!Tick
<1>7. Keys!HandedOnce'
  BY DEF KeysIInv, Keys!HandedOnce, Keys!IsOneTime, Keys!KeyDirectoryAssumption, Keys!TypeOK,
     Keys!OneTimeKey, Keys!FallbackKey, Keys!Key, Keys!NoKey, Keys!Result, Keys!Call, Keys!IdleCall,
     Keys!Requester, Keys!Target, Keys!directory, Keys!Tick
<1> QED
  BY <1>1, <1>2, <1>3, <1>4, <1>5, <1>6, <1>7 DEF KeysIInv

\* A claim that gets the locks of both device sets reads what it will use and
\* preserves the invariant.
LEMMA KeysLockSetsStep ==
    ASSUME Keys!KeyDirectoryAssumption, KeysIInv, NEW c \in Calls, Keys!LockSets(c)
    PROVE  KeysIInv'
<1>1. PICK w \in Keys!Call :
         /\ call' = [call EXCEPT ![c] = w]
         /\ \/ w.pc = "failed"
            \/ w.pc = "done" /\ [req |-> Of[c], key |-> w.key] \in results
            \/ /\ w.pc = "locked" /\ w.now = Keys!ClaimInstant(c) /\ Keys!Recorded(Of[c]) = {}
               /\ Keys!ClaimRecipientKey(Keys!Target(c), w.key) /\ active[Keys!Requester(c)]
  BY KeysLockSetsEffect
<1>2. UNCHANGED <<clock, active, session, Keys!directory, results>>
  BY DEF Keys!LockSets
<1>3. Keys!TypeOK'
  BY <1>1, <1>2 DEF KeysIInv, Keys!TypeOK, Keys!directory
<1>4. KeysInstants'
  BY <1>1, <1>2 DEF KeysIInv, Keys!TypeOK, KeysInstants, Keys!ClaimInstant, Keys!LockSets,
     Keys!directory
<1>5. KeysSlotInv'
  BY <1>2 DEF KeysIInv, KeysSlotInv, Keys!directory
<1>6. KeysRecordsInv'
  BY <1>1, <1>2 DEF KeysIInv, Keys!TypeOK, KeysRecordsInv, Keys!IsOneTime, Keys!directory
<1>7. KeysExclusive'
  <2>1. /\ call'[c] = w /\ \A e \in Calls : e # c => call'[e] = call[e]
        /\ call[c].pc = "first" /\ Keys!LockFree(Keys!Second(c))
    BY <1>1 DEF KeysIInv, Keys!TypeOK, Keys!LockSets
  <2>2. \A d : d \in Keys!Held(c)' => d = Keys!Second(c) \/ d \in Keys!Held(c)
    BY <2>1 DEF Keys!Held, Keys!First, Keys!Second, Keys!Requester, Keys!Target
  <2>3. \A e \in Calls : e # c => Keys!Held(e)' = Keys!Held(e) /\ Keys!Second(c) \notin Keys!Held(e)
    BY <2>1 DEF Keys!LockFree, Keys!Held, Keys!First, Keys!Requester, Keys!Target
  <2> QED BY <2>2, <2>3 DEF KeysIInv, KeysExclusive
<1>8. KeysLockedInv'
  <2> SUFFICES ASSUME NEW e \in Calls, call'[e].pc = "locked"
               PROVE  KeysReadHolds(e)'
    BY DEF KeysLockedInv
  <2>1. CASE e # c
    BY <2>1, <1>1, <1>2 DEF KeysIInv, Keys!TypeOK, KeysLockedInv, KeysReadHolds, Keys!IsOneTime,
       Keys!Target, Keys!directory
  <2>2. CASE e = c
    <3>1. /\ call'[c].pc = "locked" /\ call'[c].now = Keys!ClaimInstant(c) /\ Keys!Recorded(Of[c]) = {}
          /\ call'[c].key = w.key /\ Keys!ClaimRecipientKey(Keys!Target(c), w.key)
      BY <1>1, <2>2 DEF KeysIInv, Keys!TypeOK
    <3>2. \A x \in results' : x.req # Of[c]
      BY <3>1, <1>2 DEF Keys!Recorded
    <3>3. /\ w.key.kind = "one-time" => \E k \in otks : Keys!IsOneTime(k, Keys!Target(c), w.key) /\ k.claimed = 0
          /\ w.key.kind = "fallback" =>
                (\A k \in otks : k.dev = Keys!Target(c) => k.claimed # 0) /\ slot[Keys!Target(c)] = w.key.n
          /\ w.key.kind = "none" /\ active[Keys!Target(c)] =>
                (\A k \in otks : k.dev = Keys!Target(c) => k.claimed # 0) /\ slot[Keys!Target(c)] = 0
      <4>1. CASE ~active[Keys!Target(c)]
        BY <3>1, <4>1 DEF Keys!ClaimRecipientKey, Keys!NoKey
      <4>2. CASE active[Keys!Target(c)] /\ Keys!Unclaimed(Keys!Target(c)) # {}
        <5>1. PICK k \in Keys!Unclaimed(Keys!Target(c)) : w.key = [kind |-> "one-time", n |-> k.n, i |-> k.i]
          BY <3>1, <4>2 DEF Keys!ClaimRecipientKey
        <5>2. w.key.kind = "one-time" /\ w.key.n = k.n /\ w.key.i = k.i
          BY <5>1
        <5> QED
          BY <5>2 DEF Keys!Unclaimed, Keys!IsOneTime
      <4>3. CASE active[Keys!Target(c)] /\ Keys!Unclaimed(Keys!Target(c)) = {}
        <5>1. w.key = IF slot[Keys!Target(c)] = 0 THEN Keys!NoKey
                      ELSE [kind |-> "fallback", n |-> slot[Keys!Target(c)], i |-> 0]
          BY <3>1, <4>3 DEF Keys!ClaimRecipientKey
        <5>2. \A k \in otks : k.dev = Keys!Target(c) => k.claimed # 0
          BY <4>3 DEF Keys!Unclaimed
        <5> QED
          BY <5>1, <5>2 DEF Keys!NoKey
      <4> QED
        BY <4>1, <4>2, <4>3
    <3>4. Of[c] \in Legacy =>
             /\ \A k \in otks : k.dev = Keys!Target(c) => k.at <= w.now
             /\ \A f \in fallbacks : f.dev = Keys!Target(c) => f.at <= w.now /\ f.first <= w.now
      BY <3>1, <1>1 DEF KeysIInv, Keys!TypeOK, KeysInstants, Keys!ClaimInstant
    <3> QED
      BY <2>2, <3>1, <3>2, <3>3, <3>4, <1>1, <1>2 DEF KeysIInv, Keys!TypeOK, KeysReadHolds,
         Keys!IsOneTime, Keys!Target, Keys!directory
  <2> QED
    BY <2>1, <2>2
<1>9. Keys!HandedOnce'
  BY <1>2 DEF KeysIInv, Keys!HandedOnce, Keys!IsOneTime, Keys!directory
<1> QED
  BY <1>3, <1>4, <1>5, <1>6, <1>7, <1>8, <1>9 DEF KeysIInv

\* The commit of claimKeys, which marks the key and records the answer,
\* preserves the invariant.
LEMMA KeysCommitClaimStep ==
    ASSUME Keys!KeyDirectoryAssumption, KeysIInv, NEW c \in Calls, Keys!CommitClaim(c)
    PROVE  KeysIInv'
<1> DEFINE d == Keys!Target(c)
           key == call[c].key
           done == [req |-> Of[c], key |-> key]
<1>1. /\ call[c].pc = "locked" /\ key \in Keys!Key /\ done \in Keys!Result /\ done.req = Of[c] /\ done.key = key
      /\ results' = results \cup {done} /\ UNCHANGED <<clock, active, session, slot, uploaded>>
      /\ d \in Devices /\ To[Of[c]] = d /\ call[c].now \in Nat
  BY DEF Keys!CommitClaim, KeysIInv, Keys!TypeOK, Keys!Call, Keys!Result,
     Keys!KeyDirectoryAssumption, Keys!Target
<1>2. /\ call'[c] = [pc |-> "done", now |-> call[c].now, key |-> key]
      /\ call'[c] \in Keys!Call /\ call' \in [Calls -> Keys!Call]
      /\ \A e \in Calls : e # c => call'[e] = call[e]
  <2>1. Keys!Finish(c, "done", key)
    BY DEF Keys!CommitClaim
  <2>2. [pc |-> "done", now |-> call[c].now, key |-> key] \in Keys!Call
    BY <1>1 DEF Keys!Call
  <2> QED
    BY <1>1, <2>1, <2>2, KeysFinishEffect DEF KeysIInv, Keys!TypeOK
<1>3. KeysReadHolds(c)
  BY <1>1 DEF KeysIInv, KeysLockedInv
<1>4. \A e \in Calls : e # c /\ call[e].pc = "locked" => Keys!Target(e) # d /\ Of[e] # Of[c]
  BY <1>1 DEF KeysIInv, KeysExclusive, Keys!Held, Keys!Requester, Keys!Target
<1>5. Keys!TypeOK'
  BY <1>1, <1>2, KeysClaimedKeys, KeysClaimedFallbacks DEF KeysIInv, Keys!TypeOK
<1>6. KeysInstants'
  <2>1. call[c].now <= clock /\ 1 <= call[c].now
    BY <1>1 DEF KeysIInv, KeysInstants
  <2>2. \A k \in otks' : k.at <= clock
    BY KeysClaimedKeys DEF KeysIInv, KeysInstants
  <2>3. \A f \in fallbacks' : f.at <= clock /\ f.first <= clock
    BY <2>1, KeysClaimedFallbacks DEF KeysIInv, KeysInstants
  <2> QED
    BY <1>1, <1>2, <2>2, <2>3 DEF KeysIInv, KeysInstants
<1>7. KeysSlotInv'
  BY <1>1, KeysClaimedFallbacks DEF KeysIInv, KeysSlotInv
<1>8. KeysRecordsInv'
  <2>1. \A x, y \in results' : x.req = y.req => x = y
    BY <1>1, <1>3 DEF KeysIInv, KeysRecordsInv, KeysReadHolds
  <2>2. \A x \in results' : x.key.kind = "one-time" => \E k \in otks' : Keys!IsOneTime(k, To[x.req], x.key)
    BY <1>1, <1>3, KeysClaimedKeys DEF KeysIInv, KeysRecordsInv, KeysReadHolds, Keys!IsOneTime
  <2>3. \A e \in Calls : call'[e].pc = "done" => [req |-> Of[e], key |-> call'[e].key] \in results'
    BY <1>1, <1>2 DEF KeysIInv, KeysRecordsInv
  <2> QED
    BY <2>1, <2>2, <2>3 DEF KeysRecordsInv, Keys!IsOneTime
<1>9. KeysExclusive'
  BY <1>2, KeysExclusiveKept DEF KeysIInv
<1>10. KeysLockedInv'
  <2> SUFFICES ASSUME NEW e \in Calls, call'[e].pc = "locked"
               PROVE  KeysReadHolds(e)'
    BY DEF KeysLockedInv
  <2>1. e # c /\ call'[e] = call[e] /\ call[e].pc = "locked" /\ Keys!Target(e) # d /\ Of[e] # Of[c]
    BY <1>2, <1>4
  <2>2. KeysReadHolds(e)
    BY <2>1 DEF KeysIInv, KeysLockedInv
  <2>3. \A x \in results' : x.req # Of[e]
    BY <1>1, <2>1, <2>2 DEF KeysReadHolds
  <2>4. \A k \in otks' : k.dev = Keys!Target(e) => k \in otks
    BY <2>1, KeysClaimedKeys DEF Keys!IsOneTime
  <2>5. \A k \in otks : k.dev = Keys!Target(e) => k \in otks'
    BY <2>1, KeysClaimedKeys DEF Keys!IsOneTime
  <2>6. \A f \in fallbacks' : f.dev = Keys!Target(e) =>
           \E g \in fallbacks : f.dev = g.dev /\ f.at = g.at /\ f.first = g.first
    BY <2>1, KeysClaimedFallbacks
  <2> QED
    BY <1>1, <2>1, <2>2, <2>3, <2>4, <2>5, <2>6 DEF KeysReadHolds, Keys!IsOneTime, Keys!Target
<1>11. Keys!HandedOnce'
  <2>1. ASSUME NEW x \in results', x.key.kind = "one-time"
        PROVE  \A k \in otks' : Keys!IsOneTime(k, To[x.req], x.key) => k.claimed # 0
    <3>1. call[c].now # 0
      BY <1>1 DEF KeysIInv, KeysInstants
    <3>2. CASE x \in results
      BY <3>1, <3>2, <2>1, KeysClaimedKeys DEF KeysIInv, Keys!HandedOnce, Keys!IsOneTime
    <3>3. CASE x = done
      BY <3>1, <3>3, <2>1, <1>1, KeysClaimedKeys DEF Keys!IsOneTime
    <3> QED
      BY <1>1, <3>2, <3>3
  <2>2. ASSUME NEW x \in results, x.key.kind = "one-time"
        PROVE  ~(x.key = key /\ To[x.req] = d)
    BY <2>2, <1>3 DEF KeysIInv, Keys!HandedOnce, KeysReadHolds, Keys!IsOneTime
  <2>3. \A x, y \in results' : x.key.kind = "one-time" /\ y.key = x.key /\ To[y.req] = To[x.req] => y = x
    BY <1>1, <2>2 DEF KeysIInv, Keys!HandedOnce
  <2> QED
    BY <2>1, <2>3 DEF Keys!HandedOnce, Keys!IsOneTime
<1> QED
  BY <1>5, <1>6, <1>7, <1>8, <1>9, <1>10, <1>11 DEF KeysIInv

\* An upload of one-time and fallback keys preserves the invariant.
LEMMA KeysUploadKeysStep ==
    ASSUME Keys!KeyDirectoryAssumption, KeysIInv, NEW d \in Publishers, NEW n \in 1..MaxUploads, Keys!UploadKeys(d, n)
    PROVE  KeysIInv'
<1>1. Keys!TypeOK'
  <2>1. d \in Devices /\ clock \in Nat /\ MaxUploads \in Nat /\ PerUpload \in Nat
    BY DEF KeysIInv, Keys!TypeOK, Keys!KeyDirectoryAssumption
  <2>2. otks' \subseteq Keys!OneTimeKey
    BY <2>1 DEF KeysIInv, Keys!TypeOK, Keys!OneTimeKey, Keys!UploadKeys, Keys!InsertOneTimeKeys, Keys!Sent
  <2>3. fallbacks' \subseteq Keys!FallbackKey /\ slot' \in [Devices -> 0..MaxUploads]
    BY <2>1 DEF KeysIInv, Keys!TypeOK, Keys!FallbackKey, Keys!UploadKeys, Keys!RotateFallbackKey
  <2>4. uploaded' \in [Devices -> 0..MaxUploads]
    BY <2>1 DEF KeysIInv, Keys!TypeOK, Keys!UploadKeys
  <2>5. UNCHANGED <<clock, active, session, results, call>>
    BY DEF Keys!UploadKeys
  <2> QED BY <2>2, <2>3, <2>4, <2>5 DEF KeysIInv, Keys!TypeOK
<1>2. KeysInstants'
  BY DEF KeysIInv, KeysInstants, Keys!KeyDirectoryAssumption, Keys!TypeOK, Keys!OneTimeKey,
     Keys!FallbackKey, Keys!Key, Keys!NoKey, Keys!Result, Keys!Call, Keys!IdleCall, Keys!Requester,
     Keys!Target, Keys!directory, Keys!UploadKeys, Keys!InsertOneTimeKeys, Keys!Sent,
     Keys!KnownFallback, Keys!RotateFallbackKey, Keys!LockFree, Keys!Held, Keys!IsOneTime, KeysInstants,
     KeysRecordsInv
<1>3. KeysSlotInv'
  <2>1. CASE n \notin Fallbacks
    BY <2>1 DEF KeysIInv, KeysSlotInv, Keys!UploadKeys, Keys!RotateFallbackKey
  <2>2. CASE n \in Fallbacks
    <3> DEFINE new == [dev |-> d, n |-> n, at |-> clock, first |-> 0]
    <3>1. /\ fallbacks' = IF Keys!KnownFallback(d, n) # {} THEN fallbacks ELSE fallbacks \cup {new}
          /\ slot' = [slot EXCEPT ![d] = n] /\ n # 0 /\ d \in Devices /\ slot \in [Devices -> 0..MaxUploads]
          /\ \/ slot[d] \in {0, n}
             \/ \A f \in fallbacks', g \in fallbacks :
                   f.dev = d /\ f.n = n /\ g.dev = d /\ g.n = slot[d] => g.at < f.at
      BY <2>2 DEF Keys!UploadKeys, Keys!RotateFallbackKey, KeysIInv, Keys!TypeOK,
         Keys!KeyDirectoryAssumption
    <3>2. \E f \in fallbacks' : f.dev = d /\ f.n = n
      <4>1. new.dev = d /\ new.n = n
        OBVIOUS
      <4> QED
        BY <3>1, <4>1 DEF Keys!KnownFallback
    <3>3. \A f \in fallbacks' : f.dev # d => f \in fallbacks
      BY <3>1
    <3>4. \A f \in fallbacks : f \in fallbacks' /\ f.at \in Nat /\ f.at <= clock
      BY <3>1 DEF KeysIInv, Keys!TypeOK, Keys!FallbackKey, KeysInstants
    <3>5. \A f, g \in fallbacks' : f.dev = d /\ f.n = n /\ g.dev = d => g.at <= f.at
      <4> SUFFICES ASSUME NEW f \in fallbacks', NEW g \in fallbacks', f.dev = d, f.n = n, g.dev = d
                   PROVE  g.at <= f.at
        OBVIOUS
      <4>1. clock \in Nat /\ new.at = clock
        BY DEF KeysIInv, Keys!TypeOK
      <4>2. CASE slot[d] = 0
        BY <4>1, <4>2, <3>1 DEF KeysIInv, KeysSlotInv, Keys!KnownFallback
      <4>3. CASE slot[d] = n
        BY <4>1, <4>3, <3>1 DEF KeysIInv, KeysSlotInv, Keys!KnownFallback
      <4>4. CASE slot[d] \notin {0, n}
        <5>1. PICK h \in fallbacks : h.dev = d /\ h.n = slot[d]
          BY <4>4, <3>1 DEF KeysIInv, KeysSlotInv
        <5>2. h.at < f.at
          BY <5>1, <4>4, <3>1
        <5>3. g \in fallbacks => g.at <= h.at
          BY <5>1, <3>1 DEF KeysIInv, KeysSlotInv
        <5>4. g \notin fallbacks => g = new /\ Keys!KnownFallback(d, n) = {}
          BY <3>1
        <5>5. g \notin fallbacks => f.at = clock
          BY <5>4, <3>1 DEF Keys!KnownFallback
        <5> QED
          BY <5>1, <5>2, <5>3, <5>4, <5>5, <4>1, <3>4, <3>1
      <4> QED
        BY <4>2, <4>3, <4>4
    <3> QED
      BY <3>1, <3>2, <3>3, <3>4, <3>5 DEF KeysIInv, KeysSlotInv
  <2> QED
    BY <2>1, <2>2
<1>4. KeysRecordsInv'
  BY DEF KeysIInv, KeysRecordsInv, Keys!IsOneTime, Keys!KeyDirectoryAssumption, Keys!TypeOK,
     Keys!OneTimeKey, Keys!FallbackKey, Keys!Key, Keys!NoKey, Keys!Result, Keys!Call, Keys!IdleCall,
     Keys!Requester, Keys!Target, Keys!directory, Keys!UploadKeys, Keys!InsertOneTimeKeys,
     Keys!Sent, Keys!KnownFallback, Keys!RotateFallbackKey, Keys!LockFree, Keys!Held, Keys!IsOneTime,
     KeysInstants, KeysRecordsInv
<1>5. KeysExclusive'
  BY KeysExclusiveKept DEF KeysIInv, Keys!TypeOK, Keys!Call, Keys!UploadKeys
<1>6. KeysLockedInv'
  BY DEF KeysIInv, KeysLockedInv, KeysReadHolds, Keys!IsOneTime, Keys!KeyDirectoryAssumption,
     Keys!TypeOK, Keys!OneTimeKey, Keys!FallbackKey, Keys!Key, Keys!NoKey, Keys!Result, Keys!Call,
     Keys!IdleCall, Keys!Requester, Keys!Target, Keys!directory, Keys!UploadKeys,
     Keys!InsertOneTimeKeys, Keys!Sent, Keys!KnownFallback, Keys!RotateFallbackKey, Keys!LockFree, Keys!Held,
     Keys!IsOneTime, KeysInstants, KeysRecordsInv
<1>7. Keys!HandedOnce'
  BY DEF KeysIInv, Keys!HandedOnce, Keys!IsOneTime, Keys!KeyDirectoryAssumption, Keys!TypeOK,
     Keys!OneTimeKey, Keys!FallbackKey, Keys!Key, Keys!NoKey, Keys!Result, Keys!Call, Keys!IdleCall,
     Keys!Requester, Keys!Target, Keys!directory, Keys!UploadKeys, Keys!InsertOneTimeKeys,
     Keys!Sent, Keys!KnownFallback, Keys!RotateFallbackKey, Keys!LockFree, Keys!Held, Keys!IsOneTime,
     KeysInstants, KeysRecordsInv
<1> QED
  BY <1>1, <1>2, <1>3, <1>4, <1>5, <1>6, <1>7 DEF KeysIInv



\* Every step of the key directory preserves the invariant.
LEMMA KeysStepPreserves ==
    ASSUME Keys!KeyDirectoryAssumption, KeysIInv, [Keys!Next]_(Keys!vars)
    PROVE  KeysIInv'
<1>1. CASE UNCHANGED Keys!vars
  BY <1>1 DEF KeysIInv, Keys!TypeOK, KeysInstants, KeysSlotInv, KeysRecordsInv, KeysExclusive,
     KeysLockedInv, KeysReadHolds, Keys!HandedOnce,
              Keys!IsOneTime, Keys!Held, Keys!First, Keys!Requester, Keys!Target, Keys!vars
<1>2. CASE Keys!Next
  BY <1>2, KeysUploadKeysStep, KeysRevokeStep, KeysEndSessionStep, KeysBeginClaimStep,
     KeysLockSetsStep,
     KeysCommitClaimStep, KeysFailClaimStep, KeysLockFirstStep, KeysTickStep DEF Keys!Next
<1> QED
  BY <1>1, <1>2

\* The empty directory satisfies the invariant.
LEMMA KeysInitHolds ==
    ASSUME Keys!KeyDirectoryAssumption, Keys!Init
    PROVE  KeysIInv
  BY KeysKeyTypes DEF Keys!Init, KeysIInv, Keys!TypeOK, KeysInstants, KeysSlotInv, KeysRecordsInv,
     KeysExclusive, KeysLockedInv, Keys!HandedOnce, Keys!Held,
     Keys!IdleCall, Keys!KeyDirectoryAssumption

\* The invariant of the key directory holds in every reachable state.
THEOREM KeysInvariance ==
    ASSUME Keys!KeyDirectoryAssumption
    PROVE  Keys!Spec => []KeysIInv
<1>1. Keys!Init => KeysIInv
  BY KeysInitHolds
<1>2. KeysIInv /\ [Keys!Next]_(Keys!vars) => KeysIInv'
  BY KeysStepPreserves
<1> QED
  BY <1>1, <1>2, PTL DEF Keys!Spec

\* claimKeys: for any devices, requests, calls and limits, a one-time key is
\* handed to one request, and a request that is repeated is answered as it was
\* the first time.
THEOREM KeysAreSafe ==
    ASSUME Keys!KeyDirectoryAssumption
    PROVE  Keys!Spec => []KeysSafe
<1>1. KeysIInv => KeysSafe
  <2> SUFFICES ASSUME KeysIInv PROVE Keys!SameAnswer
    BY DEF KeysIInv, KeysSafe, Keys!KeysSafe
  <2> SUFFICES ASSUME NEW c \in Calls, NEW e \in Calls, Of[c] = Of[e],
                      call[c].pc = "done", call[e].pc = "done"
               PROVE  call[c].key = call[e].key
    BY DEF Keys!SameAnswer
  <2> DEFINE x == [req |-> Of[c], key |-> call[c].key]
             y == [req |-> Of[e], key |-> call[e].key]
  <2>1. x \in results /\ y \in results /\ x.req = y.req
    BY DEF KeysIInv, KeysRecordsInv
  <2>2. x = y
    BY <2>1 DEF KeysIInv, KeysRecordsInv
  <2>3. x.key = call[c].key /\ y.key = call[e].key
    OBVIOUS
  <2> QED
    BY <2>2, <2>3
<1> QED
  BY <1>1, KeysInvariance, PTL

\* claimKeys: a claim takes the oldest one-time key and only without any the
\* fallback key in force, and it fails only for a session that ended or keys
\* that changed meanwhile.
THEOREM ClaimsAreServed ==
    ASSUME Keys!KeyDirectoryAssumption
    PROVE  Keys!Spec => ClaimsServed
<1> DEFINE Handed ==
       \A x \in results' \ results :
          LET d == To[x.req] IN
          /\ x.key.kind = "fallback" =>
                /\ Keys!Unclaimed(d) = {}
                /\ \A f, g \in fallbacks : Keys!IsFallback(f, d, x.key) /\ g.dev = d => g.at <= f.at
          /\ x.key.kind = "none" /\ active[d] => Keys!Unclaimed(d) = {} /\ slot[d] = 0
    Caused ==
       \A c \in Calls : call[c].pc # "failed" /\ call'[c].pc = "failed" =>
          \/ ~session[Keys!Requester(c)]
          \/ /\ Of[c] \notin Legacy
             /\ \/ \E k \in otks : k.dev = Keys!Target(c) /\ k.at > call[c].now
                \/ \E f \in fallbacks : f.dev = Keys!Target(c) /\
                      (f.at > call[c].now \/ f.first > call[c].now)
<1>1. KeysIInv /\ Keys!Next => Handed
  <2> SUFFICES ASSUME KeysIInv, Keys!Next PROVE Handed
    OBVIOUS
  <2>1. ASSUME NEW c \in Calls, Keys!CommitClaim(c) PROVE Handed
    <3>1. call[c].pc = "locked" /\ KeysReadHolds(c)
      BY <2>1 DEF Keys!CommitClaim, KeysIInv, KeysLockedInv
    <3>2. \A x \in results' \ results : x.req = Of[c] /\ x.key = call[c].key
      BY <2>1 DEF Keys!CommitClaim
    <3>3. Keys!Target(c) = To[Of[c]] /\ Keys!Target(c) \in Devices
      BY DEF Keys!Target, Keys!KeyDirectoryAssumption
    <3>4. call[c].key.kind = "fallback" =>
             \A f, g \in fallbacks : Keys!IsFallback(f, Keys!Target(c), call[c].key) /\ g.dev = Keys!Target(c) => g.at <= f.at
      BY <3>1, <3>3 DEF KeysIInv, KeysSlotInv, KeysReadHolds, Keys!IsFallback
    <3> QED
      BY <3>1, <3>2, <3>3, <3>4 DEF KeysReadHolds, Keys!Unclaimed
  <2>2. results' = results => Handed
    OBVIOUS
  <2>3. (\A c \in Calls : ~Keys!CommitClaim(c)) => results' = results
    BY DEF Keys!Next, Keys!UploadKeys, Keys!Revoke, Keys!EndSession, Keys!BeginClaim, Keys!LockFirst,
       Keys!LockSets, Keys!FailClaim, Keys!Tick
  <2> HIDE DEF Handed
  <2> QED
    BY <2>1, <2>2, <2>3
<1>2. KeysIInv /\ Keys!Next => Caused
  <2> SUFFICES ASSUME KeysIInv, Keys!Next, NEW c \in Calls, call[c].pc # "failed", call'[c].pc = "failed"
               PROVE  \/ ~session[Keys!Requester(c)]
                      \/ /\ Of[c] \notin Legacy
                         /\ \/ \E k \in otks : k.dev = Keys!Target(c) /\ k.at > call[c].now
                            \/ \E f \in fallbacks : f.dev = Keys!Target(c) /\
                                  (f.at > call[c].now \/ f.first > call[c].now)
    OBVIOUS
  <2>1. Keys!LockSets(c) \/ Keys!FailClaim(c)
    <3>1. ASSUME NEW e \in Calls, Keys!LockSets(e), e # c PROVE call'[c] = call[c]
      BY <3>1, KeysLockSetsEffect DEF KeysIInv, Keys!TypeOK
    <3>2. ASSUME NEW e \in Calls, Keys!FailClaim(e), e # c PROVE call'[c] = call[c]
      BY <3>2 DEF KeysIInv, Keys!TypeOK, Keys!FailClaim, Keys!Finish
    <3>3. ASSUME NEW e \in Calls, Keys!CommitClaim(e) PROVE call'[c] = call[c] \/ call'[c].pc = "done"
      BY <3>3 DEF KeysIInv, Keys!TypeOK, Keys!Call, Keys!CommitClaim, Keys!Finish
    <3>4. ASSUME NEW e \in Calls, Keys!BeginClaim(e) \/ Keys!LockFirst(e) PROVE call'[c].pc # "failed"
      BY <3>4 DEF KeysIInv, Keys!TypeOK, Keys!Call, Keys!BeginClaim, Keys!LockFirst, Keys!IdleCall
    <3> QED
      BY <3>1, <3>2, <3>3, <3>4 DEF Keys!Next, Keys!UploadKeys, Keys!Revoke, Keys!EndSession,
         Keys!Tick
  <2>2. CASE Keys!FailClaim(c)
    <3>1. call[c].pc = "locked" /\ ~Keys!InstantAccepted(c) /\ KeysReadHolds(c) /\ call[c].now \in Nat
      BY <2>2 DEF Keys!FailClaim, KeysIInv, KeysLockedInv, Keys!TypeOK, Keys!Call
    <3>2. \/ \E k \in otks : k.dev = Keys!Target(c) /\ ~(k.at <= call[c].now)
          \/ \E f \in fallbacks : f.dev = Keys!Target(c) /\ ~(f.at <= call[c].now /\ f.first <= call[c].now)
      BY <3>1 DEF Keys!InstantAccepted, Keys!IsOneTime, Keys!IsFallback
    <3> QED
      BY <3>1, <3>2 DEF KeysReadHolds, KeysIInv, Keys!TypeOK, Keys!OneTimeKey, Keys!FallbackKey
  <2>3. CASE Keys!LockSets(c)
    <3>1. \/ ~session[Keys!Requester(c)]
          \/ Keys!Recorded(Of[c]) # {}
          \/ ~active[Keys!Requester(c)]
          \/ call'[c].pc = "locked"
      BY <2>3 DEF Keys!LockSets, KeysIInv, Keys!TypeOK
    <3>2. session[Keys!Requester(c)] /\ Keys!Recorded(Of[c]) # {} => call'[c].pc = "done"
      BY <2>3 DEF Keys!LockSets, Keys!Finish, KeysIInv, Keys!TypeOK, Keys!Call
    <3>3. ~active[Keys!Requester(c)] => ~session[Keys!Requester(c)]
      BY DEF KeysIInv, KeysInstants, Keys!Requester, Keys!KeyDirectoryAssumption
    <3> QED
      BY <3>1, <3>2, <3>3
  <2> QED
    BY <2>1, <2>2, <2>3
<1>3. KeysIInv /\ [Keys!Next]_(Keys!vars) => [Handed]_(Keys!vars) /\ [Caused]_(Keys!vars)
  BY <1>1, <1>2
<1>4. Keys!Spec => [][Handed]_(Keys!vars) /\ [][Caused]_(Keys!vars)
  BY <1>3, KeysInvariance, PTL DEF Keys!Spec
<1> QED
  BY <1>4 DEF ClaimsServed, Keys!ClaimsServed, Keys!FallbackLast, Keys!FailsForCause

-----------------------------------------------------------------------------
(* The registration of the device *)

\* A reservation that was consumed is that of the device the account has, with
\* its keys.
RegDeviceInv ==
    /\ device.id = 0 => device.keys = NoBrowser /\ ~device.active
    /\ nextId >= 1
    /\ \A r \in regs : r.id >= 1 /\ (r.consumed => r.id = device.id /\ r.keys = device.keys)

\* The browser has stored the identifier and the upload, or what came of it.
RegJournaled(b, id) == local[b].dev = id /\ (local[b].upload \/ local[b].secret)

\* What the journal of a browser says of the device and of the crypto store.
RegJournalInv(b) ==
    /\ local[b].upload \/ local[b].secret => local[b].dev # 0
    /\ local[b].response => local[b].upload /\ local[b].secret
    /\ local[b].secret => device.id = local[b].dev /\ device.keys = b
    /\ local[b].secret /\ ~local[b].upload => acked[b]
    /\ acked[b] => device.keys = b /\ local[b].secret

\* What the step of the life cycle says of the session and of the journal.
RegStepInv(b) ==
    /\ pc[b] # "off" \/ known[b] # 0 => cookie[b] # NoSession
    /\ known[b] # 0 => known[b] = Registration!Bound(b)
    /\ pc[b] = "reserve" => ~local[b].secret
    /\ pc[b] \in {"crypto", "ready"} => local[b].dev # 0
    /\ pc[b] \in {"crypto", "ready"} /\ local[b].secret => Registration!Bound(b) = local[b].dev
    /\ pc[b] = "ready" => local[b].secret

\* Both for every browser.
RegBrowsersInv == \A b \in Browsers : RegJournalInv(b) /\ RegStepInv(b)

\* What may still arrive late was journaled.
RegLateInv == \A c \in late : RegJournaled(c.keys, c.id)

\* The inductive invariant of the registration.
RegIInv == Registration!TypeOK /\ RegDeviceInv /\ Registration!PublishedIsJournaled /\ RegLateInv /\ RegBrowsersInv

\* What no step of the server undoes: the device and its keys, and the binding of
\* a session.
RegServerMoves ==
    /\ device.id # 0 => device'.id = device.id /\ device'.keys = device.keys
    /\ \A s \in Sessions : sess[s].dev # 0 => sess'[s].dev = sess[s].dev

\* The journal of a browser keeps its identifier and what it answers for.
RegJournalMoves(b) ==
    /\ local[b].dev # 0 => local'[b].dev = local[b].dev
    /\ local[b].upload \/ local[b].secret => local'[b].upload \/ local'[b].secret

\* A browser that the step does not touch, except that its page may be closed.
RegRests(b) ==
    /\ cookie'[b] = cookie[b] /\ known'[b] = known[b]
    /\ local'[b] = local[b] /\ acked'[b] = acked[b]
    /\ pc'[b] = pc[b] \/ pc'[b] = "off"

\* The device after the step is the one before it, or one that is journaled.
RegDeviceMoves ==
    \/ device'.id = device.id /\ device'.keys = device.keys
    \/ device'.keys = NoBrowser
    \/ device'.keys \in Browsers /\ RegJournaled(device'.keys, device'.id)

\* A browser that rests keeps its part of the invariant, whatever the server does.
LEMMA RegResting ==
    ASSUME Registration!TypeOK, Registration!TypeOK', NEW b \in Browsers, RegJournalInv(b), RegStepInv(b), RegServerMoves, RegRests(b)
    PROVE  RegJournalInv(b)' /\ RegStepInv(b)'
<1> DEFINE c == cookie[b]
<1>1. c \in Sessions \cup {NoSession} /\ local[b] \in Registration!Local /\ known[b] \in Nat /\ pc[b] \in Registration!Steps
    BY DEF Registration!TypeOK
<1>2. RegJournalInv(b)'
    BY <1>1 DEF RegJournalInv, RegServerMoves, RegRests, Registration!Local
<1>3. sess[c].dev # 0 /\ c # NoSession => sess'[c].dev = sess[c].dev
    BY <1>1 DEF RegServerMoves
<1>4. cookie'[b] = c /\ Registration!Bound(b) = sess[c].dev /\ Registration!Bound(b)' = sess'[c].dev
    BY DEF RegRests, Registration!Bound
<1> HIDE DEF c
<1>5. pc[b] # "off" \/ known[b] # 0 => c # NoSession
    BY DEF RegStepInv, c
<1>6. known'[b] # 0 => known'[b] = Registration!Bound(b)'
    BY <1>1, <1>3, <1>4, <1>5 DEF RegStepInv, RegRests
<1>7. ASSUME pc'[b] \in {"crypto", "ready"}
      PROVE  local'[b].dev # 0 /\ (local'[b].secret => Registration!Bound(b)' = local'[b].dev)
    BY <1>1, <1>3, <1>4, <1>5, <1>7 DEF RegStepInv, RegRests
<1>8. (pc[b] # "off" \/ known[b] # 0 => cookie[b] # NoSession)'
    BY <1>4, <1>5 DEF RegRests
<1>9. /\ pc'[b] = "reserve" => ~local'[b].secret
      /\ pc'[b] = "ready" => local'[b].secret
    BY DEF RegStepInv, RegRests
<1> QED BY <1>2, <1>6, <1>7, <1>8, <1>9 DEF RegStepInv

\* What the device and the late completions answer for stays in the journals.
LEMMA RegJournals ==
    ASSUME Registration!TypeOK, Registration!TypeOK', RegBrowsersInv, Registration!PublishedIsJournaled, RegLateInv, RegDeviceMoves,
           \A b \in Browsers : RegJournalMoves(b)
    PROVE  /\ Registration!PublishedIsJournaled'
           /\ \A c \in late : RegJournaled(c.keys, c.id)'
<1>1. ASSUME NEW b \in Browsers, NEW id \in Nat, RegJournaled(b, id)
      PROVE  RegJournaled(b, id)'
    <2>1. local[b].dev # 0
        BY <1>1 DEF RegJournaled, RegBrowsersInv, RegJournalInv
    <2> QED BY <1>1, <2>1 DEF RegJournalMoves, RegJournaled
<1>2. \A c \in late : RegJournaled(c.keys, c.id)'
    <2> SUFFICES ASSUME NEW c \in late PROVE RegJournaled(c.keys, c.id)'
        OBVIOUS
    <2>1. c.keys \in Browsers /\ c.id \in Nat
        BY DEF Registration!TypeOK, Registration!Completion
    <2> QED BY <1>1, <2>1 DEF RegLateInv
<1>3. ASSUME device'.keys # NoBrowser
      PROVE  LET l == local'[device'.keys] IN l.dev = device'.id /\ (l.upload \/ l.secret)
    <2>1. device'.keys \in Browsers /\ device'.id \in Nat
        BY <1>3 DEF Registration!TypeOK, Registration!Device
    <2>2. RegJournaled(device'.keys, device'.id)
        BY <1>3 DEF RegDeviceMoves, Registration!PublishedIsJournaled, RegJournaled
    <2>3. local[device'.keys].dev # 0
        BY <2>1, <2>2 DEF RegJournaled, RegBrowsersInv, RegJournalInv
    <2> QED BY <2>1, <2>2, <2>3 DEF RegJournaled, RegJournalMoves
<1> QED BY <1>2, <1>3 DEF Registration!PublishedIsJournaled

\* completeInitialUpload and its replay: the device has the identifier and the keys
\* of the upload afterwards, and the session is bound to it.
LEMMA RegCompletion_ ==
    ASSUME Registration!TypeOK, RegDeviceInv, NEW s \in Sessions, NEW id \in Nat \ {0}, NEW keys \in Browsers,
           Registration!CompleteDevice(s, id, keys)
    PROVE  /\ regs' \subseteq Registration!Reg /\ nextId' \in Nat /\ device' \in Registration!Device
           /\ sess' \in [Sessions -> Registration!Session]
           /\ RegDeviceInv' /\ RegServerMoves
           /\ device'.id = id /\ device'.keys = keys /\ sess'[s].dev = id
<1>1. CASE Registration!Replays(s, id, keys) /\ UNCHANGED Registration!server
    <2>1. device.id = id /\ sess[s].dev = id /\ device.keys = keys
        BY <1>1 DEF Registration!Replays, RegDeviceInv
    <2> QED BY <1>1, <2>1 DEF Registration!server, Registration!TypeOK, RegDeviceInv, RegServerMoves
<1>2. CASE /\ Registration!Completes(s, id)
           /\ device' = [id |-> id, keys |-> keys, active |-> TRUE]
           /\ sess' = [sess EXCEPT ![s].dev = id]
           /\ regs' = {IF r.id = id THEN [r EXCEPT !.consumed = TRUE, !.keys = keys] ELSE r : r \in regs}
           /\ UNCHANGED nextId
    <2> DEFINE mark(r) == IF r.id = id THEN [r EXCEPT !.consumed = TRUE, !.keys = keys] ELSE r
    <2>1. ASSUME NEW r \in regs
          PROVE  /\ mark(r) \in Registration!Reg /\ mark(r).id = r.id
                 /\ mark(r).consumed => r.id = id /\ mark(r).keys = keys
        <3>1. r \in Registration!Reg /\ r.id # 0
            BY DEF Registration!TypeOK, RegDeviceInv
        <3>2. ~r.consumed
            BY <1>2, <3>1 DEF Registration!Completes, RegDeviceInv
        <3> DEFINE q == [r EXCEPT !.consumed = TRUE]
        <3>3. q \in Registration!Reg /\ q.id = r.id /\ q.consumed
            BY <3>1 DEF Registration!Reg
        <3>4. [r EXCEPT !.consumed = TRUE, !.keys = keys] = [q EXCEPT !.keys = keys]
            BY <3>1 DEF Registration!Reg
        <3> HIDE DEF q
        <3>5. [q EXCEPT !.keys = keys] \in Registration!Reg /\ [q EXCEPT !.keys = keys].id = r.id
              /\ [q EXCEPT !.keys = keys].keys = keys
            BY <3>3 DEF Registration!Reg
        <3> QED BY <3>1, <3>2, <3>4, <3>5
    <2>2. regs' = {mark(r) : r \in regs}
        BY <1>2
    <2> HIDE DEF mark
    <2>3. regs' \subseteq Registration!Reg /\ \A r \in regs' : r.id >= 1 /\ (r.consumed => r.id = id /\ r.keys = keys)
        BY <2>1, <2>2 DEF RegDeviceInv
    <2>4. device' \in Registration!Device /\ device'.id = id /\ device'.keys = keys
        BY <1>2 DEF Registration!Device
    <2>5. sess' \in [Sessions -> Registration!Session] /\ sess'[s].dev = id /\ RegServerMoves
        BY <1>2 DEF Registration!TypeOK, Registration!Session, Registration!Completes,
           RegServerMoves
    <2>6. nextId' \in Nat /\ nextId' >= 1
        BY <1>2 DEF Registration!TypeOK, RegDeviceInv
    <2> QED BY <2>3, <2>4, <2>5, <2>6 DEF RegDeviceInv
<1> QED BY <1>1, <1>2 DEF Registration!CompleteDevice

\* reserveDevice leaves the device and the sessions alone.
LEMMA RegReservation ==
    ASSUME Registration!RegistrationAssumption, Registration!TypeOK, RegDeviceInv, NEW s \in Sessions, NEW id \in 1..MaxRegs,
           Registration!ReserveDevice(s, id)
    PROVE  /\ regs' \subseteq Registration!Reg /\ nextId' \in Nat /\ RegDeviceInv'
           /\ UNCHANGED <<device, sess>>
<1>1. Registration!NewReservation(s, id) \in Registration!Reg /\ Registration!NewReservation(s, id).id = id /\ ~Registration!NewReservation(s, id).consumed
    BY DEF Registration!NewReservation, Registration!Reg, Registration!RegistrationAssumption
<1>2. /\ regs' \subseteq regs \cup {Registration!NewReservation(s, id)}
      /\ nextId' \in {nextId, nextId + 1} /\ UNCHANGED <<device, sess>>
    BY DEF Registration!ReserveDevice
<1>3. nextId' \in Nat /\ nextId' >= 1
    BY <1>2 DEF Registration!TypeOK, RegDeviceInv
<1> QED BY <1>1, <1>2, <1>3 DEF Registration!TypeOK, RegDeviceInv

\* bindSession leaves the device alone and binds a session that was not bound.
LEMMA RegBinding ==
    ASSUME Registration!TypeOK, RegDeviceInv, NEW s \in Sessions, NEW id \in Nat, Registration!BindSession(s, id)
    PROVE  /\ UNCHANGED <<regs, nextId, device>> /\ sess' \in [Sessions -> Registration!Session]
           /\ sess'[s].dev = id /\ RegServerMoves /\ device.id = id
BY DEF Registration!TypeOK, Registration!BindSession, Registration!Session, RegServerMoves

\* The invariant after a step of one browser: the server moves, the other browsers
\* rest and what is given up is journaled.
LEMMA RegStepOf ==
    ASSUME RegIInv, Registration!TypeOK', RegDeviceInv', RegServerMoves, RegDeviceMoves, NEW b \in Browsers,
           \A x \in Browsers \ {b} : RegRests(x), RegJournalMoves(b),
           \A c \in late' \ late : RegJournaled(c.keys, c.id)',
           RegJournalInv(b)', RegStepInv(b)'
    PROVE  RegIInv'
<1>1. \A x \in Browsers : RegJournalMoves(x)
    BY DEF RegRests, RegJournalMoves
<1>2. Registration!PublishedIsJournaled' /\ RegLateInv'
    BY <1>1, RegJournals DEF RegIInv, RegLateInv
<1>3. \A x \in Browsers \ {b} : RegJournalInv(x)' /\ RegStepInv(x)'
    BY RegResting DEF RegIInv, RegBrowsersInv
<1> QED BY <1>2, <1>3 DEF RegIInv, RegBrowsersInv

\* The invariant after a step in which every browser rests.
LEMMA RegStepOfNone ==
    ASSUME RegIInv, Registration!TypeOK', RegDeviceInv', RegServerMoves, RegDeviceMoves,
           \A x \in Browsers : RegRests(x), late' \subseteq late
    PROVE  RegIInv'
<1>1. \A x \in Browsers : RegJournalMoves(x)
    BY DEF RegRests, RegJournalMoves
<1>2. Registration!PublishedIsJournaled' /\ RegLateInv'
    BY <1>1, RegJournals DEF RegIInv, RegLateInv
<1>3. \A x \in Browsers : RegJournalInv(x)' /\ RegStepInv(x)'
    BY RegResting DEF RegIInv, RegBrowsersInv
<1> QED BY <1>2, <1>3 DEF RegIInv, RegBrowsersInv

\* An account without devices satisfies the invariant.
LEMMA RegInitInv ==
    ASSUME Registration!RegistrationAssumption, Registration!Init PROVE RegIInv
<1>1. Registration!TypeOK
    BY DEF Registration!Init, Registration!TypeOK, Registration!RegistrationAssumption,
       Registration!NoDevice, Registration!Device, Registration!NoLocal, Registration!Local,
       Registration!Session, Registration!Steps
<1> QED BY <1>1 DEF RegIInv, Registration!Init, RegDeviceInv, Registration!PublishedIsJournaled,
        RegLateInv, RegBrowsersInv, RegJournalInv,
           RegStepInv, Registration!NoDevice, Registration!NoLocal

\* A browser logs in: the invariant is preserved.
LEMMA RegLoginStep ==
    ASSUME Registration!RegistrationAssumption, RegIInv, NEW b \in Browsers, Registration!Login(b) PROVE RegIInv'
<1>1. PICK s \in Sessions :
        /\ sess[s].state = "unused" /\ sess' = [sess EXCEPT ![s].state = "live"]
        /\ cookie' = [cookie EXCEPT ![b] = s]
    BY DEF Registration!Login
<1>2. Registration!TypeOK'
    BY <1>1 DEF RegIInv, Registration!TypeOK, Registration!Login, Registration!Session
<1>3. RegServerMoves /\ RegDeviceMoves /\ RegDeviceInv'
    BY <1>1 DEF RegIInv, Registration!TypeOK, Registration!Login, Registration!Session,
       RegServerMoves, RegDeviceMoves, RegDeviceInv
<1>4. (\A x \in Browsers \ {b} : RegRests(x)) /\ RegJournalMoves(b) /\ late' = late
    BY <1>1 DEF RegIInv, Registration!TypeOK, Registration!Login, RegRests, RegJournalMoves
<1>5. RegJournalInv(b)' /\ RegStepInv(b)'
    BY <1>1 DEF RegIInv, Registration!TypeOK, Registration!Login, RegBrowsersInv, RegJournalInv,
       RegStepInv
<1> QED BY <1>2, <1>3, <1>4, <1>5, RegStepOf

\* A session ends: the invariant is preserved.
LEMMA RegEndSessionStep ==
    ASSUME Registration!RegistrationAssumption, RegIInv, NEW b \in Browsers, Registration!EndSession(b) PROVE RegIInv'
<1>1. Registration!TypeOK'
    BY DEF RegIInv, Registration!TypeOK, Registration!EndSession, Registration!server,
       Registration!Session, Registration!Local, Registration!Steps
<1>2. RegServerMoves /\ RegDeviceMoves /\ RegDeviceInv'
    BY DEF RegIInv, Registration!TypeOK, Registration!EndSession, Registration!server,
       Registration!Session, RegServerMoves, RegDeviceMoves, RegDeviceInv, Registration!LoggedIn
<1>3. (\A x \in Browsers \ {b} : RegRests(x)) /\ RegJournalMoves(b) /\ late' = late
    BY DEF RegIInv, Registration!TypeOK, Registration!EndSession, RegRests, RegJournalMoves,
       Registration!Local
<1>4. RegJournalInv(b)'
    BY DEF RegIInv, Registration!TypeOK, Registration!EndSession, Registration!server,
       Registration!Local, RegBrowsersInv, RegJournalInv, RegStepInv, Registration!Finished
<1>5. RegStepInv(b)'
    BY DEF RegIInv, Registration!TypeOK, Registration!EndSession, Registration!server,
       Registration!Local, RegBrowsersInv, RegJournalInv, RegStepInv, Registration!Bound,
       Registration!LoggedIn, Registration!Finished
<1> QED BY <1>1, <1>2, <1>3, <1>4, <1>5, RegStepOf

\* The page learns the device of its session: the invariant is preserved.
LEMMA RegReloadStep ==
    ASSUME Registration!RegistrationAssumption, RegIInv, NEW b \in Browsers, Registration!Reload(b) PROVE RegIInv'
<1>1. Registration!TypeOK'
    <2>1. Registration!Bound(b) \in Nat
        BY DEF RegIInv, Registration!TypeOK, Registration!Reload, Registration!LoggedIn,
           Registration!Bound, Registration!Session
    <2> QED BY <2>1 DEF RegIInv, Registration!TypeOK, Registration!Reload, Registration!server
<1>2. RegServerMoves /\ RegDeviceMoves /\ RegDeviceInv'
    BY DEF RegIInv, Registration!TypeOK, Registration!Reload, Registration!server,
       Registration!Session, RegServerMoves, RegDeviceMoves, RegDeviceInv, Registration!LoggedIn
<1>3. (\A x \in Browsers \ {b} : RegRests(x)) /\ RegJournalMoves(b) /\ late' = late
    BY DEF RegIInv, Registration!TypeOK, Registration!Reload, RegRests, RegJournalMoves,
       Registration!Local
<1>4. RegJournalInv(b)'
    BY DEF RegIInv, Registration!TypeOK, Registration!Reload, Registration!server,
       Registration!Local, RegBrowsersInv, RegJournalInv, RegStepInv, Registration!Finished
<1>5. RegStepInv(b)'
    BY DEF RegIInv, Registration!TypeOK, Registration!Reload, Registration!server,
       Registration!Local, RegBrowsersInv, RegJournalInv, RegStepInv, Registration!Bound,
       Registration!LoggedIn, Registration!Finished
<1> QED BY <1>1, <1>2, <1>3, <1>4, <1>5, RegStepOf

\* resolveLocalDevice chooses the first step: the invariant is preserved.
LEMMA RegStartStep ==
    ASSUME Registration!RegistrationAssumption, RegIInv, NEW b \in Browsers, Registration!Start(b) PROVE RegIInv'
<1>1. Registration!TypeOK'
    BY DEF RegIInv, Registration!TypeOK, Registration!Start, Registration!server,
       Registration!Session, Registration!Local, Registration!Steps, Registration!FirstStep
<1>2. RegServerMoves /\ RegDeviceMoves /\ RegDeviceInv'
    BY DEF RegIInv, Registration!TypeOK, Registration!Start, Registration!server,
       Registration!Session, RegServerMoves, RegDeviceMoves, RegDeviceInv, Registration!LoggedIn
<1>3. (\A x \in Browsers \ {b} : RegRests(x)) /\ RegJournalMoves(b) /\ late' = late
    BY DEF RegIInv, Registration!TypeOK, Registration!Start, RegRests, RegJournalMoves,
       Registration!Local
<1>4. RegJournalInv(b)'
    BY DEF RegIInv, Registration!TypeOK, Registration!Start, Registration!server,
       Registration!Local, RegBrowsersInv, RegJournalInv, RegStepInv, Registration!Finished
<1>5. RegStepInv(b)'
    BY DEF RegIInv, Registration!TypeOK, Registration!Start, Registration!server,
       Registration!Local, RegBrowsersInv, RegJournalInv, RegStepInv, Registration!Bound,
       Registration!LoggedIn, Registration!Finished, Registration!FirstStep
<1> QED BY <1>1, <1>2, <1>3, <1>4, <1>5, RegStepOf

\* saveInitialKeyUpload preserves the invariant.
LEMMA RegJournalStep ==
    ASSUME Registration!RegistrationAssumption, RegIInv, NEW b \in Browsers, Registration!Journal(b) PROVE RegIInv'
<1>1. Registration!TypeOK'
    BY DEF RegIInv, Registration!TypeOK, Registration!Journal, Registration!server,
       Registration!Session, Registration!Local, Registration!Steps
<1>2. RegServerMoves /\ RegDeviceMoves /\ RegDeviceInv'
    BY DEF RegIInv, Registration!TypeOK, Registration!Journal, Registration!server,
       Registration!Session, RegServerMoves, RegDeviceMoves, RegDeviceInv, Registration!LoggedIn
<1>3. (\A x \in Browsers \ {b} : RegRests(x)) /\ RegJournalMoves(b) /\ late' = late
    BY DEF RegIInv, Registration!TypeOK, Registration!Journal, RegRests, RegJournalMoves,
       Registration!Local
<1>4. RegJournalInv(b)'
    BY DEF RegIInv, Registration!TypeOK, Registration!Journal, Registration!server,
       Registration!Local, RegBrowsersInv, RegJournalInv, RegStepInv, Registration!Finished
<1>5. RegStepInv(b)'
    BY DEF RegIInv, Registration!TypeOK, Registration!Journal, Registration!server,
       Registration!Local, RegBrowsersInv, RegJournalInv, RegStepInv, Registration!Bound,
       Registration!LoggedIn, Registration!Finished
<1> QED BY <1>1, <1>2, <1>3, <1>4, <1>5, RegStepOf

\* The crypto store acknowledges an upload that was answered: the invariant is
\* preserved.
LEMMA RegCommitInitialKeyUploadStep ==
    ASSUME Registration!RegistrationAssumption, RegIInv, NEW b \in Browsers, Registration!CommitInitialKeyUpload(b) PROVE RegIInv'
<1>1. Registration!TypeOK'
    BY DEF RegIInv, Registration!TypeOK, Registration!CommitInitialKeyUpload, Registration!server,
       Registration!Session, Registration!Local, Registration!Steps
<1>2. RegServerMoves /\ RegDeviceMoves /\ RegDeviceInv'
    BY DEF RegIInv, Registration!TypeOK, Registration!CommitInitialKeyUpload, Registration!server,
       Registration!Session, RegServerMoves, RegDeviceMoves, RegDeviceInv, Registration!LoggedIn
<1>3. (\A x \in Browsers \ {b} : RegRests(x)) /\ RegJournalMoves(b) /\ late' = late
    BY DEF RegIInv, Registration!TypeOK, Registration!CommitInitialKeyUpload, RegRests,
       RegJournalMoves, Registration!Local
<1>4. RegJournalInv(b)'
    BY DEF RegIInv, Registration!TypeOK, Registration!CommitInitialKeyUpload, Registration!server,
       Registration!Local, RegBrowsersInv, RegJournalInv, RegStepInv, Registration!Finished
<1>5. RegStepInv(b)'
    BY DEF RegIInv, Registration!TypeOK, Registration!CommitInitialKeyUpload, Registration!server,
       Registration!Local, RegBrowsersInv, RegJournalInv, RegStepInv, Registration!Bound,
       Registration!LoggedIn, Registration!Finished
<1> QED BY <1>1, <1>2, <1>3, <1>4, <1>5, RegStepOf

\* The journal is cleared of an upload that is acknowledged: the invariant is
\* preserved.
LEMMA RegFinishInitialKeyUploadStep ==
    ASSUME Registration!RegistrationAssumption, RegIInv, NEW b \in Browsers, Registration!FinishInitialKeyUpload(b) PROVE RegIInv'
<1>1. Registration!TypeOK'
    BY DEF RegIInv, Registration!TypeOK, Registration!FinishInitialKeyUpload, Registration!server,
       Registration!Session, Registration!Local, Registration!Steps
<1>2. RegServerMoves /\ RegDeviceMoves /\ RegDeviceInv'
    BY DEF RegIInv, Registration!TypeOK, Registration!FinishInitialKeyUpload, Registration!server,
       Registration!Session, RegServerMoves, RegDeviceMoves, RegDeviceInv, Registration!LoggedIn
<1>3. (\A x \in Browsers \ {b} : RegRests(x)) /\ RegJournalMoves(b) /\ late' = late
    BY DEF RegIInv, Registration!TypeOK, Registration!FinishInitialKeyUpload, RegRests,
       RegJournalMoves, Registration!Local
<1>4. RegJournalInv(b)'
    BY DEF RegIInv, Registration!TypeOK, Registration!FinishInitialKeyUpload, Registration!server,
       Registration!Local, RegBrowsersInv, RegJournalInv, RegStepInv, Registration!Finished
<1>5. RegStepInv(b)'
    BY DEF RegIInv, Registration!TypeOK, Registration!FinishInitialKeyUpload, Registration!server,
       Registration!Local, RegBrowsersInv, RegJournalInv, RegStepInv, Registration!Bound,
       Registration!LoggedIn, Registration!Finished
<1> QED BY <1>1, <1>2, <1>3, <1>4, <1>5, RegStepOf

\* The life cycle is ready: the invariant is preserved.
LEMMA RegReadyStep ==
    ASSUME Registration!RegistrationAssumption, RegIInv, NEW b \in Browsers, Registration!Ready(b) PROVE RegIInv'
<1>1. Registration!TypeOK'
    BY DEF RegIInv, Registration!TypeOK, Registration!Ready, Registration!server,
       Registration!Session, Registration!Local, Registration!Steps
<1>2. RegServerMoves /\ RegDeviceMoves /\ RegDeviceInv'
    BY DEF RegIInv, Registration!TypeOK, Registration!Ready, Registration!server,
       Registration!Session, RegServerMoves, RegDeviceMoves, RegDeviceInv, Registration!LoggedIn
<1>3. (\A x \in Browsers \ {b} : RegRests(x)) /\ RegJournalMoves(b) /\ late' = late
    BY DEF RegIInv, Registration!TypeOK, Registration!Ready, RegRests, RegJournalMoves,
       Registration!Local
<1>4. RegJournalInv(b)'
    BY DEF RegIInv, Registration!TypeOK, Registration!Ready, Registration!server,
       Registration!Local, RegBrowsersInv, RegJournalInv, RegStepInv, Registration!Finished
<1>5. RegStepInv(b)'
    BY DEF RegIInv, Registration!TypeOK, Registration!Ready, Registration!server,
       Registration!Local, RegBrowsersInv, RegJournalInv, RegStepInv, Registration!Bound,
       Registration!LoggedIn, Registration!Finished
<1> QED BY <1>1, <1>2, <1>3, <1>4, <1>5, RegStepOf

\* A reservation is answered, refused or not the one that is stored: the
\* invariant is preserved.
LEMMA RegReserveStep ==
    ASSUME Registration!RegistrationAssumption, RegIInv, NEW b \in Browsers, Registration!Reserve(b) PROVE RegIInv'
<1> DEFINE s == cookie[b]
<1>0. s \in Sessions /\ local[b] \in Registration!Local /\ ~local[b].secret
    BY DEF RegIInv, Registration!TypeOK, Registration!Reserve, Registration!LoggedIn,
       RegBrowsersInv, RegStepInv
<1>1. CASE Registration!ReserveRefused(s) /\ pc' = [pc EXCEPT ![b] = "off"] /\ UNCHANGED <<Registration!server, local>>
    <2>1. Registration!TypeOK'
        BY <1>1 DEF RegIInv, Registration!TypeOK, Registration!Reserve, Registration!server,
           Registration!Steps
    <2>2. RegServerMoves /\ RegDeviceMoves /\ RegDeviceInv'
        BY <1>1 DEF RegIInv, Registration!server, RegServerMoves, RegDeviceMoves, RegDeviceInv
    <2>3. (\A x \in Browsers : RegRests(x)) /\ late' = late
        BY <1>1 DEF RegIInv, Registration!TypeOK, Registration!Reserve, RegRests
    <2> QED BY <2>1, <2>2, <2>3, RegStepOfNone
<1>2. ASSUME NEW id \in 1..MaxRegs, Registration!ReserveDevice(s, id),
             local' = IF local[b].dev = 0 THEN [local EXCEPT ![b].dev = id] ELSE local,
             pc' = [pc EXCEPT ![b] = IF local[b].dev \in {0, id} THEN "crypto" ELSE "off"]
      PROVE  RegIInv'
    <2>0. id \in Nat /\ id # 0
        BY DEF Registration!RegistrationAssumption
    <2>1. regs' \subseteq Registration!Reg /\ nextId' \in Nat /\ RegDeviceInv' /\ UNCHANGED <<device, sess>>
        BY <1>0, <1>2, RegReservation DEF RegIInv
    <2> HIDE DEF s
    <2>2. local' \in [Browsers -> Registration!Local]
        BY <1>2, <2>0 DEF RegIInv, Registration!TypeOK, Registration!Local
    <2>3. Registration!TypeOK'
        BY <1>2, <2>1, <2>2 DEF RegIInv, Registration!TypeOK, Registration!Reserve,
           Registration!Steps
    <2>4. RegServerMoves /\ RegDeviceMoves
        BY <2>1 DEF RegServerMoves, RegDeviceMoves
    <2>5. (\A x \in Browsers \ {b} : RegRests(x)) /\ RegJournalMoves(b) /\ late' = late
        BY <1>2 DEF RegIInv, Registration!TypeOK, Registration!Reserve, RegRests, RegJournalMoves,
           Registration!Local
    <2>6. /\ local'[b].secret = local[b].secret /\ local'[b].upload = local[b].upload
          /\ local'[b].response = local[b].response
          /\ local[b].dev # 0 => local'[b].dev = local[b].dev
          /\ pc'[b] = "crypto" => local'[b].dev # 0
          /\ pc'[b] \in {"crypto", "off"}
        BY <1>2, <2>0 DEF RegIInv, Registration!TypeOK, Registration!Local
    <2>7. RegJournalInv(b)'
        BY <1>0, <2>1, <2>6 DEF RegIInv, RegBrowsersInv, RegJournalInv, Registration!Reserve
    <2>8. RegStepInv(b)'
        BY <1>0, <2>1, <2>6 DEF RegIInv, RegBrowsersInv, RegStepInv, Registration!Reserve,
           Registration!Bound
    <2> QED BY <2>1, <2>3, <2>4, <2>5, <2>7, <2>8, RegStepOf
<1> QED BY <1>1, <1>2 DEF Registration!Reserve

\* bindSession is answered or refused: the invariant is preserved.
LEMMA RegBindStep ==
    ASSUME Registration!RegistrationAssumption, RegIInv, NEW b \in Browsers, Registration!Bind(b) PROVE RegIInv'
<1> DEFINE s == cookie[b]
<1>0. s \in Sessions /\ local[b] \in Registration!Local /\ local[b].dev \in Nat
    BY DEF RegIInv, Registration!TypeOK, Registration!Bind, Registration!LoggedIn,
       Registration!Local
<1>1. CASE pc' = [pc EXCEPT ![b] = "off"] /\ UNCHANGED Registration!server
    <2>1. Registration!TypeOK'
        BY <1>1 DEF RegIInv, Registration!TypeOK, Registration!Bind, Registration!server,
           Registration!Steps
    <2>2. RegServerMoves /\ RegDeviceMoves /\ RegDeviceInv'
        BY <1>1 DEF RegIInv, Registration!server, RegServerMoves, RegDeviceMoves, RegDeviceInv
    <2>3. (\A x \in Browsers : RegRests(x)) /\ late' = late
        BY <1>1 DEF RegIInv, Registration!TypeOK, Registration!Bind, RegRests
    <2> QED BY <2>1, <2>2, <2>3, RegStepOfNone
<1>2. CASE Registration!BindSession(s, local[b].dev) /\ pc' = [pc EXCEPT ![b] = "crypto"]
    <2>1. /\ UNCHANGED <<regs, nextId, device>> /\ sess' \in [Sessions -> Registration!Session]
          /\ sess'[s].dev = local[b].dev /\ RegServerMoves /\ device.id = local[b].dev
        BY <1>0, <1>2, RegBinding DEF RegIInv
    <2>2. device.active /\ sess[s].dev = 0
        BY <1>2 DEF Registration!BindSession
    <2>3. Registration!TypeOK'
        BY <1>2, <2>1 DEF RegIInv, Registration!TypeOK, Registration!Bind, Registration!Steps
    <2>4. RegDeviceMoves /\ RegDeviceInv'
        BY <2>1 DEF RegIInv, RegDeviceMoves, RegDeviceInv
    <2>5. (\A x \in Browsers \ {b} : RegRests(x)) /\ RegJournalMoves(b) /\ late' = late
        BY <1>2 DEF RegIInv, Registration!TypeOK, Registration!Bind, RegRests, RegJournalMoves
    <2>6. RegJournalInv(b)'
        BY <2>1 DEF RegIInv, RegBrowsersInv, RegJournalInv, Registration!Bind
    <2>7. local[b].dev # 0
        BY <2>1, <2>2 DEF RegIInv, RegDeviceInv
    <2>8. known[b] = 0
        BY <2>2 DEF RegIInv, RegBrowsersInv, RegStepInv, Registration!Bound
    <2>9. pc'[b] = "crypto"
        BY <1>2 DEF RegIInv, Registration!TypeOK
    <2>10. RegStepInv(b)'
        BY <1>0, <2>1, <2>7, <2>8, <2>9 DEF RegIInv, RegBrowsersInv, RegStepInv, Registration!Bind,
           Registration!Bound
    <2> QED BY <2>1, <2>3, <2>4, <2>5, <2>6, <2>10, RegStepOf
<1> QED BY <1>1, <1>2 DEF Registration!Bind

\* The completion is answered, and the secret is stored beside the upload: the
\* invariant is preserved.
LEMMA RegCompleteStep ==
    ASSUME Registration!RegistrationAssumption, RegIInv, NEW b \in Browsers, Registration!Complete(b) PROVE RegIInv'
<1> DEFINE s == cookie[b]
<1>0. /\ s \in Sessions /\ local[b] \in Registration!Local /\ local[b].dev \in Nat \ {0}
      /\ local[b].upload /\ ~local[b].response /\ RegJournaled(b, local[b].dev)
    BY DEF RegIInv, Registration!TypeOK, Registration!Complete, Registration!LoggedIn,
       Registration!Local, Registration!ToSend, RegBrowsersInv, RegJournalInv, RegJournaled
<1>1. CASE pc' = [pc EXCEPT ![b] = "off"] /\ UNCHANGED <<Registration!server, local>>
    <2>1. Registration!TypeOK'
        BY <1>1 DEF RegIInv, Registration!TypeOK, Registration!Complete, Registration!server,
           Registration!Steps
    <2>2. RegServerMoves /\ RegDeviceMoves /\ RegDeviceInv'
        BY <1>1 DEF RegIInv, Registration!server, RegServerMoves, RegDeviceMoves, RegDeviceInv
    <2>3. (\A x \in Browsers : RegRests(x)) /\ late' = late
        BY <1>1 DEF RegIInv, Registration!TypeOK, Registration!Complete, RegRests
    <2> QED BY <2>1, <2>2, <2>3, RegStepOfNone
<1>2. CASE /\ Registration!CompleteDevice(s, local[b].dev, b)
           /\ local' = [local EXCEPT ![b] = Registration!SaveInitialCompletion(@)] /\ UNCHANGED pc
    <2>1. /\ regs' \subseteq Registration!Reg /\ nextId' \in Nat /\ device' \in Registration!Device
          /\ sess' \in [Sessions -> Registration!Session] /\ RegDeviceInv' /\ RegServerMoves
          /\ device'.id = local[b].dev /\ device'.keys = b /\ sess'[s].dev = local[b].dev
        BY <1>0, <1>2, RegCompletion_ DEF RegIInv
    <2> DEFINE l == Registration!SaveInitialCompletion(local[b])
    <2>2. /\ l \in Registration!Local /\ l.dev = local[b].dev /\ l.upload /\ l.secret /\ l.response
        <3> DEFINE q == [local[b] EXCEPT !.secret = TRUE]
        <3>1. q \in Registration!Local /\ q.dev = local[b].dev /\ q.upload /\ q.secret
            BY <1>0 DEF Registration!Local
        <3>2. l = [q EXCEPT !.response = TRUE]
            BY <1>0 DEF Registration!SaveInitialCompletion, Registration!Local
        <3> HIDE DEF q
        <3> QED BY <3>1, <3>2 DEF Registration!Local
    <2>3. local'[b] = l /\ local' \in [Browsers -> Registration!Local] /\ \A x \in Browsers \ {b} : local'[x] = local[x]
        BY <1>2, <2>2 DEF RegIInv, Registration!TypeOK
    <2> HIDE DEF l, s
    <2>4. Registration!TypeOK'
        BY <1>2, <2>1, <2>3 DEF RegIInv, Registration!TypeOK, Registration!Complete
    <2>5. RegDeviceMoves
        BY <1>0, <2>1 DEF RegDeviceMoves
    <2>6. (\A x \in Browsers \ {b} : RegRests(x)) /\ RegJournalMoves(b) /\ late' = late
        BY <1>2, <2>2, <2>3 DEF Registration!Complete, RegRests, RegJournalMoves
    <2>7. RegJournalInv(b)'
        BY <1>0, <2>1, <2>2, <2>3 DEF RegJournalInv, RegIInv, RegBrowsersInv, Registration!Complete
    <2>8. known'[b] = known[b] /\ cookie'[b] = s /\ pc'[b] = "crypto" /\ s # NoSession
        BY <1>0, <1>2 DEF Registration!Complete, s, Registration!RegistrationAssumption
    <2>9. known[b] # 0 => sess'[s].dev = known[b]
        BY <1>0, <2>1 DEF RegIInv, RegBrowsersInv, RegStepInv, Registration!Bound, RegServerMoves, s
    <2>10. RegStepInv(b)'
        BY <1>0, <2>1, <2>2, <2>3, <2>8, <2>9 DEF RegStepInv, Registration!Bound
    <2> QED BY <2>1, <2>4, <2>5, <2>6, <2>7, <2>10, RegStepOf
<1> QED BY <1>1, <1>2 DEF Registration!Complete

\* The page dies, perhaps with a completion on its way: the invariant is
\* preserved.
LEMMA RegCrashStep ==
    ASSUME Registration!RegistrationAssumption, RegIInv, NEW b \in Browsers, Registration!Crash(b) PROVE RegIInv'
<1>1. CASE late' = late
    <2>1. Registration!TypeOK'
        BY <1>1 DEF RegIInv, Registration!TypeOK, Registration!Crash, Registration!server,
           Registration!Steps
    <2>2. RegServerMoves /\ RegDeviceMoves /\ RegDeviceInv'
        BY DEF RegIInv, Registration!Crash, Registration!server, RegServerMoves, RegDeviceMoves,
           RegDeviceInv
    <2>3. \A x \in Browsers : RegRests(x)
        BY DEF RegIInv, Registration!TypeOK, Registration!Crash, RegRests
    <2> QED BY <1>1, <2>1, <2>2, <2>3, RegStepOfNone
<1>2. CASE /\ Registration!ToSend(b) /\ Registration!LoggedIn(b)
           /\ late' = late \cup {[ses |-> cookie[b], id |-> local[b].dev, keys |-> b]}
    <2>1. [ses |-> cookie[b], id |-> local[b].dev, keys |-> b] \in Registration!Completion
        BY <1>2 DEF RegIInv, Registration!TypeOK, Registration!Completion, Registration!Local,
           Registration!LoggedIn
    <2>2. Registration!TypeOK'
        BY <1>2, <2>1 DEF RegIInv, Registration!TypeOK, Registration!Crash, Registration!server,
           Registration!Steps
    <2>3. RegServerMoves /\ RegDeviceMoves /\ RegDeviceInv'
        BY DEF RegIInv, Registration!Crash, Registration!server, RegServerMoves, RegDeviceMoves,
           RegDeviceInv
    <2>4. \A x \in Browsers : RegRests(x)
        BY DEF RegIInv, Registration!TypeOK, Registration!Crash, RegRests
    <2>5. RegJournalMoves(b)
        BY <2>4 DEF RegRests, RegJournalMoves
    <2>6. \A c \in late' \ late : RegJournaled(c.keys, c.id)'
        BY <1>2 DEF RegJournaled, Registration!ToSend, Registration!Crash
    <2>7. RegJournalInv(b)' /\ RegStepInv(b)'
        BY <2>2, <2>3, <2>4, RegResting DEF RegIInv, RegBrowsersInv
    <2> QED BY <2>2, <2>3, <2>4, <2>5, <2>6, <2>7, RegStepOf
<1> QED BY <1>1, <1>2 DEF Registration!Crash

\* A transaction commits and its answer gets lost: the invariant is preserved.
LEMMA RegLoseAnswerStep ==
    ASSUME Registration!RegistrationAssumption, RegIInv, NEW b \in Browsers, Registration!LoseAnswer(b) PROVE RegIInv'
<1> DEFINE s == cookie[b]
<1>0. s \in Sessions /\ local[b] \in Registration!Local /\ local[b].dev \in Nat
    BY DEF RegIInv, Registration!TypeOK, Registration!LoseAnswer, Registration!LoggedIn,
       Registration!Local
<1>1. (\A x \in Browsers : RegRests(x)) /\ late' = late
    BY DEF RegIInv, Registration!TypeOK, Registration!LoseAnswer, RegRests
<1>2. ASSUME NEW id \in 1..MaxRegs, Registration!ReserveDevice(s, id) PROVE RegIInv'
    <2>1. regs' \subseteq Registration!Reg /\ nextId' \in Nat /\ RegDeviceInv' /\ UNCHANGED <<device, sess>>
        BY <1>0, <1>2, RegReservation DEF RegIInv
    <2>2. Registration!TypeOK'
        BY <2>1 DEF RegIInv, Registration!TypeOK, Registration!LoseAnswer, Registration!Steps
    <2>3. RegServerMoves /\ RegDeviceMoves
        BY <2>1 DEF RegServerMoves, RegDeviceMoves
    <2> QED BY <1>1, <2>1, <2>2, <2>3, RegStepOfNone
<1>3. CASE Registration!BindSession(s, local[b].dev)
    <2>1. /\ UNCHANGED <<regs, nextId, device>> /\ sess' \in [Sessions -> Registration!Session] /\ RegServerMoves
        BY <1>0, <1>3, RegBinding DEF RegIInv
    <2>2. Registration!TypeOK'
        BY <2>1 DEF RegIInv, Registration!TypeOK, Registration!LoseAnswer, Registration!Steps
    <2>3. RegDeviceMoves /\ RegDeviceInv'
        BY <2>1 DEF RegIInv, RegDeviceMoves, RegDeviceInv
    <2> QED BY <1>1, <2>1, <2>2, <2>3, RegStepOfNone
<1>4. CASE Registration!ToSend(b) /\ Registration!CompleteDevice(s, local[b].dev, b)
    <2>0. RegJournaled(b, local[b].dev) /\ local[b].dev \in Nat \ {0}
        BY <1>0, <1>4 DEF RegIInv, Registration!ToSend, RegBrowsersInv, RegJournalInv, RegJournaled
    <2>1. /\ regs' \subseteq Registration!Reg /\ nextId' \in Nat /\ device' \in Registration!Device
          /\ sess' \in [Sessions -> Registration!Session] /\ RegDeviceInv' /\ RegServerMoves
          /\ device'.id = local[b].dev /\ device'.keys = b
        BY <1>0, <1>4, <2>0, RegCompletion_ DEF RegIInv
    <2>2. Registration!TypeOK'
        BY <2>1 DEF RegIInv, Registration!TypeOK, Registration!LoseAnswer, Registration!Steps
    <2>3. RegDeviceMoves
        BY <2>0, <2>1 DEF RegDeviceMoves
    <2> QED BY <1>1, <2>1, <2>2, <2>3, RegStepOfNone
<1> QED BY <1>2, <1>3, <1>4 DEF Registration!LoseAnswer

\* A completion that nobody waits for is one that its browser has journaled:
\* the invariant is preserved.
LEMMA RegLateCompletionStep ==
    ASSUME Registration!RegistrationAssumption, RegIInv, NEW c \in late, Registration!LateCompletion(c) PROVE RegIInv'
<1>0. /\ c.ses \in Sessions /\ c.keys \in Browsers /\ c.id \in Nat
      /\ RegJournaled(c.keys, c.id)
    BY DEF RegIInv, Registration!TypeOK, Registration!Completion, RegLateInv
<1>1. c.id \in Nat \ {0}
    BY <1>0 DEF RegIInv, RegBrowsersInv, RegJournalInv, RegJournaled
<1>2. /\ regs' \subseteq Registration!Reg /\ nextId' \in Nat /\ device' \in Registration!Device
      /\ sess' \in [Sessions -> Registration!Session] /\ RegDeviceInv' /\ RegServerMoves
      /\ device'.id = c.id /\ device'.keys = c.keys
    BY <1>0, <1>1, RegCompletion_ DEF RegIInv, Registration!LateCompletion
<1>3. Registration!TypeOK'
    BY <1>2 DEF RegIInv, Registration!TypeOK, Registration!LateCompletion, Registration!browser
<1>4. RegDeviceMoves
    BY <1>0, <1>2 DEF RegDeviceMoves
<1>5. (\A x \in Browsers : RegRests(x)) /\ late' \subseteq late
    BY DEF Registration!LateCompletion, Registration!browser, RegRests
<1> QED BY <1>2, <1>3, <1>4, <1>5, RegStepOfNone

\* The older route publishes a device without keys of a browser: the invariant
\* is preserved.
LEMMA RegisterStep ==
    ASSUME Registration!RegistrationAssumption, RegIInv, NEW b \in Browsers, Registration!Register(b) PROVE RegIInv'
<1>0. cookie[b] \in Sessions /\ sess[cookie[b]].dev = 0
    BY DEF RegIInv, Registration!TypeOK, Registration!Register, Registration!LoggedIn,
       Registration!Bound
<1>1. Registration!TypeOK'
    BY <1>0 DEF RegIInv, Registration!TypeOK, Registration!Register, Registration!browser,
       Registration!Device, Registration!Session
<1>2. RegServerMoves
    BY <1>0 DEF RegIInv, Registration!TypeOK, Registration!Register, Registration!Session,
       RegServerMoves
<1>3. RegDeviceMoves
    BY DEF Registration!Register, RegDeviceMoves
<1>4. \A r \in regs : ~r.consumed
    BY DEF RegIInv, RegDeviceInv, Registration!Register, Registration!TypeOK, Registration!Reg
<1>5. RegDeviceInv'
    BY <1>4 DEF RegIInv, RegDeviceInv, Registration!Register, Registration!TypeOK
<1>6. (\A x \in Browsers : RegRests(x)) /\ late' \subseteq late
    BY DEF Registration!Register, Registration!browser, RegRests
<1> QED BY <1>1, <1>2, <1>3, <1>5, <1>6, RegStepOfNone

\* The revocation ends the sessions of the device: the invariant is preserved.
LEMMA RegRevokeStep ==
    ASSUME Registration!RegistrationAssumption, RegIInv, Registration!Revoke PROVE RegIInv'
<1>1. device' \in Registration!Device /\ device'.id = device.id /\ device'.keys = device.keys /\ ~device'.active
    BY DEF RegIInv, Registration!TypeOK, Registration!Revoke, Registration!Device
<1>2. sess' \in [Sessions -> Registration!Session] /\ \A s \in Sessions : sess'[s].dev = sess[s].dev
    BY DEF RegIInv, Registration!TypeOK, Registration!Revoke, Registration!Session
<1>3. pc' \in [Browsers -> Registration!Steps] /\ \A x \in Browsers : pc'[x] = pc[x] \/ pc'[x] = "off"
    BY DEF RegIInv, Registration!TypeOK, Registration!Revoke, Registration!Steps
<1>4. Registration!TypeOK'
    BY <1>1, <1>2, <1>3 DEF RegIInv, Registration!TypeOK, Registration!Revoke
<1>5. RegServerMoves /\ RegDeviceMoves
    BY <1>1, <1>2 DEF RegServerMoves, RegDeviceMoves
<1>6. RegDeviceInv'
    BY <1>1 DEF RegIInv, RegDeviceInv, Registration!Revoke
<1>7. (\A x \in Browsers : RegRests(x)) /\ late' \subseteq late
    BY <1>3 DEF Registration!Revoke, RegRests
<1> QED BY <1>4, <1>5, <1>6, <1>7, RegStepOfNone

\* The retention of reservations preserves the invariant.
LEMMA RegPurgeExpiredStep ==
    ASSUME Registration!RegistrationAssumption, RegIInv, Registration!PurgeExpired PROVE RegIInv'
<1>1. Registration!TypeOK' /\ RegDeviceInv'
    BY DEF RegIInv, Registration!TypeOK, RegDeviceInv, Registration!PurgeExpired,
       Registration!browser
<1>2. RegServerMoves /\ RegDeviceMoves /\ (\A x \in Browsers : RegRests(x)) /\ late' \subseteq late
    BY DEF Registration!PurgeExpired, Registration!browser, RegServerMoves, RegDeviceMoves, RegRests
<1> QED BY <1>1, <1>2, RegStepOfNone

\* Time runs for every reservation: the invariant is preserved.
LEMMA RegTickStep ==
    ASSUME Registration!RegistrationAssumption, RegIInv, Registration!Tick PROVE RegIInv'
<1> DEFINE age(r) == [r EXCEPT !.left = IF @ = 0 THEN 0 ELSE @ - 1]
<1>1. ASSUME NEW r \in regs
      PROVE  age(r) \in Registration!Reg /\ age(r).id = r.id /\ age(r).consumed = r.consumed /\ age(r).keys = r.keys
    BY DEF RegIInv, Registration!TypeOK, Registration!Reg, Registration!RegistrationAssumption
<1>2. regs' = {age(r) : r \in regs}
    BY DEF Registration!Tick
<1> HIDE DEF age
<1>3. regs' \subseteq Registration!Reg
    BY <1>1, <1>2
<1>4. Registration!TypeOK'
    BY <1>3 DEF RegIInv, Registration!TypeOK, Registration!Tick, Registration!browser
<1>5. RegDeviceInv'
    BY <1>1, <1>2 DEF RegIInv, RegDeviceInv, Registration!Tick
<1>6. RegServerMoves /\ RegDeviceMoves /\ (\A x \in Browsers : RegRests(x)) /\ late' \subseteq late
    BY DEF Registration!Tick, Registration!browser, RegServerMoves, RegDeviceMoves, RegRests
<1> QED BY <1>4, <1>5, <1>6, RegStepOfNone

\* A step that changes nothing preserves the invariant.
LEMMA RegStutterStep ==
    ASSUME RegIInv, UNCHANGED Registration!vars PROVE RegIInv'
<1>1. Registration!TypeOK' /\ RegDeviceInv'
    BY DEF RegIInv, Registration!TypeOK, RegDeviceInv, Registration!vars, Registration!server,
       Registration!browser
<1>2. RegServerMoves /\ RegDeviceMoves /\ (\A x \in Browsers : RegRests(x)) /\ late' \subseteq late
    BY DEF Registration!vars, Registration!server, Registration!browser, RegServerMoves,
       RegDeviceMoves, RegRests
<1> QED BY <1>1, <1>2, RegStepOfNone

\* The invariant of the registration holds in every reachable state.
THEOREM RegInvariance ==
    ASSUME Registration!RegistrationAssumption PROVE Registration!Spec => []RegIInv
<1>1. RegIInv /\ [Registration!Next]_(Registration!vars) => RegIInv'
    BY RegLoginStep, RegEndSessionStep, RegReloadStep, RegStartStep, RegReserveStep, RegBindStep,
       RegJournalStep, RegCompleteStep,
       RegCommitInitialKeyUploadStep, RegFinishInitialKeyUploadStep, RegReadyStep, RegCrashStep,
       RegLoseAnswerStep,
       RegisterStep, RegLateCompletionStep, RegRevokeStep, RegPurgeExpiredStep, RegTickStep,
       RegStutterStep
       DEF Registration!Next, Registration!Progress
<1> QED BY <1>1, RegInitInv, PTL DEF Registration!Spec

\* For any number of browsers, sessions and faults: a browser with a secret has
\* the keys of the device of the account, the published device is journaled
\* where its private keys are, its upload is acknowledged before the journal is
\* cleared, and who is ready is bound to it.
THEOREM RegistrationIsSafe ==
    ASSUME Registration!RegistrationAssumption PROVE Registration!Spec => []RegistrationSafe
<1>1. RegIInv => RegistrationSafe
    BY DEF RegIInv, RegistrationSafe, Registration!RegistrationSafe, Registration!SecretMatches,
       Registration!AckNotLost, Registration!ReadyIsBound, RegBrowsersInv, RegJournalInv, RegStepInv
<1> QED BY <1>1, RegInvariance, PTL

-----------------------------------------------------------------------------
(* The quarantine of a new device *)

\* The rows of candidates.
CeremonyCandRow == [status : Ceremony!End, ses : Trusted, version : Nat, created : Nat, until : Nat]

\* The rows of flows.
CeremonyFlowRow == [status : Ceremony!End, id : Flows, reviewer : Trusted, version : Nat,
            created : Nat, timestamp : Int, until : Nat]

\* A transaction that holds its locks.
CeremonyTxOpen == [pc : Ceremony!Kinds, c : Candidates, s : Trusted, now : Nat, other : Ceremony!Row]

\* The clock, the account and its sessions have their types.
CeremonyAccountInv ==
    /\ cClock \in Nat /\ rollbacks \in Nat /\ changes \in Nat /\ version \in Nat /\ trusted \in BOOLEAN
    /\ cSess \in [Trusted -> Ceremony!Row]

\* Candidates: their rows have their types, each lives no longer than its
\* window, and one is open at most.
CeremonyCandsInv(K) ==
    /\ DOMAIN K \subseteq Candidates
    /\ \A c \in DOMAIN K : K[c] \in CeremonyCandRow /\ K[c].until \in (K[c].created + 1)..(K[c].created + Window)
    /\ \A c, d \in DOMAIN K : K[c].status = "PENDING" /\ K[d].status = "PENDING" => c = d

\* Flows: each has a candidate; an open one has an open candidate, which it
\* does not outlive; no two have the same name, ended ones included.
CeremonyFlowsInv(K, F) ==
    /\ DOMAIN F \subseteq DOMAIN K
    /\ \A c \in DOMAIN F : F[c] \in CeremonyFlowRow
    /\ \A c \in DOMAIN F : F[c].status = "PENDING" => K[c].status = "PENDING" /\ F[c].until <= K[c].until
    /\ \A c, d \in DOMAIN F : F[c].id = F[d].id => c = d

\* The rows as they are.
CeremonyRowsInv == CeremonyCandsInv(cand) /\ CeremonyFlowsInv(cand, flow)

\* What was told and delivered is in the rows for good: an expiry that was
\* reported is written, and a request that was delivered is that of its
\* candidate's flow.
CeremonyRecordsInv ==
    /\ told \subseteq Candidates
    /\ \A c \in told : c \in DOMAIN cand /\ cand[c].status = "EXPIRED"
    /\ delivered \subseteq [cand : Candidates, id : Flows, reviewer : Trusted]
    /\ \A x \in delivered : /\ x.cand \in DOMAIN flow
                            /\ flow[x.cand].id = x.id /\ flow[x.cand].reviewer = x.reviewer

\* What a transaction read of the session at the other end, if that was in
\* force, is still its row: the row is locked, and whatever ends sessions
\* without that lock waits for the account's.
CeremonyTxInv ==
    /\ tx = Ceremony!Silent \/ tx \in [pc : {"idle"}, says : Ceremony!Positive, c : Candidates] \/ tx \in CeremonyTxOpen
    /\ tx.pc # "idle" => \A o \in Ceremony!Others(tx.pc, tx.c) : tx.other.state = "live" => cSess[o] = tx.other

\* The inductive invariant.
CeremonyIInv == CeremonyAccountInv /\ CeremonyRowsInv /\ CeremonyRecordsInv /\ CeremonyTxInv

\* What no transaction undoes: rows stay, a candidate that has ended keeps its
\* end, and a flow keeps its name and its reviewer.
CeremonyPersist ==
    /\ DOMAIN cand \subseteq DOMAIN cand' /\ DOMAIN flow \subseteq DOMAIN flow'
    /\ \A c \in DOMAIN cand : cand[c].status # "PENDING" => cand'[c].status = cand[c].status
    /\ \A c \in DOMAIN flow : flow'[c].id = flow[c].id /\ flow'[c].reviewer = flow[c].reviewer

\* Neither the clock nor the account changes.
CeremonyAccounted == UNCHANGED <<Ceremony!time, Ceremony!account>>

\* What a transaction under way carries.
LEMMA CeremonyTxFacts ==
    ASSUME CeremonyIInv, tx.pc # "idle"
    PROVE  tx \in CeremonyTxOpen /\ tx.c \in Candidates /\ tx.s \in Trusted /\ tx.now \in Nat /\ tx.other \in Ceremony!Row
<1>1. tx \in CeremonyTxOpen
    BY DEF CeremonyIInv, CeremonyTxInv, Ceremony!Silent
<1> QED BY <1>1 DEF CeremonyTxOpen

\* An answer is what it says.
LEMMA CeremonyAnswerType ==
    ASSUME NEW w \in Ceremony!Positive, NEW c \in Candidates
    PROVE  /\ Ceremony!Answer(w, c) \in [pc : {"idle"}, says : Ceremony!Positive, c : Candidates]
           /\ Ceremony!Answer(w, c).pc = "idle" /\ Ceremony!Answer(w, c).says = w /\ Ceremony!Answer(w, c).c = c
BY DEF Ceremony!Answer

\* A transaction that ends with rows and records in order keeps the invariant.
LEMMA CeremonyDoneStep ==
    ASSUME CeremonyIInv, CeremonyAccounted, CeremonyRowsInv', CeremonyRecordsInv',
           \/ tx' = Ceremony!Silent
           \/ \E w \in Ceremony!Positive, c \in Candidates : tx' = Ceremony!Answer(w, c)
    PROVE  CeremonyIInv'
<1>1. CeremonyAccountInv'
    BY DEF CeremonyIInv, CeremonyAccountInv, CeremonyAccounted, Ceremony!time, Ceremony!account
<1>2. CeremonyTxInv'
    <2>1. CASE tx' = Ceremony!Silent
        BY <2>1 DEF CeremonyTxInv, Ceremony!Silent
    <2>2. CASE \E w \in Ceremony!Positive, c \in Candidates : tx' = Ceremony!Answer(w, c)
        BY <2>2, CeremonyAnswerType DEF CeremonyTxInv
    <2> QED BY <2>1, <2>2
<1> QED BY <1>1, <1>2 DEF CeremonyIInv

\* Records stay true while rows persist.
LEMMA CeremonyRecordsKept ==
    ASSUME CeremonyRecordsInv, CeremonyPersist, told' = told, delivered' = delivered PROVE CeremonyRecordsInv'
BY DEF CeremonyRecordsInv, CeremonyPersist

\* Rows that do not change are in order and persist.
LEMMA CeremonySameRows ==
    ASSUME CeremonyIInv, UNCHANGED Ceremony!rows PROVE CeremonyRowsInv' /\ CeremonyPersist
BY DEF CeremonyIInv, CeremonyRowsInv, CeremonyPersist, Ceremony!rows

\* A row that ends changes in its status only.
LEMMA CeremonyEndedRow ==
    ASSUME NEW r, r \in CeremonyCandRow \/ r \in CeremonyFlowRow, NEW st \in Ceremony!End
    PROVE  /\ [r EXCEPT !.status = st].status = st /\ [r EXCEPT !.status = st].until = r.until
           /\ r \in CeremonyCandRow => /\ [r EXCEPT !.status = st] \in CeremonyCandRow
                               /\ [r EXCEPT !.status = st].created = r.created
                               /\ [r EXCEPT !.status = st].ses = r.ses
                               /\ [r EXCEPT !.status = st].version = r.version
           /\ r \in CeremonyFlowRow => /\ [r EXCEPT !.status = st] \in CeremonyFlowRow
                               /\ [r EXCEPT !.status = st].id = r.id
                               /\ [r EXCEPT !.status = st].reviewer = r.reviewer
<1>1. CASE r \in CeremonyCandRow
    BY <1>1 DEF CeremonyCandRow, CeremonyFlowRow
<1>2. CASE r \in CeremonyFlowRow
    BY <1>2 DEF CeremonyCandRow, CeremonyFlowRow
<1> QED BY <1>1, <1>2

\* What becomes of the rows when the candidates C end.
LEMMA CeremonyResolvedRows ==
    ASSUME CeremonyIInv, NEW C \in SUBSET DOMAIN cand, NEW at
    PROVE  LET K == Ceremony!Resolved(C, at)
               F == Ceremony!FlowsAfter(C) IN
           /\ DOMAIN K = DOMAIN cand /\ DOMAIN F = DOMAIN flow
           /\ \A c \in DOMAIN cand :
                 /\ K[c] \in CeremonyCandRow /\ K[c].until = cand[c].until /\ K[c].created = cand[c].created
                 /\ c \in C => K[c].status = Ceremony!Outcome(c, at)
                 /\ c \notin C => K[c] = cand[c]
           /\ \A c \in DOMAIN flow :
                 /\ F[c] \in CeremonyFlowRow /\ F[c].until = flow[c].until
                 /\ F[c].id = flow[c].id /\ F[c].reviewer = flow[c].reviewer
                 /\ c \in C => F[c].status # "PENDING"
                 /\ c \notin C => F[c] = flow[c]
<1> DEFINE K == Ceremony!Resolved(C, at)
           F == Ceremony!FlowsAfter(C)
<1>1. /\ DOMAIN K = DOMAIN cand /\ DOMAIN F = DOMAIN flow
      /\ \A c \in DOMAIN cand : K[c] = IF c \in C THEN [cand[c] EXCEPT !.status = Ceremony!Outcome(c, at)] ELSE cand[c]
      /\ \A c \in DOMAIN flow :
            F[c] = IF c \in C /\ Ceremony!FlowPending(c)
                   THEN [flow[c] EXCEPT !.status = IF flow[c].until <= cClock THEN "EXPIRED" ELSE "CANCELLED"]
                   ELSE flow[c]
    BY DEF Ceremony!Resolved, Ceremony!FlowsAfter
<1> HIDE DEF K, F
<1>2. ASSUME NEW c \in DOMAIN cand
      PROVE  /\ K[c] \in CeremonyCandRow /\ K[c].until = cand[c].until /\ K[c].created = cand[c].created
             /\ c \in C => K[c].status = Ceremony!Outcome(c, at)
             /\ c \notin C => K[c] = cand[c]
    <2> DEFINE st == Ceremony!Outcome(c, at)
    <2>1. cand[c] \in CeremonyCandRow /\ st \in Ceremony!End
        BY DEF CeremonyIInv, CeremonyRowsInv, CeremonyCandsInv, Ceremony!Outcome, Ceremony!End
    <2>2. K[c] = IF c \in C THEN [cand[c] EXCEPT !.status = st] ELSE cand[c]
        BY <1>1
    <2> HIDE DEF st
    <2>3. CASE c \in C
        <3>1. K[c] \in CeremonyCandRow /\ K[c].until = cand[c].until /\ K[c].created = cand[c].created /\ K[c].status = st
            BY <2>1, <2>2, <2>3, CeremonyEndedRow
        <3> QED BY <2>3, <3>1 DEF st
    <2>4. CASE c \notin C
        BY <2>1, <2>2, <2>4
    <2> QED BY <2>3, <2>4
<1>3. ASSUME NEW c \in DOMAIN flow
      PROVE  /\ F[c] \in CeremonyFlowRow /\ F[c].until = flow[c].until
             /\ F[c].id = flow[c].id /\ F[c].reviewer = flow[c].reviewer
             /\ c \in C => F[c].status # "PENDING"
             /\ c \notin C => F[c] = flow[c]
    <2> DEFINE st == IF flow[c].until <= cClock THEN "EXPIRED" ELSE "CANCELLED"
    <2>1. flow[c] \in CeremonyFlowRow /\ st \in Ceremony!End /\ st # "PENDING"
        BY DEF CeremonyIInv, CeremonyRowsInv, CeremonyFlowsInv, Ceremony!End
    <2>2. F[c] = IF c \in C /\ Ceremony!FlowPending(c) THEN [flow[c] EXCEPT !.status = st] ELSE flow[c]
        BY <1>1
    <2> HIDE DEF st
    <2>3. CASE c \in C /\ Ceremony!FlowPending(c)
        BY <2>1, <2>2, <2>3, CeremonyEndedRow
    <2>4. CASE ~(c \in C /\ Ceremony!FlowPending(c))
        BY <2>1, <2>2, <2>4 DEF Ceremony!FlowPending
    <2> QED BY <2>3, <2>4
<1> QED BY <1>1, <1>2, <1>3 DEF K, F

\* The end of candidates keeps the rows in order, because their flows end with
\* them.
LEMMA CeremonyResolvedInv ==
    ASSUME CeremonyIInv, NEW C \in SUBSET DOMAIN cand, NEW at
    PROVE  /\ CeremonyCandsInv(Ceremony!Resolved(C, at)) /\ CeremonyFlowsInv(Ceremony!Resolved(C, at), Ceremony!FlowsAfter(C))
           /\ \A c \in C : Ceremony!Resolved(C, at)[c].status # "PENDING"
<1> DEFINE K == Ceremony!Resolved(C, at)
           F == Ceremony!FlowsAfter(C)
<1>1. /\ DOMAIN K = DOMAIN cand /\ DOMAIN F = DOMAIN flow
      /\ \A c \in DOMAIN cand :
            /\ K[c] \in CeremonyCandRow /\ K[c].until = cand[c].until /\ K[c].created = cand[c].created
            /\ c \in C => K[c].status = Ceremony!Outcome(c, at)
            /\ c \notin C => K[c] = cand[c]
      /\ \A c \in DOMAIN flow :
            /\ F[c] \in CeremonyFlowRow /\ F[c].until = flow[c].until
            /\ F[c].id = flow[c].id /\ F[c].reviewer = flow[c].reviewer
            /\ c \in C => F[c].status # "PENDING"
            /\ c \notin C => F[c] = flow[c]
    BY CeremonyResolvedRows
<1> HIDE DEF K, F
<1>2. \A c \in C : K[c].status # "PENDING"
    BY <1>1 DEF Ceremony!Outcome
<1>3. CeremonyCandsInv(K)
    BY <1>1, <1>2 DEF CeremonyIInv, CeremonyRowsInv, CeremonyCandsInv
<1>4. CeremonyFlowsInv(K, F)
    <2>1. \A c \in DOMAIN F : F[c].status = "PENDING" => K[c].status = "PENDING" /\ F[c].until <= K[c].until
        BY <1>1 DEF CeremonyIInv, CeremonyRowsInv, CeremonyFlowsInv
    <2> QED BY <1>1, <2>1 DEF CeremonyIInv, CeremonyRowsInv, CeremonyFlowsInv
<1> QED BY <1>2, <1>3, <1>4 DEF K, F

\* The end of one candidate: the rows are in order and persist.
LEMMA CeremonyResolveEffect ==
    ASSUME CeremonyIInv, NEW c, NEW at, Ceremony!Resolve(c, at)
    PROVE  /\ CeremonyRowsInv' /\ CeremonyPersist /\ c \in DOMAIN cand /\ cand[c].status = "PENDING"
           /\ DOMAIN cand' = DOMAIN cand /\ cand'[c].status = Ceremony!Outcome(c, at)
<1>1. c \in DOMAIN cand /\ Ceremony!Pending(c) /\ cand' = Ceremony!Resolved({c}, at) /\ flow' = Ceremony!FlowsAfter({c})
    BY DEF Ceremony!Resolve, Ceremony!Resolvable, Ceremony!Pending
<1>2. {c} \in SUBSET DOMAIN cand
    BY <1>1
<1>3. CeremonyRowsInv'
    BY <1>1, <1>2, CeremonyResolvedInv DEF CeremonyRowsInv
<1>4. /\ DOMAIN cand' = DOMAIN cand /\ DOMAIN flow' = DOMAIN flow
      /\ cand'[c].status = Ceremony!Outcome(c, at)
      /\ \A d \in DOMAIN cand : d # c => cand'[d] = cand[d]
      /\ \A d \in DOMAIN flow : flow'[d].id = flow[d].id /\ flow'[d].reviewer = flow[d].reviewer
    BY <1>1, <1>2, CeremonyResolvedRows
<1> QED BY <1>1, <1>3, <1>4 DEF CeremonyPersist, Ceremony!Pending

\* A transaction that is refused or rolled back keeps the invariant.
LEMMA CeremonyNothingStep ==
    ASSUME CeremonyIInv, Ceremony!Nothing PROVE CeremonyIInv'
<1>1. CeremonyRowsInv' /\ CeremonyRecordsInv' /\ CeremonyAccounted /\ tx' = Ceremony!Silent
    BY CeremonySameRows, CeremonyRecordsKept DEF Ceremony!Nothing, CeremonyIInv, CeremonyAccounted
<1> QED BY <1>1, CeremonyDoneStep

\* A transaction that ends a candidate and tells nobody keeps the invariant.
LEMMA CeremonyEndingStep ==
    ASSUME CeremonyIInv, NEW c, NEW at, Ceremony!Resolve(c, at), CeremonyAccounted, UNCHANGED <<told, delivered>>, tx' = Ceremony!Silent
    PROVE  CeremonyIInv'
<1>1. CeremonyRowsInv' /\ CeremonyRecordsInv'
    BY CeremonyResolveEffect, CeremonyRecordsKept DEF CeremonyIInv
<1> QED BY <1>1, CeremonyDoneStep

\* A transaction that tells an expiry has it in the row.
LEMMA CeremonyToldStep ==
    ASSUME CeremonyIInv, NEW c \in DOMAIN cand,
           \/ UNCHANGED Ceremony!rows
           \/ \E at : Ceremony!Resolve(c, at),
           told' = IF cand'[c].status = "EXPIRED" THEN told \cup {c} ELSE told,
           delivered' = delivered
    PROVE  CeremonyRowsInv' /\ CeremonyRecordsInv'
<1>1. CeremonyRowsInv' /\ CeremonyPersist
    BY CeremonySameRows, CeremonyResolveEffect
<1>2. c \in DOMAIN cand' /\ c \in Candidates
    BY <1>1 DEF CeremonyPersist, CeremonyIInv, CeremonyRowsInv, CeremonyCandsInv
<1>3. \A d \in told : d \in DOMAIN cand' /\ cand'[d].status = "EXPIRED"
    BY <1>1 DEF CeremonyIInv, CeremonyRecordsInv, CeremonyPersist
<1>4. CeremonyRecordsInv'
    BY <1>1, <1>2, <1>3 DEF CeremonyIInv, CeremonyRecordsInv, CeremonyPersist
<1> QED BY <1>1, <1>4

\* What Report tells is what it leaves in the row: an expiry that it observes
\* is written with the answer.
LEMMA CeremonyReportEffect ==
    ASSUME CeremonyIInv, NEW c \in DOMAIN cand, Ceremony!Report(c)
    PROVE  /\ UNCHANGED Ceremony!rows \/ \E at : Ceremony!Resolve(c, at)
           /\ told' = IF cand'[c].status = "EXPIRED" THEN told \cup {c} ELSE told
           /\ \/ tx' = Ceremony!Silent
              \/ /\ tx' = Ceremony!Answer("pending", c) /\ UNCHANGED Ceremony!rows
                 /\ cand[c].status = "PENDING" /\ cand[c].until > cClock
<1>0. cand[c].until \in Nat /\ cClock \in Nat
    BY DEF CeremonyIInv, CeremonyRowsInv, CeremonyCandsInv, CeremonyCandRow, CeremonyAccountInv
<1>1. CASE Ceremony!Pending(c) /\ cand[c].until <= cClock
    <2>1. Ceremony!Resolve(c, cClock) /\ told' = told \cup {c} /\ tx' = Ceremony!Silent
        BY <1>1 DEF Ceremony!Report, Ceremony!Latch
    <2>2. cand'[c].status = "EXPIRED"
        BY <1>1, <2>1, CeremonyResolveEffect DEF Ceremony!Outcome
    <2> QED BY <2>1, <2>2
<1>2. CASE Ceremony!Pending(c) /\ ~(cand[c].until <= cClock)
    BY <1>0, <1>2 DEF Ceremony!Report, Ceremony!Latch, Ceremony!Pending, Ceremony!rows
<1>3. CASE ~Ceremony!Pending(c)
    <2>1. /\ UNCHANGED Ceremony!rows /\ cand[c].status # "PENDING"
          /\ told' = IF cand[c].status = "EXPIRED" THEN told \cup {c} ELSE told
          /\ tx' = Ceremony!Silent
        BY <1>3 DEF Ceremony!Report, Ceremony!Latch, Ceremony!Pending
    <2> QED BY <2>1 DEF Ceremony!rows
<1> QED BY <1>1, <1>2, <1>3

\* An answer about a candidate keeps the invariant.
LEMMA CeremonyReportStep ==
    ASSUME CeremonyIInv, NEW c \in DOMAIN cand, Ceremony!Report(c), CeremonyAccounted, delivered' = delivered PROVE CeremonyIInv'
<1>1. CeremonyRowsInv' /\ CeremonyRecordsInv'
    BY CeremonyReportEffect, CeremonyToldStep
<1>2. tx' = Ceremony!Silent \/ tx' = Ceremony!Answer("pending", c)
    BY CeremonyReportEffect
<1>3. c \in Candidates /\ "pending" \in Ceremony!Positive
    BY DEF CeremonyIInv, CeremonyRowsInv, CeremonyCandsInv, Ceremony!Positive
<1> QED BY <1>1, <1>2, <1>3, CeremonyDoneStep

\* The status and a repeated reservation keep the invariant.
LEMMA CeremonyStatusStep ==
    ASSUME CeremonyIInv, Ceremony!Status \/ Ceremony!ReserveAgain PROVE CeremonyIInv'
<1>1. tx.c \in DOMAIN cand /\ Ceremony!Report(tx.c) /\ CeremonyAccounted /\ delivered' = delivered
    BY DEF Ceremony!Status, Ceremony!ReserveAgain, Ceremony!Own, CeremonyAccounted
<1> QED BY <1>1, CeremonyReportStep

\* A cancellation and a rejection keep the invariant.
LEMMA CeremonyAskedStep ==
    ASSUME CeremonyIInv, Ceremony!Cancel \/ Ceremony!Reject PROVE CeremonyIInv'
<1> DEFINE c == tx.c
<1>1. /\ c \in DOMAIN cand /\ CeremonyAccounted /\ delivered' = delivered /\ tx' = Ceremony!Silent
      /\ told' = IF cand'[c].status = "EXPIRED" THEN told \cup {c} ELSE told
      /\ UNCHANGED Ceremony!rows \/ \E at : Ceremony!Resolve(c, at)
    BY DEF Ceremony!Cancel, Ceremony!Reject, Ceremony!Own, CeremonyAccounted
<1> HIDE DEF c
<1>2. CeremonyRowsInv' /\ CeremonyRecordsInv'
    BY <1>1, CeremonyToldStep
<1> QED BY <1>1, <1>2, CeremonyDoneStep

\* An expiry that a poll, a review or an opening observes keeps the invariant.
LEMMA CeremonyExpiryStep ==
    ASSUME CeremonyIInv, Ceremony!PollExpired \/ Ceremony!ReviewExpired \/ Ceremony!OpenExpired PROVE CeremonyIInv'
<1>1. /\ \E at : Ceremony!Resolve(tx.c, at)
      /\ CeremonyAccounted /\ tx' = Ceremony!Silent /\ UNCHANGED <<told, delivered>>
    BY DEF Ceremony!PollExpired, Ceremony!ReviewExpired, Ceremony!OpenExpired, CeremonyAccounted
<1> QED BY <1>1, CeremonyEndingStep

\* Answers that change no row keep the invariant.
LEMMA CeremonyShownStep ==
    ASSUME CeremonyIInv, Ceremony!ReviewShows \/ Ceremony!OpenAgain PROVE CeremonyIInv'
<1>1. /\ UNCHANGED Ceremony!rows /\ UNCHANGED <<told, delivered>> /\ CeremonyAccounted /\ tx.pc # "idle"
      /\ tx' = Ceremony!Answer("shown", tx.c) \/ tx' = Ceremony!Answer("admitted", tx.c)
    BY DEF Ceremony!ReviewShows, Ceremony!OpenAgain, CeremonyAccounted
<1>2. CeremonyRowsInv' /\ CeremonyRecordsInv'
    BY <1>1, CeremonySameRows, CeremonyRecordsKept DEF CeremonyIInv
<1>3. tx.c \in Candidates /\ "shown" \in Ceremony!Positive /\ "admitted" \in Ceremony!Positive
    BY <1>1, CeremonyTxFacts DEF Ceremony!Positive
<1> QED BY <1>1, <1>2, <1>3, CeremonyDoneStep

\* A delivery keeps the invariant: it is the request of the candidate's flow.
LEMMA CeremonyPollDeliversStep ==
    ASSUME CeremonyIInv, Ceremony!PollDelivers PROVE CeremonyIInv'
<1> DEFINE c == tx.c
           x == [cand |-> c, id |-> flow[c].id, reviewer |-> flow[c].reviewer]
<1>1. /\ UNCHANGED Ceremony!rows /\ told' = told /\ CeremonyAccounted /\ tx.pc # "idle" /\ c \in DOMAIN flow
      /\ tx' = Ceremony!Answer("delivered", c) /\ delivered' = delivered \cup {x}
    BY DEF Ceremony!PollDelivers, Ceremony!FlowPending, CeremonyAccounted
<1>2. CeremonyRowsInv' /\ CeremonyPersist
    BY <1>1, CeremonySameRows
<1>3. c \in Candidates /\ "delivered" \in Ceremony!Positive
    BY <1>1, CeremonyTxFacts DEF Ceremony!Positive
<1>4. x \in [cand : Candidates, id : Flows, reviewer : Trusted]
    BY <1>1, <1>3 DEF CeremonyIInv, CeremonyRowsInv, CeremonyFlowsInv, CeremonyFlowRow
<1>5. x.cand = c /\ x.id = flow[c].id /\ x.reviewer = flow[c].reviewer
    OBVIOUS
<1> HIDE DEF x, c
<1>6. CeremonyRecordsInv'
    BY <1>1, <1>4, <1>5 DEF CeremonyIInv, CeremonyRecordsInv, Ceremony!rows
<1> QED BY <1>1, <1>2, <1>3, <1>6, CeremonyDoneStep

\* The least of two instants.
LEMMA CeremonyLeastOfTwo ==
    ASSUME NEW a \in Int, NEW b \in Int
    PROVE  Ceremony!Least({a, b}) \in {a, b} /\ Ceremony!Least({a, b}) <= a /\ Ceremony!Least({a, b}) <= b
<1>1. \E x \in {a, b} : \A y \in {a, b} : x <= y
    <2>1. CASE a <= b
        BY <2>1
    <2>2. CASE ~(a <= b)
        BY <2>2
    <2> QED BY <2>1, <2>2
<1> QED BY <1>1 DEF Ceremony!Least

\* The least of five instants.
LEMMA CeremonyLeastOfFive ==
    ASSUME NEW a \in Int, NEW b \in Int, NEW c \in Int, NEW d \in Int, NEW e \in Int
    PROVE  LET S == {a, b, c, d, e} IN Ceremony!Least(S) \in S /\ \A y \in S : Ceremony!Least(S) <= y
<1> DEFINE S == {a, b, c, d, e}
<1>1. PICK u \in {a, b} : u <= a /\ u <= b
    BY CeremonyLeastOfTwo
<1>2. PICK v \in {c, d} : v <= c /\ v <= d
    BY CeremonyLeastOfTwo
<1>3. PICK w \in {u, v} : w <= u /\ w <= v
    BY <1>1, <1>2, CeremonyLeastOfTwo
<1>4. PICK x \in {w, e} : x <= w /\ x <= e
    BY <1>1, <1>2, <1>3, CeremonyLeastOfTwo
<1>5. x \in S /\ x \in Int
    BY <1>1, <1>2, <1>3, <1>4
<1>6. u \in Int /\ v \in Int /\ w \in Int
    BY <1>1, <1>2, <1>3
<1>7. x <= a /\ x <= b /\ x <= c /\ x <= d /\ x <= e
    BY <1>1, <1>2, <1>3, <1>4, <1>5, <1>6
<1>8. \E y \in S : \A z \in S : y <= z
    BY <1>5, <1>7
<1> HIDE DEF S
<1>9. Ceremony!Least(S) \in S /\ \A y \in S : Ceremony!Least(S) <= y
    BY <1>8 DEF Ceremony!Least
<1> QED BY <1>9 DEF S

\* A reservation keeps the invariant: whatever was open has run out and ends
\* with it.
LEMMA CeremonyReserveStep ==
    ASSUME Ceremony!CandidatesAssumption, CeremonyIInv, Ceremony!Reserve PROVE CeremonyIInv'
<1> DEFINE c == tx.c
           old == {d \in DOMAIN cand : Ceremony!Pending(d) /\ cand[d].until <= tx.now}
           K == Ceremony!Resolved(old, tx.now)
           F == Ceremony!FlowsAfter(old)
           new == [status |-> "PENDING", ses |-> tx.s, version |-> version,
                   created |-> tx.now, until |-> Ceremony!Until(tx.s, tx.now)]
<1>1. /\ tx.pc = "reserve" /\ c \notin DOMAIN cand
      /\ Ceremony!NonePending(old) /\ new.created <= cClock /\ new.until > cClock
      /\ cand' = [d \in DOMAIN cand \cup {c} |-> IF d = c THEN new ELSE K[d]]
      /\ flow' = F /\ tx' = Ceremony!Answer("pending", c) /\ CeremonyAccounted /\ UNCHANGED <<told, delivered>>
    BY DEF Ceremony!Reserve, CeremonyAccounted
<1>2. c \in Candidates /\ tx.s \in Trusted /\ tx.now \in Nat /\ cClock \in Nat /\ version \in Nat
    BY <1>1, CeremonyTxFacts DEF CeremonyIInv, CeremonyAccountInv
<1>3. /\ new \in CeremonyCandRow /\ new.status = "PENDING"
      /\ new.until \in (new.created + 1)..(new.created + Window)
    <2>1. cSess[tx.s].until \in Int /\ tx.now + Window \in Int
        BY <1>2 DEF CeremonyIInv, CeremonyAccountInv, Ceremony!Row, Ceremony!CandidatesAssumption
    <2>2. /\ Ceremony!Until(tx.s, tx.now) <= tx.now + Window /\ Ceremony!Until(tx.s, tx.now) \in Int
        BY <2>1, CeremonyLeastOfTwo DEF Ceremony!Until
    <2>3. Ceremony!Until(tx.s, tx.now) > cClock /\ tx.now <= cClock
        BY <1>1
    <2>4. Ceremony!Until(tx.s, tx.now) \in Nat /\ Ceremony!Until(tx.s, tx.now) \in (tx.now + 1)..(tx.now + Window)
        BY <1>2, <2>2, <2>3 DEF Ceremony!CandidatesAssumption
    <2> QED BY <1>2, <2>4 DEF CeremonyCandRow, Ceremony!End
<1>4. old \in SUBSET DOMAIN cand
    OBVIOUS
<1>5. CeremonyCandsInv(K) /\ CeremonyFlowsInv(K, F) /\ \A d \in old : K[d].status # "PENDING"
    BY <1>4, CeremonyResolvedInv
<1>6. /\ DOMAIN K = DOMAIN cand /\ DOMAIN F = DOMAIN flow
      /\ \A d \in DOMAIN cand : d \notin old => K[d] = cand[d]
      /\ \A d \in DOMAIN flow : F[d].id = flow[d].id /\ F[d].reviewer = flow[d].reviewer
    <2>1. CeremonyIInv
        OBVIOUS
    <2> HIDE DEF old
    <2> QED BY ONLY <1>4, <2>1, CeremonyResolvedRows
<1>7. \A d \in DOMAIN cand : K[d].status # "PENDING" /\ (cand[d].status # "PENDING" => d \notin old)
    <2>1. \A d \in DOMAIN cand : d \notin old => cand[d].status # "PENDING"
        BY <1>1 DEF Ceremony!NonePending, Ceremony!Pending
    <2>2. \A d \in old : cand[d].status = "PENDING"
        BY DEF Ceremony!Pending
    <2> HIDE DEF old, K
    <2> QED BY <1>5, <1>6, <2>1, <2>2
<1> HIDE DEF c, old, K, F, new
<1>8. /\ DOMAIN cand' = DOMAIN cand \cup {c} /\ cand'[c] = new
      /\ \A d \in DOMAIN cand : cand'[d] = K[d]
    BY <1>1
<1>9. CeremonyCandsInv(cand')
    <2>1. \A d \in DOMAIN cand' : /\ cand'[d] \in CeremonyCandRow
                                  /\ cand'[d].until \in (cand'[d].created + 1)..(cand'[d].created + Window)
        BY <1>3, <1>5, <1>6, <1>8 DEF CeremonyCandsInv
    <2>2. \A d, e \in DOMAIN cand' : cand'[d].status = "PENDING" /\ cand'[e].status = "PENDING" => d = e
        BY <1>7, <1>8
    <2>3. DOMAIN cand' \subseteq Candidates
        BY <1>2, <1>5, <1>6, <1>8 DEF CeremonyCandsInv, c
    <2> QED BY <2>1, <2>2, <2>3 DEF CeremonyCandsInv
<1>10. CeremonyFlowsInv(cand', flow')
    <2>1. \A d \in DOMAIN F : d \in DOMAIN cand /\ cand'[d] = K[d]
        BY <1>5, <1>6, <1>8 DEF CeremonyFlowsInv
    <2> QED BY <1>1, <1>5, <1>8, <2>1 DEF CeremonyFlowsInv
<1>11. CeremonyPersist
    BY <1>1, <1>6, <1>7, <1>8 DEF CeremonyPersist
<1>12. CeremonyRowsInv' /\ CeremonyRecordsInv'
    BY <1>1, <1>9, <1>10, <1>11, CeremonyRecordsKept DEF CeremonyRowsInv, CeremonyIInv
<1>13. "pending" \in Ceremony!Positive /\ c \in Candidates
    BY <1>2 DEF Ceremony!Positive, c
<1> QED BY <1>1, <1>12, <1>13, CeremonyDoneStep

\* A new flow does not outlive its candidate, has time left and a name that no
\* flow ever had.
LEMMA CeremonyOpenEffect ==
    ASSUME Ceremony!CandidatesAssumption, CeremonyIInv, Ceremony!Open
    PROVE  \E new \in CeremonyFlowRow :
              /\ new.status = "PENDING" /\ new.until <= cand[tx.c].until /\ new.until > cClock
              /\ \A d \in DOMAIN flow : flow[d].id # new.id
              /\ flow' = [d \in DOMAIN flow \cup {tx.c} |-> IF d = tx.c THEN new ELSE flow[d]]
<1> DEFINE c == tx.c
<1>1. tx.pc = "open" /\ c \in DOMAIN cand /\ Ceremony!Pending(c)
    BY DEF Ceremony!Open, Ceremony!Pending
<1>2. /\ tx.s \in Trusted /\ tx.now \in Nat /\ cClock \in Nat /\ version \in Nat
      /\ cand[c].until \in Nat /\ tx.other.until \in Nat /\ cSess[tx.s].until \in Nat
    <2>1. /\ tx.s \in Trusted /\ tx.now \in Nat /\ cClock \in Nat /\ version \in Nat /\ tx.other \in Ceremony!Row
          /\ cand[c] \in CeremonyCandRow /\ cSess[tx.s] \in Ceremony!Row
        BY <1>1, CeremonyTxFacts DEF CeremonyIInv, CeremonyAccountInv, CeremonyRowsInv,
           CeremonyCandsInv
    <2> QED BY <2>1 DEF Ceremony!Row, CeremonyCandRow
<1>3. PICK f \in Flows, t \in (tx.now - Window)..(tx.now + Drift) :
         LET new == [status |-> "PENDING", id |-> f, reviewer |-> tx.s, version |-> version,
                     created |-> tx.now, timestamp |-> t,
                     until |-> Ceremony!Least({cand[c].until, tx.other.until, cSess[tx.s].until,
                                      tx.now + Window, t + Window})] IN
         /\ Ceremony!Unused(f) /\ new.until > new.created /\ new.until > cClock
         /\ flow' = [d \in DOMAIN flow \cup {c} |-> IF d = c THEN new ELSE flow[d]]
    BY DEF Ceremony!Open
<1> DEFINE u == Ceremony!Least({cand[c].until, tx.other.until, cSess[tx.s].until, tx.now + Window, t + Window})
           new == [status |-> "PENDING", id |-> f, reviewer |-> tx.s, version |-> version,
                   created |-> tx.now, timestamp |-> t, until |-> u]
<1>4. t \in Int /\ tx.now + Window \in Int /\ t + Window \in Int
    BY <1>2 DEF Ceremony!CandidatesAssumption
<1>5. u \in Int /\ u <= cand[c].until
    <2>1. u \in {cand[c].until, tx.other.until, cSess[tx.s].until, tx.now + Window, t + Window}
          /\ u <= cand[c].until
        <3> DEFINE x1 == cand[c].until
                   x2 == tx.other.until
                   x3 == cSess[tx.s].until
                   x4 == tx.now + Window
                   x5 == t + Window
        <3>1. x1 \in Int /\ x2 \in Int /\ x3 \in Int /\ x4 \in Int /\ x5 \in Int
            BY <1>2, <1>4
        <3>2. u = Ceremony!Least({x1, x2, x3, x4, x5})
            OBVIOUS
        <3> HIDE DEF x1, x2, x3, x4, x5, u
        <3>3. u \in {x1, x2, x3, x4, x5} /\ u <= x1
            BY <3>1, <3>2, CeremonyLeastOfFive
        <3> QED BY <3>3 DEF x1, x2, x3, x4, x5
    <2> HIDE DEF u
    <2> QED BY <1>2, <1>4, <2>1
<1>6. /\ Ceremony!Unused(f) /\ new.until > new.created /\ new.until > cClock
      /\ flow' = [d \in DOMAIN flow \cup {c} |-> IF d = c THEN new ELSE flow[d]]
    BY <1>3
<1> HIDE DEF u
<1>7. u > tx.now /\ u > cClock
    BY <1>6
<1>8. u \in Nat
    BY <1>2, <1>5, <1>7
<1>9. new \in CeremonyFlowRow
    BY <1>2, <1>4, <1>8 DEF CeremonyFlowRow, Ceremony!End
<1>10. new.status = "PENDING" /\ new.until = u /\ new.id = f
    OBVIOUS
<1> HIDE DEF new
<1> QED BY <1>5, <1>6, <1>7, <1>9, <1>10 DEF Ceremony!Unused

\* A new flow keeps the invariant.
LEMMA CeremonyOpenStep ==
    ASSUME Ceremony!CandidatesAssumption, CeremonyIInv, Ceremony!Open PROVE CeremonyIInv'
<1> DEFINE c == tx.c
<1>1. /\ tx.pc # "idle" /\ c \in DOMAIN cand /\ cand[c].status = "PENDING" /\ c \notin DOMAIN flow
      /\ cand' = cand /\ tx' = Ceremony!Answer("admitted", c) /\ CeremonyAccounted /\ UNCHANGED <<told, delivered>>
    BY DEF Ceremony!Open, Ceremony!Pending, CeremonyAccounted
<1>2. PICK new \in CeremonyFlowRow :
         /\ new.status = "PENDING" /\ new.until <= cand[c].until
         /\ \A d \in DOMAIN flow : flow[d].id # new.id
         /\ flow' = [d \in DOMAIN flow \cup {c} |-> IF d = c THEN new ELSE flow[d]]
    BY CeremonyOpenEffect
<1> HIDE DEF c
<1>3. /\ DOMAIN flow' = DOMAIN flow \cup {c} /\ flow'[c] = new
      /\ \A d \in DOMAIN flow : flow'[d] = flow[d]
    BY <1>1, <1>2
<1>4. CeremonyFlowsInv(cand', flow')
    <2>1. \A d, e \in DOMAIN flow' : flow'[d].id = flow'[e].id => d = e
        BY <1>2, <1>3 DEF CeremonyIInv, CeremonyRowsInv, CeremonyFlowsInv
    <2>2. /\ DOMAIN flow' \subseteq DOMAIN cand'
          /\ \A d \in DOMAIN flow' : flow'[d] \in CeremonyFlowRow
        BY <1>1, <1>2, <1>3 DEF CeremonyIInv, CeremonyRowsInv, CeremonyFlowsInv
    <2>3. \A d \in DOMAIN flow' : flow'[d].status = "PENDING" =>
              cand'[d].status = "PENDING" /\ flow'[d].until <= cand'[d].until
        BY <1>1, <1>2, <1>3 DEF CeremonyIInv, CeremonyRowsInv, CeremonyFlowsInv
    <2> QED BY <2>1, <2>2, <2>3 DEF CeremonyFlowsInv
<1>5. CeremonyRowsInv' /\ CeremonyPersist
    BY <1>1, <1>3, <1>4 DEF CeremonyIInv, CeremonyRowsInv, CeremonyPersist
<1>6. CeremonyRecordsInv'
    BY <1>1, <1>5, CeremonyRecordsKept DEF CeremonyIInv
<1>7. c \in Candidates /\ "admitted" \in Ceremony!Positive
    BY <1>1, CeremonyTxFacts DEF Ceremony!Positive, c
<1> QED BY <1>1, <1>5, <1>6, <1>7, CeremonyDoneStep

\* There is one session at the other end, at most.
LEMMA CeremonyOthersFacts ==
    ASSUME NEW k, NEW c, NEW o \in Ceremony!Others(k, c), NEW p \in Ceremony!Others(k, c) PROVE o \in Trusted /\ o = p
BY DEF Ceremony!Others

\* A transaction that takes its locks keeps the invariant.
LEMMA CeremonyBeginStep ==
    ASSUME CeremonyIInv, NEW k \in Ceremony!Kinds, NEW c \in Candidates, NEW s \in Trusted, Ceremony!Begin(k, c, s) PROVE CeremonyIInv'
<1> DEFINE other == IF Ceremony!Others(k, c) = {} THEN Ceremony!AbsentSession ELSE cSess[CHOOSE o \in Ceremony!Others(k, c) : TRUE]
<1>1. /\ tx' = [pc |-> k, c |-> c, s |-> s, now |-> cClock, other |-> other]
      /\ UNCHANGED <<Ceremony!time, Ceremony!account, Ceremony!rows, told, delivered>>
    BY DEF Ceremony!Begin
<1>2. \A o \in Ceremony!Others(k, c) : cSess[o] = other
    BY CeremonyOthersFacts
<1>3. other \in Ceremony!Row
    <2>1. Ceremony!AbsentSession \in Ceremony!Row
        BY DEF Ceremony!AbsentSession, Ceremony!Row
    <2> QED BY <2>1, CeremonyOthersFacts DEF CeremonyIInv, CeremonyAccountInv
<1>4. Ceremony!Others(k, c)' = Ceremony!Others(k, c) /\ cSess' = cSess
    BY <1>1 DEF Ceremony!Others, Ceremony!rows, Ceremony!account
<1> HIDE DEF other
<1>5. tx' \in CeremonyTxOpen /\ tx'.pc = k /\ tx'.c = c /\ tx'.other = other
    BY <1>1, <1>3 DEF CeremonyTxOpen, CeremonyIInv, CeremonyAccountInv
<1>6. Ceremony!Others(tx.pc, tx.c)' = Ceremony!Others(k, c)
    BY <1>4, <1>5 DEF Ceremony!Others
<1>7. CeremonyTxInv'
    BY <1>2, <1>4, <1>5, <1>6 DEF CeremonyTxInv
<1>8. CeremonyAccountInv' /\ CeremonyRowsInv' /\ CeremonyRecordsInv'
    BY <1>1 DEF CeremonyIInv, CeremonyAccountInv, CeremonyRowsInv, CeremonyRecordsInv,
       Ceremony!account, Ceremony!time, Ceremony!rows
<1> QED BY <1>7, <1>8 DEF CeremonyIInv

\* A change of the account or the clock keeps the invariant if no session that
\* is locked and in force changes.
LEMMA CeremonyAccountStep ==
    ASSUME CeremonyIInv, UNCHANGED <<Ceremony!rows, tx, told, delivered>>, CeremonyAccountInv',
           tx.pc # "idle" => \A o \in Ceremony!Others(tx.pc, tx.c) : cSess[o].state = "live" => cSess'[o] = cSess[o]
    PROVE  CeremonyIInv'
<1>1. CeremonyRowsInv' /\ CeremonyRecordsInv'
    BY DEF CeremonyIInv, CeremonyRowsInv, CeremonyRecordsInv, Ceremony!rows
<1>2. tx' = tx /\ Ceremony!Others(tx.pc, tx.c)' = Ceremony!Others(tx.pc, tx.c)
    BY DEF Ceremony!Others, Ceremony!rows
<1>3. CeremonyTxInv'
    BY <1>2 DEF CeremonyIInv, CeremonyTxInv
<1> QED BY <1>1, <1>3 DEF CeremonyIInv

\* A login keeps the invariant.
LEMMA CeremonyLoginStep ==
    ASSUME Ceremony!CandidatesAssumption, CeremonyIInv, NEW s \in Trusted, Ceremony!Login(s) PROVE CeremonyIInv'
<1> DEFINE row == [state |-> "live", version |-> version, until |-> cClock + SessionTime, bound |-> FALSE]
<1>1. /\ cSess[s].state = "unused" /\ cSess' = [cSess EXCEPT ![s] = row]
      /\ UNCHANGED <<Ceremony!rows, tx, told, delivered>> /\ UNCHANGED <<Ceremony!time, changes, version, trusted>>
    BY DEF Ceremony!Login
<1>2. row \in Ceremony!Row /\ cSess \in [Trusted -> Ceremony!Row]
    BY DEF Ceremony!Row, CeremonyIInv, CeremonyAccountInv, Ceremony!CandidatesAssumption
<1> HIDE DEF row
<1>3. CeremonyAccountInv'
    BY <1>1, <1>2 DEF CeremonyIInv, CeremonyAccountInv, Ceremony!time
<1>4. \A o \in Trusted : cSess[o].state = "live" => cSess'[o] = cSess[o]
    BY <1>1, <1>2
<1> QED BY <1>1, <1>3, <1>4, CeremonyAccountStep, CeremonyOthersFacts

\* A session that is bound or ends keeps the invariant: a transaction holds the
\* row it read.
LEMMA CeremonyLogoutStep ==
    ASSUME CeremonyIInv, NEW s \in Trusted, Ceremony!BindSession(s) \/ Ceremony!Logout(s) PROVE CeremonyIInv'
<1>1. /\ UNCHANGED <<Ceremony!rows, tx, told, delivered>> /\ UNCHANGED <<Ceremony!time, changes, version, trusted>>
      /\ cSess' = [cSess EXCEPT ![s].bound = TRUE] \/ cSess' = [cSess EXCEPT ![s].state = "ended"]
      /\ tx.pc # "idle" => s \notin Ceremony!Others(tx.pc, tx.c)
    BY DEF Ceremony!BindSession, Ceremony!Logout, Ceremony!Locked
<1>2. cSess \in [Trusted -> Ceremony!Row]
    BY DEF CeremonyIInv, CeremonyAccountInv
<1>3. cSess' \in [Trusted -> Ceremony!Row] /\ \A o \in Trusted \ {s} : cSess'[o] = cSess[o]
    <2>1. CASE cSess' = [cSess EXCEPT ![s].bound = TRUE]
        BY <1>2, <2>1 DEF Ceremony!Row
    <2>2. CASE cSess' = [cSess EXCEPT ![s].state = "ended"]
        BY <1>2, <2>2 DEF Ceremony!Row
    <2> QED BY <1>1, <2>1, <2>2
<1>4. CeremonyAccountInv'
    BY <1>1, <1>3 DEF CeremonyIInv, CeremonyAccountInv, Ceremony!time
<1> QED BY <1>1, <1>3, <1>4, CeremonyAccountStep, CeremonyOthersFacts

\* A reset and a revocation keep the invariant: they wait for the lock of the
\* account's devices.
LEMMA CeremonyChangeStep ==
    ASSUME CeremonyIInv, Ceremony!ResetPassword \/ Ceremony!Revoke PROVE CeremonyIInv'
<1>1. /\ UNCHANGED <<Ceremony!rows, tx, told, delivered>> /\ Ceremony!time' = Ceremony!time /\ tx.pc = "idle"
      /\ changes' = changes + 1 /\ version' \in {version, version + 1} /\ trusted' \in {trusted, FALSE}
      /\ \E S \in SUBSET Trusted : cSess' = Ceremony!Ended(S)
    BY DEF Ceremony!ResetPassword, Ceremony!Revoke
<1>2. ASSUME NEW S \in SUBSET Trusted PROVE Ceremony!Ended(S) \in [Trusted -> Ceremony!Row]
    <2>1. ASSUME NEW o \in Trusted
          PROVE  (IF o \in S /\ cSess[o].state = "live" THEN [cSess[o] EXCEPT !.state = "ended"] ELSE cSess[o]) \in Ceremony!Row
        BY DEF CeremonyIInv, CeremonyAccountInv, Ceremony!Row
    <2> QED BY <2>1 DEF Ceremony!Ended
<1>3. CeremonyAccountInv'
    <2>1. /\ cClock' \in Nat /\ rollbacks' \in Nat /\ changes' \in Nat /\ version' \in Nat
          /\ cSess' \in [Trusted -> Ceremony!Row]
        BY <1>1, <1>2 DEF CeremonyIInv, CeremonyAccountInv, Ceremony!time
    <2>2. trusted' \in BOOLEAN
        BY <1>1, Zenon DEF CeremonyIInv, CeremonyAccountInv
    <2> QED BY <2>1, <2>2 DEF CeremonyAccountInv
<1> QED BY <1>1, <1>3, CeremonyAccountStep

\* Time that passes, or is set back, keeps the invariant.
LEMMA CeremonyTickStep ==
    ASSUME CeremonyIInv, Ceremony!Tick PROVE CeremonyIInv'
<1>1. UNCHANGED <<Ceremony!account, Ceremony!rows, tx, told, delivered>> /\ cClock' \in Nat /\ rollbacks' \in Nat
    BY DEF Ceremony!Tick, CeremonyIInv, CeremonyAccountInv
<1>2. CeremonyAccountInv' /\ cSess' = cSess
    BY <1>1 DEF CeremonyIInv, CeremonyAccountInv, Ceremony!account
<1> QED BY <1>1, <1>2, CeremonyAccountStep

\* The invariant holds at the start.
LEMMA CeremonyInitInv ==
    ASSUME Ceremony!Init PROVE CeremonyIInv
<1>1. CeremonyAccountInv
    BY DEF Ceremony!Init, CeremonyAccountInv, Ceremony!AbsentSession, Ceremony!Row
<1>2. DOMAIN cand = {} /\ DOMAIN flow = {}
    BY DEF Ceremony!Init
<1>3. CeremonyRowsInv
    BY <1>2 DEF CeremonyRowsInv, CeremonyCandsInv, CeremonyFlowsInv
<1>4. CeremonyRecordsInv /\ CeremonyTxInv
    BY DEF Ceremony!Init, CeremonyRecordsInv, CeremonyTxInv, Ceremony!Silent
<1> QED BY <1>1, <1>3, <1>4 DEF CeremonyIInv

\* A step that changes nothing keeps the invariant.
LEMMA CeremonyStutterStep ==
    ASSUME CeremonyIInv, UNCHANGED Ceremony!vars PROVE CeremonyIInv'
<1>1. /\ UNCHANGED <<Ceremony!rows, tx, told, delivered>> /\ cSess' = cSess
      /\ UNCHANGED <<cClock, rollbacks, changes, version, trusted>>
    BY DEF Ceremony!vars, Ceremony!time, Ceremony!account
<1>2. CeremonyAccountInv'
    BY <1>1 DEF CeremonyIInv, CeremonyAccountInv
<1> QED BY <1>1, <1>2, CeremonyAccountStep

\* The invariant holds in every reachable state, for any number of sessions,
\* candidates and flows.
THEOREM CeremonyInvariance ==
    ASSUME Ceremony!CandidatesAssumption PROVE Ceremony!Spec => []CeremonyIInv
<1>1. CeremonyIInv /\ [Ceremony!Next]_(Ceremony!vars) => CeremonyIInv'
    BY CeremonyLoginStep, CeremonyLogoutStep, CeremonyChangeStep, CeremonyTickStep,
       CeremonyBeginStep, CeremonyNothingStep, CeremonyStatusStep, CeremonyReserveStep,
       CeremonyAskedStep, CeremonyExpiryStep, CeremonyPollDeliversStep, CeremonyShownStep,
       CeremonyOpenStep, CeremonyStutterStep DEF Ceremony!Next
<1> QED BY <1>1, CeremonyInitInv, PTL DEF Ceremony!Spec

\* Inside the instance the cardinality has a name of its own.
LEMMA CeremonySize ==
    ASSUME NEW S PROVE Ceremony!Cardinality(S) = Cardinality(S)
BY DEF Ceremony!Cardinality, Cardinality

\* A set whose elements are all the same has one of them, at most.
LEMMA CeremonyAtMostOne ==
    ASSUME NEW S, \A x, y \in S : x = y PROVE Cardinality(S) <= 1
<1>1. CASE S = {}
    BY <1>1, FS_EmptySet
<1>2. CASE S # {}
    <2>1. PICK x \in S : TRUE
        BY <1>2
    <2>2. S = {x}
        BY <2>1
    <2> QED BY <2>2, FS_Singleton
<1> QED BY <1>1, <1>2

\* Whatever the two browsers ask for, in whatever order and with the clock set
\* back: one candidate of an account is open, no flow outlives its candidate,
\* and all that is ever delivered for a candidate is one request (reserve, open
\* and poll).
THEOREM CeremonyIsSafe ==
    ASSUME Ceremony!CandidatesAssumption PROVE Ceremony!Spec => []CeremonySafe
<1>1. ASSUME CeremonyIInv PROVE CeremonySafe
    <2>1. Ceremony!TypeOK
        BY <1>1 DEF CeremonyIInv, CeremonyAccountInv, CeremonyRowsInv, CeremonyCandsInv,
           CeremonyFlowsInv, CeremonyRecordsInv, CeremonyTxInv, Ceremony!TypeOK,
                    CeremonyCandRow, CeremonyFlowRow, CeremonyTxOpen
    <2>2. Ceremony!OnePending
        BY <1>1, CeremonyAtMostOne, CeremonySize DEF CeremonyIInv, CeremonyRowsInv,
           CeremonyCandsInv, Ceremony!OnePending, Ceremony!Pending
    <2>3. Ceremony!FlowEndsWithCandidate
        BY <1>1 DEF CeremonyIInv, CeremonyRowsInv, CeremonyFlowsInv, Ceremony!FlowEndsWithCandidate,
           Ceremony!FlowPending, Ceremony!Pending
    <2>4. Ceremony!OneRequest
        <3> SUFFICES ASSUME NEW x \in delivered, NEW y \in delivered, x.cand = y.cand \/ x.id = y.id
                     PROVE  x = y
            BY DEF Ceremony!OneRequest
        <3>1. x.cand = y.cand /\ x.id = y.id /\ x.reviewer = y.reviewer
            BY <1>1 DEF CeremonyIInv, CeremonyRowsInv, CeremonyFlowsInv, CeremonyRecordsInv
        <3>2. /\ x \in [cand : Candidates, id : Flows, reviewer : Trusted]
              /\ y \in [cand : Candidates, id : Flows, reviewer : Trusted]
            BY <1>1 DEF CeremonyIInv, CeremonyRecordsInv
        <3> QED BY <3>1, <3>2
    <2> QED BY <2>1, <2>2, <2>3, <2>4 DEF CeremonySafe, Ceremony!CeremonySafe
<1> QED BY <1>1, CeremonyInvariance, PTL

\* A session that was in force when the transaction read it, and has time left,
\* is in force when the transaction commits.
LEMMA CeremonyReadHolds ==
    ASSUME CeremonyIInv, tx.pc # "idle", NEW o \in Ceremony!Others(tx.pc, tx.c), NEW b, NEW t,
           Ceremony!CurrentRow(tx.other, b, t), tx.other.until > cClock
    PROVE  Ceremony!Current(o, b, cClock)
<1>1. cSess[o] = tx.other
    BY DEF CeremonyIInv, CeremonyTxInv, Ceremony!CurrentRow
<1> QED BY <1>1 DEF Ceremony!Current, Ceremony!CurrentRow

\* The session that asks for its own candidate is the candidate's.
LEMMA CeremonyOwnAnswer ==
    ASSUME CeremonyIInv, NEW c \in DOMAIN cand, Ceremony!Own(c), Ceremony!Current(tx.s, FALSE, cClock)
    PROVE  Ceremony!Current(cand[c].ses, FALSE, cClock)
BY DEF Ceremony!Own

\* The operations that give an answer to rely on.
LEMMA CeremonyAnswerCases ==
    ASSUME CeremonyIInv, Ceremony!Next, tx.pc # "idle", tx'.pc = "idle", tx'.says \in Ceremony!Positive
    PROVE  \/ (Ceremony!Status \/ Ceremony!ReserveAgain) /\ tx' # Ceremony!Silent
           \/ Ceremony!Reserve \/ Ceremony!PollDelivers \/ Ceremony!ReviewShows \/ Ceremony!OpenAgain \/ Ceremony!Open
<1>1. tx' # Ceremony!Silent
    BY DEF Ceremony!Silent, Ceremony!Positive
<1>2. ASSUME NEW s \in Trusted, Ceremony!Login(s) \/ Ceremony!BindSession(s) \/ Ceremony!Logout(s) PROVE FALSE
    BY <1>2 DEF Ceremony!Login, Ceremony!BindSession, Ceremony!Logout
<1>3. ASSUME Ceremony!ResetPassword \/ Ceremony!Revoke \/ Ceremony!Tick PROVE FALSE
    BY <1>3 DEF Ceremony!ResetPassword, Ceremony!Revoke, Ceremony!Tick
<1>4. ASSUME NEW k \in Ceremony!Kinds, NEW c \in Candidates, NEW s \in Trusted, Ceremony!Begin(k, c, s) PROVE FALSE
    BY <1>4 DEF Ceremony!Begin
<1>5. ASSUME Ceremony!Nothing \/ Ceremony!Cancel \/ Ceremony!PollExpired \/ Ceremony!ReviewExpired \/ Ceremony!Reject \/ Ceremony!OpenExpired PROVE FALSE
    BY <1>1, <1>5 DEF Ceremony!Nothing, Ceremony!Cancel, Ceremony!PollExpired,
       Ceremony!ReviewExpired, Ceremony!Reject, Ceremony!OpenExpired
<1> QED BY <1>1, <1>2, <1>3, <1>4, <1>5 DEF Ceremony!Next

\* What the answer says is true when it is given: the step of AnswersInForce.
CeremonyAnswerTrue ==
    LET c == tx.c IN
    /\ cand'[c].status = "PENDING" /\ cand'[c].until > cClock
    /\ Ceremony!Current(cand'[c].ses, FALSE, cClock)
    /\ tx'.says \in {"admitted", "delivered"} => flow'[c].status = "PENDING" /\ flow'[c].until > cClock
    /\ tx'.says = "delivered" => trusted /\ Ceremony!Current(flow[c].reviewer, TRUE, cClock)

\* Every answer is true when it is given, and about a candidate that was never
\* told to be expired.
LEMMA CeremonyAnswersTrue ==
    ASSUME Ceremony!CandidatesAssumption, CeremonyIInv, Ceremony!Next, tx.pc # "idle", tx'.pc = "idle", tx'.says \in Ceremony!Positive
    PROVE  CeremonyAnswerTrue /\ tx'.c = tx.c /\ tx.c \notin told
<1> DEFINE c == tx.c
<1>0. /\ cClock \in Nat /\ c \in Candidates /\ tx.s \in Trusted
      /\ \A d \in DOMAIN cand : cand[d].until \in Nat /\ cand[d].ses \in Trusted
      /\ \A d \in DOMAIN flow : flow[d].until \in Nat /\ flow[d].reviewer \in Trusted
      /\ \A d \in told : d \in DOMAIN cand /\ cand[d].status # "PENDING"
    BY CeremonyTxFacts DEF CeremonyIInv, CeremonyAccountInv, CeremonyRowsInv, CeremonyCandsInv,
       CeremonyFlowsInv, CeremonyCandRow, CeremonyFlowRow, CeremonyRecordsInv
<1>1. ASSUME Ceremony!Status \/ Ceremony!ReserveAgain, tx' # Ceremony!Silent PROVE CeremonyAnswerTrue /\ tx'.c = c /\ c \notin told
    <2>1. c \in DOMAIN cand /\ Ceremony!Report(c) /\ Ceremony!Own(c) /\ Ceremony!Current(tx.s, FALSE, cClock)
        BY <1>1 DEF Ceremony!Status, Ceremony!ReserveAgain, Ceremony!Own
    <2>2. /\ tx' = Ceremony!Answer("pending", c) /\ UNCHANGED Ceremony!rows
          /\ cand[c].status = "PENDING" /\ cand[c].until > cClock
        BY <1>1, <2>1, CeremonyReportEffect
    <2>3. tx'.says = "pending" /\ tx'.c = c /\ cand' = cand
        BY <2>2 DEF Ceremony!Answer, Ceremony!rows
    <2>4. Ceremony!Current(cand[c].ses, FALSE, cClock)
        BY <2>1, CeremonyOwnAnswer
    <2> QED BY <1>0, <2>2, <2>3, <2>4 DEF CeremonyAnswerTrue
<1>2. ASSUME Ceremony!Reserve PROVE CeremonyAnswerTrue /\ tx'.c = c /\ c \notin told
    <2> DEFINE new == [status |-> "PENDING", ses |-> tx.s, version |-> version,
                       created |-> tx.now, until |-> Ceremony!Until(tx.s, tx.now)]
    <2>1. /\ tx' = Ceremony!Answer("pending", c) /\ c \notin DOMAIN cand /\ Ceremony!Current(tx.s, FALSE, cClock)
          /\ cand'[c] = new /\ new.until > cClock
        BY <1>2 DEF Ceremony!Reserve
    <2>2. tx'.says = "pending" /\ tx'.c = c
        BY <2>1 DEF Ceremony!Answer
    <2>3. cand'[c].status = "PENDING" /\ cand'[c].ses = tx.s /\ cand'[c].until > cClock
        BY <2>1
    <2>4. Ceremony!Current(cand'[c].ses, FALSE, cClock)
        BY <2>1, <2>3
    <2> QED BY <1>0, <2>1, <2>2, <2>3, <2>4 DEF CeremonyAnswerTrue
<1>3. ASSUME Ceremony!PollDelivers PROVE CeremonyAnswerTrue /\ tx'.c = c /\ c \notin told
    <2>1. /\ tx' = Ceremony!Answer("delivered", c) /\ UNCHANGED Ceremony!rows /\ trusted
          /\ c \in DOMAIN cand /\ cand[c].status = "PENDING" /\ c \in DOMAIN flow /\ flow[c].status = "PENDING"
          /\ Ceremony!Own(c) /\ Ceremony!Current(tx.s, FALSE, cClock) /\ ~Ceremony!NeedsExpiration(c, cClock)
          /\ tx.pc = "poll" /\ Ceremony!CurrentRow(tx.other, TRUE, tx.now) /\ tx.other.until > cClock
        BY <1>3 DEF Ceremony!PollDelivers, Ceremony!Pending, Ceremony!FlowPending
    <2>2. tx'.says = "delivered" /\ tx'.c = c /\ cand' = cand /\ flow' = flow
        BY <2>1 DEF Ceremony!Answer, Ceremony!rows
    <2>3. cand[c].until > cClock /\ flow[c].until > cClock
        BY <1>0, <2>1 DEF Ceremony!NeedsExpiration, Ceremony!Pending, Ceremony!FlowPending
    <2>4. flow[c].reviewer \in Ceremony!Others(tx.pc, tx.c)
        BY <1>0, <2>1 DEF Ceremony!Others
    <2>5. Ceremony!Current(flow[c].reviewer, TRUE, cClock)
        BY <2>1, <2>4, CeremonyReadHolds
    <2>6. Ceremony!Current(cand[c].ses, FALSE, cClock)
        BY <2>1, CeremonyOwnAnswer
    <2> QED BY <1>0, <2>1, <2>2, <2>3, <2>5, <2>6 DEF CeremonyAnswerTrue
<1>4. ASSUME tx.pc \in {"review", "open"}, c \in DOMAIN cand, Ceremony!RequesterValid(c), tx.other.until > cClock
      PROVE  Ceremony!Current(cand[c].ses, FALSE, cClock)
    <2>1. cand[c].ses \in Ceremony!Others(tx.pc, tx.c)
        BY <1>0, <1>4 DEF Ceremony!Others
    <2> QED BY <1>4, <2>1, CeremonyReadHolds DEF Ceremony!RequesterValid
<1>5. ASSUME Ceremony!ReviewShows PROVE CeremonyAnswerTrue /\ tx'.c = c /\ c \notin told
    <2>1. /\ tx' = Ceremony!Answer("shown", c) /\ UNCHANGED Ceremony!rows /\ tx.pc = "review"
          /\ c \in DOMAIN cand /\ cand[c].status = "PENDING"
          /\ Ceremony!RequesterValid(c) /\ tx.other.until > cClock /\ cand[c].until > cClock
        BY <1>5 DEF Ceremony!ReviewShows, Ceremony!Pending
    <2>2. tx'.says = "shown" /\ tx'.c = c /\ cand' = cand
        BY <2>1 DEF Ceremony!Answer, Ceremony!rows
    <2> QED BY <1>0, <1>4, <2>1, <2>2 DEF CeremonyAnswerTrue
<1>6. ASSUME Ceremony!OpenAgain PROVE CeremonyAnswerTrue /\ tx'.c = c /\ c \notin told
    <2>1. /\ tx' = Ceremony!Answer("admitted", c) /\ UNCHANGED Ceremony!rows /\ tx.pc = "open"
          /\ c \in DOMAIN cand /\ cand[c].status = "PENDING" /\ c \in DOMAIN flow /\ flow[c].status = "PENDING"
          /\ Ceremony!RequesterValid(c) /\ tx.other.until > cClock /\ ~Ceremony!NeedsExpiration(c, cClock)
        BY <1>6 DEF Ceremony!OpenAgain, Ceremony!Pending, Ceremony!FlowPending
    <2>2. tx'.says = "admitted" /\ tx'.c = c /\ cand' = cand /\ flow' = flow
        BY <2>1 DEF Ceremony!Answer, Ceremony!rows
    <2>3. cand[c].until > cClock /\ flow[c].until > cClock
        BY <1>0, <2>1 DEF Ceremony!NeedsExpiration, Ceremony!Pending, Ceremony!FlowPending
    <2> QED BY <1>0, <1>4, <2>1, <2>2, <2>3 DEF CeremonyAnswerTrue
<1>7. ASSUME Ceremony!Open PROVE CeremonyAnswerTrue /\ tx'.c = c /\ c \notin told
    <2>1. /\ tx' = Ceremony!Answer("admitted", c) /\ cand' = cand /\ tx.pc = "open"
          /\ c \in DOMAIN cand /\ cand[c].status = "PENDING"
          /\ Ceremony!RequesterValid(c) /\ tx.other.until > cClock
        BY <1>7 DEF Ceremony!Open, Ceremony!Pending
    <2>2. tx'.says = "admitted" /\ tx'.c = c
        BY <2>1 DEF Ceremony!Answer
    <2>3. PICK new \in CeremonyFlowRow : /\ new.status = "PENDING" /\ new.until <= cand[c].until /\ new.until > cClock
                                 /\ flow' = [d \in DOMAIN flow \cup {c} |-> IF d = c THEN new ELSE flow[d]]
        BY <1>7, CeremonyOpenEffect
    <2>4. flow'[c] = new /\ cand[c].until > cClock
        BY <1>0, <2>1, <2>3 DEF CeremonyFlowRow
    <2> QED BY <1>0, <1>4, <2>1, <2>2, <2>3, <2>4 DEF CeremonyAnswerTrue
<1> QED BY <1>1, <1>2, <1>3, <1>5, <1>6, <1>7, CeremonyAnswerCases

\* Between two transactions nobody is answered.
LEMMA CeremonyNoAnswer ==
    ASSUME [Ceremony!Next]_(Ceremony!vars), tx.pc = "idle", tx'.pc = "idle" PROVE tx' = tx
<1>1. ASSUME NEW k \in Ceremony!Kinds, NEW c \in Candidates, NEW s \in Trusted, Ceremony!Begin(k, c, s) PROVE FALSE
    BY <1>1 DEF Ceremony!Begin, Ceremony!Kinds
<1>2. ASSUME NEW s \in Trusted, Ceremony!Login(s) \/ Ceremony!BindSession(s) \/ Ceremony!Logout(s) PROVE tx' = tx
    BY <1>2 DEF Ceremony!Login, Ceremony!BindSession, Ceremony!Logout
<1>3. ASSUME Ceremony!ResetPassword \/ Ceremony!Revoke \/ Ceremony!Tick \/ UNCHANGED Ceremony!vars PROVE tx' = tx
    BY <1>3 DEF Ceremony!ResetPassword, Ceremony!Revoke, Ceremony!Tick, Ceremony!vars
<1>4. ASSUME Ceremony!Nothing \/ Ceremony!Status \/ Ceremony!ReserveAgain \/ Ceremony!Reserve \/ Ceremony!Cancel \/ Ceremony!PollExpired \/ Ceremony!PollDelivers
             \/ Ceremony!ReviewExpired \/ Ceremony!ReviewShows \/ Ceremony!Reject \/ Ceremony!OpenExpired \/ Ceremony!OpenAgain \/ Ceremony!Open
      PROVE  FALSE
    BY <1>4 DEF Ceremony!Nothing, Ceremony!Status, Ceremony!ReserveAgain, Ceremony!Reserve,
       Ceremony!Cancel, Ceremony!PollExpired, Ceremony!PollDelivers,
                Ceremony!ReviewExpired, Ceremony!ReviewShows, Ceremony!Reject, Ceremony!OpenExpired,
                Ceremony!OpenAgain, Ceremony!Open
<1> QED BY <1>1, <1>2, <1>3, <1>4 DEF Ceremony!Next

\* Every answer of reserve, status, review, open and poll is true when its
\* transaction commits, whatever passed while it held its locks, and after an
\* expiry was reported none says that the candidate is open.
THEOREM AnswersDoHold ==
    ASSUME Ceremony!CandidatesAssumption PROVE Ceremony!Spec => AnswersHold
<1>1. ASSUME CeremonyIInv, [Ceremony!Next]_(Ceremony!vars)
      PROVE  [tx.pc # "idle" /\ tx'.pc = "idle" /\ tx'.says \in Ceremony!Positive =>
                LET c == tx.c IN
                /\ cand'[c].status = "PENDING" /\ cand'[c].until > cClock
                /\ Ceremony!Current(cand'[c].ses, FALSE, cClock)
                /\ tx'.says \in {"admitted", "delivered"} => flow'[c].status = "PENDING" /\ flow'[c].until > cClock
                /\ tx'.says = "delivered" => trusted /\ Ceremony!Current(flow[c].reviewer, TRUE, cClock)]_(Ceremony!vars)
    BY <1>1, CeremonyAnswersTrue DEF CeremonyAnswerTrue
<1>2. ASSUME CeremonyIInv, [Ceremony!Next]_(Ceremony!vars)
      PROVE  [tx'.pc = "idle" /\ tx'.says \in Ceremony!Positive /\ tx' # tx => tx'.c \notin told]_(Ceremony!vars)
    <2>1. CASE tx.pc = "idle"
        BY <1>2, <2>1, CeremonyNoAnswer
    <2>2. CASE tx.pc # "idle"
        BY <1>2, <2>2, CeremonyAnswersTrue
    <2> QED BY <2>1, <2>2
<1> QED BY <1>1, <1>2, CeremonyInvariance, PTL DEF AnswersHold, Ceremony!AnswersHold, Ceremony!AnswersInForce,
        Ceremony!ExpiryLatched, Ceremony!Spec
=============================================================================
