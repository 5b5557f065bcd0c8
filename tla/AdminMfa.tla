------------------------------ MODULE AdminMfa ------------------------------
(***************************************************************************)
(* The second factor of one administrator (auth/admin-mfa.service.ts):     *)
(* passkeys, the challenges of their ceremonies, recovery codes, and the   *)
(* instant at which each session was verified.                             *)
(*                                                                         *)
(* A call first gets its principal from the guards and reads the challenge *)
(* and the passkey it is about (Begin...), spends time on cryptography,    *)
(* and then runs a transaction that holds the row of the administrator.    *)
(* It commits as one action, or it is refused: the ones that decide by     *)
(* what they read are serializable.                                        *)
(***************************************************************************)
EXTENDS Naturals, FiniteSets

CONSTANTS
    Sessions, Keys, Calls,
    MaxKeys,               \* MAX_ADMIN_PASSKEYS
    StepUp, ChallengeTime, \* lifetimes of a verification and of a challenge
    MaxChallenges, MaxClock, MaxBatches   \* bounds

MfaAssumption ==
    /\ MaxKeys \in Nat \ {0} /\ StepUp \in Nat \ {0} /\ ChallengeTime \in Nat \ {0}
    /\ MaxChallenges \in Nat /\ MaxClock \in Nat /\ MaxBatches \in Nat

VARIABLES
    clock,
    sess,        \* in force, instant of the verification (0: none) and the
                 \* recoveries before it
    key,         \* passkeys: their state and their counter
    chals,       \* challenges
    batch,       \* packages of recovery codes issued
    codes,       \* the package whose codes can be used, 0 if there is none
    recoveries,
    call

vars == <<clock, sess, key, chals, batch, codes, recoveries, call>>

Purposes == {"registration", "authentication"}
Challenge == [n : 1..MaxChallenges, ses : Sessions, purpose : Purposes, until : Nat,
              open : BOOLEAN, uses : Nat]

Active == {k \in Keys : key[k].state = "active"}
Live(s) == sess[s].state = "live"

Init ==
    /\ clock = 1
    /\ sess = [s \in Sessions |-> [state |-> "unused", mfa |-> 0, since |-> 0]]
    /\ key = [k \in Keys |-> [state |-> "new", counter |-> 0]]
    /\ chals = {} /\ batch = 0 /\ codes = 0 /\ recoveries = 0
    /\ call = [c \in Calls |-> [pc |-> "idle"]]

\* assertRecentMfaAt: strictly younger than the limit.
Recent(mfa, now) == mfa # 0 /\ mfa + StepUp > now /\ mfa <= now

\* A session opened with the password is not verified.
Login(s) ==
    /\ sess[s].state = "unused"
    /\ sess' = [sess EXCEPT ![s].state = "live"]
    /\ UNCHANGED <<clock, key, chals, batch, codes, recoveries, call>>

\* logout, revokeOwnAdminSession, revokeOtherAdminSessions and the time-outs.
EndSession(s) ==
    /\ Live(s)
    /\ sess' = [sess EXCEPT ![s].state = "ended"]
    /\ UNCHANGED <<clock, key, chals, batch, codes, recoveries, call>>

\* registrationOptions and authenticationOptions may start a ceremony.
OptionsAllowed(s, purpose) ==
    IF purpose = "authentication" THEN Active # {}
    ELSE /\ Active # {} => Recent(sess[s].mfa, clock)
         /\ Cardinality(Active) < MaxKeys

\* What a call read before its transaction: its principal, the challenge, the
\* passkey or the code.
Begin(c, read) ==
    /\ call[c].pc = "idle" /\ Live(read.ses)
    /\ call' = [call EXCEPT ![c] = read]
    /\ UNCHANGED <<clock, sess, key, chals, batch, codes, recoveries>>

BeginOptions(c) ==
    \E s \in Sessions, p \in Purposes :
        OptionsAllowed(s, p) /\ Begin(c, [pc |-> "options", ses |-> s, purpose |-> p])

\* persistChallenge replaces the open challenge of the session and purpose.
\* It does not ask whether the session is still in force.
PersistChallenge(c) ==
    LET s == call[c].ses
        p == call[c].purpose IN
    /\ call[c].pc = "options" /\ Cardinality(chals) < MaxChallenges
    /\ chals' = {IF d.ses = s /\ d.purpose = p THEN [d EXCEPT !.open = FALSE] ELSE d : d \in chals}
                \cup {[n |-> Cardinality(chals) + 1, ses |-> s, purpose |-> p,
                       until |-> clock + ChallengeTime, open |-> TRUE, uses |-> 0]}
    /\ call' = [call EXCEPT ![c] = [pc |-> "idle"]]
    /\ UNCHANGED <<clock, sess, key, batch, codes, recoveries>>

\* readChallenge
Readable(d, s, purpose) == d.ses = s /\ d.purpose = purpose /\ d.open /\ d.until > clock

BeginRegistration(c) ==
    \E s \in Sessions, k \in Keys, d \in chals :
        /\ Readable(d, s, "registration") /\ key[k].state = "new"
        /\ Begin(c, [pc |-> "registration", ses |-> s, mfa |-> sess[s].mfa, chal |-> d.n, key |-> k])

BeginAuthentication(c) ==
    \E s \in Sessions, k \in Active, d \in chals :
        /\ Readable(d, s, "authentication")
        /\ Begin(c, [pc |-> "authentication", ses |-> s, chal |-> d.n, key |-> k,
                     counter |-> key[k].counter])

\* A session that is verified cannot recover.
BeginRecovery(c) ==
    \E s \in Sessions :
        /\ sess[s].mfa = 0 /\ codes # 0
        /\ Begin(c, [pc |-> "recovery", ses |-> s, codes |-> codes])

\* RolesGuard and AdminMfaRecentGuard.
BeginRevocation(c) ==
    \E s \in Sessions, k \in Active :
        /\ Recent(sess[s].mfa, clock)
        /\ Begin(c, [pc |-> "revocation", ses |-> s, key |-> k])

-----------------------------------------------------------------------------
(* The transactions                                                        *)

\* Mutant: a challenge that was read is good.
ConsumableAgain(c) == \E d \in chals : d.n = call[c].chal /\ d.until > clock

\* consumeChallenge
Consumable(c) == \E d \in chals : d.n = call[c].chal /\ d.open /\ d.until > clock

Consume(c) ==
    chals' = {IF d.n = call[c].chal THEN [d EXCEPT !.open = FALSE, !.uses = @ + 1] ELSE d : d \in chals}

\* Mutant: the session holds the end of its verification.
VerifiedUntil(s) == [sess EXCEPT ![s].mfa = clock + StepUp, ![s].since = recoveries]

Verified(s) == [sess EXCEPT ![s].mfa = clock, ![s].since = recoveries]

\* Mutant: the limit is left to registrationOptions.
RoomUnchecked(c) == Active # {} => Recent(call[c].mfa, clock)

\* Mutant: the age of the verification is left to registrationOptions.
RoomForVerified(c) == Cardinality(Active) < MaxKeys /\ (Active # {} => call[c].mfa # 0)

\* What verifyRegistration checks again under the lock.
Room(c) == Cardinality(Active) < MaxKeys /\ (Active # {} => Recent(call[c].mfa, clock))

RegistrationAllowed(c) ==
    Room(c) /\ Consumable(c) /\ Live(call[c].ses) /\ key[call[c].key].state = "new"

\* The first passkey comes with a new package of recovery codes.
VerifyRegistration(c) ==
    /\ call[c].pc = "registration" /\ RegistrationAllowed(c)
    /\ batch < MaxBatches \/ Active # {}
    /\ Consume(c)
    /\ key' = [key EXCEPT ![call[c].key].state = "active"]
    /\ sess' = Verified(call[c].ses)
    /\ IF Active = {} THEN batch' = batch + 1 /\ codes' = batch + 1 ELSE UNCHANGED <<batch, codes>>
    /\ call' = [call EXCEPT ![c] = [pc |-> "idle"]]
    /\ UNCHANGED <<clock, recoveries>>

AuthenticationAllowed(c) ==
    LET k == call[c].key IN
    Consumable(c) /\ Live(call[c].ses) /\ key[k].state = "active" /\ key[k].counter = call[c].counter

VerifyAuthentication(c) ==
    /\ call[c].pc = "authentication" /\ AuthenticationAllowed(c)
    /\ Consume(c)
    /\ key' = [key EXCEPT ![call[c].key].counter = @ + 1]
    /\ sess' = Verified(call[c].ses)
    /\ call' = [call EXCEPT ![c] = [pc |-> "idle"]]
    /\ UNCHANGED <<clock, batch, codes, recoveries>>

\* Mutant: the other sessions are left alone.
SessionsKept(s) == [sess EXCEPT ![s].mfa = 0]

\* The other sessions end, the current one is limited.
SessionsAfterRecovery(s) ==
    [t \in Sessions |-> IF t = s THEN [sess[t] EXCEPT !.mfa = 0]
                        ELSE IF Live(t) THEN [sess[t] EXCEPT !.state = "ended"] ELSE sess[t]]

RecoveryAllowed(c) == codes # 0 /\ codes = call[c].codes /\ Live(call[c].ses)

\* recover uses one code up and revokes the others with all passkeys.
Recover(c) ==
    /\ call[c].pc = "recovery" /\ RecoveryAllowed(c)
    /\ key' = [k \in Keys |-> IF k \in Active THEN [key[k] EXCEPT !.state = "revoked"] ELSE key[k]]
    /\ codes' = 0 /\ recoveries' = recoveries + 1
    /\ chals' = {[d EXCEPT !.open = FALSE] : d \in chals}
    /\ sess' = SessionsAfterRecovery(call[c].ses)
    /\ call' = [call EXCEPT ![c] = [pc |-> "idle"]]
    /\ UNCHANGED <<clock, batch>>

\* Mutant: the last passkey can be revoked.
RevocationOfAny(c) == call[c].key \in Active

RevocationAllowed(c) == call[c].key \in Active /\ Cardinality(Active) > 1

RevokePasskey(c) ==
    /\ call[c].pc = "revocation" /\ RevocationAllowed(c)
    /\ key' = [key EXCEPT ![call[c].key].state = "revoked"]
    /\ call' = [call EXCEPT ![c] = [pc |-> "idle"]]
    /\ UNCHANGED <<clock, sess, chals, batch, codes, recoveries>>

\* The transaction is rolled back, for a check or for a serialization failure.
Refuse(c) ==
    /\ call[c].pc # "idle"
    /\ call' = [call EXCEPT ![c] = [pc |-> "idle"]]
    /\ UNCHANGED <<clock, sess, key, chals, batch, codes, recoveries>>

Tick ==
    /\ clock < MaxClock /\ clock' = clock + 1
    /\ UNCHANGED <<sess, key, chals, batch, codes, recoveries, call>>

Next ==
    \/ \E s \in Sessions : Login(s) \/ EndSession(s)
    \/ \E c \in Calls :
          \/ BeginOptions(c) \/ PersistChallenge(c)
          \/ BeginRegistration(c) \/ BeginAuthentication(c) \/ BeginRecovery(c) \/ BeginRevocation(c)
          \/ VerifyRegistration(c) \/ VerifyAuthentication(c) \/ Recover(c) \/ RevokePasskey(c)
          \/ Refuse(c)
    \/ Tick

Spec == Init /\ [][Next]_vars

-----------------------------------------------------------------------------
(* Properties                                                              *)

Call ==
    [pc : {"idle"}] \cup [pc : {"options"}, ses : Sessions, purpose : Purposes]
    \cup [pc : {"registration"}, ses : Sessions, mfa : Nat, chal : 1..MaxChallenges, key : Keys]
    \cup [pc : {"authentication"}, ses : Sessions, chal : 1..MaxChallenges, key : Keys, counter : Nat]
    \cup [pc : {"recovery"}, ses : Sessions, codes : Nat]
    \cup [pc : {"revocation"}, ses : Sessions, key : Keys]

\* Every variable has its type, whatever the order of the steps.
TypeOK ==
    /\ clock \in Nat
    /\ sess \in [Sessions -> [state : {"unused", "live", "ended"}, mfa : 0..clock, since : 0..recoveries]]
    /\ key \in [Keys -> [state : {"new", "active", "revoked"}, counter : Nat]]
    /\ chals \subseteq Challenge
    /\ batch \in Nat /\ codes \in 0..batch /\ recoveries \in Nat
    /\ call \in [Calls -> Call]

\* A challenge is accepted once, also when the same answer is sent twice and
\* both calls read the challenge before either consumed it.
ChallengeOnce == \A d \in chals : d.uses <= 1

\* An administrator who has a passkey has recovery codes, and one whose passkeys
\* were all revoked has none left: revoking and recovering at the same time
\* leaves nobody with passkeys lost and no way back.
NeverLockedOut == Active = {} <=> codes = 0

\* A session in force that counts as verified was verified after the last
\* recovery, and the administrator still has a passkey.
VerifiedSinceRecovery ==
    \A s \in Sessions : Live(s) /\ sess[s].mfa # 0 => sess[s].since = recoveries /\ Active # {}

\* Ceremonies that were started below the limit do not pass it together.
PasskeyLimit == Cardinality(Active) <= MaxKeys

\* A further passkey is added only by a session that is in force and was
\* verified within the limit, at the instant of the commit.
AddedByRecent ==
    [][\A k \in Keys : key[k].state = "new" /\ key'[k].state = "active" /\ Active # {} =>
          \E s \in Sessions : Live(s) /\ Recent(sess[s].mfa, clock) /\ sess'[s].mfa = clock]_vars

\* What every reachable state satisfies, whatever ceremonies, recoveries and
\* revocations overlap.
MfaSafe == TypeOK /\ ChallengeOnce /\ NeverLockedOut /\ VerifiedSinceRecovery /\ PasskeyLimit
=============================================================================
