--------------------------- MODULE DeviceServices ---------------------------
(***************************************************************************)
(* The devices of an account: the key directory, the registration of the   *)
(* device of a browser and the quarantine of a further one. The three      *)
(* share no state. This module names what each of them promises;           *)
(* DevicesProofs proves it and MCDevices checks it on instances.           *)
(***************************************************************************)
EXTENDS Integers, FiniteSets

CONSTANTS
    Devices, Publishers, Requests, From, To, Legacy, Calls, Of, Rank,
    PerUpload, Fallbacks, PoolSize, MaxUploads, MaxClock,               \* KeyDirectory
    Browsers, NoBrowser, Sessions, NoSession,
    TTL, LegacyRoute, MaxRegs, MaxTime, MaxFaults,                      \* DeviceRegistration
    Trusted, Candidates, Flows, Window, Drift, SessionTime,
    MaxRollbacks, MaxChanges                                            \* DeviceCandidates

VARIABLES
    clock, active, session, otks, fallbacks, slot, uploaded, results, call,
    time, faults, regs, nextId, device, sess, late, cookie, known, local, acked, pc,
    cClock, rollbacks, changes, version, trusted, cSess, cand, flow, tx, told, delivered

Keys == INSTANCE KeyDirectory

Registration == INSTANCE DeviceRegistration

Ceremony == INSTANCE DeviceCandidates WITH
    clock <- cClock, device <- trusted, sess <- cSess, Sessions <- Trusted

-----------------------------------------------------------------------------
(* Properties *)

\* claimKeys: a one-time key is handed to one request, and a request that is
\* repeated is answered as it was the first time.
KeysSafe == Keys!KeysSafe

\* claimKeys: one-time keys first, then the fallback key that is in force; a
\* claim fails only for a session that ended or keys that changed meanwhile.
ClaimsServed == Keys!ClaimsServed

\* completeDevice and the journal of the browser: the device that is published
\* is one whose private keys and acknowledgement some browser holds.
RegistrationSafe == Registration!RegistrationSafe

\* Device candidates: one ceremony at a time, whose flow ends with it, and one
\* request for it over all deliveries.
CeremonySafe == Ceremony!CeremonySafe

\* Device candidates: what either side is told is in force at the commit, and
\* what was reported as expired never opens again.
AnswersHold == Ceremony!AnswersHold
=============================================================================
