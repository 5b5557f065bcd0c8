-------------------------- MODULE AccountServices ---------------------------
(***************************************************************************)
(* Who gets in: the access of a cashier to the account, the passkeys of an *)
(* administrator and the sessions of administrators. They share nothing    *)
(* but the clock. This module names what each of them promises;            *)
(* AccessProofs proves it and MCAccess checks it on instances.             *)
(***************************************************************************)
EXTENDS Naturals, FiniteSets

CONSTANTS
    Logins, Resets, Rotations, MaxFailed, LockTime, ResetTime, CodeCount, MaxOps,  \* AccountAccess
    Sessions, Keys, Calls, MaxKeys, StepUp, ChallengeTime,
    MaxChallenges, MaxBatches,                                                     \* AdminMfa
    Requests, Of, IdleTime, Absolute,                                              \* AdminSessions
    MaxClock                                                                       \* all three

VARIABLES
    clock,                                                                         \* all three
    ops, acct, request, codes, gen, spent, login, aSess, reset, rotation,          \* AccountAccess
    sess, key, chals, batch, mCodes, recoveries, call,                             \* AdminMfa
    sSess, req                                                                     \* AdminSessions

Access == INSTANCE AccountAccess WITH sess <- aSess

Mfa == INSTANCE AdminMfa WITH codes <- mCodes

Admins == INSTANCE AdminSessions WITH sess <- sSess, Idle <- IdleTime

-----------------------------------------------------------------------------
(* Properties *)

\* login, completeAdminReset and the rotation: a session that can be used was
\* opened with the password in force, and a code completes one reset.
AccessSafe == Access!AccessSafe

\* A running lock is lifted by an administrator's reset only, and while a reset is
\* open the codes of the cashier stay.
AccessStands == Access!AccessStands

\* Passkeys: a challenge is used once, and an administrator with passkeys has a
\* way back and no session that was verified before the last recovery; nobody is
\* active later than now.
AdminsSafe == Mfa!MfaSafe /\ Admins!TypeOK

\* Requests of administrators: accepted only in force, and a passkey is added
\* only by a session verified a moment ago.
AdminsInForce == Admins!AcceptedInForce /\ Admins!ActivityAdvances /\ Mfa!AddedByRecent
=============================================================================
