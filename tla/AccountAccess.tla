---------------------------- MODULE AccountAccess ----------------------------
(***************************************************************************)
(* The password of one cashier and what it opens: login with the lock      *)
(* after failed attempts, the reset that an administrator starts and the   *)
(* cashier completes with a recovery code, the rotation of these codes     *)
(* (auth/auth.service.ts), and the actions of administrators that end      *)
(* sessions (admin/admin-users.service.ts).                                *)
(*                                                                         *)
(* login is no transaction: each of its statements is an action.  The two  *)
(* operations on recovery codes read the account, spend time on a password *)
(* hash, and then run one transaction that holds the row of the account.   *)
(***************************************************************************)
EXTENDS Naturals, FiniteSets

CONSTANTS
    Logins,                \* calls of login; each opens one session at most
    Resets, Rotations,     \* calls of completeAdminReset and of the rotation
    MaxFailed,             \* MAX_FAILED_LOGINS
    LockTime, ResetTime,   \* LOCK_MINUTES, lifetime of a reset
    CodeCount,             \* codes of one package
    MaxClock, MaxOps       \* bounds

AccessAssumption ==
    /\ MaxFailed \in Nat \ {0} /\ LockTime \in Nat \ {0} /\ ResetTime \in Nat \ {0}
    /\ CodeCount \in Nat /\ MaxClock \in Nat /\ MaxOps \in Nat

VARIABLES
    clock, ops,
    acct,        \* the row of the account; pwd counts its passwords
    request,     \* the open reset: its number and its end, 0 if there is none
    codes, gen,  \* codes that can be used, packages issued
    spent,       \* which code completed which reset
    login, sess, reset, rotation

access == <<acct, request, codes, gen, spent>>
vars == <<clock, ops, access, login, sess, reset, rotation>>

Account == [pwd : Nat, version : Nat, resetRequired : BOOLEAN, suspended : BOOLEAN,
            failed : 0..MaxFailed, lockedUntil : Nat]
Code == [gen : Nat, i : 1..CodeCount]
Package(g) == {[gen |-> g, i |-> i] : i \in 1..CodeCount}

IdleLogin == [pc |-> "idle", typed |-> 0, user |-> acct, now |-> 0]
NoSession == [live |-> FALSE, version |-> 0, pwd |-> 0]

Init ==
    /\ clock = 1 /\ ops = 0
    /\ acct = [pwd |-> 1, version |-> 0, resetRequired |-> FALSE, suspended |-> FALSE,
               failed |-> 0, lockedUntil |-> 0]
    /\ request = [n |-> 0, until |-> 0]
    /\ codes = Package(1) /\ gen = 1 /\ spent = {}
    /\ login = [l \in Logins |-> IdleLogin]
    /\ sess = [l \in Logins |-> NoSession]
    /\ reset = [r \in Resets |-> [pc |-> "idle", pwd |-> 0]]
    /\ rotation = [r \in Rotations |-> [pc |-> "idle", pwd |-> 0]]

RevokeAll == sess' = [l \in Logins |-> [sess[l] EXCEPT !.live = FALSE]]

\* isSessionInvalid, for a session without a device.
Usable(l) ==
    /\ sess[l].live /\ sess[l].version = acct.version
    /\ ~acct.resetRequired /\ ~acct.suspended

-----------------------------------------------------------------------------
(* login                                                                   *)

\* Somebody types a password: the current one, an old one, or a wrong one (0).
ReadUser(l) ==
    /\ login[l].pc = "idle"
    /\ \E p \in 0..acct.pwd :
          login' = [login EXCEPT ![l] = [pc |-> "read", typed |-> p, user |-> acct, now |-> 0]]
    /\ UNCHANGED <<clock, ops, access, sess, reset, rotation>>

Verdict(l) ==
    LET u == login[l].user IN
    IF u.lockedUntil > clock THEN "failed"
    ELSE IF login[l].typed # u.pwd THEN "wrong"
    ELSE IF u.suspended \/ u.resetRequired THEN "failed" ELSE "right"

\* The clock is read, and the password compared with what was read before.
VerifyPassword(l) ==
    /\ login[l].pc = "read"
    /\ login' = [login EXCEPT ![l].pc = Verdict(l), ![l].now = clock]
    /\ UNCHANGED <<clock, ops, access, sess, reset, rotation>>

\* Mutant: a failure counts while the account is locked.
CountedAlways(u) ==
    IF u.failed + 1 >= MaxFailed THEN [u EXCEPT !.failed = 0, !.lockedUntil = clock + LockTime]
    ELSE [u EXCEPT !.failed = @ + 1, !.lockedUntil = 0]

\* Mutant: the counter is not reset by the lock.
CountedOn(u) ==
    IF u.lockedUntil > clock THEN u
    ELSE IF u.failed + 1 >= MaxFailed
    THEN [u EXCEPT !.failed = @ + 1, !.lockedUntil = clock + LockTime]
    ELSE [u EXCEPT !.failed = @ + 1, !.lockedUntil = 0]

\* recordFailedLoginAttempt, one statement.
Counted(u) ==
    IF u.lockedUntil > clock THEN u
    ELSE IF u.failed + 1 >= MaxFailed
    THEN [u EXCEPT !.failed = 0, !.lockedUntil = clock + LockTime]
    ELSE [u EXCEPT !.failed = @ + 1, !.lockedUntil = 0]

RecordFailedLoginAttempt(l) ==
    /\ login[l].pc = "wrong"
    /\ acct' = Counted(acct)
    /\ login' = [login EXCEPT ![l].pc = "failed"]
    /\ UNCHANGED <<clock, ops, request, codes, gen, spent, sess, reset, rotation>>

\* The account is checked again by the statement that notes the login.
SuccessfulLogin(l) ==
    /\ login[l].pc = "right"
    /\ IF acct.lockedUntil <= login[l].now /\ ~acct.resetRequired /\ ~acct.suspended
       THEN /\ acct' = [acct EXCEPT !.failed = 0, !.lockedUntil = 0]
            /\ login' = [login EXCEPT ![l].pc = "passed"]
       ELSE login' = [login EXCEPT ![l].pc = "failed"] /\ UNCHANGED acct
    /\ UNCHANGED <<clock, ops, request, codes, gen, spent, sess, reset, rotation>>

\* Mutant: the version is read when the session is written.
VersionNow(l) == acct.version

\* The session carries the version that was read with the password.
SessionVersion(l) == login[l].user.version

CreateSession(l) ==
    /\ login[l].pc = "passed"
    /\ sess' = [sess EXCEPT ![l] = [live |-> TRUE, version |-> SessionVersion(l), pwd |-> login[l].typed]]
    /\ login' = [login EXCEPT ![l].pc = "done"]
    /\ UNCHANGED <<clock, ops, access, reset, rotation>>

Logout(l) ==
    /\ sess[l].live
    /\ sess' = [sess EXCEPT ![l].live = FALSE]
    /\ UNCHANGED <<clock, ops, access, login, reset, rotation>>

-----------------------------------------------------------------------------
(* Administrators                                                          *)

AdminOp == ops < MaxOps /\ ops' = ops + 1

\* resetPassword supersedes the reset that is open.
ResetPassword ==
    /\ AdminOp
    /\ request' = [n |-> request.n + 1, until |-> clock + ResetTime]
    /\ acct' = [acct EXCEPT !.resetRequired = TRUE, !.version = @ + 1, !.failed = 0, !.lockedUntil = 0]
    /\ RevokeAll
    /\ UNCHANGED <<clock, codes, gen, spent, login, reset, rotation>>

Suspend ==
    /\ AdminOp /\ ~acct.suspended
    /\ acct' = [acct EXCEPT !.suspended = TRUE, !.version = @ + 1]
    /\ RevokeAll
    /\ UNCHANGED <<clock, request, codes, gen, spent, login, reset, rotation>>

Reactivate ==
    /\ AdminOp /\ acct.suspended
    /\ acct' = [acct EXCEPT !.suspended = FALSE, !.version = @ + 1]
    /\ UNCHANGED <<clock, request, codes, gen, spent, login, sess, reset, rotation>>

-----------------------------------------------------------------------------
(* completeAdminReset and rotateCashierRecoveryCodes                       *)

BeginReset(r) ==
    /\ reset[r].pc = "idle" /\ acct.resetRequired
    /\ reset' = [reset EXCEPT ![r] = [pc |-> "read", pwd |-> acct.pwd]]
    /\ UNCHANGED <<clock, ops, access, login, sess, rotation>>

\* Mutant: the code can be used again.
CodesUnclaimed(code) == codes

\* What is left of the codes once one was used.
CodesAfter(code) == codes \ {code}

ResetAllowed(r) ==
    /\ request.until > clock
    /\ acct.pwd = reset[r].pwd /\ acct.resetRequired /\ acct.lockedUntil <= clock

CompleteAdminReset(r) ==
    /\ reset[r].pc = "read" /\ ResetAllowed(r)
    /\ \E code \in codes :
          /\ codes' = CodesAfter(code)
          /\ spent' = spent \cup {[code |-> code, request |-> request.n, pwd |-> acct.pwd + 1]}
    /\ request' = [request EXCEPT !.until = 0]
    /\ acct' = [acct EXCEPT !.pwd = @ + 1, !.resetRequired = FALSE, !.version = @ + 1,
                            !.failed = 0, !.lockedUntil = 0]
    /\ RevokeAll
    /\ reset' = [reset EXCEPT ![r].pc = "done"]
    /\ UNCHANGED <<clock, ops, gen, login, rotation>>

\* The transaction is rolled back; the code is not used up.
RefuseAdminReset(r) ==
    /\ reset[r].pc = "read" /\ (~ResetAllowed(r) \/ codes = {})
    /\ reset' = [reset EXCEPT ![r].pc = "done"]
    /\ UNCHANGED <<clock, ops, access, login, sess, rotation>>

\* A cashier with a session confirms the password.
BeginRotation(r) ==
    /\ rotation[r].pc = "idle" /\ \E l \in Logins : Usable(l)
    /\ rotation' = [rotation EXCEPT ![r] = [pc |-> "read", pwd |-> acct.pwd]]
    /\ UNCHANGED <<clock, ops, access, login, sess, reset>>

\* Mutant: the account is not read again.
RotationConfirmed(r) == TRUE

\* The account is read again under its lock.
RotationAllowed(r) == ~acct.suspended /\ ~acct.resetRequired /\ acct.pwd = rotation[r].pwd

RotateCashierRecoveryCodes(r) ==
    /\ rotation[r].pc = "read"
    /\ IF RotationAllowed(r)
       THEN codes' = Package(gen + 1) /\ gen' = gen + 1
       ELSE UNCHANGED <<codes, gen>>
    /\ rotation' = [rotation EXCEPT ![r].pc = "done"]
    /\ UNCHANGED <<clock, ops, acct, request, spent, login, sess, reset>>

Tick ==
    /\ clock < MaxClock /\ clock' = clock + 1
    /\ UNCHANGED <<ops, access, login, sess, reset, rotation>>

Next ==
    \/ \E l \in Logins :
          \/ ReadUser(l) \/ VerifyPassword(l) \/ RecordFailedLoginAttempt(l)
          \/ SuccessfulLogin(l) \/ CreateSession(l) \/ Logout(l)
    \/ ResetPassword \/ Suspend \/ Reactivate
    \/ \E r \in Resets : BeginReset(r) \/ CompleteAdminReset(r) \/ RefuseAdminReset(r)
    \/ \E r \in Rotations : BeginRotation(r) \/ RotateCashierRecoveryCodes(r)
    \/ Tick

Spec == Init /\ [][Next]_vars

-----------------------------------------------------------------------------
(* Properties                                                              *)

LoginState == [pc : {"idle", "read", "wrong", "right", "passed", "failed", "done"},
               typed : Nat, user : Account, now : Nat]

\* Every variable has its type, whatever the order of the steps.
TypeOK ==
    /\ clock \in Nat /\ ops \in Nat
    /\ acct \in Account /\ acct.failed < MaxFailed
    /\ request \in [n : Nat, until : Nat]
    /\ codes \subseteq Code /\ gen \in Nat
    /\ spent \subseteq [code : Code, request : Nat, pwd : Nat]
    /\ login \in [Logins -> LoginState]
    /\ sess \in [Logins -> [live : BOOLEAN, version : Nat, pwd : Nat]]
    /\ reset \in [Resets -> [pc : {"idle", "read", "done"}, pwd : Nat]]
    /\ rotation \in [Rotations -> [pc : {"idle", "read", "done"}, pwd : Nat]]

\* A session that can be used was opened with the password the account has,
\* although logins overlap with resets, suspensions and the change of the
\* password.
SessionIsCurrent == \A l \in Logins : Usable(l) => sess[l].pwd = acct.pwd

\* A lock that is running is lifted only by an administrator's reset: neither a
\* login that read the account before nor another failure shortens or prolongs it.
LockStands ==
    [][acct.lockedUntil > clock /\ acct'.lockedUntil # acct.lockedUntil => request' # request]_vars

\* A recovery code completes one reset, a reset is completed once, and by a code
\* of one password change each.
OneCodeOneReset ==
    \A x, y \in spent :
        x.code = y.code \/ x.request = y.request \/ x.pwd = y.pwd => x = y

\* While a reset is open the cashier's codes stay those that the cashier has: a
\* rotation that began before does not replace them.
ResetKeepsCodes ==
    [][acct.resetRequired /\ acct'.resetRequired => codes' = codes]_vars

\* What every reachable state satisfies, whatever overlaps: usable sessions have
\* the password in force, codes and resets go together one to one.
AccessSafe == TypeOK /\ SessionIsCurrent /\ OneCodeOneReset

\* What every step observes: a lock runs its time, an open reset keeps its codes.
AccessStands == LockStands /\ ResetKeepsCodes
=============================================================================
