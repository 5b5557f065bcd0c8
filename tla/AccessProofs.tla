---------------------------- MODULE AccessProofs ----------------------------
(***************************************************************************)
(* Proofs about who gets in: the access of a user to the account           *)
(* (AccountAccess), the passkeys of administrators (AdminMfa) and their    *)
(* sessions (AdminSessions), for every value of their constants.  Each     *)
(* part has an inductive invariant, a lemma for every action and, from     *)
(* them, the properties that the run Access checks on its instances.       *)
(***************************************************************************)
EXTENDS AccountServices, FiniteSetTheorems, TLAPS

-----------------------------------------------------------------------------
(* The access to an account *)

\* A session that was not revoked carries the version of the account when its
\* password was read: as long as the version is the same the password is.
AccessSessionsInv ==
    \A l \in Logins : aSess[l].live =>
        /\ aSess[l].version <= acct.version
        /\ aSess[l].version = acct.version => aSess[l].pwd = acct.pwd

\* The same of the row that a login under way has read.
AccessLoginsInv ==
    \A l \in Logins :
        /\ login[l].now <= clock
        /\ login[l].user.version <= acct.version
        /\ login[l].user.version = acct.version => login[l].user.pwd = acct.pwd
        /\ login[l].pc \in {"right", "passed"} => login[l].typed = login[l].user.pwd

\* What was spent is behind: codes, resets and passwords.
AccessSpentInv ==
    /\ \A c \in codes : c.gen <= gen
    /\ \A x \in spent :
          /\ x.code \notin codes /\ x.code.gen <= gen
          /\ x.request <= request.n
          /\ x.request = request.n => request.until = 0
          /\ x.pwd <= acct.pwd

\* The inductive invariant of the access to an account.
AccessIInv == Access!TypeOK /\ AccessSessionsInv /\ AccessLoginsInv /\ AccessSpentInv /\ Access!OneCodeOneReset

\* The counter of failures and the lock are written together.
LEMMA AccessLockUpdate ==
    ASSUME NEW a \in Access!Account, NEW n, NEW until, NEW b, b = [a EXCEPT !.failed = n, !.lockedUntil = until]
    PROVE  b = [pwd |-> a.pwd, version |-> a.version, resetRequired |-> a.resetRequired,
                suspended |-> a.suspended, failed |-> n, lockedUntil |-> until]
  BY DEF Access!Account

\* login reads the row of the user: the invariant is preserved.
LEMMA AccessReadUserStep ==
    ASSUME Access!AccessAssumption, AccessIInv, NEW l \in Logins, Access!ReadUser(l)
    PROVE  AccessIInv'
<1>1. Access!TypeOK'
  BY DEF Access!AccessAssumption, AccessIInv, Access!TypeOK, Access!Account, Access!Code,
     Access!LoginState, Access!access, Access!ReadUser
<1>2. AccessSessionsInv'
  BY DEF Access!AccessAssumption, AccessIInv, Access!TypeOK, Access!Account, Access!Code,
     Access!LoginState, Access!access, Access!ReadUser, AccessSessionsInv
<1>3. AccessLoginsInv'
  BY DEF Access!AccessAssumption, AccessIInv, Access!TypeOK, Access!Account, Access!Code,
     Access!LoginState, Access!access, Access!ReadUser, AccessLoginsInv
<1>4. AccessSpentInv'
  BY DEF Access!AccessAssumption, AccessIInv, Access!TypeOK, Access!Account, Access!Code,
     Access!LoginState, Access!access, Access!ReadUser, AccessSpentInv
<1>5. Access!OneCodeOneReset'
  BY DEF Access!AccessAssumption, AccessIInv, Access!TypeOK, Access!Account, Access!Code,
     Access!LoginState, Access!access, Access!ReadUser, Access!OneCodeOneReset, AccessSpentInv
<1> QED
  BY <1>1, <1>2, <1>3, <1>4, <1>5 DEF AccessIInv

\* login compares the password with the row it read: the invariant is
\* preserved.
LEMMA AccessVerifyPasswordStep ==
    ASSUME Access!AccessAssumption, AccessIInv, NEW l \in Logins, Access!VerifyPassword(l)
    PROVE  AccessIInv'
<1>1. Access!TypeOK'
  <2>1. login' \in [Logins -> Access!LoginState]
    <3> DEFINE judged == [login[l] EXCEPT !.pc = Access!Verdict(l)]
    <3>1. login[l] \in Access!LoginState /\ Access!Verdict(l) \in {"failed", "wrong", "right"}
      BY DEF AccessIInv, Access!TypeOK, Access!Verdict
    <3>2. judged \in Access!LoginState
      BY <3>1 DEF Access!LoginState
    <3>3. login' = [login EXCEPT ![l] = [judged EXCEPT !.now = clock]]
      BY DEF AccessIInv, Access!TypeOK, Access!VerifyPassword
    <3> HIDE DEF judged
    <3>4. [judged EXCEPT !.now = clock] \in Access!LoginState
      BY <3>2 DEF Access!LoginState, AccessIInv, Access!TypeOK
    <3> QED
      BY <3>3, <3>4 DEF AccessIInv, Access!TypeOK
  <2> QED
    BY <2>1 DEF Access!AccessAssumption, AccessIInv, Access!TypeOK, Access!access,
       Access!VerifyPassword, Access!Verdict
<1>2. AccessSessionsInv'
  BY DEF Access!AccessAssumption, AccessIInv, Access!TypeOK, Access!Account, Access!Code,
     Access!LoginState, Access!access, Access!VerifyPassword, Access!Verdict, AccessSessionsInv
<1>3. AccessLoginsInv'
  BY DEF Access!AccessAssumption, AccessIInv, Access!TypeOK, Access!Account, Access!Code,
     Access!LoginState, Access!access, Access!VerifyPassword, Access!Verdict, AccessLoginsInv
<1>4. AccessSpentInv'
  BY DEF Access!AccessAssumption, AccessIInv, Access!TypeOK, Access!Account, Access!Code,
     Access!LoginState, Access!access, Access!VerifyPassword, Access!Verdict, AccessSpentInv
<1>5. Access!OneCodeOneReset'
  BY DEF Access!AccessAssumption, AccessIInv, Access!TypeOK, Access!Account, Access!Code,
     Access!LoginState, Access!access, Access!VerifyPassword, Access!Verdict,
     Access!OneCodeOneReset, AccessSpentInv
<1> QED
  BY <1>1, <1>2, <1>3, <1>4, <1>5 DEF AccessIInv

\* recordFailedLoginAttempt preserves the invariant.
LEMMA AccessRecordFailedLoginAttemptStep ==
    ASSUME Access!AccessAssumption, AccessIInv, NEW l \in Logins, Access!RecordFailedLoginAttempt(l)
    PROVE  AccessIInv'
<1>1. Access!TypeOK'
  <2>1. acct' \in Access!Account /\ acct'.failed < MaxFailed
    <3>1. \/ acct' = acct
          \/ acct' = [pwd |-> acct.pwd, version |-> acct.version, resetRequired |-> acct.resetRequired,
              suspended |-> acct.suspended, failed |-> 0, lockedUntil |-> clock + LockTime]
          \/ /\ acct.failed + 1 < MaxFailed
             /\ acct' = [pwd |-> acct.pwd, version |-> acct.version, resetRequired |-> acct.resetRequired,
                 suspended |-> acct.suspended, failed |-> acct.failed + 1, lockedUntil |-> 0]
      <4>1. \/ acct' = acct
            \/ acct' = [acct EXCEPT !.failed = 0, !.lockedUntil = clock + LockTime]
            \/ ~(acct.failed + 1 >= MaxFailed) /\ acct' = [acct EXCEPT !.failed = @ + 1, !.lockedUntil = 0]
        BY DEF Access!RecordFailedLoginAttempt, Access!Counted
      <4>2. acct' = [acct EXCEPT !.failed = 0, !.lockedUntil = clock + LockTime] =>
            acct' = [pwd |-> acct.pwd, version |-> acct.version, resetRequired |-> acct.resetRequired,
              suspended |-> acct.suspended, failed |-> 0, lockedUntil |-> clock + LockTime]
        BY AccessLockUpdate DEF AccessIInv, Access!TypeOK
      <4>3. acct' = [acct EXCEPT !.failed = @ + 1, !.lockedUntil = 0] =>
            acct' = [pwd |-> acct.pwd, version |-> acct.version, resetRequired |-> acct.resetRequired,
              suspended |-> acct.suspended, failed |-> acct.failed + 1, lockedUntil |-> 0]
        BY AccessLockUpdate DEF AccessIInv, Access!TypeOK
      <4>4. acct.failed \in Nat /\ MaxFailed \in Nat
        BY DEF Access!AccessAssumption, AccessIInv, Access!TypeOK, Access!Account
      <4> QED
        BY <4>1, <4>2, <4>3, <4>4
    <3> QED
      BY <3>1 DEF Access!AccessAssumption, AccessIInv, Access!TypeOK, Access!Account
  <2>2. login' \in [Logins -> Access!LoginState]
    BY DEF AccessIInv, Access!TypeOK, Access!LoginState, Access!RecordFailedLoginAttempt,
       Access!Counted
  <2> QED
    BY <2>1, <2>2 DEF Access!AccessAssumption, AccessIInv, Access!TypeOK, Access!access,
       Access!RecordFailedLoginAttempt, Access!Counted
<1>2. AccessSessionsInv'
  BY DEF Access!AccessAssumption, AccessIInv, Access!TypeOK, Access!Account, Access!Code,
     Access!LoginState, Access!access, Access!RecordFailedLoginAttempt, Access!Counted,
     AccessSessionsInv
<1>3. AccessLoginsInv'
  BY DEF Access!AccessAssumption, AccessIInv, Access!TypeOK, Access!Account, Access!Code,
     Access!LoginState, Access!access, Access!RecordFailedLoginAttempt, Access!Counted,
     AccessLoginsInv
<1>4. AccessSpentInv'
  BY DEF Access!AccessAssumption, AccessIInv, Access!TypeOK, Access!Account, Access!Code,
     Access!LoginState, Access!access, Access!RecordFailedLoginAttempt, Access!Counted,
     AccessSpentInv
<1>5. Access!OneCodeOneReset'
  BY DEF Access!AccessAssumption, AccessIInv, Access!TypeOK, Access!Account, Access!Code,
     Access!LoginState, Access!access, Access!RecordFailedLoginAttempt, Access!Counted,
     Access!OneCodeOneReset, AccessSpentInv
<1> QED
  BY <1>1, <1>2, <1>3, <1>4, <1>5 DEF AccessIInv

\* The conditional update of a successful login, which fails if the account
\* changed since it was read, preserves the invariant.
LEMMA AccessSuccessfulLoginStep ==
    ASSUME Access!AccessAssumption, AccessIInv, NEW l \in Logins, Access!SuccessfulLogin(l)
    PROVE  AccessIInv'
<1>1. Access!TypeOK'
  <2>1. acct' \in Access!Account /\ acct'.failed < MaxFailed
    <3>1. \/ acct' = acct
          \/ acct' = [pwd |-> acct.pwd, version |-> acct.version, resetRequired |-> acct.resetRequired,
              suspended |-> acct.suspended, failed |-> 0, lockedUntil |-> 0]
      <4>1. acct' = acct \/ acct' = [acct EXCEPT !.failed = 0, !.lockedUntil = 0]
        BY DEF Access!SuccessfulLogin
      <4>2. acct' = [acct EXCEPT !.failed = 0, !.lockedUntil = 0] =>
            acct' = [pwd |-> acct.pwd, version |-> acct.version, resetRequired |-> acct.resetRequired,
              suspended |-> acct.suspended, failed |-> 0, lockedUntil |-> 0]
        BY AccessLockUpdate DEF AccessIInv, Access!TypeOK
      <4> QED
        BY <4>1, <4>2
    <3> QED
      BY <3>1 DEF Access!AccessAssumption, AccessIInv, Access!TypeOK, Access!Account
  <2>2. login' \in [Logins -> Access!LoginState]
    <3>1. \E s \in {"passed", "failed"} : login' = [login EXCEPT ![l].pc = s]
      BY DEF Access!SuccessfulLogin
    <3> QED
      BY <3>1 DEF AccessIInv, Access!TypeOK, Access!LoginState
  <2> QED
    BY <2>1, <2>2 DEF Access!AccessAssumption, AccessIInv, Access!TypeOK, Access!access,
       Access!SuccessfulLogin
<1>2. AccessSessionsInv'
  BY DEF Access!AccessAssumption, AccessIInv, Access!TypeOK, Access!Account, Access!Code,
     Access!LoginState, Access!access, Access!SuccessfulLogin, AccessSessionsInv
<1>3. AccessLoginsInv'
  <2>1. acct'.version = acct.version /\ acct'.pwd = acct.pwd
    BY DEF AccessIInv, Access!TypeOK, Access!Account, Access!SuccessfulLogin
  <2>2. \E s \in {"passed", "failed"} : login' = [login EXCEPT ![l].pc = s] /\ login[l].pc = "right"
    BY DEF Access!SuccessfulLogin
  <2>3. clock' = clock
    BY DEF Access!SuccessfulLogin
  <2> QED
    BY <2>1, <2>2, <2>3 DEF AccessIInv, Access!TypeOK, AccessLoginsInv, Access!LoginState
<1>4. AccessSpentInv'
  BY DEF Access!AccessAssumption, AccessIInv, Access!TypeOK, Access!Account, Access!Code,
     Access!LoginState, Access!access, Access!SuccessfulLogin, AccessSpentInv
<1>5. Access!OneCodeOneReset'
  BY DEF Access!AccessAssumption, AccessIInv, Access!TypeOK, Access!Account, Access!Code,
     Access!LoginState, Access!access, Access!SuccessfulLogin, Access!OneCodeOneReset,
     AccessSpentInv
<1> QED
  BY <1>1, <1>2, <1>3, <1>4, <1>5 DEF AccessIInv

\* createSession preserves the invariant.
LEMMA AccessCreateSessionStep ==
    ASSUME Access!AccessAssumption, AccessIInv, NEW l \in Logins, Access!CreateSession(l)
    PROVE  AccessIInv'
<1>1. Access!TypeOK'
  <2>1. login' \in [Logins -> Access!LoginState]
    BY DEF AccessIInv, Access!TypeOK, Access!LoginState, Access!CreateSession, Access!SessionVersion
  <2>2. aSess' \in [Logins -> [live : BOOLEAN, version : Nat, pwd : Nat]]
    BY DEF AccessIInv, Access!TypeOK, Access!LoginState, Access!Account, Access!CreateSession,
       Access!SessionVersion
  <2> QED
    BY <2>1, <2>2 DEF Access!AccessAssumption, AccessIInv, Access!TypeOK, Access!access,
       Access!CreateSession, Access!SessionVersion
<1>2. AccessSessionsInv'
  <2>1. /\ aSess' = [aSess EXCEPT ![l] = [live |-> TRUE, version |-> login[l].user.version, pwd |-> login[l].typed]]
        /\ login[l].pc = "passed" /\ acct' = acct
    BY DEF Access!CreateSession, Access!SessionVersion, Access!access
  <2> QED
    BY <2>1 DEF AccessIInv, Access!TypeOK, AccessSessionsInv, AccessLoginsInv
<1>3. AccessLoginsInv'
  BY DEF Access!AccessAssumption, AccessIInv, Access!TypeOK, Access!Account, Access!Code,
     Access!LoginState, Access!access, Access!CreateSession, Access!SessionVersion, AccessLoginsInv
<1>4. AccessSpentInv'
  BY DEF Access!AccessAssumption, AccessIInv, Access!TypeOK, Access!Account, Access!Code,
     Access!LoginState, Access!access, Access!CreateSession, Access!SessionVersion, AccessSpentInv
<1>5. Access!OneCodeOneReset'
  BY DEF Access!AccessAssumption, AccessIInv, Access!TypeOK, Access!Account, Access!Code,
     Access!LoginState, Access!access, Access!CreateSession, Access!SessionVersion,
     Access!OneCodeOneReset, AccessSpentInv
<1> QED
  BY <1>1, <1>2, <1>3, <1>4, <1>5 DEF AccessIInv

\* logout preserves the invariant.
LEMMA AccessLogoutStep ==
    ASSUME Access!AccessAssumption, AccessIInv, NEW l \in Logins, Access!Logout(l)
    PROVE  AccessIInv'
<1>1. Access!TypeOK'
  <2>1. aSess' \in [Logins -> [live : BOOLEAN, version : Nat, pwd : Nat]]
    <3>1. aSess \in [Logins -> [live : BOOLEAN, version : Nat, pwd : Nat]]
      BY DEF AccessIInv, Access!TypeOK
    <3>2. aSess' = [aSess EXCEPT ![l].live = FALSE]
      BY DEF Access!Logout
    <3> QED BY <3>1, <3>2
  <2>2. UNCHANGED <<clock, ops, acct, request, codes, gen, spent, login, reset, rotation>>
    BY DEF Access!Logout, Access!access
  <2> QED BY <2>1, <2>2 DEF AccessIInv, Access!TypeOK
<1>2. AccessSessionsInv'
  BY DEF Access!AccessAssumption, AccessIInv, Access!TypeOK, Access!Account, Access!Code,
     Access!LoginState, Access!access, Access!Logout, AccessSessionsInv
<1>3. AccessLoginsInv'
  BY DEF Access!AccessAssumption, AccessIInv, Access!TypeOK, Access!Account, Access!Code,
     Access!LoginState, Access!access, Access!Logout, AccessLoginsInv
<1>4. AccessSpentInv'
  BY DEF Access!AccessAssumption, AccessIInv, Access!TypeOK, Access!Account, Access!Code,
     Access!LoginState, Access!access, Access!Logout, AccessSpentInv
<1>5. Access!OneCodeOneReset'
  BY DEF Access!AccessAssumption, AccessIInv, Access!TypeOK, Access!Account, Access!Code,
     Access!LoginState, Access!access, Access!Logout, Access!OneCodeOneReset, AccessSpentInv
<1> QED
  BY <1>1, <1>2, <1>3, <1>4, <1>5 DEF AccessIInv

\* Sessions that are revoked keep the version and the password they began with.
LEMMA AccessRevokeEffect ==
    ASSUME AccessIInv, Access!RevokeAll
    PROVE  aSess' \in [Logins -> [live : BOOLEAN, version : Nat, pwd : Nat]]
<1>1. ASSUME NEW l \in Logins
      PROVE  [aSess[l] EXCEPT !.live = FALSE] \in [live : BOOLEAN, version : Nat, pwd : Nat]
  <2>1. aSess[l] \in [live : BOOLEAN, version : Nat, pwd : Nat]
    BY DEF AccessIInv, Access!TypeOK
  <2> QED BY <2>1
<1>2. aSess' = [l \in Logins |-> [aSess[l] EXCEPT !.live = FALSE]]
  BY DEF Access!RevokeAll
<1> QED BY <1>1, <1>2

\* The reset by an administrator revokes the sessions and raises the version:
\* the invariant is preserved.
LEMMA AccessResetPasswordStep ==
    ASSUME Access!AccessAssumption, AccessIInv, Access!ResetPassword
    PROVE  AccessIInv'
<1>1. Access!TypeOK'
  <2>1. acct' \in Access!Account /\ acct'.failed < MaxFailed
    <3>1. acct' = [pwd |-> acct.pwd, version |-> acct.version + 1, resetRequired |-> TRUE,
              suspended |-> acct.suspended, failed |-> 0, lockedUntil |-> 0]
      BY DEF AccessIInv, Access!TypeOK, Access!Account, Access!ResetPassword
    <3> QED
      BY <3>1 DEF Access!AccessAssumption, AccessIInv, Access!TypeOK, Access!Account
  <2>2. aSess' \in [Logins -> [live : BOOLEAN, version : Nat, pwd : Nat]]
    BY AccessRevokeEffect DEF Access!ResetPassword
  <2> QED
    BY <2>1, <2>2 DEF Access!AccessAssumption, AccessIInv, Access!TypeOK, Access!access,
       Access!ResetPassword, Access!AdminOp, Access!RevokeAll
<1>2. AccessSessionsInv'
  BY DEF Access!AccessAssumption, AccessIInv, Access!TypeOK, Access!Account, Access!Code,
     Access!LoginState, Access!access, Access!ResetPassword, Access!AdminOp, Access!RevokeAll,
     AccessSessionsInv
<1>3. AccessLoginsInv'
  BY DEF Access!AccessAssumption, AccessIInv, Access!TypeOK, Access!Account, Access!Code,
     Access!LoginState, Access!access, Access!ResetPassword, Access!AdminOp, Access!RevokeAll,
     AccessLoginsInv
<1>4. AccessSpentInv'
  BY DEF Access!AccessAssumption, AccessIInv, Access!TypeOK, Access!Account, Access!Code,
     Access!LoginState, Access!access, Access!ResetPassword, Access!AdminOp, Access!RevokeAll,
     AccessSpentInv
<1>5. Access!OneCodeOneReset'
  BY DEF Access!AccessAssumption, AccessIInv, Access!TypeOK, Access!Account, Access!Code,
     Access!LoginState, Access!access, Access!ResetPassword, Access!AdminOp, Access!RevokeAll,
     Access!OneCodeOneReset, AccessSpentInv
<1> QED
  BY <1>1, <1>2, <1>3, <1>4, <1>5 DEF AccessIInv

\* suspend preserves the invariant.
LEMMA AccessSuspendStep ==
    ASSUME Access!AccessAssumption, AccessIInv, Access!Suspend
    PROVE  AccessIInv'
<1>1. Access!TypeOK'
  <2>1. acct' \in Access!Account /\ acct'.failed < MaxFailed
    <3>1. acct' = [pwd |-> acct.pwd, version |-> acct.version + 1, resetRequired |-> acct.resetRequired,
              suspended |-> TRUE, failed |-> acct.failed, lockedUntil |-> acct.lockedUntil]
      BY DEF AccessIInv, Access!TypeOK, Access!Account, Access!Suspend
    <3> QED
      BY <3>1 DEF Access!AccessAssumption, AccessIInv, Access!TypeOK, Access!Account
  <2>2. aSess' \in [Logins -> [live : BOOLEAN, version : Nat, pwd : Nat]]
    BY AccessRevokeEffect DEF Access!Suspend
  <2> QED
    BY <2>1, <2>2 DEF Access!AccessAssumption, AccessIInv, Access!TypeOK, Access!access,
       Access!Suspend, Access!AdminOp, Access!RevokeAll
<1>2. AccessSessionsInv'
  BY DEF Access!AccessAssumption, AccessIInv, Access!TypeOK, Access!Account, Access!Code,
     Access!LoginState, Access!access, Access!Suspend, Access!AdminOp, Access!RevokeAll,
     AccessSessionsInv
<1>3. AccessLoginsInv'
  BY DEF Access!AccessAssumption, AccessIInv, Access!TypeOK, Access!Account, Access!Code,
     Access!LoginState, Access!access, Access!Suspend, Access!AdminOp, Access!RevokeAll,
     AccessLoginsInv
<1>4. AccessSpentInv'
  BY DEF Access!AccessAssumption, AccessIInv, Access!TypeOK, Access!Account, Access!Code,
     Access!LoginState, Access!access, Access!Suspend, Access!AdminOp, Access!RevokeAll,
     AccessSpentInv
<1>5. Access!OneCodeOneReset'
  BY DEF Access!AccessAssumption, AccessIInv, Access!TypeOK, Access!Account, Access!Code,
     Access!LoginState, Access!access, Access!Suspend, Access!AdminOp, Access!RevokeAll,
     Access!OneCodeOneReset, AccessSpentInv
<1> QED
  BY <1>1, <1>2, <1>3, <1>4, <1>5 DEF AccessIInv

\* reactivate preserves the invariant.
LEMMA AccessReactivateStep ==
    ASSUME Access!AccessAssumption, AccessIInv, Access!Reactivate
    PROVE  AccessIInv'
<1>1. Access!TypeOK'
  <2>1. acct' \in Access!Account /\ acct'.failed < MaxFailed
    <3>1. acct' = [pwd |-> acct.pwd, version |-> acct.version + 1, resetRequired |-> acct.resetRequired,
              suspended |-> FALSE, failed |-> acct.failed, lockedUntil |-> acct.lockedUntil]
      BY DEF AccessIInv, Access!TypeOK, Access!Account, Access!Reactivate
    <3> QED
      BY <3>1 DEF Access!AccessAssumption, AccessIInv, Access!TypeOK, Access!Account
  <2> QED
    BY <2>1 DEF Access!AccessAssumption, AccessIInv, Access!TypeOK, Access!access,
       Access!Reactivate, Access!AdminOp
<1>2. AccessSessionsInv'
  BY DEF Access!AccessAssumption, AccessIInv, Access!TypeOK, Access!Account, Access!Code,
     Access!LoginState, Access!access, Access!Reactivate, Access!AdminOp, AccessSessionsInv
<1>3. AccessLoginsInv'
  BY DEF Access!AccessAssumption, AccessIInv, Access!TypeOK, Access!Account, Access!Code,
     Access!LoginState, Access!access, Access!Reactivate, Access!AdminOp, AccessLoginsInv
<1>4. AccessSpentInv'
  BY DEF Access!AccessAssumption, AccessIInv, Access!TypeOK, Access!Account, Access!Code,
     Access!LoginState, Access!access, Access!Reactivate, Access!AdminOp, AccessSpentInv
<1>5. Access!OneCodeOneReset'
  BY DEF Access!AccessAssumption, AccessIInv, Access!TypeOK, Access!Account, Access!Code,
     Access!LoginState, Access!access, Access!Reactivate, Access!AdminOp, Access!OneCodeOneReset,
     AccessSpentInv
<1> QED
  BY <1>1, <1>2, <1>3, <1>4, <1>5 DEF AccessIInv

\* A reset with a code begins: the invariant is preserved.
LEMMA AccessBeginResetStep ==
    ASSUME Access!AccessAssumption, AccessIInv, NEW r \in Resets, Access!BeginReset(r)
    PROVE  AccessIInv'
<1>1. Access!TypeOK'
  BY DEF Access!AccessAssumption, AccessIInv, Access!TypeOK, Access!Account, Access!Code,
     Access!LoginState, Access!access, Access!BeginReset
<1>2. AccessSessionsInv'
  BY DEF Access!AccessAssumption, AccessIInv, Access!TypeOK, Access!Account, Access!Code,
     Access!LoginState, Access!access, Access!BeginReset, AccessSessionsInv
<1>3. AccessLoginsInv'
  BY DEF Access!AccessAssumption, AccessIInv, Access!TypeOK, Access!Account, Access!Code,
     Access!LoginState, Access!access, Access!BeginReset, AccessLoginsInv
<1>4. AccessSpentInv'
  BY DEF Access!AccessAssumption, AccessIInv, Access!TypeOK, Access!Account, Access!Code,
     Access!LoginState, Access!access, Access!BeginReset, AccessSpentInv
<1>5. Access!OneCodeOneReset'
  BY DEF Access!AccessAssumption, AccessIInv, Access!TypeOK, Access!Account, Access!Code,
     Access!LoginState, Access!access, Access!BeginReset, Access!OneCodeOneReset, AccessSpentInv
<1> QED
  BY <1>1, <1>2, <1>3, <1>4, <1>5 DEF AccessIInv

\* completeAdminReset spends its code and its request: the invariant is
\* preserved.
LEMMA AccessCompleteAdminResetStep ==
    ASSUME Access!AccessAssumption, AccessIInv, NEW r \in Resets, Access!CompleteAdminReset(r)
    PROVE  AccessIInv'
<1>1. Access!TypeOK'
  <2>1. acct' \in Access!Account /\ acct'.failed < MaxFailed
    <3>1. acct' = [pwd |-> acct.pwd + 1, version |-> acct.version + 1, resetRequired |-> FALSE,
              suspended |-> acct.suspended, failed |-> 0, lockedUntil |-> 0]
      BY DEF AccessIInv, Access!TypeOK, Access!Account, Access!CompleteAdminReset
    <3> QED
      BY <3>1 DEF Access!AccessAssumption, AccessIInv, Access!TypeOK, Access!Account
  <2>2. aSess' \in [Logins -> [live : BOOLEAN, version : Nat, pwd : Nat]]
    BY AccessRevokeEffect DEF Access!CompleteAdminReset
  <2> QED
    BY <2>1, <2>2 DEF Access!AccessAssumption, AccessIInv, Access!TypeOK, Access!access,
       Access!CompleteAdminReset, Access!ResetAllowed, Access!CodesAfter, Access!RevokeAll
<1>2. AccessSessionsInv'
  BY DEF Access!AccessAssumption, AccessIInv, Access!TypeOK, Access!Account, Access!Code,
     Access!LoginState, Access!access, Access!CompleteAdminReset, Access!ResetAllowed,
     Access!CodesAfter, Access!RevokeAll, AccessSessionsInv
<1>3. AccessLoginsInv'
  BY DEF Access!AccessAssumption, AccessIInv, Access!TypeOK, Access!Account, Access!Code,
     Access!LoginState, Access!access, Access!CompleteAdminReset, Access!ResetAllowed,
     Access!CodesAfter, Access!RevokeAll, AccessLoginsInv
<1>4. AccessSpentInv'
  BY DEF Access!AccessAssumption, AccessIInv, Access!TypeOK, Access!Account, Access!Code,
     Access!LoginState, Access!access, Access!CompleteAdminReset, Access!ResetAllowed,
     Access!CodesAfter, Access!RevokeAll, AccessSpentInv
<1>5. Access!OneCodeOneReset'
  BY DEF Access!AccessAssumption, AccessIInv, Access!TypeOK, Access!Account, Access!Code,
     Access!LoginState, Access!access, Access!CompleteAdminReset, Access!ResetAllowed,
     Access!CodesAfter, Access!RevokeAll, Access!OneCodeOneReset, AccessSpentInv
<1> QED
  BY <1>1, <1>2, <1>3, <1>4, <1>5 DEF AccessIInv

\* A reset that is refused preserves the invariant.
LEMMA AccessRefuseAdminResetStep ==
    ASSUME Access!AccessAssumption, AccessIInv, NEW r \in Resets, Access!RefuseAdminReset(r)
    PROVE  AccessIInv'
<1>1. Access!TypeOK'
  BY DEF Access!AccessAssumption, AccessIInv, Access!TypeOK, Access!Account, Access!Code,
     Access!LoginState, Access!access, Access!RefuseAdminReset
<1>2. AccessSessionsInv'
  BY DEF Access!AccessAssumption, AccessIInv, Access!TypeOK, Access!Account, Access!Code,
     Access!LoginState, Access!access, Access!RefuseAdminReset, AccessSessionsInv
<1>3. AccessLoginsInv'
  BY DEF Access!AccessAssumption, AccessIInv, Access!TypeOK, Access!Account, Access!Code,
     Access!LoginState, Access!access, Access!RefuseAdminReset, AccessLoginsInv
<1>4. AccessSpentInv'
  BY DEF Access!AccessAssumption, AccessIInv, Access!TypeOK, Access!Account, Access!Code,
     Access!LoginState, Access!access, Access!RefuseAdminReset, AccessSpentInv
<1>5. Access!OneCodeOneReset'
  BY DEF Access!AccessAssumption, AccessIInv, Access!TypeOK, Access!Account, Access!Code,
     Access!LoginState, Access!access, Access!RefuseAdminReset, Access!OneCodeOneReset,
     AccessSpentInv
<1> QED
  BY <1>1, <1>2, <1>3, <1>4, <1>5 DEF AccessIInv

\* A rotation of the recovery codes begins: the invariant is preserved.
LEMMA AccessBeginRotationStep ==
    ASSUME Access!AccessAssumption, AccessIInv, NEW r \in Rotations, Access!BeginRotation(r)
    PROVE  AccessIInv'
<1>1. Access!TypeOK'
  BY DEF Access!AccessAssumption, AccessIInv, Access!TypeOK, Access!Account, Access!Code,
     Access!LoginState, Access!access, Access!BeginRotation
<1>2. AccessSessionsInv'
  BY DEF Access!AccessAssumption, AccessIInv, Access!TypeOK, Access!Account, Access!Code,
     Access!LoginState, Access!access, Access!BeginRotation, AccessSessionsInv
<1>3. AccessLoginsInv'
  BY DEF Access!AccessAssumption, AccessIInv, Access!TypeOK, Access!Account, Access!Code,
     Access!LoginState, Access!access, Access!BeginRotation, AccessLoginsInv
<1>4. AccessSpentInv'
  BY DEF Access!AccessAssumption, AccessIInv, Access!TypeOK, Access!Account, Access!Code,
     Access!LoginState, Access!access, Access!BeginRotation, AccessSpentInv
<1>5. Access!OneCodeOneReset'
  BY DEF Access!AccessAssumption, AccessIInv, Access!TypeOK, Access!Account, Access!Code,
     Access!LoginState, Access!access, Access!BeginRotation, Access!OneCodeOneReset, AccessSpentInv
<1> QED
  BY <1>1, <1>2, <1>3, <1>4, <1>5 DEF AccessIInv

\* rotateCashierRecoveryCodes preserves the invariant.
LEMMA AccessRotateCashierRecoveryCodesStep ==
    ASSUME Access!AccessAssumption, AccessIInv, NEW r \in Rotations, Access!RotateCashierRecoveryCodes(r)
    PROVE  AccessIInv'
<1>1. Access!TypeOK'
  BY DEF Access!AccessAssumption, AccessIInv, Access!TypeOK, Access!Account, Access!Code,
     Access!LoginState, Access!access, Access!RotateCashierRecoveryCodes, Access!RotationAllowed,
     Access!Package
<1>2. AccessSessionsInv'
  BY DEF Access!AccessAssumption, AccessIInv, Access!TypeOK, Access!Account, Access!Code,
     Access!LoginState, Access!access, Access!RotateCashierRecoveryCodes, Access!RotationAllowed,
     Access!Package, AccessSessionsInv
<1>3. AccessLoginsInv'
  BY DEF Access!AccessAssumption, AccessIInv, Access!TypeOK, Access!Account, Access!Code,
     Access!LoginState, Access!access, Access!RotateCashierRecoveryCodes, Access!RotationAllowed,
     Access!Package, AccessLoginsInv
<1>4. AccessSpentInv'
  BY DEF Access!AccessAssumption, AccessIInv, Access!TypeOK, Access!Account, Access!Code,
     Access!LoginState, Access!access, Access!RotateCashierRecoveryCodes, Access!RotationAllowed,
     Access!Package, AccessSpentInv
<1>5. Access!OneCodeOneReset'
  BY DEF Access!AccessAssumption, AccessIInv, Access!TypeOK, Access!Account, Access!Code,
     Access!LoginState, Access!access, Access!RotateCashierRecoveryCodes, Access!RotationAllowed,
     Access!Package, Access!OneCodeOneReset, AccessSpentInv
<1> QED
  BY <1>1, <1>2, <1>3, <1>4, <1>5 DEF AccessIInv

\* The passing of time preserves the invariant.
LEMMA AccessTickStep ==
    ASSUME Access!AccessAssumption, AccessIInv, Access!Tick
    PROVE  AccessIInv'
<1>1. Access!TypeOK'
  BY DEF Access!AccessAssumption, AccessIInv, Access!TypeOK, Access!Account, Access!Code,
     Access!LoginState, Access!access, Access!Tick
<1>2. AccessSessionsInv'
  BY DEF Access!AccessAssumption, AccessIInv, Access!TypeOK, Access!Account, Access!Code,
     Access!LoginState, Access!access, Access!Tick, AccessSessionsInv
<1>3. AccessLoginsInv'
  BY DEF Access!AccessAssumption, AccessIInv, Access!TypeOK, Access!Account, Access!Code,
     Access!LoginState, Access!access, Access!Tick, AccessLoginsInv
<1>4. AccessSpentInv'
  BY DEF Access!AccessAssumption, AccessIInv, Access!TypeOK, Access!Account, Access!Code,
     Access!LoginState, Access!access, Access!Tick, AccessSpentInv
<1>5. Access!OneCodeOneReset'
  BY DEF Access!AccessAssumption, AccessIInv, Access!TypeOK, Access!Account, Access!Code,
     Access!LoginState, Access!access, Access!Tick, Access!OneCodeOneReset, AccessSpentInv
<1> QED
  BY <1>1, <1>2, <1>3, <1>4, <1>5 DEF AccessIInv



\* A new account satisfies the invariant.
LEMMA AccessInitHolds ==
    ASSUME Access!AccessAssumption, Access!Init
    PROVE  AccessIInv
<1>1. acct \in Access!Account /\ acct.failed < MaxFailed /\ acct.pwd = 1 /\ acct.version = 0
  BY DEF Access!Init, Access!Account, Access!AccessAssumption
<1>2. Access!IdleLogin \in Access!LoginState /\ Access!IdleLogin.user = acct /\ Access!IdleLogin.pc = "idle" /\ Access!IdleLogin.now = 0
  BY <1>1 DEF Access!IdleLogin, Access!LoginState
<1>3. Access!TypeOK
  BY <1>1, <1>2 DEF Access!Init, Access!TypeOK, Access!NoSession, Access!Package, Access!Code,
     Access!AccessAssumption
<1> QED
  BY <1>1, <1>2, <1>3 DEF Access!Init, AccessIInv, AccessSessionsInv, AccessLoginsInv,
     AccessSpentInv, Access!OneCodeOneReset, Access!NoSession, Access!Package

\* Every step preserves the invariant.
LEMMA AccessStepPreserves ==
    ASSUME Access!AccessAssumption, AccessIInv, [Access!Next]_(Access!vars)
    PROVE  AccessIInv'
<1>1. CASE UNCHANGED Access!vars
  BY <1>1 DEF AccessIInv, Access!TypeOK, AccessSessionsInv, AccessLoginsInv, AccessSpentInv,
     Access!OneCodeOneReset, Access!vars, Access!access
<1>2. CASE Access!Next
  BY <1>2, AccessReadUserStep, AccessVerifyPasswordStep, AccessRecordFailedLoginAttemptStep,
     AccessSuccessfulLoginStep,
     AccessCreateSessionStep, AccessLogoutStep, AccessResetPasswordStep, AccessSuspendStep,
     AccessReactivateStep, AccessBeginResetStep,
     AccessCompleteAdminResetStep, AccessRefuseAdminResetStep, AccessBeginRotationStep,
     AccessRotateCashierRecoveryCodesStep,
     AccessTickStep DEF Access!Next
<1> QED
  BY <1>1, <1>2

\* The invariant of the access to an account holds in every reachable state.
THEOREM AccessInvariance ==
    ASSUME Access!AccessAssumption
    PROVE  Access!Spec => []AccessIInv
<1>1. Access!Init => AccessIInv
  BY AccessInitHolds
<1>2. AccessIInv /\ [Access!Next]_(Access!vars) => AccessIInv'
  BY AccessStepPreserves
<1> QED
  BY <1>1, <1>2, PTL DEF Access!Spec

\* login, completeAdminReset and the rotation, for any number of logins, resets
\* and rotations that overlap: a session that can be used was opened with the
\* password in force, and a code completes one reset.
THEOREM AccessIsSafe ==
    ASSUME Access!AccessAssumption
    PROVE  Access!Spec => []AccessSafe
<1>1. AccessIInv => AccessSafe
  BY DEF AccessIInv, AccessSessionsInv, AccessSafe, Access!AccessSafe, Access!SessionIsCurrent, Access!Usable
<1> QED
  BY <1>1, AccessInvariance, PTL

\* A running lock is lifted by the reset of an administrator only, and while a
\* reset is open the codes of the cashier stay.
THEOREM AccessDoesStand ==
    ASSUME Access!AccessAssumption
    PROVE  Access!Spec => AccessStands
<1> DEFINE Lock == acct.lockedUntil > clock /\ acct'.lockedUntil # acct.lockedUntil => request' # request
           Codes == acct.resetRequired /\ acct'.resetRequired => codes' = codes
<1>1. AccessIInv /\ Access!Next => Lock
  <2> SUFFICES ASSUME AccessIInv, Access!Next, acct.lockedUntil > clock
               PROVE  acct'.lockedUntil = acct.lockedUntil \/ request' # request
    OBVIOUS
  <2> USE DEF AccessIInv, Access!TypeOK, Access!Account, Access!access
  <2>1. ASSUME NEW l \in Logins, Access!SuccessfulLogin(l) PROVE acct' = acct
    BY <2>1 DEF Access!SuccessfulLogin, AccessLoginsInv, Access!LoginState
  <2>2. ASSUME NEW l \in Logins, Access!RecordFailedLoginAttempt(l) PROVE acct' = acct
    BY <2>2 DEF Access!RecordFailedLoginAttempt, Access!Counted
  <2>3. ASSUME Access!ResetPassword PROVE request' # request
    BY <2>3 DEF Access!ResetPassword
  <2>4. ASSUME Access!Suspend \/ Access!Reactivate PROVE acct'.lockedUntil = acct.lockedUntil
    BY <2>4 DEF Access!Suspend, Access!Reactivate
  <2>5. ASSUME NEW r \in Resets PROVE ~Access!CompleteAdminReset(r)
    BY DEF Access!CompleteAdminReset, Access!ResetAllowed
  <2> QED
    BY <2>1, <2>2, <2>3, <2>4, <2>5 DEF Access!Next, Access!ReadUser, Access!VerifyPassword,
       Access!CreateSession, Access!Logout, Access!BeginReset,
       Access!RefuseAdminReset, Access!BeginRotation, Access!RotateCashierRecoveryCodes, Access!Tick
<1>2. AccessIInv /\ Access!Next => Codes
  <2> SUFFICES ASSUME AccessIInv, Access!Next, acct.resetRequired, acct'.resetRequired
               PROVE  codes' = codes
    OBVIOUS
  <2> USE DEF AccessIInv, Access!TypeOK, Access!access
  <2>1. ASSUME NEW r \in Resets PROVE ~Access!CompleteAdminReset(r)
    BY DEF Access!CompleteAdminReset, Access!Account
  <2>2. ASSUME NEW r \in Rotations, Access!RotateCashierRecoveryCodes(r) PROVE codes' = codes
    BY <2>2 DEF Access!RotateCashierRecoveryCodes, Access!RotationAllowed
  <2> QED
    BY <2>1, <2>2 DEF Access!Next, Access!ReadUser, Access!VerifyPassword,
       Access!RecordFailedLoginAttempt, Access!SuccessfulLogin,
       Access!CreateSession, Access!Logout, Access!ResetPassword, Access!Suspend, Access!Reactivate,
       Access!BeginReset,
       Access!RefuseAdminReset, Access!BeginRotation, Access!Tick
<1>3. AccessIInv /\ [Access!Next]_(Access!vars) => [Lock]_(Access!vars) /\ [Codes]_(Access!vars)
  BY <1>1, <1>2
<1>4. Access!Spec => [][Lock]_(Access!vars) /\ [][Codes]_(Access!vars)
  BY <1>3, AccessInvariance, PTL DEF Access!Spec
<1> QED
  BY <1>4 DEF AccessStands, Access!AccessStands, Access!LockStands, Access!ResetKeepsCodes

-----------------------------------------------------------------------------
(* The passkeys of administrators *)

\* Challenges are numbered in the order of their creation.
MfaNumbered ==
    /\ IsFiniteSet(chals)
    /\ \A d \in chals : d.n <= Cardinality(chals)
    /\ \A d, e \in chals : d.n = e.n => d = e

\* A challenge is used at most once, and an open one never was.
MfaOpenUnused == \A d \in chals : d.uses <= 1 /\ (d.open => d.uses = 0)

\* The active passkeys are finitely many and within the limit, and there are
\* recovery codes exactly if there are any.
MfaKeysInv == IsFiniteSet(Mfa!Active) /\ Mfa!PasskeyLimit /\ Mfa!NeverLockedOut

\* A session that does not exist was never verified, and no session is verified
\* from before the last recovery.
MfaSessInv == (\A s \in Sessions : sess[s].state = "unused" => sess[s].mfa = 0) /\ Mfa!VerifiedSinceRecovery

\* What a registration under way holds: its challenge exists and, while it is
\* open, the session was verified no earlier than the call has read.
MfaCallsInv ==
    \A c \in Calls : call[c].pc = "registration" =>
        /\ call[c].chal <= Cardinality(chals)
        /\ \A d \in chals : d.n = call[c].chal /\ d.open => call[c].mfa <= sess[call[c].ses].mfa

\* The inductive invariant of the passkeys of administrators.
MfaIInv == Mfa!TypeOK /\ MfaNumbered /\ MfaOpenUnused /\ MfaKeysInv /\ MfaSessInv /\ MfaCallsInv

\* Inside the instance the cardinality has a name of its own.
LEMMA MfaSize ==
    ASSUME NEW S PROVE Mfa!Cardinality(S) = Cardinality(S)
BY DEF Mfa!Cardinality, Cardinality

\* A set of challenges that is changed without renumbering keeps its
\* cardinality.
LEMMA MfaSameNumbers ==
    ASSUME NEW S, NEW T, NEW f \in Surjection(S, T), IsFiniteSet(S),
           \A d, e \in S : d.n = e.n => d = e,
           \A d \in S : f[d].n = d.n
    PROVE  /\ IsFiniteSet(T) /\ Cardinality(T) = Cardinality(S)
           /\ \A d, e \in T : d.n = e.n => d = e
<1>1. f \in [S -> T] /\ \A t \in T : \E d \in S : f[d] = t
  BY DEF Surjection
<1>2. \A d, e \in S : f[d] = f[e] => d = e
  OBVIOUS
<1>3. f \in Injection(S, T)
  BY <1>1, <1>2 DEF Injection, IsInjective
<1>4. IsFiniteSet(T) /\ Cardinality(T) = Cardinality(S)
  BY <1>3, FS_Surjection
<1>5. ASSUME NEW t \in T, NEW u \in T, t.n = u.n PROVE t = u
  BY <1>1, <1>5
<1> QED BY <1>4, <1>5

\* A challenge that a newer one replaces.
MfaClosed(d) == [d EXCEPT !.open = FALSE]

\* A challenge that was answered.
MfaUsed(d) == [d EXCEPT !.open = FALSE, !.uses = @ + 1]

\* Both forms keep the type and the number of a challenge.
LEMMA MfaChallengeForms ==
    ASSUME NEW d \in Mfa!Challenge
    PROVE  /\ MfaClosed(d) \in Mfa!Challenge /\ ~MfaClosed(d).open
           /\ MfaClosed(d).n = d.n /\ MfaClosed(d).uses = d.uses
           /\ MfaUsed(d) \in Mfa!Challenge /\ ~MfaUsed(d).open
           /\ MfaUsed(d).n = d.n /\ MfaUsed(d).uses = d.uses + 1
<1> DEFINE shut == MfaClosed(d)
<1>1. shut \in Mfa!Challenge /\ ~shut.open /\ shut.n = d.n /\ shut.uses = d.uses /\ shut.uses \in Nat
  BY DEF MfaClosed, Mfa!Challenge
<1>2. MfaUsed(d) = [shut EXCEPT !.uses = d.uses + 1]
  BY DEF MfaUsed, MfaClosed, Mfa!Challenge
<1> HIDE DEF shut
<1>3. /\ [shut EXCEPT !.uses = d.uses + 1] \in Mfa!Challenge
      /\ ~[shut EXCEPT !.uses = d.uses + 1].open
      /\ [shut EXCEPT !.uses = d.uses + 1].n = d.n
      /\ [shut EXCEPT !.uses = d.uses + 1].uses = d.uses + 1
  BY <1>1 DEF Mfa!Challenge
<1> QED BY <1>1, <1>2, <1>3 DEF shut

\* The challenges of one session or one call are changed in place: the
\* numbering stays.
LEMMA MfaMapChallenges ==
    ASSUME Mfa!TypeOK, MfaNumbered, NEW T, NEW f,
           f \in [chals -> Mfa!Challenge], T = {f[d] : d \in chals},
           \A d \in chals : f[d].n = d.n
    PROVE  /\ T \subseteq Mfa!Challenge /\ IsFiniteSet(T) /\ Cardinality(T) = Cardinality(chals)
           /\ \A d \in T : d.n <= Cardinality(T)
           /\ \A d, e \in T : d.n = e.n => d = e
<1>1. f \in Surjection(chals, T)
  BY DEF Surjection
<1>2. IsFiniteSet(T) /\ Cardinality(T) = Cardinality(chals) /\ \A d, e \in T : d.n = e.n => d = e
  BY <1>1, MfaSameNumbers DEF MfaNumbered
<1> QED BY <1>2 DEF MfaNumbered

\* An administrator without passkeys satisfies the invariant.
LEMMA MfaInit == ASSUME Mfa!MfaAssumption PROVE Mfa!Init => MfaIInv
<1> SUFFICES ASSUME Mfa!Init PROVE MfaIInv
  OBVIOUS
<1>1. Mfa!Active = {} /\ chals = {}
  BY DEF Mfa!Init, Mfa!Active
<1>2. Mfa!TypeOK
  BY DEF Mfa!Init, Mfa!TypeOK, Mfa!Call, Mfa!MfaAssumption
<1>3. MfaNumbered /\ MfaOpenUnused
  BY <1>1, FS_EmptySet DEF MfaNumbered, MfaOpenUnused
<1>4. MfaKeysInv
  BY <1>1, FS_EmptySet, MfaSize DEF MfaKeysInv, Mfa!PasskeyLimit, Mfa!NeverLockedOut, Mfa!Init,
     Mfa!MfaAssumption
<1>5. MfaSessInv /\ MfaCallsInv
  BY DEF MfaSessInv, Mfa!VerifiedSinceRecovery, MfaCallsInv, Mfa!Init, Mfa!Live
<1> QED BY <1>2, <1>3, <1>4, <1>5 DEF MfaIInv

\* Steps that touch neither passkeys nor codes keep what is said of them.
LEMMA MfaKeysSame ==
    ASSUME MfaKeysInv, key' = key, mCodes' = mCodes
    PROVE  MfaKeysInv' /\ Mfa!Active' = Mfa!Active
  BY DEF MfaKeysInv, Mfa!PasskeyLimit, Mfa!NeverLockedOut, Mfa!Active

\* A session of an administrator begins or ends: the invariant is preserved.
LEMMA MfaLoginStep ==
    ASSUME Mfa!MfaAssumption, MfaIInv, NEW s \in Sessions, Mfa!Login(s) \/ Mfa!EndSession(s)
    PROVE  MfaIInv'
<1>1. PICK t \in {"live", "ended"} : sess' = [sess EXCEPT ![s].state = t]
  BY DEF Mfa!Login, Mfa!EndSession
<1>2. sess'[s].mfa = sess[s].mfa /\ sess'[s].since = sess[s].since
  BY <1>1 DEF MfaIInv, Mfa!TypeOK
<1>3. UNCHANGED <<clock, key, chals, batch, mCodes, recoveries, call>>
  BY DEF Mfa!Login, Mfa!EndSession
<1>4. MfaKeysInv' /\ Mfa!Active' = Mfa!Active
  BY <1>3, MfaKeysSame DEF MfaIInv
<1>5. Mfa!TypeOK'
  BY <1>1, <1>3 DEF MfaIInv, Mfa!TypeOK
<1>6. MfaNumbered' /\ MfaOpenUnused'
  BY <1>3 DEF MfaIInv, MfaNumbered, MfaOpenUnused
<1>7. MfaSessInv'
  BY <1>1, <1>2, <1>3, <1>4 DEF MfaIInv, MfaSessInv, Mfa!VerifiedSinceRecovery, Mfa!Login,
     Mfa!EndSession, Mfa!Live, Mfa!TypeOK
<1>8. \A t2 \in Sessions : sess'[t2].mfa = sess[t2].mfa
  BY <1>1 DEF MfaIInv, Mfa!TypeOK
<1>9. MfaCallsInv'
  <2> SUFFICES ASSUME NEW c \in Calls, call[c].pc = "registration"
               PROVE  /\ call[c].chal <= Cardinality(chals)
                      /\ \A d \in chals : d.n = call[c].chal /\ d.open => call[c].mfa <= sess'[call[c].ses].mfa
    BY <1>3 DEF MfaCallsInv
  <2>1. call[c].ses \in Sessions
    BY DEF MfaIInv, Mfa!TypeOK, Mfa!Call
  <2> QED BY <1>8, <2>1 DEF MfaIInv, MfaCallsInv
<1> QED BY <1>4, <1>5, <1>6, <1>7, <1>9 DEF MfaIInv

\* A call that begins with what it read preserves the invariant.
LEMMA MfaBeginStep ==
    ASSUME Mfa!MfaAssumption, MfaIInv, NEW c \in Calls, NEW read \in Mfa!Call, Mfa!Begin(c, read),
           read.pc = "registration" =>
               /\ read.chal <= Cardinality(chals)
               /\ read.mfa <= sess[read.ses].mfa
    PROVE  MfaIInv'
<1>1. UNCHANGED <<clock, sess, key, chals, batch, mCodes, recoveries>> /\ call' = [call EXCEPT ![c] = read]
  BY DEF Mfa!Begin
<1>2. MfaKeysInv' /\ Mfa!Active' = Mfa!Active
  BY <1>1, MfaKeysSame DEF MfaIInv
<1>3. Mfa!TypeOK'
  BY <1>1 DEF MfaIInv, Mfa!TypeOK
<1>4. MfaNumbered' /\ MfaOpenUnused' /\ MfaSessInv'
  BY <1>1, <1>2 DEF MfaIInv, MfaNumbered, MfaOpenUnused, MfaSessInv, Mfa!VerifiedSinceRecovery,
     Mfa!Live
<1>5. MfaCallsInv'
  BY <1>1 DEF MfaIInv, MfaCallsInv, Mfa!TypeOK
<1> QED BY <1>2, <1>3, <1>4, <1>5 DEF MfaIInv

\* The start of each of the five operations preserves the invariant.
LEMMA MfaBeginsStep ==
    ASSUME Mfa!MfaAssumption, MfaIInv, NEW c \in Calls,
           \/ Mfa!BeginOptions(c) \/ Mfa!BeginRegistration(c) \/ Mfa!BeginAuthentication(c)
           \/ Mfa!BeginRecovery(c) \/ Mfa!BeginRevocation(c)
    PROVE  MfaIInv'
<1>1. CASE Mfa!BeginOptions(c)
  <2>1. PICK s \in Sessions, p \in Mfa!Purposes : Mfa!Begin(c, [pc |-> "options", ses |-> s, purpose |-> p])
    BY <1>1 DEF Mfa!BeginOptions
  <2>2. [pc |-> "options", ses |-> s, purpose |-> p] \in Mfa!Call
    BY DEF Mfa!Call
  <2> QED BY <2>1, <2>2, MfaBeginStep
<1>2. CASE Mfa!BeginRegistration(c)
  <2>1. PICK s \in Sessions, k \in Keys, d \in chals :
            Mfa!Begin(c, [pc |-> "registration", ses |-> s, mfa |-> sess[s].mfa, chal |-> d.n, key |-> k])
    BY <1>2 DEF Mfa!BeginRegistration
  <2>2. sess[s].mfa \in Nat /\ d.n \in 1..MaxChallenges
    BY DEF MfaIInv, Mfa!TypeOK, Mfa!Challenge
  <2>3. [pc |-> "registration", ses |-> s, mfa |-> sess[s].mfa, chal |-> d.n, key |-> k] \in Mfa!Call
    BY <2>2 DEF Mfa!Call
  <2>4. d.n <= Cardinality(chals)
    BY DEF MfaIInv, MfaNumbered
  <2> QED BY <2>1, <2>2, <2>3, <2>4, MfaBeginStep
<1>3. CASE Mfa!BeginAuthentication(c)
  <2>1. PICK s \in Sessions, k \in Mfa!Active, d \in chals :
            Mfa!Begin(c, [pc |-> "authentication", ses |-> s, chal |-> d.n, key |-> k, counter |-> key[k].counter])
    BY <1>3 DEF Mfa!BeginAuthentication
  <2>2. k \in Keys /\ key[k].counter \in Nat /\ d.n \in 1..MaxChallenges
    BY DEF MfaIInv, Mfa!TypeOK, Mfa!Challenge, Mfa!Active
  <2>3. [pc |-> "authentication", ses |-> s, chal |-> d.n, key |-> k, counter |-> key[k].counter] \in Mfa!Call
    BY <2>2 DEF Mfa!Call
  <2> QED BY <2>1, <2>3, MfaBeginStep
<1>4. CASE Mfa!BeginRecovery(c)
  <2>1. PICK s \in Sessions : Mfa!Begin(c, [pc |-> "recovery", ses |-> s, codes |-> mCodes])
    BY <1>4 DEF Mfa!BeginRecovery
  <2>2. [pc |-> "recovery", ses |-> s, codes |-> mCodes] \in Mfa!Call
    BY DEF Mfa!Call, MfaIInv, Mfa!TypeOK
  <2> QED BY <2>1, <2>2, MfaBeginStep
<1>5. CASE Mfa!BeginRevocation(c)
  <2>1. PICK s \in Sessions, k \in Mfa!Active : Mfa!Begin(c, [pc |-> "revocation", ses |-> s, key |-> k])
    BY <1>5 DEF Mfa!BeginRevocation
  <2>2. [pc |-> "revocation", ses |-> s, key |-> k] \in Mfa!Call
    BY DEF Mfa!Call, Mfa!Active
  <2> QED BY <2>1, <2>2, MfaBeginStep
<1> QED BY <1>1, <1>2, <1>3, <1>4, <1>5

\* A new challenge closes the open ones of its session and purpose and
\* preserves the invariant.
LEMMA MfaPersistStep ==
    ASSUME Mfa!MfaAssumption, MfaIInv, NEW c \in Calls, Mfa!PersistChallenge(c)
    PROVE  MfaIInv'
<1> DEFINE s == call[c].ses
           p == call[c].purpose
           f == [d \in chals |-> IF d.ses = s /\ d.purpose = p THEN MfaClosed(d) ELSE d]
           T == {f[d] : d \in chals}
           new == [n |-> Cardinality(chals) + 1, ses |-> s, purpose |-> p,
                   until |-> clock + ChallengeTime, open |-> TRUE, uses |-> 0]
<1>1. call[c].pc = "options" /\ call[c] \in Mfa!Call
  BY DEF Mfa!PersistChallenge, MfaIInv, Mfa!TypeOK
<1>2. s \in Sessions /\ p \in Mfa!Purposes
  BY <1>1 DEF Mfa!Call
<1>3. Cardinality(chals) \in Nat /\ Cardinality(chals) < MaxChallenges
  BY FS_CardinalityType, MfaSize DEF MfaIInv, MfaNumbered, Mfa!PersistChallenge
<1>4. \A d \in chals : /\ f[d] \in Mfa!Challenge /\ f[d].n = d.n /\ f[d].uses = d.uses
                       /\ f[d].open => d.open
  BY MfaChallengeForms DEF MfaIInv, Mfa!TypeOK
<1>5. /\ T \subseteq Mfa!Challenge /\ IsFiniteSet(T) /\ Cardinality(T) = Cardinality(chals)
      /\ \A d \in T : d.n <= Cardinality(T)
      /\ \A d, e \in T : d.n = e.n => d = e
  <2>1. f \in [chals -> Mfa!Challenge] /\ \A d \in chals : f[d].n = d.n
    BY <1>4
  <2> HIDE DEF f
  <2> QED BY <2>1, MfaMapChallenges DEF MfaIInv
<1>6. chals' = T \cup {new}
  BY MfaSize DEF Mfa!PersistChallenge, MfaClosed
<1>7. new \in Mfa!Challenge /\ new.n = Cardinality(chals) + 1 /\ new.uses = 0
  BY <1>2, <1>3 DEF Mfa!Challenge, MfaIInv, Mfa!TypeOK, Mfa!MfaAssumption
<1>8. \A d \in T : d.n \in Nat /\ d.n <= Cardinality(chals)
  BY <1>5 DEF Mfa!Challenge
<1>9. UNCHANGED <<clock, sess, key, batch, mCodes, recoveries>> /\ call' = [call EXCEPT ![c] = [pc |-> "idle"]]
  BY DEF Mfa!PersistChallenge
<1>10. \A d \in T : \E e \in chals : d.n = e.n /\ d.uses = e.uses /\ (d.open => e.open)
  BY <1>4
<1> HIDE DEF T, new
<1>11. Cardinality(chals') = Cardinality(chals) + 1 /\ IsFiniteSet(chals')
  <2>1. new \notin T
    BY <1>3, <1>7, <1>8
  <2> QED BY <2>1, <1>5, <1>6, FS_AddElement
<1>12. Mfa!TypeOK'
  BY <1>5, <1>6, <1>7, <1>9 DEF MfaIInv, Mfa!TypeOK, Mfa!Call
<1>13. MfaNumbered'
  <2>1. ASSUME NEW d \in chals' PROVE d.n <= Cardinality(chals')
    BY <1>3, <1>6, <1>7, <1>8, <1>11
  <2>2. ASSUME NEW d \in chals', NEW e \in chals', d.n = e.n PROVE d = e
    BY <1>3, <1>5, <1>6, <1>7, <1>8, <2>2
  <2> QED BY <1>11, <2>1, <2>2 DEF MfaNumbered
<1>14. MfaOpenUnused'
  BY <1>6, <1>7, <1>10 DEF MfaIInv, MfaOpenUnused
<1>15. MfaKeysInv' /\ Mfa!Active' = Mfa!Active
  BY <1>9, MfaKeysSame DEF MfaIInv
<1>16. MfaSessInv'
  BY <1>9, <1>15 DEF MfaIInv, MfaSessInv, Mfa!VerifiedSinceRecovery, Mfa!Live
<1>17. MfaCallsInv'
  <2> SUFFICES ASSUME NEW e \in Calls, call'[e].pc = "registration"
               PROVE  /\ call'[e].chal <= Cardinality(chals')
                      /\ \A d \in chals' : d.n = call'[e].chal /\ d.open => call'[e].mfa <= sess'[call'[e].ses].mfa
    BY DEF MfaCallsInv
  <2>1. call'[e] = call[e] /\ sess' = sess
    BY <1>9 DEF MfaIInv, Mfa!TypeOK
  <2>2. call[e].chal \in Nat /\ call[e].chal <= Cardinality(chals)
    BY <2>1 DEF MfaIInv, Mfa!TypeOK, Mfa!Call, MfaCallsInv
  <2>3. \A d \in chals : d.n = call[e].chal /\ d.open => call[e].mfa <= sess[call[e].ses].mfa
    BY <2>1 DEF MfaIInv, MfaCallsInv
  <2>4. ASSUME NEW d \in chals', d.n = call[e].chal, d.open PROVE call[e].mfa <= sess[call[e].ses].mfa
    <3>1. d \in T
      BY <1>3, <1>6, <1>7, <2>2, <2>4
    <3> QED BY <3>1, <1>10, <2>3, <2>4
  <2> QED BY <2>1, <2>2, <2>4, <1>3, <1>11
<1> QED BY <1>12, <1>13, <1>14, <1>15, <1>16, <1>17 DEF MfaIInv

\* The conditional update that consumes a challenge uses one that was open.
LEMMA MfaConsumeEffect ==
    ASSUME Mfa!MfaAssumption, MfaIInv, NEW c \in Calls, Mfa!Consumable(c), Mfa!Consume(c)
    PROVE  /\ chals' \subseteq Mfa!Challenge /\ MfaNumbered' /\ MfaOpenUnused'
           /\ Cardinality(chals') = Cardinality(chals)
           /\ \A d \in chals' : \E e \in chals : d.n = e.n /\ (d.open => e.open /\ d.n # call[c].chal)
<1> DEFINE f == [d \in chals |-> IF d.n = call[c].chal THEN MfaUsed(d) ELSE d]
           T == {f[d] : d \in chals}
<1>1. PICK o \in chals : o.n = call[c].chal /\ o.open
  BY DEF Mfa!Consumable
<1>2. \A d \in chals : d.n = call[c].chal => d.uses = 0
  BY <1>1 DEF MfaIInv, MfaNumbered, MfaOpenUnused
<1>3. \A d \in chals : /\ f[d] \in Mfa!Challenge /\ f[d].n = d.n /\ f[d].uses <= 1
                       /\ f[d].open => d.open /\ d.n # call[c].chal /\ f[d].uses = d.uses
  BY <1>2, MfaChallengeForms DEF MfaIInv, Mfa!TypeOK, MfaOpenUnused
<1>4. chals' = T
  BY DEF Mfa!Consume, MfaUsed
<1>5. /\ T \subseteq Mfa!Challenge /\ IsFiniteSet(T) /\ Cardinality(T) = Cardinality(chals)
      /\ \A d \in T : d.n <= Cardinality(T)
      /\ \A d, e \in T : d.n = e.n => d = e
  <2>1. f \in [chals -> Mfa!Challenge] /\ \A d \in chals : f[d].n = d.n
    BY <1>3
  <2> HIDE DEF f
  <2> QED BY <2>1, MfaMapChallenges DEF MfaIInv
<1>6. \A d \in T : /\ d.uses <= 1
                   /\ \E e \in chals : d.n = e.n /\ (d.open => e.open /\ d.n # call[c].chal /\ d.uses = e.uses)
  BY <1>3
<1> HIDE DEF T
<1>7. MfaNumbered' /\ MfaOpenUnused'
  BY <1>4, <1>5, <1>6 DEF MfaNumbered, MfaOpenUnused, MfaIInv
<1> QED BY <1>4, <1>5, <1>6, <1>7

\* A session that is verified is verified now, since the last recovery.
LEMMA MfaVerifiedEffect ==
    ASSUME MfaIInv, NEW s \in Sessions, sess' = Mfa!Verified(s), clock' = clock, recoveries' = recoveries
    PROVE  /\ sess' \in [Sessions -> [state : {"unused", "live", "ended"}, mfa : 0..clock, since : 0..recoveries]]
           /\ \A t \in Sessions : sess'[t].state = sess[t].state /\ sess'[t].mfa >= sess[t].mfa
           /\ \A t \in Sessions \ {s} : sess'[t] = sess[t]
           /\ sess'[s].mfa = clock /\ sess'[s].since = recoveries
<1> DEFINE S == [state : {"unused", "live", "ended"}, mfa : 0..clock, since : 0..recoveries]
           row == [sess[s] EXCEPT !.mfa = clock]
<1>1. sess \in [Sessions -> S] /\ clock \in Nat /\ recoveries \in Nat
  BY DEF MfaIInv, Mfa!TypeOK
<1>2. row \in S /\ row.state = sess[s].state /\ row.mfa = clock
  BY <1>1
<1>3. sess' = [sess EXCEPT ![s] = [row EXCEPT !.since = recoveries]]
  BY <1>1 DEF Mfa!Verified
<1> HIDE DEF row
<1>4. /\ [row EXCEPT !.since = recoveries] \in S
      /\ [row EXCEPT !.since = recoveries].state = sess[s].state
      /\ [row EXCEPT !.since = recoveries].mfa = clock
      /\ [row EXCEPT !.since = recoveries].since = recoveries
  BY <1>1, <1>2
<1>5. \A t \in Sessions : sess[t].mfa \in 0..clock
  BY <1>1
<1> QED BY <1>1, <1>3, <1>4, <1>5

\* Calls under way keep what they hold when another call verifies its session.
LEMMA MfaCallsAfterVerification ==
    ASSUME Mfa!MfaAssumption, MfaIInv, NEW c \in Calls, Mfa!Consumable(c), Mfa!Consume(c),
           NEW s \in Sessions, sess' = Mfa!Verified(s), clock' = clock, recoveries' = recoveries,
           call' = [call EXCEPT ![c] = [pc |-> "idle"]]
    PROVE  MfaCallsInv'
<1> SUFFICES ASSUME NEW e \in Calls, call'[e].pc = "registration"
             PROVE  /\ call'[e].chal <= Cardinality(chals')
                    /\ \A d \in chals' : d.n = call'[e].chal /\ d.open => call'[e].mfa <= sess'[call'[e].ses].mfa
  BY DEF MfaCallsInv
<1>1. call'[e] = call[e] /\ call[e] \in Mfa!Call
  BY DEF MfaIInv, Mfa!TypeOK
<1>2. call[e].ses \in Sessions /\ call[e].mfa \in Nat
  BY <1>1 DEF Mfa!Call
<1>3. sess[call[e].ses].mfa \in Nat /\ sess'[call[e].ses].mfa \in Nat
      /\ sess[call[e].ses].mfa <= sess'[call[e].ses].mfa
  BY <1>2, MfaVerifiedEffect DEF MfaIInv, Mfa!TypeOK
<1>4. call[e].chal <= Cardinality(chals')
  BY <1>1, MfaConsumeEffect DEF MfaIInv, MfaCallsInv
<1>5. ASSUME NEW d \in chals', d.n = call[e].chal, d.open PROVE call[e].mfa <= sess'[call[e].ses].mfa
  <2>1. PICK o \in chals : o.n = d.n /\ o.open
    BY <1>5, MfaConsumeEffect
  <2>2. call[e].mfa <= sess[call[e].ses].mfa
    BY <1>1, <1>5, <2>1 DEF MfaIInv, MfaCallsInv
  <2> QED BY <1>2, <1>3, <2>2
<1> QED BY <1>1, <1>4, <1>5

\* verifyRegistration adds a passkey within the limit and preserves the
\* invariant.
LEMMA MfaVerifyRegistrationStep ==
    ASSUME Mfa!MfaAssumption, MfaIInv, NEW c \in Calls, Mfa!VerifyRegistration(c)
    PROVE  MfaIInv'
<1> DEFINE k == call[c].key
           s == call[c].ses
<1>1. call[c] \in Mfa!Call /\ call[c].pc = "registration"
  BY DEF Mfa!VerifyRegistration, MfaIInv, Mfa!TypeOK
<1>2. k \in Keys /\ s \in Sessions
  BY <1>1 DEF Mfa!Call
<1>3. /\ Mfa!Consumable(c) /\ Mfa!Consume(c) /\ Mfa!Live(s) /\ key[k].state = "new"
      /\ Cardinality(Mfa!Active) < MaxKeys
      /\ key' = [key EXCEPT ![k].state = "active"] /\ sess' = Mfa!Verified(s)
      /\ call' = [call EXCEPT ![c] = [pc |-> "idle"]] /\ clock' = clock /\ recoveries' = recoveries
      /\ IF Mfa!Active = {} THEN batch' = batch + 1 /\ mCodes' = batch + 1 ELSE batch' = batch /\ mCodes' = mCodes
  BY MfaSize DEF Mfa!VerifyRegistration, Mfa!RegistrationAllowed, Mfa!Room
<1>4. Mfa!Active' = Mfa!Active \cup {k}
  BY <1>2, <1>3 DEF Mfa!Active, MfaIInv, Mfa!TypeOK
<1>5. Mfa!TypeOK'
  <2>1. batch' \in Nat /\ mCodes' \in 0..batch'
    BY <1>3 DEF MfaIInv, Mfa!TypeOK
  <2>2. key' \in [Keys -> [state : {"new", "active", "revoked"}, counter : Nat]]
    BY <1>2, <1>3 DEF MfaIInv, Mfa!TypeOK
  <2> QED BY <1>2, <1>3, <2>1, <2>2, MfaVerifiedEffect, MfaConsumeEffect DEF MfaIInv, Mfa!TypeOK,
          Mfa!Call
<1>6. MfaKeysInv'
  <2>1. IsFiniteSet(Mfa!Active') /\ Cardinality(Mfa!Active') <= Cardinality(Mfa!Active) + 1 /\ Cardinality(Mfa!Active) \in Nat
    <3>1. IsFiniteSet(Mfa!Active) /\ Cardinality(Mfa!Active) \in Nat
      BY FS_CardinalityType DEF MfaIInv, MfaKeysInv
    <3>2. /\ IsFiniteSet(Mfa!Active \cup {k})
          /\ Cardinality(Mfa!Active \cup {k}) \in {Cardinality(Mfa!Active), Cardinality(Mfa!Active) + 1}
      BY <3>1, FS_AddElement
    <3> QED BY <1>4, <3>1, <3>2
  <2>2. Cardinality(Mfa!Active') \in Nat
    BY <2>1, FS_CardinalityType
  <2>3. Mfa!PasskeyLimit'
    BY <1>3, <2>1, <2>2, MfaSize DEF Mfa!PasskeyLimit, Mfa!MfaAssumption
  <2>4. Mfa!NeverLockedOut'
    <3>1. mCodes' # 0
      <4>1. CASE Mfa!Active = {}
        BY <1>3, <4>1 DEF MfaIInv, Mfa!TypeOK
      <4>2. CASE Mfa!Active # {}
        BY <1>3, <4>2 DEF MfaIInv, MfaKeysInv, Mfa!NeverLockedOut
      <4> QED BY <4>1, <4>2
    <3> QED BY <3>1, <1>4 DEF Mfa!NeverLockedOut
  <2> QED BY <2>1, <2>3, <2>4 DEF MfaKeysInv
<1>7. MfaSessInv'
  <2>1. \A t \in Sessions : sess'[t].state = "unused" => t # s /\ sess'[t].mfa = 0
    BY <1>2, <1>3, MfaVerifiedEffect DEF MfaSessInv, MfaIInv, Mfa!Live
  <2>2. Mfa!Active' # {} /\ recoveries' = recoveries
    BY <1>3, <1>4
  <2>3. ASSUME NEW t \in Sessions, sess'[t].state = "live", sess'[t].mfa # 0 PROVE sess'[t].since = recoveries
    <3>1. CASE t = s
      BY <1>2, <1>3, <3>1, MfaVerifiedEffect
    <3>2. CASE t # s
      <4>1. sess'[t] = sess[t]
        BY <1>2, <1>3, <3>2, MfaVerifiedEffect
      <4> QED BY <2>3, <4>1 DEF MfaIInv, MfaSessInv, Mfa!VerifiedSinceRecovery, Mfa!Live
    <3> QED BY <3>1, <3>2
  <2> HIDE DEF s
  <2> QED BY <2>1, <2>2, <2>3 DEF MfaSessInv, Mfa!VerifiedSinceRecovery, Mfa!Live
<1>8. MfaCallsInv'
  BY <1>2, <1>3, MfaCallsAfterVerification
<1> QED BY <1>3, <1>5, <1>6, <1>7, <1>8, MfaConsumeEffect DEF MfaIInv

\* verifyAuthentication preserves the invariant.
LEMMA MfaVerifyAuthenticationStep ==
    ASSUME Mfa!MfaAssumption, MfaIInv, NEW c \in Calls, Mfa!VerifyAuthentication(c)
    PROVE  MfaIInv'
<1> DEFINE k == call[c].key
           s == call[c].ses
<1>1. call[c] \in Mfa!Call /\ call[c].pc = "authentication"
  BY DEF Mfa!VerifyAuthentication, MfaIInv, Mfa!TypeOK
<1>2. k \in Keys /\ s \in Sessions
  BY <1>1 DEF Mfa!Call
<1>3. /\ Mfa!Consumable(c) /\ Mfa!Consume(c) /\ Mfa!Live(s) /\ key[k].state = "active"
      /\ key' = [key EXCEPT ![k].counter = @ + 1] /\ sess' = Mfa!Verified(s)
      /\ call' = [call EXCEPT ![c] = [pc |-> "idle"]]
      /\ UNCHANGED <<clock, batch, mCodes, recoveries>>
  BY DEF Mfa!VerifyAuthentication, Mfa!AuthenticationAllowed
<1>4. Mfa!Active' = Mfa!Active /\ Mfa!Active # {}
  BY <1>2, <1>3 DEF Mfa!Active, MfaIInv, Mfa!TypeOK
<1>5. Mfa!TypeOK'
  <2>1. key' \in [Keys -> [state : {"new", "active", "revoked"}, counter : Nat]]
    BY <1>2, <1>3 DEF MfaIInv, Mfa!TypeOK
  <2> QED BY <1>2, <1>3, <2>1, MfaVerifiedEffect, MfaConsumeEffect DEF MfaIInv, Mfa!TypeOK, Mfa!Call
<1>6. MfaKeysInv'
  BY <1>3, <1>4 DEF MfaKeysInv, Mfa!PasskeyLimit, Mfa!NeverLockedOut, MfaIInv
<1>7. MfaSessInv'
  <2>1. /\ \A t \in Sessions : sess'[t].state = sess[t].state
        /\ \A t \in Sessions \ {s} : sess'[t] = sess[t]
        /\ sess'[s].since = recoveries /\ sess[s].state = "live"
    BY <1>2, <1>3, MfaVerifiedEffect DEF Mfa!Live
  <2>2. Mfa!Active' # {} /\ recoveries' = recoveries
    BY <1>3, <1>4
  <2> QED BY <1>2, <2>1, <2>2 DEF MfaSessInv, Mfa!VerifiedSinceRecovery, MfaIInv, Mfa!Live
<1>8. MfaCallsInv'
  BY <1>2, <1>3, MfaCallsAfterVerification
<1> QED BY <1>3, <1>5, <1>6, <1>7, <1>8, MfaConsumeEffect DEF MfaIInv

\* A recovery with a code revokes the passkeys and ends the verification of
\* every session: the invariant is preserved.
LEMMA MfaRecoverStep ==
    ASSUME Mfa!MfaAssumption, MfaIInv, NEW c \in Calls, Mfa!Recover(c)
    PROVE  MfaIInv'
<1> DEFINE f == [d \in chals |-> MfaClosed(d)]
           T == {f[d] : d \in chals}
           s == call[c].ses
<1>1. call[c] \in Mfa!Call /\ call[c].pc = "recovery"
  BY DEF Mfa!Recover, MfaIInv, Mfa!TypeOK
<1>2. s \in Sessions
  BY <1>1 DEF Mfa!Call
<1>3. \A d \in chals : f[d] \in Mfa!Challenge /\ f[d].n = d.n /\ f[d].uses = d.uses /\ ~f[d].open
  BY MfaChallengeForms DEF MfaIInv, Mfa!TypeOK
<1>4. chals' = T
  BY DEF Mfa!Recover, MfaClosed
<1>5. /\ T \subseteq Mfa!Challenge /\ IsFiniteSet(T) /\ Cardinality(T) = Cardinality(chals)
      /\ \A d \in T : d.n <= Cardinality(T)
      /\ \A d, e \in T : d.n = e.n => d = e
  <2>1. f \in [chals -> Mfa!Challenge] /\ \A d \in chals : f[d].n = d.n
    BY <1>3
  <2> HIDE DEF f
  <2> QED BY <2>1, MfaMapChallenges DEF MfaIInv
<1>6. \A d \in T : d.uses <= 1 /\ ~d.open
  BY <1>3 DEF MfaIInv, MfaOpenUnused
<1> HIDE DEF T
<1>7. MfaNumbered' /\ MfaOpenUnused'
  BY <1>4, <1>5, <1>6 DEF MfaNumbered, MfaOpenUnused
<1>8. /\ key' = [k \in Keys |-> IF k \in Mfa!Active THEN [key[k] EXCEPT !.state = "revoked"] ELSE key[k]]
      /\ mCodes' = 0 /\ recoveries' = recoveries + 1 /\ clock' = clock /\ batch' = batch
      /\ sess' = Mfa!SessionsAfterRecovery(s) /\ call' = [call EXCEPT ![c] = [pc |-> "idle"]]
  BY DEF Mfa!Recover
<1>9. Mfa!Active' = {}
  BY <1>8 DEF Mfa!Active, MfaIInv, Mfa!TypeOK
<1>10. MfaKeysInv'
  BY <1>8, <1>9, FS_EmptySet, MfaSize DEF MfaKeysInv, Mfa!PasskeyLimit, Mfa!NeverLockedOut,
     Mfa!MfaAssumption
<1>11. sess' \in [Sessions -> [state : {"unused", "live", "ended"}, mfa : 0..clock, since : 0..recoveries]]
  BY <1>8 DEF Mfa!SessionsAfterRecovery, MfaIInv, Mfa!TypeOK
<1>12. Mfa!TypeOK'
  <2>1. sess' \in [Sessions -> [state : {"unused", "live", "ended"}, mfa : 0..clock, since : 0..(recoveries + 1)]]
    <3>1. 0..recoveries \subseteq 0..(recoveries + 1)
      BY DEF MfaIInv, Mfa!TypeOK
    <3> QED BY <1>11, <3>1
  <2>2. key' \in [Keys -> [state : {"new", "active", "revoked"}, counter : Nat]]
    BY <1>8 DEF MfaIInv, Mfa!TypeOK
  <2>3. call' \in [Calls -> Mfa!Call]
    BY <1>8 DEF MfaIInv, Mfa!TypeOK, Mfa!Call
  <2> QED BY <2>1, <2>2, <2>3, <1>4, <1>5, <1>8 DEF MfaIInv, Mfa!TypeOK
<1>13. MfaSessInv'
  BY <1>2, <1>8 DEF MfaSessInv, Mfa!VerifiedSinceRecovery, Mfa!SessionsAfterRecovery, Mfa!Live,
     MfaIInv, Mfa!TypeOK
<1>14. MfaCallsInv'
  BY <1>4, <1>5, <1>6, <1>8 DEF MfaCallsInv, MfaIInv, Mfa!TypeOK
<1> QED BY <1>7, <1>10, <1>12, <1>13, <1>14 DEF MfaIInv

\* The revocation of a passkey, never the last one, preserves the invariant.
LEMMA MfaRevokeStep ==
    ASSUME Mfa!MfaAssumption, MfaIInv, NEW c \in Calls, Mfa!RevokePasskey(c)
    PROVE  MfaIInv'
<1> DEFINE k == call[c].key
<1>1. k \in Mfa!Active /\ k \in Keys /\ Cardinality(Mfa!Active) > 1
  BY MfaSize DEF Mfa!RevokePasskey, Mfa!RevocationAllowed, Mfa!Active
<1>2. /\ key' = [key EXCEPT ![k].state = "revoked"] /\ call' = [call EXCEPT ![c] = [pc |-> "idle"]]
      /\ UNCHANGED <<clock, sess, chals, batch, mCodes, recoveries>>
  BY DEF Mfa!RevokePasskey
<1>3. Mfa!Active' = Mfa!Active \ {k}
  BY <1>1, <1>2 DEF Mfa!Active, MfaIInv, Mfa!TypeOK
<1>4. /\ IsFiniteSet(Mfa!Active') /\ Cardinality(Mfa!Active') = Cardinality(Mfa!Active) - 1
      /\ Cardinality(Mfa!Active) \in Nat /\ Mfa!Active' # {}
  <2>1. IsFiniteSet(Mfa!Active) /\ Cardinality(Mfa!Active) \in Nat
    BY FS_CardinalityType DEF MfaIInv, MfaKeysInv
  <2>2. IsFiniteSet(Mfa!Active') /\ Cardinality(Mfa!Active') = Cardinality(Mfa!Active) - 1
    BY <1>1, <1>3, <2>1, FS_RemoveElement
  <2>3. Cardinality(Mfa!Active') # 0
    BY <1>1, <2>1, <2>2
  <2> QED BY <2>1, <2>2, <2>3, FS_EmptySet
<1>5. MfaKeysInv'
  BY <1>1, <1>2, <1>4, MfaSize DEF MfaKeysInv, Mfa!PasskeyLimit, Mfa!NeverLockedOut, MfaIInv,
     Mfa!MfaAssumption
<1>6. Mfa!TypeOK'
  BY <1>1, <1>2 DEF MfaIInv, Mfa!TypeOK, Mfa!Call
<1>7. MfaNumbered' /\ MfaOpenUnused' /\ MfaSessInv'
  BY <1>2, <1>4 DEF MfaIInv, MfaNumbered, MfaOpenUnused, MfaSessInv, Mfa!VerifiedSinceRecovery,
     Mfa!Live
<1>8. MfaCallsInv'
  BY <1>2 DEF MfaIInv, MfaCallsInv, Mfa!TypeOK
<1> QED BY <1>5, <1>6, <1>7, <1>8 DEF MfaIInv

\* A call that is refused preserves the invariant.
LEMMA MfaRefuseStep ==
    ASSUME Mfa!MfaAssumption, MfaIInv, NEW c \in Calls, Mfa!Refuse(c)
    PROVE  MfaIInv'
<1>1. /\ call' = [call EXCEPT ![c] = [pc |-> "idle"]]
      /\ UNCHANGED <<clock, sess, key, chals, batch, mCodes, recoveries>>
  BY DEF Mfa!Refuse
<1>2. MfaKeysInv' /\ Mfa!Active' = Mfa!Active
  BY <1>1, MfaKeysSame DEF MfaIInv
<1>3. Mfa!TypeOK'
  BY <1>1 DEF MfaIInv, Mfa!TypeOK, Mfa!Call
<1>4. MfaNumbered' /\ MfaOpenUnused' /\ MfaSessInv'
  BY <1>1, <1>2 DEF MfaIInv, MfaNumbered, MfaOpenUnused, MfaSessInv, Mfa!VerifiedSinceRecovery,
     Mfa!Live
<1>5. MfaCallsInv'
  BY <1>1 DEF MfaIInv, MfaCallsInv, Mfa!TypeOK
<1> QED BY <1>2, <1>3, <1>4, <1>5 DEF MfaIInv

\* The passing of time preserves the invariant.
LEMMA MfaIdleStep ==
    ASSUME Mfa!MfaAssumption, MfaIInv, Mfa!Tick \/ UNCHANGED Mfa!vars
    PROVE  MfaIInv'
<1>1. UNCHANGED <<sess, key, chals, batch, mCodes, recoveries, call>>
  BY DEF Mfa!Tick, Mfa!vars
<1>2. MfaKeysInv' /\ Mfa!Active' = Mfa!Active
  BY <1>1, MfaKeysSame DEF MfaIInv
<1>3. clock' \in Nat /\ clock <= clock'
  BY DEF Mfa!Tick, Mfa!vars, MfaIInv, Mfa!TypeOK
<1>4. Mfa!TypeOK'
  <2>1. 0..clock \subseteq 0..clock'
    BY <1>3 DEF MfaIInv, Mfa!TypeOK
  <2>2. sess' \in [Sessions -> [state : {"unused", "live", "ended"}, mfa : 0..clock', since : 0..recoveries]]
    BY <1>1, <2>1 DEF MfaIInv, Mfa!TypeOK
  <2> QED BY <1>1, <1>3, <2>2 DEF MfaIInv, Mfa!TypeOK
<1>5. MfaNumbered' /\ MfaOpenUnused' /\ MfaSessInv' /\ MfaCallsInv'
  BY <1>1, <1>2 DEF MfaIInv, MfaNumbered, MfaOpenUnused, MfaSessInv, Mfa!VerifiedSinceRecovery,
     Mfa!Live, MfaCallsInv
<1> QED BY <1>2, <1>4, <1>5 DEF MfaIInv

\* The invariant of the passkeys holds in every reachable state.
THEOREM MfaInvariance == ASSUME Mfa!MfaAssumption PROVE Mfa!Spec => []MfaIInv
<1>1. MfaIInv /\ [Mfa!Next]_(Mfa!vars) => MfaIInv'
  BY MfaLoginStep, MfaBeginsStep, MfaPersistStep, MfaVerifyRegistrationStep,
     MfaVerifyAuthenticationStep,
     MfaRecoverStep, MfaRevokeStep, MfaRefuseStep, MfaIdleStep DEF Mfa!Next
<1> QED BY <1>1, MfaInit, PTL DEF Mfa!Spec

\* For any number of sessions, passkeys and calls: a challenge is used once,
\* the passkeys keep to their limit, an administrator with passkeys has a way
\* back, and no session counts as verified from before the last recovery.
THEOREM MfaIsSafe == ASSUME Mfa!MfaAssumption PROVE Mfa!Spec => []Mfa!MfaSafe
<1>1. MfaIInv => Mfa!MfaSafe
  BY DEF MfaIInv, MfaOpenUnused, MfaKeysInv, MfaSessInv, Mfa!MfaSafe, Mfa!ChallengeOnce
<1> QED BY <1>1, MfaInvariance, PTL

\* A step that activates a passkey of an administrator who has one verifies a
\* session that was verified a moment ago.
LEMMA MfaAddedStep ==
    ASSUME Mfa!MfaAssumption, MfaIInv, Mfa!Next, NEW k \in Keys,
           key[k].state = "new", key'[k].state = "active", Mfa!Active # {}
    PROVE  \E s \in Sessions : Mfa!Live(s) /\ Mfa!Recent(sess[s].mfa, clock) /\ sess'[s].mfa = clock
<1>1. PICK c \in Calls : Mfa!VerifyRegistration(c)
  <2>1. ASSUME NEW c \in Calls, Mfa!VerifyAuthentication(c) \/ Mfa!Recover(c) \/ Mfa!RevokePasskey(c) PROVE FALSE
    <3>1. key \in [Keys -> [state : {"new", "active", "revoked"}, counter : Nat]] /\ k \notin Mfa!Active
      BY DEF MfaIInv, Mfa!TypeOK, Mfa!Active
    <3>2. CASE Mfa!VerifyAuthentication(c)
      BY <3>1, <3>2 DEF Mfa!VerifyAuthentication
    <3>3. CASE Mfa!Recover(c)
      BY <3>1, <3>3 DEF Mfa!Recover
    <3>4. CASE Mfa!RevokePasskey(c)
      BY <3>1, <3>4 DEF Mfa!RevokePasskey
    <3> QED BY <2>1, <3>2, <3>3, <3>4
  <2> QED BY <2>1 DEF Mfa!Next, Mfa!Login, Mfa!EndSession, Mfa!BeginOptions, Mfa!PersistChallenge,
          Mfa!BeginRegistration,
             Mfa!BeginAuthentication, Mfa!BeginRecovery, Mfa!BeginRevocation, Mfa!Begin, Mfa!Refuse,
             Mfa!Tick
<1> DEFINE s == call[c].ses
<1>2. call[c] \in Mfa!Call /\ call[c].pc = "registration"
  BY <1>1 DEF Mfa!VerifyRegistration, MfaIInv, Mfa!TypeOK
<1>3. s \in Sessions /\ call[c].mfa \in Nat
  BY <1>2 DEF Mfa!Call
<1>4. /\ Mfa!Consumable(c) /\ Mfa!Live(s) /\ Mfa!Recent(call[c].mfa, clock) /\ sess' = Mfa!Verified(s)
      /\ clock' = clock /\ recoveries' = recoveries
  BY <1>1 DEF Mfa!VerifyRegistration, Mfa!RegistrationAllowed, Mfa!Room
<1>5. call[c].mfa <= sess[s].mfa
  BY <1>2, <1>4 DEF Mfa!Consumable, MfaIInv, MfaCallsInv
<1>6. Mfa!Recent(sess[s].mfa, clock)
  BY <1>3, <1>4, <1>5 DEF Mfa!Recent, MfaIInv, Mfa!TypeOK, Mfa!MfaAssumption
<1>7. sess'[s].mfa = clock
  BY <1>3, <1>4, MfaVerifiedEffect
<1> QED BY <1>3, <1>4, <1>6, <1>7

\* verifyRegistration: to an administrator who has passkeys one is added only
\* by a session that was verified a moment ago.
THEOREM MfaAdded == ASSUME Mfa!MfaAssumption PROVE Mfa!Spec => Mfa!AddedByRecent
<1> DEFINE Body == \A k \in Keys : key[k].state = "new" /\ key'[k].state = "active" /\ Mfa!Active # {} =>
          \E s \in Sessions : Mfa!Live(s) /\ Mfa!Recent(sess[s].mfa, clock) /\ sess'[s].mfa = clock
<1>1. MfaIInv /\ [Mfa!Next]_(Mfa!vars) => [Body]_(Mfa!vars)
  BY MfaAddedStep
<1> HIDE DEF Body
<1>2. Mfa!Spec => [][Body]_(Mfa!vars)
  BY MfaInvariance, <1>1, PTL DEF Mfa!Spec
<1> QED BY <1>2 DEF Mfa!AddedByRecent, Body

-----------------------------------------------------------------------------
(* The sessions of administrators *)

\* The sessions of administrators begin with their types.
LEMMA AdminsTypeInit == ASSUME Admins!SessionsAssumption PROVE Admins!Init => Admins!TypeOK
  BY DEF Admins!SessionsAssumption, Admins!Init, Admins!TypeOK, Admins!NoSession, Admins!IdleRequest

\* A session that ends keeps its type and its last activity.
LEMMA AdminsEndType ==
    ASSUME Admins!TypeOK, NEW s \in Sessions
    PROVE  /\ Admins!End(s) \in [state : {"unused", "live", "ended"}, seen : 0..clock, expires : Nat]
           /\ Admins!End(s).seen = sSess[s].seen
  BY DEF Admins!TypeOK, Admins!End

\* Every request of an administrator preserves the types.
LEMMA AdminsTypeStep ==
    ASSUME Admins!SessionsAssumption, Admins!TypeOK, [Admins!Next]_(Admins!vars)
    PROVE  Admins!TypeOK'
<1> USE DEF Admins!TypeOK
<1>1. ASSUME NEW s \in Sessions, Admins!CreateSession(s) PROVE Admins!TypeOK'
  BY <1>1 DEF Admins!CreateSession, Admins!SessionsAssumption
<1>2. ASSUME NEW r \in Requests, Admins!ReadSession(r) PROVE Admins!TypeOK'
  <2>1. sSess[Of[r]] \in [state : {"unused", "live", "ended"}, seen : 0..clock, expires : Nat]
    BY DEF Admins!SessionsAssumption
  <2>2. [pc |-> "read", row |-> sSess[Of[r]], now |-> 0]
            \in [pc : {"idle", "read", "refresh", "recheck", "end", "accepted"},
                 row : [state : {"unused", "live", "ended"}, seen : Nat, expires : Nat],
                 now : 0..clock]
    BY <2>1
  <2> QED BY <1>2, <2>2 DEF Admins!ReadSession
<1>3. ASSUME NEW r \in Requests, Admins!Validate(r) PROVE Admins!TypeOK'
  <2>1. PICK p \in {"end", "refresh"} :
            req' = [req EXCEPT ![r] = [pc |-> p, row |-> req[r].row, now |-> clock]]
    BY <1>3 DEF Admins!Validate
  <2> QED BY <1>3, <2>1 DEF Admins!Validate
<1>4. ASSUME NEW r \in Requests, Admins!Refresh(r) PROVE Admins!TypeOK'
  <2>1. Of[r] \in Sessions /\ req[r].now \in 0..clock
    BY DEF Admins!SessionsAssumption
  <2>2. sSess' \in [Sessions -> [state : {"unused", "live", "ended"}, seen : 0..clock, expires : Nat]]
    BY <1>4, <2>1 DEF Admins!Refresh, Admins!Seen
  <2>3. PICK p \in {"accepted", "recheck"} : req' = [req EXCEPT ![r].pc = p]
    BY <1>4 DEF Admins!Refresh
  <2>4. clock' = clock
    BY <1>4 DEF Admins!Refresh
  <2> QED BY <2>2, <2>3, <2>4
<1>5. ASSUME NEW r \in Requests, Admins!Recheck(r) PROVE Admins!TypeOK'
  BY <1>5 DEF Admins!Recheck
<1>6. Admins!IdleRequest \in [pc : {"idle", "read", "refresh", "recheck", "end", "accepted"},
                              row : [state : {"unused", "live", "ended"}, seen : Nat, expires : Nat],
                              now : 0..clock]
  BY DEF Admins!IdleRequest, Admins!NoSession
<1>7. ASSUME NEW r \in Requests, Admins!RevokeInvalid(r) \/ Admins!Handle(r) PROVE Admins!TypeOK'
  <2>1. req' = [req EXCEPT ![r] = Admins!IdleRequest] /\ clock' = clock
    BY <1>7 DEF Admins!RevokeInvalid, Admins!Handle
  <2>2. sSess' \in [Sessions -> [state : {"unused", "live", "ended"}, seen : 0..clock, expires : Nat]]
    BY <1>7, AdminsEndType DEF Admins!RevokeInvalid, Admins!Handle, Admins!SessionsAssumption
  <2> HIDE DEF Admins!IdleRequest
  <2> QED BY <1>6, <2>1, <2>2
<1>8. ASSUME Admins!Tick PROVE Admins!TypeOK'
  BY <1>8 DEF Admins!Tick
<1>9. ASSUME UNCHANGED Admins!vars PROVE Admins!TypeOK'
  BY <1>9 DEF Admins!vars
<1> QED BY <1>1, <1>2, <1>3, <1>4, <1>5, <1>6, <1>7, <1>8, <1>9 DEF Admins!Next

\* The sessions of administrators keep their types: none is active later than
\* now.
THEOREM AdminsTypeCorrect == ASSUME Admins!SessionsAssumption PROVE Admins!Spec => []Admins!TypeOK
  BY AdminsTypeInit, AdminsTypeStep, PTL DEF Admins!Spec

\* A request is accepted only for a session that is in force at the instant
\* that the request read.
LEMMA AdminsAcceptStep ==
    ASSUME Admins!SessionsAssumption, Admins!TypeOK, Admins!Next, NEW r \in Requests,
           req[r].pc # "accepted", req'[r].pc = "accepted"
    PROVE  LET s == sSess[Of[r]] IN
           s.state = "live" /\ s.expires > req[r].now /\ s.seen + IdleTime > req[r].now
<1> DEFINE s == sSess[Of[r]]
<1>0. s.seen \in Nat /\ s.expires \in Nat /\ req[r].now \in Nat /\ IdleTime \in Nat /\ IdleTime > 0
  BY DEF Admins!TypeOK, Admins!SessionsAssumption
<1>1. Admins!Refresh(r) \/ Admins!Recheck(r)
  <2>1. ASSUME NEW t \in Requests, Admins!ReadSession(t) \/ Admins!RevokeInvalid(t) \/ Admins!Handle(t) PROVE FALSE
    BY <2>1 DEF Admins!TypeOK, Admins!ReadSession, Admins!RevokeInvalid, Admins!Handle,
       Admins!IdleRequest
  <2>2. ASSUME NEW t \in Requests, Admins!Validate(t) PROVE FALSE
    <3>1. PICK p \in {"end", "refresh"} : req' = [req EXCEPT ![t].now = clock, ![t].pc = p]
      BY <2>2 DEF Admins!Validate
    <3> QED BY <3>1 DEF Admins!TypeOK
  <2>3. ASSUME NEW t \in Requests, Admins!Refresh(t) \/ Admins!Recheck(t) PROVE t = r
    <3>1. PICK p \in {"accepted", "recheck", "end"} : req' = [req EXCEPT ![t].pc = p]
      BY <2>3 DEF Admins!Refresh, Admins!Recheck
    <3> QED BY <3>1 DEF Admins!TypeOK
  <2> QED BY <2>1, <2>2, <2>3 DEF Admins!Next, Admins!CreateSession, Admins!Tick
<1>2. CASE Admins!Refresh(r)
  BY <1>0, <1>2 DEF Admins!Refresh, Admins!Qualifies, Admins!Invalid, Admins!IdleAt, Admins!TypeOK
<1>3. CASE Admins!Recheck(r)
  BY <1>0, <1>3 DEF Admins!Recheck, Admins!RefreshedConcurrently, Admins!Invalid, Admins!TypeOK
<1> QED BY <1>1, <1>2, <1>3

\* No request sets the last activity of its session back.
LEMMA AdminsAdvanceStep ==
    ASSUME Admins!SessionsAssumption, Admins!TypeOK, Admins!Next, NEW s \in Sessions
    PROVE  sSess'[s].seen >= sSess[s].seen
<1>0. \A t \in Sessions : sSess[t].seen \in Nat /\ Admins!End(t).seen = sSess[t].seen
  BY AdminsEndType DEF Admins!TypeOK
<1>1. ASSUME NEW t \in Sessions, Admins!CreateSession(t) PROVE sSess'[s].seen >= sSess[s].seen
  BY <1>0, <1>1 DEF Admins!CreateSession, Admins!TypeOK
<1>2. ASSUME NEW r \in Requests, Admins!Refresh(r) PROVE sSess'[s].seen >= sSess[s].seen
  <2>1. Of[r] \in Sessions /\ req[r].now \in Nat
    BY DEF Admins!TypeOK, Admins!SessionsAssumption
  <2>2. CASE Admins!Qualifies(sSess[Of[r]], req[r].now)
    <3>1. sSess' = [sSess EXCEPT ![Of[r]].seen = req[r].now] /\ sSess[Of[r]].seen <= req[r].now
      BY <1>2, <2>2 DEF Admins!Refresh, Admins!Qualifies, Admins!Seen
    <3> QED BY <1>0, <2>1, <3>1 DEF Admins!TypeOK
  <2>3. CASE ~Admins!Qualifies(sSess[Of[r]], req[r].now)
    BY <1>0, <1>2, <2>3 DEF Admins!Refresh
  <2> QED BY <2>2, <2>3
<1>3. ASSUME NEW r \in Requests, Admins!RevokeInvalid(r) PROVE sSess'[s].seen >= sSess[s].seen
  BY <1>0, <1>3 DEF Admins!RevokeInvalid, Admins!TypeOK, Admins!SessionsAssumption
<1>4. ASSUME NEW r \in Requests, Admins!Handle(r) PROVE sSess'[s].seen >= sSess[s].seen
  BY <1>0, <1>4 DEF Admins!Handle, Admins!TypeOK, Admins!SessionsAssumption
<1>5. ASSUME UNCHANGED sSess PROVE sSess'[s].seen >= sSess[s].seen
  BY <1>0, <1>5
<1> QED BY <1>1, <1>2, <1>3, <1>4, <1>5 DEF Admins!Next, Admins!ReadSession, Admins!Validate,
        Admins!Recheck, Admins!Tick

\* Requests of administrators are accepted only in force, whatever requests and
\* log-outs of the same session overlap.
THEOREM AdminsAccepted == ASSUME Admins!SessionsAssumption PROVE Admins!Spec => Admins!AcceptedInForce
<1> DEFINE Body == \A r \in Requests : req[r].pc # "accepted" /\ req'[r].pc = "accepted" =>
          LET s == sSess[Of[r]] IN
          s.state = "live" /\ s.expires > req[r].now /\ s.seen + IdleTime > req[r].now
<1>1. Admins!TypeOK /\ [Admins!Next]_(Admins!vars) => [Body]_(Admins!vars)
  BY AdminsAcceptStep
<1> HIDE DEF Body
<1>2. Admins!Spec => [][Body]_(Admins!vars)
  BY AdminsTypeCorrect, <1>1, PTL DEF Admins!Spec
<1> QED BY <1>2 DEF Admins!AcceptedInForce, Body

\* The last activity of a session never goes back, although requests that read
\* the clock earlier may write later.
THEOREM AdminsAdvances == ASSUME Admins!SessionsAssumption PROVE Admins!Spec => Admins!ActivityAdvances
<1> DEFINE Body == \A s \in Sessions : sSess'[s].seen >= sSess[s].seen
<1>1. Admins!TypeOK /\ [Admins!Next]_(Admins!vars) => [Body]_(Admins!vars)
  BY AdminsAdvanceStep
<1> HIDE DEF Body
<1>2. Admins!Spec => [][Body]_(Admins!vars)
  BY AdminsTypeCorrect, <1>1, PTL DEF Admins!Spec
<1> QED BY <1>2 DEF Admins!ActivityAdvances, Body

-----------------------------------------------------------------------------
(* Administrators as a whole *)

\* Passkeys and sessions of administrators together: a challenge is used once, an
\* administrator with passkeys has a way back and no session verified before the
\* last recovery, and nobody is active later than now.
THEOREM AdminsAreSafe ==
    ASSUME Mfa!MfaAssumption, Admins!SessionsAssumption
    PROVE  Mfa!Spec /\ Admins!Spec => []AdminsSafe
<1>1. Mfa!MfaSafe /\ Admins!TypeOK => AdminsSafe
    BY DEF AdminsSafe
<1> QED BY <1>1, MfaIsSafe, AdminsTypeCorrect, PTL

\* Requests of administrators are accepted only in force, activity never goes back,
\* and a passkey is added only by a session verified a moment ago.
THEOREM AdminsStayInForce ==
    ASSUME Mfa!MfaAssumption, Admins!SessionsAssumption
    PROVE  Mfa!Spec /\ Admins!Spec => AdminsInForce
BY AdminsAccepted, AdminsAdvances, MfaAdded DEF AdminsInForce
=============================================================================
