--------------------------- MODULE AdminSessions ---------------------------
(***************************************************************************)
(* How the requests of an administrator keep a session alive and end it    *)
(* (getSessionPrincipal, refreshAdminSessionActivity and the management of *)
(* own sessions in auth/auth.service.ts).  The check of a request is a     *)
(* series of statements without a transaction: the session is read, then   *)
(* the clock, then the activity is written if the session still qualifies, *)
(* and if not the session is looked at again before it is ended.           *)
(***************************************************************************)
EXTENDS Naturals, FiniteSets

CONSTANTS
    Sessions, Requests,
    Of,                  \* the session of each request
    Idle, Absolute,      \* idle time-out and lifetime of a session
    MaxClock             \* bound

SessionsAssumption ==
    /\ Of \in [Requests -> Sessions]
    /\ Idle \in Nat \ {0} /\ Absolute \in Nat \ {0} /\ MaxClock \in Nat

VARIABLES clock, sess, req

vars == <<clock, sess, req>>

NoSession == [state |-> "unused", seen |-> 0, expires |-> 0]
IdleRequest == [pc |-> "idle", row |-> NoSession, now |-> 0]

Init ==
    /\ clock = 1
    /\ sess = [s \in Sessions |-> NoSession]
    /\ req = [r \in Requests |-> IdleRequest]

CreateSession(s) ==
    /\ sess[s].state = "unused"
    /\ sess' = [sess EXCEPT ![s] = [state |-> "live", seen |-> clock, expires |-> clock + Absolute]]
    /\ UNCHANGED <<clock, req>>

\* getSessionPrincipal finds the session of the cookie.
ReadSession(r) ==
    /\ req[r].pc = "idle" /\ sess[Of[r]].state # "unused"
    /\ req' = [req EXCEPT ![r] = [pc |-> "read", row |-> sess[Of[r]], now |-> 0]]
    /\ UNCHANGED <<clock, sess>>

\* adminIdleCutoff
IdleAt(row, now) == row.seen + Idle <= now

Invalid(row, now) == row.state # "live" \/ row.expires <= now

\* The clock is read, and what was read before is judged by it.
Validate(r) ==
    LET row == req[r].row IN
    /\ req[r].pc = "read"
    /\ req' = [req EXCEPT ![r].now = clock,
                 ![r].pc = IF Invalid(row, clock) \/ row.seen > clock \/ IdleAt(row, clock)
                           THEN "end" ELSE "refresh"]
    /\ UNCHANGED <<clock, sess>>

\* Mutant: the activity is written without regard to a later one.
QualifiesLate(row, now) == ~Invalid(row, now) /\ ~IdleAt(row, now)

\* The condition of the statement that writes the activity.
Qualifies(row, now) == ~Invalid(row, now) /\ ~IdleAt(row, now) /\ row.seen <= now

\* Mutant: the row holds the end of the idle time.
SeenUntil(r) == req[r].now + Idle

\* The instant that is written is the one the request read.
Seen(r) == req[r].now

Refresh(r) ==
    LET s == Of[r] IN
    /\ req[r].pc = "refresh"
    /\ IF Qualifies(sess[s], req[r].now)
       THEN /\ sess' = [sess EXCEPT ![s].seen = Seen(r)]
            /\ req' = [req EXCEPT ![r].pc = "accepted"]
       ELSE req' = [req EXCEPT ![r].pc = "recheck"] /\ UNCHANGED sess
    /\ UNCHANGED clock

\* Mutant: a later activity is enough.
RefreshedLater(row, now) == row.seen > now

\* Another request of the session was faster, and the session is in force.
RefreshedConcurrently(row, now) == ~Invalid(row, now) /\ row.seen > now

Recheck(r) ==
    /\ req[r].pc = "recheck"
    /\ req' = [req EXCEPT ![r].pc =
                 IF RefreshedConcurrently(sess[Of[r]], req[r].now) THEN "accepted" ELSE "end"]
    /\ UNCHANGED <<clock, sess>>

End(s) == IF sess[s].state = "live" THEN [sess[s] EXCEPT !.state = "ended"] ELSE sess[s]

\* revokeInvalidAdminSession
RevokeInvalid(r) ==
    /\ req[r].pc = "end"
    /\ sess' = [sess EXCEPT ![Of[r]] = End(Of[r])]
    /\ req' = [req EXCEPT ![r] = IdleRequest]
    /\ UNCHANGED clock

\* The handler of an accepted request: it leaves the sessions alone, ends one
\* (revokeOwnAdminSession, logout) or all others (revokeOtherAdminSessions).
Handle(r) ==
    /\ req[r].pc = "accepted"
    /\ \/ UNCHANGED sess
       \/ \E s \in Sessions : sess' = [sess EXCEPT ![s] = End(s)]
       \/ sess' = [s \in Sessions |-> IF s = Of[r] THEN sess[s] ELSE End(s)]
    /\ req' = [req EXCEPT ![r] = IdleRequest]
    /\ UNCHANGED clock

Tick ==
    /\ clock < MaxClock /\ clock' = clock + 1
    /\ UNCHANGED <<sess, req>>

Next ==
    \/ \E s \in Sessions : CreateSession(s)
    \/ \E r \in Requests :
          \/ ReadSession(r) \/ Validate(r) \/ Refresh(r) \/ Recheck(r) \/ RevokeInvalid(r) \/ Handle(r)
    \/ Tick

Spec == Init /\ [][Next]_vars

-----------------------------------------------------------------------------
(* Properties                                                              *)

\* Every variable has its type, whatever the order of the steps.
TypeOK ==
    /\ clock \in Nat
    /\ sess \in [Sessions -> [state : {"unused", "live", "ended"}, seen : 0..clock, expires : Nat]]
    /\ req \in [Requests -> [pc : {"idle", "read", "refresh", "recheck", "end", "accepted"},
                             row : [state : {"unused", "live", "ended"}, seen : Nat, expires : Nat],
                             now : 0..clock]]

\* A request is accepted only while its session is in force, neither expired nor
\* idle at the instant of the request, whatever the other requests of the
\* administrator did to the session since it was read.
AcceptedInForce ==
    [][\A r \in Requests : req[r].pc # "accepted" /\ req'[r].pc = "accepted" =>
          LET s == sess[Of[r]] IN
          s.state = "live" /\ s.expires > req[r].now /\ s.seen + Idle > req[r].now]_vars

\* The activity of a session never moves back, although requests write the
\* instant that each of them read earlier.
ActivityAdvances == [][\A s \in Sessions : sess'[s].seen >= sess[s].seen]_vars

\* Parallel requests do not end a session that is in use: the check ends only
\* a session that is expired or idle.
ActiveSessionKept ==
    [][\A r \in Requests : req[r].pc = "end" /\ req'[r].pc = "idle" =>
          LET s == sess[Of[r]] IN
          s.state = "live" => s.expires <= clock \/ IdleAt(s, clock)]_vars
=============================================================================
