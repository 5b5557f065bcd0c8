-------------------------- MODULE DeviceCandidates --------------------------
(***************************************************************************)
(* The quarantine of a new device of one account: the browser without a    *)
(* device reserves a candidate, the trusted device looks at it, rejects it *)
(* or opens the flow of its verification, and the browser fetches the      *)
(* request of the flow (e2ee/matrix-device-candidates.service.ts,          *)
(* -candidate-review, -verification and -verification-inbox, with the      *)
(* triggers of their tables).                                              *)
(*                                                                         *)
(* Every operation is a transaction that holds the lock of the account's   *)
(* devices and the rows of the sessions it reads; what passes meanwhile is *)
(* time.  Begin takes the locks and reads the clock and the row of the     *)
(* other session; the commit reads the clock again.  PostgreSQL's clock    *)
(* may be set back.                                                        *)
(***************************************************************************)
EXTENDS Integers, FiniteSets

CONSTANTS
    Sessions, Candidates, Flows,
    Window,                 \* ten minutes, of a candidate, a flow and a request
    Drift,                  \* how far a request may be dated ahead
    SessionTime,
    MaxClock, MaxRollbacks, MaxChanges   \* bounds

CandidatesAssumption ==
    /\ Window \in Nat \ {0} /\ Drift \in Nat /\ SessionTime \in Nat \ {0}
    /\ MaxClock \in Nat /\ MaxRollbacks \in Nat /\ MaxChanges \in Nat

VARIABLES
    clock, rollbacks, changes,
    version,       \* sessionVersion of the account
    device,        \* whether the trusted device is active
    sess,
    cand, flow,    \* rows of candidates and of flows, each by its candidate
    tx,            \* the transaction that holds the lock, or the last answer
    told,          \* candidates that were reported as expired
    delivered      \* requests that the browser was given

rows == <<cand, flow>>
account == <<changes, version, device, sess>>
time == <<clock, rollbacks>>
vars == <<time, account, rows, tx, told, delivered>>

Kinds == {"reserve", "status", "cancel", "review", "reject", "open", "poll"}
ReviewerKinds == {"review", "reject", "open"}
Positive == {"pending", "shown", "admitted", "delivered"}

Least(S) == CHOOSE x \in S : \A y \in S : x <= y
Pending(c) == c \in DOMAIN cand /\ cand[c].status = "PENDING"
FlowPending(c) == c \in DOMAIN flow /\ flow[c].status = "PENDING"

AbsentSession == [state |-> "unused", version |-> 0, until |-> 0, bound |-> FALSE]
Answer(says, c) == [pc |-> "idle", says |-> says, c |-> c]
Silent == [pc |-> "idle", says |-> "nothing"]

Init ==
    /\ clock = 1 /\ rollbacks = 0 /\ changes = 0
    /\ version = 1 /\ device = TRUE
    /\ sess = [s \in Sessions |-> AbsentSession]
    /\ cand = [c \in {} |-> 0] /\ flow = [c \in {} |-> 0]
    /\ tx = Silent
    /\ told = {} /\ delivered = {}

\* currentSession, currentReviewer, reviewer and requester.
CurrentRow(row, bound, now) ==
    row.state = "live" /\ row.version = version /\ row.bound = bound /\ row.until > now

Current(s, bound, now) == CurrentRow(sess[s], bound, now)

\* The session at the other end: the requester's, or the reviewer's of the flow.
Others(kind, c) ==
    IF kind \in {"review", "open"} THEN {s \in Sessions : c \in DOMAIN cand /\ cand[c].ses = s}
    ELSE IF kind = "poll" THEN {s \in Sessions : c \in DOMAIN flow /\ flow[c].reviewer = s}
    ELSE {}

\* Mutant: the row of the other session is read without a lock.
LockedOwn == IF tx.pc = "idle" THEN {} ELSE {tx.s}

\* Sessions whose rows the transaction holds.
Locked == IF tx.pc = "idle" THEN {} ELSE {tx.s} \cup Others(tx.pc, tx.c)

Begin(kind, c, s) ==
    /\ tx.pc = "idle"
    /\ device \/ kind = "poll"
    /\ c \in DOMAIN cand \/ kind = "reserve"
    /\ Current(s, kind \in ReviewerKinds, clock)
    /\ tx' = [pc |-> kind, c |-> c, s |-> s, now |-> clock,
              other |-> IF Others(kind, c) = {} THEN AbsentSession
                        ELSE sess[CHOOSE o \in Others(kind, c) : TRUE]]
    /\ UNCHANGED <<time, account, rows, told, delivered>>

\* The operation is refused, changes nothing, or its transaction is rolled back.
Nothing ==
    /\ tx.pc # "idle"
    /\ tx' = Silent
    /\ UNCHANGED <<time, account, rows, told, delivered>>

-----------------------------------------------------------------------------
(* The end of a candidate                                                  *)

Outcome(c, at) == IF cand[c].until <= at THEN "EXPIRED" ELSE "CANCELLED"

\* What the triggers and the constraints ask of a resolution.
Resolvable(c, at) ==
    /\ Pending(c) /\ at <= clock /\ cand[c].created <= at
    /\ FlowPending(c) => flow[c].created <= clock

\* Mutant: the flow is left alone.
FlowsKept(C) == flow

\* The trigger ends the flows of the candidates C with them.
FlowsAfter(C) ==
    [c \in DOMAIN flow |->
        IF c \in C /\ FlowPending(c)
        THEN [flow[c] EXCEPT !.status = IF flow[c].until <= clock THEN "EXPIRED" ELSE "CANCELLED"]
        ELSE flow[c]]

Resolved(C, at) ==
    [c \in DOMAIN cand |-> IF c \in C THEN [cand[c] EXCEPT !.status = Outcome(c, at)] ELSE cand[c]]

Resolve(c, at) ==
    /\ Resolvable(c, at)
    /\ cand' = Resolved({c}, at) /\ flow' = FlowsAfter({c})

-----------------------------------------------------------------------------
(* The browser without a device                                            *)

Own(c) == c \in DOMAIN cand /\ cand[c].ses = tx.s /\ cand[c].version = version

\* Mutant: the answer is computed and nothing is written.
NotLatched(c) == UNCHANGED rows

\* withContext writes an expiry that it observed.
Latch(c) == IF Pending(c) /\ cand[c].until <= clock THEN Resolve(c, clock) ELSE UNCHANGED rows

\* The answer to reserve and status.
Report(c) ==
    /\ Latch(c)
    /\ LET state == IF Pending(c) THEN IF cand[c].until <= clock THEN "EXPIRED" ELSE "PENDING"
                    ELSE cand[c].status IN
       /\ told' = IF state = "EXPIRED" THEN told \cup {c} ELSE told
       /\ tx' = IF state = "PENDING" THEN Answer("pending", c) ELSE Silent

Status ==
    /\ tx.pc = "status" /\ Current(tx.s, FALSE, clock) /\ Own(tx.c)
    /\ Report(tx.c)
    /\ UNCHANGED <<time, account, delivered>>

\* A repeated reservation; one that runs out meanwhile is refused.
ReserveAgain ==
    /\ tx.pc = "reserve" /\ Current(tx.s, FALSE, clock) /\ Own(tx.c)
    /\ ~(Pending(tx.c) /\ cand[tx.c].until > tx.now /\ cand[tx.c].until <= clock)
    /\ Report(tx.c)
    /\ UNCHANGED <<time, account, delivered>>

\* Mutant: the candidate lives as long as its session.
SessionLong(s, now) == sess[s].until

Until(s, now) == Least({now + Window, sess[s].until})

\* Mutant: other candidates do not matter.
NoneAsked(C) == TRUE

\* C are the candidates that have run out; there is no other.
NonePending(C) == \A c \in DOMAIN cand : Pending(c) => c \in C

Reserve ==
    LET c == tx.c
        old == {d \in DOMAIN cand : Pending(d) /\ cand[d].until <= tx.now}
        new == [status |-> "PENDING", ses |-> tx.s, version |-> version,
                created |-> tx.now, until |-> Until(tx.s, tx.now)] IN
    /\ tx.pc = "reserve" /\ c \notin DOMAIN cand /\ Current(tx.s, FALSE, clock)
    /\ \A d \in old : Resolvable(d, tx.now)
    /\ NonePending(old)
    /\ new.created <= clock /\ new.until > clock
    /\ cand' = [d \in DOMAIN cand \cup {c} |-> IF d = c THEN new ELSE Resolved(old, tx.now)[d]]
    /\ flow' = FlowsAfter(old)
    /\ tx' = Answer("pending", c)
    /\ UNCHANGED <<time, account, told, delivered>>

Cancel ==
    LET c == tx.c IN
    /\ tx.pc = "cancel" /\ Current(tx.s, FALSE, clock) /\ Own(c)
    /\ IF Pending(c) THEN Resolve(c, tx.now) ELSE UNCHANGED rows
    /\ told' = IF cand'[c].status = "EXPIRED" THEN told \cup {c} ELSE told
    /\ tx' = Silent
    /\ UNCHANGED <<time, account, delivered>>

NeedsExpiration(c, now) ==
    Pending(c) /\ (cand[c].until <= now \/ (FlowPending(c) /\ flow[c].until <= now))

PollExpired ==
    LET c == tx.c IN
    /\ tx.pc = "poll" /\ Own(c) /\ Current(tx.s, FALSE, clock)
    /\ \/ NeedsExpiration(c, tx.now) /\ Resolve(c, tx.now)
       \/ ~NeedsExpiration(c, tx.now) /\ NeedsExpiration(c, clock) /\ Resolve(c, clock)
    /\ tx' = Silent
    /\ UNCHANGED <<time, account, told, delivered>>

\* The request as it is stored; it can be fetched again.
PollDelivers ==
    LET c == tx.c IN
    /\ tx.pc = "poll" /\ Own(c) /\ Current(tx.s, FALSE, clock)
    /\ Pending(c) /\ FlowPending(c)
    /\ \A t \in {tx.now, clock} : ~NeedsExpiration(c, t)
    /\ flow[c].version = version /\ device
    /\ CurrentRow(tx.other, TRUE, tx.now) /\ tx.other.until > clock
    /\ cand[c].created <= clock /\ flow[c].created <= clock
    /\ flow[c].timestamp <= clock + Drift /\ flow[c].timestamp + Window > clock
    /\ delivered' = delivered \cup {[cand |-> c, id |-> flow[c].id, reviewer |-> flow[c].reviewer]}
    /\ tx' = Answer("delivered", c)
    /\ UNCHANGED <<time, account, rows, told>>

-----------------------------------------------------------------------------
(* The trusted device                                                      *)

\* pending and detail.
ReviewExpired ==
    /\ tx.pc = "review" /\ Current(tx.s, TRUE, clock)
    /\ Pending(tx.c) /\ cand[tx.c].until <= clock
    /\ Resolve(tx.c, clock)
    /\ tx' = Silent
    /\ UNCHANGED <<time, account, told, delivered>>

RequesterValid(c) == CurrentRow(tx.other, FALSE, tx.now) /\ cand[c].version = version

ReviewShows ==
    LET c == tx.c IN
    /\ tx.pc = "review" /\ Current(tx.s, TRUE, clock)
    /\ Pending(c) /\ RequesterValid(c) /\ tx.other.until > clock
    /\ \A t \in {tx.now, clock} : cand[c].until > t
    /\ tx' = Answer("shown", c)
    /\ UNCHANGED <<time, account, rows, told, delivered>>

\* Also for a candidate whose session has ended.
Reject ==
    LET c == tx.c IN
    /\ tx.pc = "reject" /\ Current(tx.s, TRUE, clock) /\ c \in DOMAIN cand
    /\ IF Pending(c) THEN Resolve(c, clock) ELSE UNCHANGED rows
    /\ told' = IF cand'[c].status = "EXPIRED" THEN told \cup {c} ELSE told
    /\ tx' = Silent
    /\ UNCHANGED <<time, account, delivered>>

OpenExpired ==
    LET c == tx.c IN
    /\ tx.pc = "open" /\ Current(tx.s, TRUE, clock)
    /\ NeedsExpiration(c, clock) /\ RequesterValid(c) /\ tx.other.until > clock
    /\ Resolve(c, clock)
    /\ tx' = Silent
    /\ UNCHANGED <<time, account, told, delivered>>

\* The same request from the same session.
OpenAgain ==
    LET c == tx.c IN
    /\ tx.pc = "open" /\ Current(tx.s, TRUE, clock)
    /\ Pending(c) /\ FlowPending(c) /\ ~NeedsExpiration(c, clock)
    /\ RequesterValid(c) /\ tx.other.until > clock
    /\ flow[c].reviewer = tx.s /\ flow[c].version = version
    /\ tx' = Answer("admitted", c)
    /\ UNCHANGED <<time, account, rows, told, delivered>>

\* Mutant: the name of a flow that has ended can be used again.
UnusedNow(f) == \A d \in DOMAIN flow : FlowPending(d) => flow[d].id # f

Unused(f) == \A d \in DOMAIN flow : flow[d].id # f

\* A new flow with the instant that the browser gave the request.
Open ==
    LET c == tx.c IN
    /\ tx.pc = "open" /\ Current(tx.s, TRUE, clock)
    /\ Pending(c) /\ c \notin DOMAIN flow /\ RequesterValid(c) /\ tx.other.until > clock
    /\ \E f \in Flows, t \in (tx.now - Window)..(tx.now + Drift) :
          LET new == [status |-> "PENDING", id |-> f, reviewer |-> tx.s, version |-> version,
                      created |-> tx.now, timestamp |-> t,
                      until |-> Least({cand[c].until, tx.other.until, sess[tx.s].until,
                                       tx.now + Window, t + Window})] IN
          /\ Unused(f)
          /\ cand[c].created <= new.created /\ new.created <= clock /\ new.until > new.created
          /\ new.until > clock /\ t >= clock - Window /\ t <= clock + Drift
          /\ flow' = [d \in DOMAIN flow \cup {c} |-> IF d = c THEN new ELSE flow[d]]
    /\ tx' = Answer("admitted", c)
    /\ UNCHANGED <<time, account, cand, told, delivered>>

-----------------------------------------------------------------------------
(* Around the transactions                                                 *)

Login(s) ==
    /\ sess[s].state = "unused"
    /\ sess' = [sess EXCEPT ![s] = [state |-> "live", version |-> version,
                                    until |-> clock + SessionTime, bound |-> FALSE]]
    /\ UNCHANGED <<time, changes, version, device, rows, tx, told, delivered>>

\* bindSession of the browser that holds the trusted device.
BindSession(s) ==
    /\ tx.pc = "idle" /\ device /\ Current(s, FALSE, clock)
    /\ sess' = [sess EXCEPT ![s].bound = TRUE]
    /\ UNCHANGED <<time, changes, version, device, rows, tx, told, delivered>>

Logout(s) ==
    /\ sess[s].state = "live" /\ s \notin Locked
    /\ sess' = [sess EXCEPT ![s].state = "ended"]
    /\ UNCHANGED <<time, changes, version, device, rows, tx, told, delivered>>

Ended(S) == [s \in Sessions |-> IF s \in S /\ sess[s].state = "live"
                                THEN [sess[s] EXCEPT !.state = "ended"] ELSE sess[s]]

\* A reset or a suspension of the account, and its end.
ResetPassword ==
    /\ tx.pc = "idle" /\ changes < MaxChanges
    /\ changes' = changes + 1 /\ version' = version + 1
    /\ sess' = Ended(Sessions)
    /\ UNCHANGED <<time, device, rows, tx, told, delivered>>

Revoke ==
    /\ tx.pc = "idle" /\ device /\ changes < MaxChanges
    /\ changes' = changes + 1 /\ device' = FALSE
    /\ sess' = Ended({s \in Sessions : sess[s].bound})
    /\ UNCHANGED <<time, version, rows, tx, told, delivered>>

Tick ==
    /\ \/ clock < MaxClock /\ clock' = clock + 1 /\ UNCHANGED rollbacks
       \/ clock > 1 /\ clock' = clock - 1 /\ rollbacks < MaxRollbacks /\ rollbacks' = rollbacks + 1
    /\ UNCHANGED <<account, rows, tx, told, delivered>>

Next ==
    \/ \E s \in Sessions : Login(s) \/ BindSession(s) \/ Logout(s)
    \/ ResetPassword \/ Revoke \/ Tick
    \/ \E k \in Kinds, c \in Candidates, s \in Sessions : Begin(k, c, s)
    \/ Nothing \/ Status \/ ReserveAgain \/ Reserve \/ Cancel
    \/ PollExpired \/ PollDelivers
    \/ ReviewExpired \/ ReviewShows \/ Reject \/ OpenExpired \/ OpenAgain \/ Open

Spec == Init /\ [][Next]_vars

-----------------------------------------------------------------------------
(* Properties                                                              *)

Row == [state : {"unused", "live", "ended"}, version : Nat, until : Nat, bound : BOOLEAN]
End == {"PENDING", "CANCELLED", "EXPIRED"}

\* Every variable has its type, whatever the order of the steps.
TypeOK ==
    /\ clock \in Nat /\ rollbacks \in Nat /\ changes \in Nat /\ version \in Nat /\ device \in BOOLEAN
    /\ sess \in [Sessions -> Row]
    /\ DOMAIN cand \subseteq Candidates /\ DOMAIN flow \subseteq DOMAIN cand
    /\ \A c \in DOMAIN cand :
          /\ cand[c] \in [status : End, ses : Sessions, version : Nat, created : Nat, until : Nat]
          /\ cand[c].until \in (cand[c].created + 1)..(cand[c].created + Window)
    /\ \A c \in DOMAIN flow :
          flow[c] \in [status : End, id : Flows, reviewer : Sessions, version : Nat,
                       created : Nat, timestamp : Int, until : Nat]
    /\ \/ tx = Silent \/ tx \in [pc : {"idle"}, says : Positive, c : Candidates]
       \/ tx \in [pc : Kinds, c : Candidates, s : Sessions, now : Nat, other : Row]
    /\ told \subseteq Candidates
    /\ delivered \subseteq [cand : Candidates, id : Flows, reviewer : Sessions]

\* An account has one ceremony at a time, although reservations run out
\* without anybody to say so.
OnePending == Cardinality({c \in DOMAIN cand : Pending(c)}) <= 1

\* A flow that is open belongs to a candidate that is open and does not
\* outlive it, whoever ended the candidate.
FlowEndsWithCandidate ==
    \A c \in DOMAIN flow : FlowPending(c) => Pending(c) /\ flow[c].until <= cand[c].until

\* Whatever one side is told about a candidate is true when the transaction
\* commits: it is open and has time left, the requesting session is in force,
\* and for a request that is handed over the session and the device that
\* sent it are too.  Time passes while locks are held, sessions end.
AnswersInForce ==
    [][tx.pc # "idle" /\ tx'.pc = "idle" /\ tx'.says \in Positive =>
          LET c == tx.c IN
          /\ cand'[c].status = "PENDING" /\ cand'[c].until > clock
          /\ Current(cand'[c].ses, FALSE, clock)
          /\ tx'.says \in {"admitted", "delivered"} => flow'[c].status = "PENDING" /\ flow'[c].until > clock
          /\ tx'.says = "delivered" => device /\ Current(flow[c].reviewer, TRUE, clock)]_vars

\* A candidate that was reported as expired is never open again for anybody,
\* even if the clock of the database is set back.
ExpiryLatched ==
    [][tx'.pc = "idle" /\ tx'.says \in Positive /\ tx' # tx => tx'.c \notin told]_vars

\* Every delivery for a candidate is the same request of the same session, and
\* a request is for one candidate, over all that was ever delivered.
OneRequest ==
    \A x, y \in delivered : x.cand = y.cand \/ x.id = y.id => x = y

\* What every reachable state satisfies: one ceremony at a time, no flow without
\* it, one request for it.
CeremonySafe == TypeOK /\ OnePending /\ FlowEndsWithCandidate /\ OneRequest

\* What every answer observes: it is true when it is given, and an expiry that
\* was reported is final.
AnswersHold == AnswersInForce /\ ExpiryLatched
=============================================================================
