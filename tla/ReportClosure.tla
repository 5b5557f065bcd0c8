--------------------------- MODULE ReportClosure ---------------------------
(***************************************************************************)
(* Life of a report's encrypted evidence: the upload reservation, the      *)
(* signed PUT, the report that claims it, the admin review, the durable    *)
(* closure job that purges the object, and the retention purge of an       *)
(* upload nobody claimed.                                                  *)
(*                                                                         *)
(*   moderation/moderation.service.ts      requestEvidenceUpload,          *)
(*                                         reportCashier                   *)
(*   moderation/admin-reports.service.ts   beginReview, evidenceDownload,  *)
(*                                         close                           *)
(*   moderation/report-closure.worker.ts   runBatch, processReport         *)
(*   retention/retention.service.ts        purgeAbandonedEvidence          *)
(*                                                                         *)
(* One client is modelled.  An element of Uploads is a reservation id, and *)
(* also its object key (derived from the id) and the report made from it.  *)
(* A database transaction is one action; every call to the object storage, *)
(* every clock read and every write outside a transaction is a step of its *)
(* own, so that other processes and time may come between.                 *)
(***************************************************************************)
EXTENDS Naturals

CONSTANTS
    Uploads,         \* evidence reservations (UUIDs minted by the grant service)
    Admins, Workers, Purgers, None,
    Outcomes,        \* the closure outcomes in use, a subset of ReportOutcome
    GrantTTL,        \* evidence grant lifetime (10 min)
    LEASE,           \* LEASE_MILLISECONDS of the closure worker (2 min)
    INITIAL_RETRY, MAX_RETRY,   \* closure back-off bounds (5 s, 5 min)
    RETRY_DELAY,     \* delay before a purge is retried (60 s)
    MaxTime,         \* bound: the clock runs past it only to reach a deadline
    MaxFaults,       \* bound: crashes, storage failures and failed writes
    MaxAssignments   \* bound: successive assignments of the client

ReportOutcome == {"NO_ACTION", "WARNING", "CASHIER_SUSPENDED",
                  "CASHIER_DELETED", "OTHER"}

ASSUME ConstantsAssumption ==
    /\ None \notin Uploads /\ None \notin Admins
    /\ None \notin ReportOutcome /\ Outcomes \subseteq ReportOutcome
    /\ GrantTTL \in Nat \ {0} /\ LEASE \in Nat \ {0}
    /\ INITIAL_RETRY \in Nat \ {0} /\ MAX_RETRY \in Nat \ {0}
    /\ RETRY_DELAY \in Nat \ {0}
    /\ MaxTime \in Nat /\ MaxFaults \in Nat /\ MaxAssignments \in Nat

VARIABLES
    now,            \* the database clock
    faults,         \* faults so far (bounded by MaxFaults)
    assignmentNo,   \* number of the client's latest assignment
    assigned,       \* that assignment and its conversation are active
    cashierStatus,  \* account status of the cashier each report is about
    issued,         \* reservation ids already minted
    grantAssignment, grantExpiresAt,   \* what the signed grant says
    reservations,   \* rows of pending_report_evidence_uploads
    lastPurgeAttemptAt,                \* their column, Null when never tried
    objects,        \* object keys present in the storage
    reached,        \* furthest step of any reportCashier call with the grant
    status, reviewer, outcome,         \* columns of reports
    evidence,       \* reports with a row in report_evidence
    accessed,       \* REPORT_EVIDENCE_ACCESSED audit events
    notifications,  \* closure notifications (and audits) of each report
    jobs,           \* rows of report_closure_jobs, and their columns
    nextAttemptAt, purgeNotBefore, leaseToken, leasedUntil, attempts, requestedBy,
    worker,         \* calls of processReport in flight
    purger          \* calls of purgeAbandonedEvidence in flight

assignmentVars == <<assignmentNo, assigned>>
grantVars  == <<issued, grantAssignment, grantExpiresAt>>
ledgerVars == <<reservations, lastPurgeAttemptAt>>
reportVars == <<status, reviewer, outcome, evidence, accessed, notifications>>
columns    == <<nextAttemptAt, purgeNotBefore, leaseToken, leasedUntil,
                attempts, requestedBy>>
jobVars    == <<jobs, columns>>
vars == <<now, faults, assignmentVars, cashierStatus, grantVars, ledgerVars,
          objects, reached, reportVars, jobVars, worker, purger>>

Null == 0        \* an absent timestamp: the clock starts at 1

\* A lease token is a fresh UUID per call of processReport. It is represented
\* by the attempt number its claim stores beside it, which no other claim of
\* the job can have: attempts only grows. 0 is the null token.
NoToken == 0

ReportStatus == {"NONE", "OPEN", "IN_REVIEW", "CLOSING", "CLOSED"}
AccountStatus == {"ACTIVE", "SUSPENDED", "DELETED"}

\* The steps of processReport: "start" before its clock read, "claim" before
\* the conditional update, "reread" after it, "storage" and "finalize" its two
\* phases, "retry" in its catch block.
WorkerStep == {"idle", "start", "claim", "reread", "storage", "finalize", "retry"}
Call(s, u, t, n) == [step |-> s, report |-> u, startedAt |-> t, token |-> n]
IdleWorker == Call("idle", None, 0, NoToken)

PurgerStep == {"idle", "claim", "delete", "row", "error"}
IdlePurger == [step |-> "idle", upload |-> None, batchNow |-> 0]

Init ==
    /\ now = 1 /\ faults = 0
    /\ assignmentNo = 1 /\ assigned = TRUE
    /\ cashierStatus = [u \in Uploads |-> "ACTIVE"]
    /\ issued = {} /\ reservations = {} /\ objects = {}
    /\ grantAssignment = [u \in Uploads |-> 0]
    /\ grantExpiresAt = [u \in Uploads |-> 0]
    /\ lastPurgeAttemptAt = [u \in Uploads |-> Null]
    /\ reached = [u \in Uploads |-> 0]
    /\ status = [u \in Uploads |-> "NONE"]
    /\ reviewer = [u \in Uploads |-> None]
    /\ outcome = [u \in Uploads |-> None]
    /\ evidence = {} /\ accessed = {}
    /\ notifications = [u \in Uploads |-> 0]
    /\ jobs = {}
    /\ nextAttemptAt = [u \in Uploads |-> 0]
    /\ purgeNotBefore = [u \in Uploads |-> 0]
    /\ leaseToken = [u \in Uploads |-> NoToken]
    /\ leasedUntil = [u \in Uploads |-> Null]
    /\ attempts = [u \in Uploads |-> 0]
    /\ requestedBy = [u \in Uploads |-> None]
    /\ worker = [w \in Workers |-> IdleWorker]
    /\ purger = [p \in Purgers |-> IdlePurger]

-----------------------------------------------------------------------------
(* The client: moderation.service.ts                                       *)

\* The reservation is refused while the assignment has any other, expired ones
\* included (a unique index backs the check). The signed PUT is returned with
\* the grant.
RequestEvidenceUpload(u) ==
    /\ assigned /\ u \notin issued
    /\ \A v \in reservations : grantAssignment[v] # assignmentNo
    /\ issued' = issued \cup {u}
    /\ grantAssignment' = [grantAssignment EXCEPT ![u] = assignmentNo]
    /\ grantExpiresAt' = [grantExpiresAt EXCEPT ![u] = now + GrantTTL]
    /\ reservations' = reservations \cup {u}
    /\ UNCHANGED <<now, faults, assignmentVars, cashierStatus, objects, reached,
                   lastPurgeAttemptAt, reportVars, jobVars, worker, purger>>

\* The signed PUT may be replayed. If-None-Match makes it fail on a key that
\* exists. Its signature lasts half the grant's lifetime; a transfer begun
\* before that is taken to land before the grant expires.
PutEvidence(u) ==
    /\ u \in issued /\ u \notin objects /\ now < grantExpiresAt[u]
    /\ objects' = objects \cup {u}
    /\ UNCHANGED <<now, faults, assignmentVars, cashierStatus, grantVars,
                   ledgerVars, reached, reportVars, jobVars, worker, purger>>

\* Mutant: a purge under way is ignored.
UnpurgedUnchecked(u) == u \in reservations

\* The reservation is unused: not claimed by a purge.
Unpurged(u) == u \in reservations /\ lastPurgeAttemptAt[u] = Null

\* Mutant: the clock is read as often as one likes.
StepAllowedAgain(u) ==
    \/ reached[u] = 0 /\ Unpurged(u) /\ now < grantExpiresAt[u]
    \/ reached[u] = 1 /\ u \in objects
    \/ reached[u] >= 2 /\ now < grantExpiresAt[u]

\* reportCashier, before its transaction: the reservation is read (step 1),
\* then the object is verified in the storage (step 2), then the transaction
\* reads its clock (step 3).
StepAllowed(u) ==
    \/ reached[u] = 0 /\ Unpurged(u) /\ now < grantExpiresAt[u]
    \/ reached[u] = 1 /\ u \in objects
    \/ reached[u] = 2 /\ now < grantExpiresAt[u]

\* Concurrent calls with the same grant are represented by the one that got
\* furthest.
ReportCashierStep(u) ==
    /\ StepAllowed(u)
    /\ reached' = [reached EXCEPT ![u] = @ + 1]
    /\ UNCHANGED <<now, faults, assignmentVars, cashierStatus, grantVars,
                   ledgerVars, objects, reportVars, jobVars, worker, purger>>

\* The rest of the transaction: the reservation is claimed by deleting it, the
\* assignment must still be the grant's, the block, the report and its evidence
\* are created and the assignment ends.
ReportCashier(u) ==
    /\ reached[u] = 3 /\ Unpurged(u)
    /\ assigned /\ grantAssignment[u] = assignmentNo
    /\ reservations' = reservations \ {u}
    /\ status' = [status EXCEPT ![u] = "OPEN"]
    /\ evidence' = evidence \cup {u}
    /\ assigned' = FALSE
    /\ UNCHANGED <<now, faults, assignmentNo, cashierStatus, grantVars, objects,
                   lastPurgeAttemptAt, reached, reviewer, outcome, accessed,
                   notifications, jobVars, worker, purger>>

\* The assignment ends for another reason, or the client gets the next one. When
\* it does is the matter of module Assignments: here it may at any time.
AssignmentChanges ==
    /\ \/ assigned /\ assigned' = FALSE /\ UNCHANGED assignmentNo
       \/ /\ ~assigned /\ assignmentNo < MaxAssignments
          /\ assigned' = TRUE /\ assignmentNo' = assignmentNo + 1
    /\ UNCHANGED <<now, faults, cashierStatus, grantVars, ledgerVars, objects,
                   reached, reportVars, jobVars, worker, purger>>

-----------------------------------------------------------------------------
(* The administrators: admin-reports.service.ts                            *)

\* An admin suspends, reactivates or deletes the cashier. Only the status matters
\* here; the reassignments that go with it are steps of AssignmentChanges.
SetCashierStatus(u, s) ==
    /\ status[u] # "NONE" /\ cashierStatus[u] \notin {s, "DELETED"}
    /\ cashierStatus' = [cashierStatus EXCEPT ![u] = s]
    /\ UNCHANGED <<now, faults, assignmentVars, grantVars, ledgerVars, objects,
                   reached, reportVars, jobVars, worker, purger>>

\* Mutant: a review can be taken over.
ReviewableByAnyone(u) == status[u] \in {"OPEN", "IN_REVIEW"}

\* A repeat by the assigned admin only reads; anyone else is refused.
Reviewable(u) == status[u] = "OPEN"

BeginReview(a, u) ==
    /\ Reviewable(u)
    /\ status' = [status EXCEPT ![u] = "IN_REVIEW"]
    /\ reviewer' = [reviewer EXCEPT ![u] = a]
    /\ UNCHANGED <<now, faults, assignmentVars, cashierStatus, grantVars,
                   ledgerVars, objects, reached, outcome, evidence, accessed,
                   notifications, jobVars, worker, purger>>

EvidenceDownload(a, u) ==
    /\ status[u] = "IN_REVIEW" /\ reviewer[u] = a /\ u \in evidence
    /\ accessed' = accessed \cup {<<a, u>>}
    /\ UNCHANGED <<now, faults, assignmentVars, cashierStatus, grantVars,
                   ledgerVars, objects, reached, status, reviewer, outcome,
                   evidence, notifications, jobVars, worker, purger>>

\* Mutant: the deletion is not checked.
OutcomeMatchesSuspension(o, s) == o = "CASHIER_SUSPENDED" => s = "SUSPENDED"

OutcomeMatchesCashierState(o, s) ==
    /\ o = "CASHIER_SUSPENDED" => s = "SUSPENDED"
    /\ o = "CASHIER_DELETED" => s = "DELETED"

\* The caller's own call of processReport, best effort, after the commit.
StartProcessReport(w, u) ==
    /\ worker[w].step = "idle"
    /\ worker' = [worker EXCEPT ![w] = Call("start", u, 0, NoToken)]

\* Mutants: the object may be purged at once; the job is left to a later write.
CreateJobDueNow(a, u) ==
    /\ jobs' = jobs \cup {u}
    /\ requestedBy' = [requestedBy EXCEPT ![u] = a]
    /\ purgeNotBefore' = [purgeNotBefore EXCEPT ![u] = now]
    /\ nextAttemptAt' = [nextAttemptAt EXCEPT ![u] = now]
    /\ UNCHANGED <<leaseToken, leasedUntil, attempts>>
CreateJobLater(a, u) == UNCHANGED jobVars

\* The job waits until the signed PUT can no longer be replayed.
CreateJob(a, u) ==
    /\ jobs' = jobs \cup {u}
    /\ requestedBy' = [requestedBy EXCEPT ![u] = a]
    /\ purgeNotBefore' = [purgeNotBefore EXCEPT ![u] = grantExpiresAt[u]]
    /\ nextAttemptAt' = [nextAttemptAt EXCEPT ![u] =
                            IF grantExpiresAt[u] > now THEN grantExpiresAt[u] ELSE now]
    /\ UNCHANGED <<leaseToken, leasedUntil, attempts>>

\* close, first request: the intent and the object key become durable, then the
\* handler w makes its immediate attempt.
Close(a, u, o, w) ==
    /\ status[u] = "IN_REVIEW" /\ reviewer[u] = a /\ u \in evidence
    /\ <<a, u>> \in accessed
    /\ OutcomeMatchesCashierState(o, cashierStatus[u])
    /\ status' = [status EXCEPT ![u] = "CLOSING"]
    /\ outcome' = [outcome EXCEPT ![u] = o]
    /\ CreateJob(a, u)
    /\ StartProcessReport(w, u)
    /\ UNCHANGED <<now, faults, assignmentVars, cashierStatus, grantVars,
                   ledgerVars, objects, reached, reviewer, evidence, accessed,
                   notifications, purger>>

\* close, repeated with the same outcome while the job is pending: no write, one
\* more attempt. (A repeat on a CLOSED report only reads.)
CloseAgain(a, u, o, w) ==
    /\ status[u] = "CLOSING" /\ reviewer[u] = a /\ outcome[u] = o /\ u \in jobs
    /\ StartProcessReport(w, u)
    /\ UNCHANGED <<now, faults, assignmentVars, cashierStatus, grantVars,
                   ledgerVars, objects, reached, reportVars, jobVars, purger>>

-----------------------------------------------------------------------------
(* The closure worker: report-closure.worker.ts                            *)

\* Mutants: the lease is ignored; an expired lease is never reclaimed.
DueWhoeverHolds(u, t) ==
    /\ u \in jobs
    /\ nextAttemptAt[u] <= t /\ purgeNotBefore[u] <= t
DueUnleased(u, t) ==
    /\ u \in jobs /\ leaseToken[u] = NoToken
    /\ nextAttemptAt[u] <= t /\ purgeNotBefore[u] <= t

\* The job may be attempted at time t.
Due(u, t) ==
    /\ u \in jobs
    /\ nextAttemptAt[u] <= t /\ purgeNotBefore[u] <= t
    /\ leaseToken[u] = NoToken \/ leasedUntil[u] <= t

\* The delay doubles with every attempt, up to MAX_RETRY.
RetryDelay(n) ==
    LET exponent == IF n - 1 < 16 THEN n - 1 ELSE 16
        delay == INITIAL_RETRY * 2 ^ exponent
    IN  IF delay \in 0 .. MAX_RETRY THEN delay ELSE MAX_RETRY

\* A process makes one step of processReport; what else changes is said by the
\* action.
Goto(w, s) == worker' = [worker EXCEPT ![w].step = s]
Return(w) == worker' = [worker EXCEPT ![w] = IdleWorker]
OnlyWorkers == UNCHANGED <<now, assignmentVars, cashierStatus, grantVars,
                           ledgerVars, reached, purger>>
Fault == faults < MaxFaults /\ faults' = faults + 1

\* runBatch of some API instance lists the job as due and calls processReport.
RunBatch(w, u) ==
    /\ Due(u, now)
    /\ StartProcessReport(w, u)
    /\ OnlyWorkers /\ UNCHANGED <<faults, objects, reportVars, jobVars>>

ReadClock(w) ==
    /\ worker[w].step = "start"
    /\ worker' = [worker EXCEPT ![w] = Call("claim", worker[w].report, now, NoToken)]
    /\ OnlyWorkers /\ UNCHANGED <<faults, objects, reportVars, jobVars>>

\* One conditional update, judged at the time read before it.
Claim(w) ==
    LET u == worker[w].report
        t == worker[w].startedAt
        n == attempts[u] + 1
    IN  /\ worker[w].step = "claim"
        /\ \/ /\ Due(u, t)
              /\ leaseToken' = [leaseToken EXCEPT ![u] = n]
              /\ attempts' = [attempts EXCEPT ![u] = n]
              /\ leasedUntil' = [leasedUntil EXCEPT ![u] = t + LEASE]
              /\ worker' = [worker EXCEPT ![w] = Call("reread", u, t, n)]
           \/ ~Due(u, t) /\ Return(w) /\ UNCHANGED <<leaseToken, attempts, leasedUntil>>
        /\ OnlyWorkers
        /\ UNCHANGED <<faults, objects, reportVars, jobs, nextAttemptAt,
                       purgeNotBefore, requestedBy>>

Holds(w) ==
    LET u == worker[w].report
    IN  u \in jobs /\ leaseToken[u] = worker[w].token

Reread(w) ==
    /\ worker[w].step = "reread"
    /\ IF Holds(w) THEN Goto(w, "storage") ELSE Return(w)
    /\ OnlyWorkers /\ UNCHANGED <<faults, objects, reportVars, jobVars>>

DeleteObject(w) ==
    /\ worker[w].step = "storage"
    /\ objects' = objects \ {worker[w].report}
    /\ Goto(w, "finalize")
    /\ OnlyWorkers /\ UNCHANGED <<faults, reportVars, jobVars>>

\* A failed delete, a time-out included, may or may not have removed the object.
DeleteObjectFails(w) ==
    /\ worker[w].step = "storage" /\ Fault
    /\ objects' \in {objects, objects \ {worker[w].report}}
    /\ Goto(w, "retry")
    /\ OnlyWorkers /\ UNCHANGED <<reportVars, jobVars>>

\* What the finalizing transaction requires of a job it finds by its token.
\* The trigger on report_closure_jobs keeps the job's key and boundary equal to
\* the evidence's.
CanFinalize(u) ==
    /\ purgeNotBefore[u] <= now
    /\ status[u] = "CLOSING" /\ reviewer[u] = requestedBy[u]
    /\ outcome[u] # None
    /\ u \in evidence => grantExpiresAt[u] <= now

\* Mutant: the missing early return when the lease was lost.
LostLeaseNotifies(u) ==
    /\ notifications' = [notifications EXCEPT ![u] = @ + 1]
    /\ UNCHANGED <<evidence, status, jobVars>>

LostLease(u) == UNCHANGED <<evidence, status, notifications, jobVars>>

Finalize(w) ==
    LET u == worker[w].report
    IN  /\ worker[w].step = "finalize"
        /\ \/ /\ Holds(w) /\ CanFinalize(u)
              /\ evidence' = evidence \ {u}
              /\ status' = [status EXCEPT ![u] = "CLOSED"]
              /\ notifications' = [notifications EXCEPT ![u] = @ + 1]
              /\ jobs' = jobs \ {u}
              /\ UNCHANGED columns
              /\ Return(w)
           \/ ~Holds(w) /\ LostLease(u) /\ Return(w)
        /\ OnlyWorkers /\ UNCHANGED <<faults, objects, reviewer, outcome, accessed>>

\* The transaction is rolled back: a database error or a check of CanFinalize.
FinalizeFails(w) ==
    /\ worker[w].step = "finalize"
    /\ \/ Fault
       \/ Holds(w) /\ ~CanFinalize(worker[w].report) /\ UNCHANGED faults
    /\ Goto(w, "retry")
    /\ OnlyWorkers /\ UNCHANGED <<objects, reportVars, jobVars>>

\* The retry is counted from a second clock read, or from the start of the
\* attempt when that read fails. A lease that was lost in between is left alone.
ScheduleRetry(w) ==
    LET u == worker[w].report
    IN  /\ worker[w].step = "retry"
        /\ \/ /\ Holds(w)
              /\ leaseToken' = [leaseToken EXCEPT ![u] = NoToken]
              /\ leasedUntil' = [leasedUntil EXCEPT ![u] = Null]
              /\ \E base \in {now, worker[w].startedAt} :
                    nextAttemptAt' = [nextAttemptAt EXCEPT ![u] =
                                         base + RetryDelay(worker[w].token)]
           \/ ~Holds(w) /\ UNCHANGED <<leaseToken, leasedUntil, nextAttemptAt>>
        /\ Return(w)
        /\ OnlyWorkers
        /\ UNCHANGED <<faults, objects, reportVars, jobs, attempts, purgeNotBefore,
                       requestedBy>>

\* The process dies, or a write of scheduleRetry or of the claim is lost with
\* the connection: the call is gone and the lease stays until it expires.
Crash(w) ==
    /\ worker[w].step # "idle" /\ Fault /\ Return(w)
    /\ OnlyWorkers /\ UNCHANGED <<objects, reportVars, jobVars>>

-----------------------------------------------------------------------------
(* The retention worker: retention.service.ts                              *)

\* Mutants: uploads still authorized are purged; a failed purge is not retried.
AbandonedEarly(u, t) ==
    /\ u \in reservations
    /\ lastPurgeAttemptAt[u] = Null \/ lastPurgeAttemptAt[u] + RETRY_DELAY <= t
AbandonedOnce(u, t) ==
    u \in reservations /\ grantExpiresAt[u] <= t /\ lastPurgeAttemptAt[u] = Null

Abandoned(u, t) ==
    /\ u \in reservations /\ grantExpiresAt[u] <= t
    /\ lastPurgeAttemptAt[u] = Null \/ lastPurgeAttemptAt[u] + RETRY_DELAY <= t

OnlyPurgers == UNCHANGED <<now, assignmentVars, cashierStatus, grantVars,
                           reached, reportVars, jobVars, worker>>
PurgerGoto(p, s) == purger' = [purger EXCEPT ![p].step = s]
PurgerReturn(p) == purger' = [purger EXCEPT ![p] = IdlePurger]

\* runBatch reads the clock once and lists the abandoned reservations.
SelectAbandoned(p, u) ==
    /\ purger[p].step = "idle" /\ Abandoned(u, now)
    /\ purger' = [purger EXCEPT ![p] = [step |-> "claim", upload |-> u,
                                        batchNow |-> now]]
    /\ OnlyPurgers /\ UNCHANGED <<faults, ledgerVars, objects>>

ClaimAbandoned(p) ==
    LET u == purger[p].upload
        t == purger[p].batchNow
    IN  /\ purger[p].step = "claim"
        /\ IF Abandoned(u, t)
           THEN /\ lastPurgeAttemptAt' = [lastPurgeAttemptAt EXCEPT ![u] = t]
                /\ PurgerGoto(p, "delete")
           ELSE PurgerReturn(p) /\ UNCHANGED lastPurgeAttemptAt
        /\ OnlyPurgers /\ UNCHANGED <<faults, reservations, objects>>

DeleteAbandoned(p) ==
    /\ purger[p].step = "delete"
    /\ objects' = objects \ {purger[p].upload}
    /\ PurgerGoto(p, "row")
    /\ OnlyPurgers /\ UNCHANGED <<faults, ledgerVars>>

DeleteAbandonedFails(p) ==
    /\ purger[p].step = "delete" /\ Fault
    /\ objects' \in {objects, objects \ {purger[p].upload}}
    /\ PurgerGoto(p, "error")
    /\ OnlyPurgers /\ UNCHANGED ledgerVars

DeleteReservation(p) ==
    /\ purger[p].step = "row"
    /\ reservations' = reservations \ {purger[p].upload}
    /\ PurgerReturn(p)
    /\ OnlyPurgers /\ UNCHANGED <<faults, lastPurgeAttemptAt, objects>>

\* The catch block stamps the row, if it is still there, with the batch's clock.
RecordPurgeError(p) ==
    LET u == purger[p].upload
    IN  /\ purger[p].step = "error"
        /\ lastPurgeAttemptAt' = IF u \in reservations
                                 THEN [lastPurgeAttemptAt EXCEPT ![u] = purger[p].batchNow]
                                 ELSE lastPurgeAttemptAt
        /\ PurgerReturn(p)
        /\ OnlyPurgers /\ UNCHANGED <<faults, reservations, objects>>

CrashPurger(p) ==
    /\ purger[p].step # "idle" /\ Fault /\ PurgerReturn(p)
    /\ OnlyPurgers /\ UNCHANGED <<ledgerVars, objects>>

-----------------------------------------------------------------------------
\* A time somebody waits for.
Deadlines ==
    {nextAttemptAt[u] : u \in jobs} \cup {leasedUntil[u] : u \in jobs}
    \cup {grantExpiresAt[u] : u \in reservations}
    \cup {lastPurgeAttemptAt[u] + RETRY_DELAY : u \in reservations}

Tick ==
    /\ \/ now < MaxTime
       \/ /\ \A w \in Workers : worker[w].step \in {"idle", "start", "claim"}
          /\ \A p \in Purgers : purger[p].step \in {"idle", "claim"}
          /\ \E d \in Deadlines : d > now
    /\ now' = now + 1
    /\ UNCHANGED <<faults, assignmentVars, cashierStatus, grantVars, ledgerVars,
                   objects, reached, reportVars, jobVars, worker, purger>>

ClientNext == \E u \in Uploads :
    \/ RequestEvidenceUpload(u) \/ PutEvidence(u)
    \/ ReportCashierStep(u) \/ ReportCashier(u)

AdminNext == \E u \in Uploads :
    \/ \E s \in AccountStatus : SetCashierStatus(u, s)
    \/ \E a \in Admins :
         \/ BeginReview(a, u) \/ EvidenceDownload(a, u)
         \/ \E o \in Outcomes, w \in Workers : Close(a, u, o, w) \/ CloseAgain(a, u, o, w)

\* The steps a running processReport takes on its own.
Advance(w) ==
    \/ ReadClock(w) \/ Claim(w) \/ Reread(w) \/ DeleteObject(w) \/ Finalize(w)
    \/ ScheduleRetry(w)

WorkerNext == \E w \in Workers :
    \/ \E u \in Uploads : RunBatch(w, u)
    \/ Advance(w)
    \/ DeleteObjectFails(w) \/ FinalizeFails(w) \/ Crash(w)

AdvancePurger(p) ==
    \/ ClaimAbandoned(p) \/ DeleteAbandoned(p) \/ DeleteReservation(p)
    \/ RecordPurgeError(p)

PurgerNext == \E p \in Purgers :
    \/ \E u \in Uploads : SelectAbandoned(p, u)
    \/ AdvancePurger(p)
    \/ DeleteAbandonedFails(p) \/ CrashPurger(p)

Next == ClientNext \/ AssignmentChanges \/ AdminNext \/ WorkerNext \/ PurgerNext \/ Tick

Spec == Init /\ [][Next]_vars

\* Time passes, a call in flight goes on, and the interval timers of both
\* workers keep listing what is due. Nothing is assumed of users, and faults
\* are finitely many (MaxFaults).
Fairness ==
    /\ WF_vars(Tick)
    /\ \A w \in Workers : WF_vars(Advance(w))
    /\ \A u \in Uploads : WF_vars(\E w \in Workers : RunBatch(w, u))
    /\ \A p \in Purgers : WF_vars(AdvancePurger(p))
    /\ \A u \in Uploads : WF_vars(\E p \in Purgers : SelectAbandoned(p, u))

FairSpec == Spec /\ Fairness

-----------------------------------------------------------------------------
(* Properties.                                                             *)

Worker == [step : WorkerStep, report : Uploads \cup {None}, startedAt : Nat,
           token : Nat]
Purger == [step : PurgerStep, upload : Uploads \cup {None}, batchNow : Nat]

\* Type invariant of every table, the storage and the calls in flight.
TypeOK ==
    /\ now \in Nat \ {0} /\ faults \in Nat
    /\ assignmentNo \in Nat /\ assigned \in BOOLEAN
    /\ cashierStatus \in [Uploads -> AccountStatus]
    /\ issued \in SUBSET Uploads
    /\ grantAssignment \in [Uploads -> Nat] /\ grantExpiresAt \in [Uploads -> Nat]
    /\ reservations \in SUBSET Uploads /\ lastPurgeAttemptAt \in [Uploads -> Nat]
    /\ objects \in SUBSET Uploads /\ reached \in [Uploads -> 0 .. 3]
    /\ status \in [Uploads -> ReportStatus]
    /\ reviewer \in [Uploads -> Admins \cup {None}]
    /\ outcome \in [Uploads -> Outcomes \cup {None}]
    /\ evidence \in SUBSET Uploads /\ accessed \in SUBSET (Admins \X Uploads)
    /\ notifications \in [Uploads -> Nat]
    /\ jobs \in SUBSET Uploads
    /\ nextAttemptAt \in [Uploads -> Nat] /\ purgeNotBefore \in [Uploads -> Nat]
    /\ leaseToken \in [Uploads -> Nat] /\ leasedUntil \in [Uploads -> Nat]
    /\ attempts \in [Uploads -> Nat] /\ requestedBy \in [Uploads -> Admins \cup {None}]
    /\ worker \in [Workers -> Worker] /\ purger \in [Purgers -> Purger]

\* An investigation can rely on its evidence: while a report is open or in
\* review its object is in the storage, whatever the retention worker, which
\* may have listed the reservation before reportCashier claimed it, is doing.
EvidenceAvailable ==
    \A u \in Uploads : status[u] \in {"OPEN", "IN_REVIEW"} => u \in objects

\* No object outlives the rows that name its key: replayed PUTs, crashes and
\* repeated deletes never leave one that neither worker would find again.
NoOrphanObject == objects \subseteq reservations \cup evidence

\* The deferred triggers' contract: a report has exactly one closure job while
\* CLOSING and none otherwise, and its evidence row until it is CLOSED. (The
\* database would abort a transaction that breaks it.)
ClosureJobLifecycle ==
    \A u \in Uploads :
        /\ u \in jobs <=> status[u] = "CLOSING"
        /\ u \in evidence <=> status[u] \in {"OPEN", "IN_REVIEW", "CLOSING"}

\* The cashier is told of a closure once, however many workers attempted it and
\* whichever of them lost its lease or crashed.
NotifiedOnce ==
    \A u \in Uploads : notifications[u] = IF status[u] = "CLOSED" THEN 1 ELSE 0

\* A closure was requested by the reviewer, who had opened the evidence.
ReviewedBeforeClosed ==
    \A u \in Uploads :
        /\ status[u] \in {"CLOSING", "CLOSED"} => <<reviewer[u], u>> \in accessed
        /\ outcome[u] = "CASHIER_DELETED" => cashierStatus[u] = "DELETED"

\* What a closure leaves behind, for every order of reviews, workers and faults:
\* typed rows, one job while CLOSING, one notification, and a reviewer who saw
\* the evidence.
ClosureSafe ==
    TypeOK /\ ClosureJobLifecycle /\ NotifiedOnce /\ ReviewedBeforeClosed

\* The evidence of an open report is stored, and nothing else is left stored.
EvidenceSafe == EvidenceAvailable /\ NoOrphanObject

\* The object is removed only when no signed PUT can bring it back, and only
\* for a report being closed or a reservation that no report can claim.
PurgeWaits ==
    [][\A u \in objects \ objects' :
          /\ grantExpiresAt[u] <= now
          /\ \/ status[u] \in {"CLOSING", "CLOSED"}
             \/ u \in reservations /\ lastPurgeAttemptAt[u] # Null]_vars

\* A lease in force binds the others: until it expires only the call that holds
\* its token changes the job, retries and stale calls included.
LeaseRespected ==
    [][\A u \in jobs :
          /\ leaseToken[u] # NoToken /\ leasedUntil[u] > now
          /\ \/ u \notin jobs' \/ leaseToken'[u] # leaseToken[u]
             \/ nextAttemptAt'[u] # nextAttemptAt[u]
          => \E w \in Workers :
                /\ worker[w].report = u /\ worker[w].token = leaseToken[u]
                /\ worker'[w] # worker[w]]_vars

\* What the trigger on reports demands of every update: the state moves one
\* step forward, and reviewer and outcome never change once set.
StatusSteps == {<<"NONE", "OPEN">>, <<"OPEN", "IN_REVIEW">>,
                <<"IN_REVIEW", "CLOSING">>, <<"CLOSING", "CLOSED">>}
ReportHistory ==
    [][\A u \in Uploads :
          /\ status'[u] # status[u] => <<status[u], status'[u]>> \in StatusSteps
          /\ reviewer[u] # None => reviewer'[u] = reviewer[u]
          /\ outcome[u] # None => outcome'[u] = outcome[u]]_vars

\* What the transactions and the storage never do to a report: step back, change
\* its reviewer or its outcome, or delete its object before its time.
HistoryKept == ReportHistory /\ PurgeWaits

\* A requested closure completes: neither a crash, a lost lease nor a failed
\* retry strands the job.
ClosureCompletes ==
    \A u \in Uploads : status[u] = "CLOSING" ~> status[u] = "CLOSED"

\* A reservation is claimed by a report or purged, so that the client can ask
\* for another.
ReservationResolved ==
    \A u \in Uploads : u \in reservations ~> u \notin reservations

\* The evidence lifecycle this component implements. A key is abandoned when
\* its reservation is gone and no report was made of it.
phaseOf(u) ==
    CASE status[u] = "OPEN" -> "open"
      [] status[u] = "IN_REVIEW" -> "review"
      [] status[u] = "CLOSING" -> "closing"
      [] status[u] = "CLOSED" -> "closed"
      [] OTHER -> IF u \in reservations THEN "reserved"
                  ELSE IF u \in issued THEN "abandoned" ELSE "free"

Lifecycle == INSTANCE EvidenceLifecycle
    WITH phase <- [u \in Uploads |-> phaseOf(u)], stored <- objects

\* Refinement: every step of requests, workers, retries and crashes is a step
\* of the evidence lifecycle or leaves it alone.
ImplementsLifecycle == Lifecycle!Spec
=============================================================================
