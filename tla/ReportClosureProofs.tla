------------------------ MODULE ReportClosureProofs ------------------------
(***************************************************************************)
(* Theorems about ReportClosure, for every set of uploads, admins, workers *)
(* and purgers and every delay.                                            *)
(***************************************************************************)
EXTENDS ReportClosure, TLAPS

-----------------------------------------------------------------------------
(* The inductive invariant, one part per kind of state.                    *)

\* What the rows say of each upload, from its grant to its closed report.
RowsInv ==
    \A u \in Uploads :
        /\ u \in reservations \/ u \in objects => u \in issued
        /\ status[u] # "NONE" => u \in issued /\ u \notin reservations
        /\ u \in jobs <=> status[u] = "CLOSING"
        /\ u \in evidence <=> status[u] \in {"OPEN", "IN_REVIEW", "CLOSING"}
        /\ notifications[u] = IF status[u] = "CLOSED" THEN 1 ELSE 0
        /\ status[u] \in {"NONE", "OPEN"} <=> reviewer[u] = None
        /\ status[u] \in {"CLOSING", "CLOSED"} <=> outcome[u] # None
        /\ status[u] \in {"CLOSING", "CLOSED"} => <<reviewer[u], u>> \in accessed
        /\ outcome[u] = "CASHIER_DELETED" => cashierStatus[u] = "DELETED"

\* Where the object of each upload can be.
ObjectInv ==
    \A u \in Uploads :
        /\ u \in objects => u \in reservations \/ u \in evidence
        /\ u \in issued => u \in reservations \/ u \in evidence \/ grantExpiresAt[u] <= now
        /\ status[u] \in {"OPEN", "IN_REVIEW"} => u \in objects
        /\ reached[u] > 0 => u \in issued
        /\ reached[u] > 1 /\ Unpurged(u) => u \in objects

\* A job carries its evidence's purge boundary and its reviewer.
JobInv ==
    \A u \in Uploads : u \in jobs =>
        /\ purgeNotBefore[u] = grantExpiresAt[u]
        /\ requestedBy[u] = reviewer[u]

\* A call of processReport is about a report being closed; past its claim the
\* upload authorization is over, and past the delete the object is gone.
WorkerInv ==
    \A w \in Workers : worker[w].step # "idle" =>
        /\ worker[w].report \in Uploads
        /\ status[worker[w].report] \in {"CLOSING", "CLOSED"}
        /\ worker[w].startedAt <= now
        /\ worker[w].step \notin {"start", "claim"} =>
              grantExpiresAt[worker[w].report] <= worker[w].startedAt
        /\ worker[w].step = "finalize" => worker[w].report \notin objects

\* A purge is of an expired grant; past its claim no report can be made of the
\* upload, and past the delete the object is gone.
PurgerInv ==
    \A p \in Purgers : purger[p].step # "idle" =>
        /\ purger[p].upload \in issued
        /\ purger[p].batchNow \in 1 .. now
        /\ grantExpiresAt[purger[p].upload] <= purger[p].batchNow
        /\ purger[p].step # "claim" =>
              /\ status[purger[p].upload] = "NONE"
              /\ ~Unpurged(purger[p].upload)
        /\ purger[p].step = "row" => purger[p].upload \notin objects

IInv == TypeOK /\ RowsInv /\ ObjectInv /\ JobInv /\ WorkerInv /\ PurgerInv

-----------------------------------------------------------------------------
(* Type correctness.                                                       *)

\* The back-off of scheduleRetry is a delay of at most MAX_RETRY, whatever the
\* attempt.
LEMMA RetryDelayType ==
    ASSUME NEW n \in Nat
    PROVE  RetryDelay(n) \in 0 .. MAX_RETRY
BY ConstantsAssumption DEF RetryDelay

\* A call that moves to another of its steps, or returns, stays well typed.
LEMMA WorkerMoves ==
    ASSUME worker \in [Workers -> Worker], NEW w \in Workers,
           Return(w) \/ \E s \in WorkerStep : Goto(w, s)
    PROVE  worker' \in [Workers -> Worker]
<1>1. IdleWorker \in Worker
  BY DEF IdleWorker, Call, Worker, WorkerStep, NoToken
<1>2. \A s \in WorkerStep : [worker[w] EXCEPT !.step = s] \in Worker
  BY DEF Worker
<1> QED
  BY <1>1, <1>2 DEF Goto, Return

\* Every operation keeps the tables, the storage and the calls well typed.
LEMMA TypeOKStep == TypeOK /\ [Next]_vars => TypeOK'
<1> SUFFICES ASSUME TypeOK, [Next]_vars PROVE TypeOK'
  OBVIOUS
<1> USE DEF TypeOK, assignmentVars, grantVars, ledgerVars, reportVars, jobVars, columns
<1>1. ASSUME NEW u \in Uploads, RequestEvidenceUpload(u) PROVE TypeOK'
    BY <1>1, ConstantsAssumption DEF RequestEvidenceUpload
<1>2. ASSUME NEW u \in Uploads, PutEvidence(u) PROVE TypeOK'
    BY <1>2 DEF PutEvidence
<1>3. ASSUME NEW u \in Uploads, ReportCashierStep(u) PROVE TypeOK'
    BY <1>3 DEF ReportCashierStep, StepAllowed
<1>4. ASSUME NEW u \in Uploads, ReportCashier(u) PROVE TypeOK'
    BY <1>4 DEF ReportCashier, ReportStatus
<1>5. ASSUME AssignmentChanges PROVE TypeOK'
  <2>1. assignmentNo' \in Nat
    BY <1>5 DEF AssignmentChanges
  <2>2. assigned' \in BOOLEAN
    BY <1>5 DEF AssignmentChanges
  <2> QED
    BY <1>5, <2>1, <2>2 DEF AssignmentChanges
<1>6. ASSUME NEW u \in Uploads, NEW s \in AccountStatus, SetCashierStatus(u,
      s) PROVE TypeOK'
    BY <1>6 DEF SetCashierStatus
<1>7. ASSUME NEW a \in Admins, NEW u \in Uploads, BeginReview(a, u) PROVE
      TypeOK'
    BY <1>7 DEF BeginReview, ReportStatus
<1>8. ASSUME NEW a \in Admins, NEW u \in Uploads, EvidenceDownload(a, u) PROVE
      TypeOK'
    BY <1>8 DEF EvidenceDownload
<1>9. ASSUME NEW a \in Admins, NEW u \in Uploads, NEW o \in Outcomes, NEW w
      \in Workers, Close(a, u, o, w) PROVE TypeOK'
    BY <1>9 DEF Close, CreateJob, StartProcessReport, Worker, WorkerStep,
     Call, NoToken, ReportStatus
<1>10. ASSUME NEW a \in Admins, NEW u \in Uploads, NEW o \in Outcomes, NEW w
      \in Workers, CloseAgain(a, u, o, w) PROVE TypeOK'
    BY <1>10 DEF CloseAgain, StartProcessReport, Worker, WorkerStep, Call,
     NoToken
<1>11. ASSUME NEW w \in Workers, NEW u \in Uploads, RunBatch(w, u) PROVE
      TypeOK'
    BY <1>11 DEF RunBatch, OnlyWorkers, StartProcessReport, Worker,
     WorkerStep, Call, NoToken
<1>12. ASSUME NEW w \in Workers, ReadClock(w) PROVE TypeOK'
    BY <1>12 DEF ReadClock, OnlyWorkers, Worker, WorkerStep, Call, NoToken
<1>13. ASSUME NEW w \in Workers, Claim(w) PROVE TypeOK'
  <2> DEFINE u == worker[w].report
             t == worker[w].startedAt
  <2>1. CASE Due(u, t)
    <3>1. u \in Uploads /\ t + LEASE \in Nat /\ attempts[u] + 1 \in Nat
      BY <2>1, ConstantsAssumption DEF Due, Worker
    <3>2. Call("reread", u, t, attempts[u] + 1) \in Worker
      BY <3>1 DEF Call, Worker, WorkerStep
    <3> QED
      BY <1>13, <2>1, <3>1, <3>2 DEF Claim, OnlyWorkers
  <2>2. CASE ~Due(u, t)
    BY <1>13, <2>2, WorkerMoves DEF Claim, OnlyWorkers
  <2> QED
    BY <2>1, <2>2
<1>14. ASSUME NEW w \in Workers, Reread(w) PROVE TypeOK'
    BY <1>14, WorkerMoves DEF Reread, OnlyWorkers, WorkerStep
<1>15. ASSUME NEW w \in Workers, DeleteObject(w) PROVE TypeOK'
    BY <1>15, WorkerMoves DEF DeleteObject, OnlyWorkers, WorkerStep
<1>16. ASSUME NEW w \in Workers, DeleteObjectFails(w) PROVE TypeOK'
    BY <1>16, WorkerMoves DEF DeleteObjectFails, OnlyWorkers, Fault,
     WorkerStep
<1>17. ASSUME NEW w \in Workers, Finalize(w) PROVE TypeOK'
    BY <1>17, WorkerMoves DEF Finalize, OnlyWorkers, LostLease, ReportStatus
<1>18. ASSUME NEW w \in Workers, FinalizeFails(w) PROVE TypeOK'
    BY <1>18, WorkerMoves DEF FinalizeFails, OnlyWorkers, Fault, WorkerStep
<1>19. ASSUME NEW w \in Workers, ScheduleRetry(w) PROVE TypeOK'
  <2>1. worker[w].token \in Nat /\ worker[w].startedAt \in Nat
    BY DEF Worker
  <2>2. RetryDelay(worker[w].token) \in Nat
    BY <2>1, RetryDelayType, ConstantsAssumption
  <2> QED
    BY <1>19, <2>1, <2>2, WorkerMoves DEF ScheduleRetry, OnlyWorkers, NoToken, Null
<1>20. ASSUME NEW w \in Workers, Crash(w) PROVE TypeOK'
    BY <1>20, WorkerMoves DEF Crash, OnlyWorkers, Fault
<1>21. ASSUME NEW p \in Purgers, NEW u \in Uploads, SelectAbandoned(p, u)
      PROVE TypeOK'
    BY <1>21 DEF SelectAbandoned, OnlyPurgers, Purger, PurgerStep
<1>22. ASSUME NEW p \in Purgers, ClaimAbandoned(p) PROVE TypeOK'
  <2>1. purger' \in [Purgers -> Purger]
    BY <1>22 DEF ClaimAbandoned, Purger, PurgerStep, PurgerGoto, PurgerReturn, IdlePurger
  <2>2. lastPurgeAttemptAt' \in [Uploads -> Nat]
    BY <1>22 DEF ClaimAbandoned, Purger
  <2> QED
    BY <1>22, <2>1, <2>2 DEF ClaimAbandoned, OnlyPurgers
<1>23. ASSUME NEW p \in Purgers, DeleteAbandoned(p) PROVE TypeOK'
    BY <1>23 DEF DeleteAbandoned, OnlyPurgers, Purger, PurgerStep, PurgerGoto
<1>24. ASSUME NEW p \in Purgers, DeleteAbandonedFails(p) PROVE TypeOK'
    BY <1>24 DEF DeleteAbandonedFails, OnlyPurgers, Purger, PurgerStep,
     PurgerGoto, Fault
<1>25. ASSUME NEW p \in Purgers, DeleteReservation(p) PROVE TypeOK'
    BY <1>25 DEF DeleteReservation, OnlyPurgers, Purger, PurgerStep,
     PurgerReturn, IdlePurger
<1>26. ASSUME NEW p \in Purgers, RecordPurgeError(p) PROVE TypeOK'
    BY <1>26 DEF RecordPurgeError, OnlyPurgers, Purger, PurgerStep,
     PurgerReturn, IdlePurger
<1>27. ASSUME NEW p \in Purgers, CrashPurger(p) PROVE TypeOK'
    BY <1>27 DEF CrashPurger, OnlyPurgers, Purger, PurgerStep, PurgerReturn,
     IdlePurger, Fault
<1>28. ASSUME Tick PROVE TypeOK'
    BY <1>28 DEF Tick
<1>29. CASE UNCHANGED vars
  BY <1>29 DEF vars
<1> QED
    BY <1>1, <1>2, <1>3, <1>4, <1>5, <1>6, <1>7, <1>8, <1>9, <1>10, <1>11,
     <1>12, <1>13, <1>14, <1>15, <1>16, <1>17, <1>18, <1>19, <1>20, <1>21,
     <1>22, <1>23, <1>24, <1>25, <1>26, <1>27, <1>28, <1>29 DEF Next,
     ClientNext, AdminNext, WorkerNext, Advance, PurgerNext, AdvancePurger

\* Spec keeps every table, the storage and every call in flight well typed.
THEOREM TypeCorrect == Spec => []TypeOK
<1>1. Init => TypeOK
  BY ConstantsAssumption DEF Init, TypeOK, AccountStatus, ReportStatus, Worker,
     Call, IdleWorker, WorkerStep, Purger, IdlePurger, PurgerStep, NoToken, Null
<1> QED
  BY <1>1, TypeOKStep, PTL DEF Spec

-----------------------------------------------------------------------------
(* The inductive invariant.                                                *)

\* The rows of each upload stay consistent: every transaction writes report,
\* evidence, job and notification together.
LEMMA RowsStep == IInv /\ [Next]_vars => RowsInv'
<1> SUFFICES ASSUME IInv, [Next]_vars PROVE RowsInv'
  OBVIOUS
<1> USE DEF IInv, TypeOK, RowsInv, assignmentVars, grantVars, ledgerVars,
            reportVars, jobVars, columns
<1>1. ASSUME NEW u \in Uploads, RequestEvidenceUpload(u) PROVE RowsInv'
  BY <1>1 DEF RequestEvidenceUpload
<1>2. ASSUME NEW u \in Uploads, PutEvidence(u) PROVE RowsInv'
  BY <1>2 DEF PutEvidence
<1>3. ASSUME NEW u \in Uploads, ReportCashierStep(u) PROVE RowsInv'
  BY <1>3 DEF ReportCashierStep
<1>4. ASSUME NEW u \in Uploads, ReportCashier(u) PROVE RowsInv'
  BY <1>4 DEF ReportCashier, Unpurged
<1>5. ASSUME AssignmentChanges PROVE RowsInv'
  BY <1>5 DEF AssignmentChanges
<1>6. ASSUME NEW u \in Uploads, NEW s \in AccountStatus, SetCashierStatus(u, s)
      PROVE RowsInv'
  BY <1>6 DEF SetCashierStatus
<1>7. ASSUME NEW a \in Admins, NEW u \in Uploads, BeginReview(a, u) PROVE RowsInv'
  BY <1>7, ConstantsAssumption DEF BeginReview, Reviewable
<1>8. ASSUME NEW a \in Admins, NEW u \in Uploads, EvidenceDownload(a, u)
      PROVE RowsInv'
  BY <1>8 DEF EvidenceDownload
<1>9. ASSUME NEW a \in Admins, NEW u \in Uploads, NEW o \in Outcomes,
             NEW w \in Workers, Close(a, u, o, w)
      PROVE RowsInv'
  BY <1>9, ConstantsAssumption
     DEF Close, CreateJob, OutcomeMatchesCashierState, ReportStatus
<1>10. ASSUME NEW a \in Admins, NEW u \in Uploads, NEW o \in Outcomes,
              NEW w \in Workers, CloseAgain(a, u, o, w)
       PROVE RowsInv'
  BY <1>10 DEF CloseAgain
<1>11. ASSUME NEW w \in Workers, Finalize(w) PROVE RowsInv'
  BY <1>11 DEF Finalize, Holds, CanFinalize, LostLease, OnlyWorkers
<1>12. ASSUME NEW w \in Workers,
              \/ \E u \in Uploads : RunBatch(w, u)
              \/ ReadClock(w) \/ Claim(w) \/ Reread(w) \/ DeleteObject(w)
              \/ DeleteObjectFails(w) \/ FinalizeFails(w) \/ ScheduleRetry(w) \/ Crash(w)
       PROVE RowsInv'
  BY <1>12 DEF RunBatch, ReadClock, Claim, Reread, DeleteObject, DeleteObjectFails,
     FinalizeFails, ScheduleRetry, Crash, OnlyWorkers
<1>13. ASSUME PurgerNext PROVE RowsInv'
  BY <1>13 DEF PurgerNext, AdvancePurger, SelectAbandoned, ClaimAbandoned,
     DeleteAbandoned, DeleteAbandonedFails, DeleteReservation, RecordPurgeError,
     CrashPurger, OnlyPurgers
<1>14. CASE Tick
  BY <1>14 DEF Tick
<1>15. CASE UNCHANGED vars
  BY <1>15 DEF vars
<1> QED
  BY <1>1, <1>2, <1>3, <1>4, <1>5, <1>6, <1>7, <1>8, <1>9, <1>10, <1>11, <1>12,
     <1>13, <1>14, <1>15 DEF Next, ClientNext, AdminNext, WorkerNext, Advance

\* What an administrator's request leaves alone, and the two ways in which it
\* moves a report.
LEMMA AdminFrame ==
    ASSUME TypeOK, AdminNext
    PROVE  /\ UNCHANGED <<now, issued, grantExpiresAt, reservations,
                          lastPurgeAttemptAt, objects, reached, evidence, purger>>
           /\ \A u \in Uploads :
                 \/ status'[u] = status[u]
                 \/ status[u] = "OPEN" /\ status'[u] = "IN_REVIEW"
                 \/ status[u] = "IN_REVIEW" /\ status'[u] = "CLOSING"
<1> DEFINE Frame ==
      /\ UNCHANGED <<now, issued, grantExpiresAt, reservations,
                      lastPurgeAttemptAt, objects, reached, evidence, purger>>
      /\ \A u \in Uploads :
            \/ status'[u] = status[u]
            \/ status[u] = "OPEN" /\ status'[u] = "IN_REVIEW"
            \/ status[u] = "IN_REVIEW" /\ status'[u] = "CLOSING"
<1> USE DEF TypeOK, grantVars, ledgerVars, reportVars
<1>1. ASSUME NEW u \in Uploads, NEW s \in AccountStatus, SetCashierStatus(u, s)
      PROVE Frame
  BY <1>1 DEF SetCashierStatus
<1>2. ASSUME NEW a \in Admins, NEW u \in Uploads, BeginReview(a, u) PROVE Frame
  BY <1>2 DEF BeginReview, Reviewable
<1>3. ASSUME NEW a \in Admins, NEW u \in Uploads, EvidenceDownload(a, u) PROVE Frame
  BY <1>3 DEF EvidenceDownload
<1>4. ASSUME NEW a \in Admins, NEW u \in Uploads, NEW o \in Outcomes,
             NEW w \in Workers, Close(a, u, o, w)
      PROVE Frame
  BY <1>4 DEF Close
<1>5. ASSUME NEW a \in Admins, NEW u \in Uploads, NEW o \in Outcomes,
             NEW w \in Workers, CloseAgain(a, u, o, w)
      PROVE Frame
  BY <1>5 DEF CloseAgain
<1> QED
  BY <1>1, <1>2, <1>3, <1>4, <1>5 DEF AdminNext

\* The object of a report stays until its closure, and no object outlives its
\* rows: whoever removes a key or its last row does so after the grant expired.
LEMMA ObjectStep == IInv /\ [Next]_vars => ObjectInv'
<1> SUFFICES ASSUME IInv, [Next]_vars PROVE ObjectInv'
  OBVIOUS
<1> USE DEF IInv, TypeOK, RowsInv, ObjectInv, Unpurged, assignmentVars, grantVars,
            ledgerVars, reportVars, jobVars, columns
<1>1. ASSUME NEW u \in Uploads, RequestEvidenceUpload(u) PROVE ObjectInv'
  BY <1>1 DEF RequestEvidenceUpload
<1>2. ASSUME NEW u \in Uploads, PutEvidence(u) PROVE ObjectInv'
  BY <1>2 DEF PutEvidence
<1>3. ASSUME NEW u \in Uploads, ReportCashierStep(u) PROVE ObjectInv'
  <2>1. u \in issued
    <3>1. CASE reached[u] = 0
      <4>1. u \in reservations
        BY <1>3, <3>1 DEF ReportCashierStep, StepAllowed
      <4> QED
        BY <4>1
    <3>2. CASE reached[u] > 0
      BY <3>2
    <3> QED
      BY <3>1, <3>2
  <2>2. reached'[u] > 1 /\ Unpurged(u) => u \in objects
    BY <1>3 DEF ReportCashierStep, StepAllowed
  <2>3. \A v \in Uploads : v # u => reached'[v] = reached[v]
    BY <1>3 DEF ReportCashierStep
  <2> QED
    BY <1>3, <2>1, <2>2, <2>3 DEF ReportCashierStep
<1>4. ASSUME NEW u \in Uploads, ReportCashier(u) PROVE ObjectInv'
  BY <1>4 DEF ReportCashier
<1>5. ASSUME AssignmentChanges PROVE ObjectInv'
  BY <1>5 DEF AssignmentChanges
<1>6. ASSUME AdminNext PROVE ObjectInv'
  <2>1. /\ UNCHANGED <<now, issued, grantExpiresAt, reservations, lastPurgeAttemptAt,
                        objects, reached, evidence>>
        /\ \A u \in Uploads : status'[u] \in {"OPEN", "IN_REVIEW"} =>
                             status[u] \in {"OPEN", "IN_REVIEW"}
    BY <1>6, AdminFrame
  <2> QED
    BY <2>1
<1>7. ASSUME NEW w \in Workers, DeleteObject(w) PROVE ObjectInv'
  BY <1>7 DEF DeleteObject, OnlyWorkers, WorkerInv
<1>8. ASSUME NEW w \in Workers, DeleteObjectFails(w) PROVE ObjectInv'
  BY <1>8 DEF DeleteObjectFails, OnlyWorkers, WorkerInv
<1>9. ASSUME NEW w \in Workers, Finalize(w) PROVE ObjectInv'
  BY <1>9 DEF Finalize, Holds, CanFinalize, LostLease, OnlyWorkers, WorkerInv
<1>10. ASSUME NEW w \in Workers,
              \/ \E u \in Uploads : RunBatch(w, u)
              \/ ReadClock(w) \/ Claim(w) \/ Reread(w)
              \/ FinalizeFails(w) \/ ScheduleRetry(w) \/ Crash(w)
       PROVE ObjectInv'
  BY <1>10 DEF RunBatch, ReadClock, Claim, Reread, FinalizeFails, ScheduleRetry,
     Crash, OnlyWorkers
<1>11. ASSUME NEW p \in Purgers, ClaimAbandoned(p) PROVE ObjectInv'
  BY <1>11 DEF ClaimAbandoned, OnlyPurgers, PurgerInv, Null
<1>12. ASSUME NEW p \in Purgers, DeleteAbandoned(p) \/ DeleteAbandonedFails(p)
       PROVE ObjectInv'
  BY <1>12 DEF DeleteAbandoned, DeleteAbandonedFails, OnlyPurgers, PurgerInv
<1>13. ASSUME NEW p \in Purgers, DeleteReservation(p) PROVE ObjectInv'
  BY <1>13 DEF DeleteReservation, OnlyPurgers, PurgerInv
<1>14. ASSUME NEW p \in Purgers,
              \/ \E u \in Uploads : SelectAbandoned(p, u)
              \/ RecordPurgeError(p) \/ CrashPurger(p)
       PROVE ObjectInv'
  BY <1>14 DEF SelectAbandoned, RecordPurgeError, CrashPurger, OnlyPurgers, PurgerInv, Null
<1>15. CASE Tick
  BY <1>15 DEF Tick
<1>16. CASE UNCHANGED vars
  BY <1>16 DEF vars
<1> QED
  BY <1>1, <1>2, <1>3, <1>4, <1>5, <1>6, <1>7, <1>8, <1>9, <1>10, <1>11, <1>12,
     <1>13, <1>14, <1>15, <1>16
     DEF Next, ClientNext, WorkerNext, Advance, PurgerNext, AdvancePurger

\* A job's boundary and requester are written once, from the evidence and the
\* report they must match.
LEMMA JobStep == IInv /\ [Next]_vars => JobInv'
<1> SUFFICES ASSUME IInv, [Next]_vars PROVE JobInv'
  OBVIOUS
<1> USE DEF IInv, TypeOK, RowsInv, JobInv, assignmentVars, grantVars, ledgerVars,
            reportVars, jobVars, columns
<1>1. ASSUME NEW u \in Uploads, RequestEvidenceUpload(u) PROVE JobInv'
  <2>1. u \notin jobs
    BY <1>1 DEF RequestEvidenceUpload
  <2> QED
    BY <1>1, <2>1 DEF RequestEvidenceUpload
<1>9. ASSUME NEW u \in Uploads, PutEvidence(u) \/ ReportCashierStep(u) \/ ReportCashier(u)
      PROVE JobInv'
  BY <1>9 DEF PutEvidence, ReportCashierStep, ReportCashier
<1>2. ASSUME NEW a \in Admins, NEW u \in Uploads, BeginReview(a, u) PROVE JobInv'
  BY <1>2 DEF BeginReview, Reviewable
<1>3. ASSUME NEW a \in Admins, NEW u \in Uploads, NEW o \in Outcomes,
             NEW w \in Workers, Close(a, u, o, w)
      PROVE JobInv'
  BY <1>3 DEF Close, CreateJob
<1>4. ASSUME NEW u \in Uploads,
             \/ \E s \in AccountStatus : SetCashierStatus(u, s)
             \/ \E a \in Admins : EvidenceDownload(a, u)
             \/ \E a \in Admins, o \in Outcomes, w \in Workers : CloseAgain(a, u, o, w)
      PROVE JobInv'
  BY <1>4 DEF SetCashierStatus, EvidenceDownload, CloseAgain
<1>5. ASSUME NEW w \in Workers, Finalize(w) PROVE JobInv'
  BY <1>5 DEF Finalize, LostLease, OnlyWorkers
<1>6. ASSUME NEW w \in Workers,
             \/ \E u \in Uploads : RunBatch(w, u)
             \/ ReadClock(w) \/ Claim(w) \/ Reread(w) \/ DeleteObject(w)
             \/ DeleteObjectFails(w) \/ FinalizeFails(w) \/ ScheduleRetry(w) \/ Crash(w)
      PROVE JobInv'
  BY <1>6 DEF RunBatch, ReadClock, Claim, Reread, DeleteObject, DeleteObjectFails,
     FinalizeFails, ScheduleRetry, Crash, OnlyWorkers
<1>7. ASSUME PurgerNext PROVE JobInv'
  BY <1>7 DEF PurgerNext, AdvancePurger, SelectAbandoned, ClaimAbandoned,
     DeleteAbandoned, DeleteAbandonedFails, DeleteReservation, RecordPurgeError,
     CrashPurger, OnlyPurgers
<1>8. CASE AssignmentChanges \/ Tick \/ UNCHANGED vars
  BY <1>8 DEF AssignmentChanges, Tick, vars
<1> QED
  BY <1>1, <1>2, <1>3, <1>4, <1>5, <1>6, <1>7, <1>8, <1>9
     DEF Next, ClientNext, AdminNext, WorkerNext, Advance

\* Calls of processReport: the claim was judged at a time when the upload was no
\* longer authorized, so nobody stores the object again behind the delete.
LEMMA WorkersStep == IInv /\ [Next]_vars => WorkerInv'
<1> SUFFICES ASSUME IInv, [Next]_vars PROVE WorkerInv'
  OBVIOUS
<1> USE DEF IInv, TypeOK, RowsInv, WorkerInv, Worker, assignmentVars, grantVars,
            ledgerVars, reportVars, jobVars, columns
<1>1. ASSUME NEW u \in Uploads, RequestEvidenceUpload(u) PROVE WorkerInv'
  BY <1>1 DEF RequestEvidenceUpload
<1>2. ASSUME NEW u \in Uploads, PutEvidence(u) PROVE WorkerInv'
  BY <1>2 DEF PutEvidence
<1>3. ASSUME NEW u \in Uploads, ReportCashierStep(u) \/ ReportCashier(u)
      PROVE WorkerInv'
  <2>1. \A v \in Uploads : status[v] \in {"CLOSING", "CLOSED"} => status'[v] = status[v]
    BY <1>3 DEF ReportCashierStep, ReportCashier, Unpurged
  <2>2. UNCHANGED <<now, grantExpiresAt, objects, worker>>
    BY <1>3 DEF ReportCashierStep, ReportCashier
  <2> QED
    BY <2>1, <2>2
<1>4. ASSUME NEW a \in Admins, NEW u \in Uploads,
             BeginReview(a, u) \/ EvidenceDownload(a, u)
      PROVE WorkerInv'
  BY <1>4 DEF BeginReview, Reviewable, EvidenceDownload
<1>5. ASSUME NEW a \in Admins, NEW u \in Uploads, NEW o \in Outcomes,
             NEW w \in Workers, Close(a, u, o, w) \/ CloseAgain(a, u, o, w)
      PROVE WorkerInv'
  BY <1>5 DEF Close, CloseAgain, StartProcessReport, Call
<1>6. ASSUME NEW w \in Workers, NEW u \in Uploads, RunBatch(w, u) PROVE WorkerInv'
  <2>1. status[u] = "CLOSING"
    BY <1>6 DEF RunBatch, Due
  <2> QED
    BY <1>6, <2>1 DEF RunBatch, StartProcessReport, Call, OnlyWorkers
<1>7. ASSUME NEW w \in Workers, ReadClock(w) PROVE WorkerInv'
  BY <1>7 DEF ReadClock, Call, OnlyWorkers
<1>8. ASSUME NEW w \in Workers, Claim(w) PROVE WorkerInv'
  <2> DEFINE u == worker[w].report
             t == worker[w].startedAt
  <2>1. UNCHANGED <<now, grantExpiresAt, objects, status>>
    BY <1>8 DEF Claim, OnlyWorkers, reportVars
  <2>2. worker[w].step # "idle"
    BY <1>8 DEF Claim
  <2>3. CASE Due(u, t) /\ worker' = [worker EXCEPT ![w] = Call("reread", u, t, attempts[u] + 1)]
    <3>1. grantExpiresAt[u] <= t
      BY <2>2, <2>3 DEF Due, JobInv
    <3>2. worker'[w] = Call("reread", u, t, attempts[u] + 1)
      BY <2>3
    <3>3. \A v \in Workers \ {w} : worker'[v] = worker[v]
      BY <2>3
    <3> QED
      BY <2>1, <2>2, <3>1, <3>2, <3>3 DEF Call
  <2>4. CASE worker' = [worker EXCEPT ![w] = IdleWorker]
    BY <2>1, <2>4 DEF IdleWorker, Call
  <2> QED
    BY <1>8, <2>3, <2>4 DEF Claim, Return
<1>9. ASSUME NEW w \in Workers, Reread(w) PROVE WorkerInv'
  <2>1. UNCHANGED <<now, grantExpiresAt, objects, status>>
    BY <1>9 DEF Reread, OnlyWorkers, reportVars
  <2>2. worker[w].step = "reread" /\ grantExpiresAt[worker[w].report] <= worker[w].startedAt
    BY <1>9 DEF Reread
  <2>3. CASE worker' = [worker EXCEPT ![w].step = "storage"]
    BY <2>1, <2>2, <2>3
  <2>4. CASE worker' = [worker EXCEPT ![w] = IdleWorker]
    BY <2>1, <2>4 DEF IdleWorker, Call
  <2> QED
    BY <1>9, <2>3, <2>4 DEF Reread, Goto, Return
<1>10. ASSUME NEW w \in Workers, DeleteObject(w) PROVE WorkerInv'
  BY <1>10 DEF DeleteObject, Goto, OnlyWorkers
<1>11. ASSUME NEW w \in Workers, DeleteObjectFails(w) PROVE WorkerInv'
  BY <1>11 DEF DeleteObjectFails, Goto, OnlyWorkers
<1>12. ASSUME NEW w \in Workers, Finalize(w) PROVE WorkerInv'
  BY <1>12 DEF Finalize, LostLease, Holds, Return, IdleWorker, Call, OnlyWorkers
<1>13. ASSUME NEW w \in Workers, FinalizeFails(w) PROVE WorkerInv'
  BY <1>13 DEF FinalizeFails, Goto, OnlyWorkers
<1>14. ASSUME NEW w \in Workers, ScheduleRetry(w) \/ Crash(w) PROVE WorkerInv'
  <2>1. /\ UNCHANGED <<now, grantExpiresAt, objects, status>>
        /\ worker' = [worker EXCEPT ![w] = IdleWorker]
    BY <1>14 DEF ScheduleRetry, Crash, Return, OnlyWorkers, reportVars
  <2> QED
    BY <2>1 DEF IdleWorker, Call
<1>15. ASSUME PurgerNext PROVE WorkerInv'
  BY <1>15 DEF PurgerNext, AdvancePurger, SelectAbandoned, ClaimAbandoned,
     DeleteAbandoned, DeleteAbandonedFails, DeleteReservation, RecordPurgeError,
     CrashPurger, OnlyPurgers
<1>16. CASE Tick
  BY <1>16 DEF Tick
<1>17. ASSUME AssignmentChanges \/ \E u \in Uploads, s \in AccountStatus : SetCashierStatus(u, s)
       PROVE WorkerInv'
  BY <1>17 DEF AssignmentChanges, SetCashierStatus
<1>18. CASE UNCHANGED vars
  BY <1>18 DEF vars
<1> QED
  BY <1>1, <1>2, <1>3, <1>4, <1>5, <1>6, <1>7, <1>8, <1>9, <1>10, <1>11, <1>12,
     <1>13, <1>14, <1>15, <1>16, <1>17, <1>18
     DEF Next, ClientNext, AdminNext, WorkerNext, Advance

\* Calls of purgeAbandonedEvidence: the claim excludes reportCashier, whatever
\* that call had already checked.
LEMMA PurgersStep == IInv /\ [Next]_vars => PurgerInv'
<1> SUFFICES ASSUME IInv, [Next]_vars PROVE PurgerInv'
  OBVIOUS
<1> USE DEF IInv, TypeOK, RowsInv, PurgerInv, Purger, Unpurged, assignmentVars,
            grantVars, ledgerVars, reportVars, jobVars, columns
<1>1. ASSUME NEW u \in Uploads, RequestEvidenceUpload(u) PROVE PurgerInv'
  BY <1>1 DEF RequestEvidenceUpload
<1>2. ASSUME NEW u \in Uploads, PutEvidence(u) PROVE PurgerInv'
  BY <1>2 DEF PutEvidence
<1>3. ASSUME NEW u \in Uploads, ReportCashierStep(u) \/ ReportCashier(u)
      PROVE PurgerInv'
  BY <1>3 DEF ReportCashierStep, ReportCashier
<1>4. ASSUME AdminNext PROVE PurgerInv'
  <2>1. /\ UNCHANGED <<now, issued, grantExpiresAt, reservations, lastPurgeAttemptAt,
                        objects, purger>>
        /\ \A u \in Uploads : status[u] = "NONE" => status'[u] = "NONE"
    BY <1>4, AdminFrame
  <2> QED
    BY <2>1
<1>5. ASSUME NEW w \in Workers, DeleteObject(w) \/ DeleteObjectFails(w)
      PROVE PurgerInv'
  BY <1>5 DEF DeleteObject, DeleteObjectFails, OnlyWorkers
<1>6. ASSUME NEW w \in Workers, Finalize(w) PROVE PurgerInv'
  BY <1>6 DEF Finalize, CanFinalize, LostLease, OnlyWorkers
<1>7. ASSUME NEW w \in Workers,
             \/ \E u \in Uploads : RunBatch(w, u)
             \/ ReadClock(w) \/ Claim(w) \/ Reread(w)
             \/ FinalizeFails(w) \/ ScheduleRetry(w) \/ Crash(w)
      PROVE PurgerInv'
  BY <1>7 DEF RunBatch, ReadClock, Claim, Reread, FinalizeFails, ScheduleRetry,
     Crash, OnlyWorkers
<1>8. ASSUME NEW p \in Purgers, NEW u \in Uploads, SelectAbandoned(p, u)
      PROVE PurgerInv'
  <2>1. u \in issued /\ grantExpiresAt[u] <= now
    BY <1>8 DEF SelectAbandoned, Abandoned
  <2> QED
    BY <1>8, <2>1 DEF SelectAbandoned, OnlyPurgers
<1>9. ASSUME NEW p \in Purgers, ClaimAbandoned(p) PROVE PurgerInv'
  <2> DEFINE u == purger[p].upload
  <2>1. CASE Abandoned(u, purger[p].batchNow)
    <3>1. u \in Uploads /\ status[u] = "NONE" /\ purger[p].batchNow # Null
      <4>1. u \in reservations
        BY <2>1 DEF Abandoned
      <4>2. purger[p].batchNow \in 1 .. now
        BY <1>9 DEF ClaimAbandoned
      <4>3. u \in Uploads
        BY <4>1
      <4>4. status[u] = "NONE"
        BY <4>1, <4>3
      <4>5. purger[p].batchNow # Null
        BY <4>2 DEF Null
      <4> QED
        BY <4>3, <4>4, <4>5
    <3>2. lastPurgeAttemptAt' = [lastPurgeAttemptAt EXCEPT ![u] = purger[p].batchNow]
      BY <1>9, <2>1 DEF ClaimAbandoned
    <3>3. purger' = [purger EXCEPT ![p].step = "delete"]
      BY <1>9, <2>1 DEF ClaimAbandoned, PurgerGoto
    <3>4. UNCHANGED <<now, issued, grantExpiresAt, status, reservations, objects>>
      BY <1>9 DEF ClaimAbandoned, OnlyPurgers
    <3>5. ASSUME NEW q \in Purgers, q # p PROVE purger'[q] = purger[q]
      BY <3>3, <3>5
    <3>6. /\ purger'[p].step = "delete" /\ purger'[p].upload = u
          /\ purger'[p].batchNow = purger[p].batchNow
      BY <3>3
    <3>7. \A v \in Uploads : lastPurgeAttemptAt[v] # Null => lastPurgeAttemptAt'[v] # Null
      BY <3>1, <3>2
    <3>8. ~Unpurged(u)'
      BY <3>1, <3>2, <3>6
    <3> QED
      BY <1>9, <3>1, <3>4, <3>5, <3>6, <3>7, <3>8 DEF ClaimAbandoned
  <2>2. CASE ~Abandoned(u, purger[p].batchNow)
    BY <1>9, <2>2 DEF ClaimAbandoned, PurgerReturn, IdlePurger, OnlyPurgers
  <2> QED
    BY <2>1, <2>2
<1>10. ASSUME NEW p \in Purgers, DeleteAbandoned(p) PROVE PurgerInv'
  BY <1>10 DEF DeleteAbandoned, PurgerGoto, OnlyPurgers
<1>11. ASSUME NEW p \in Purgers, DeleteAbandonedFails(p) PROVE PurgerInv'
  BY <1>11 DEF DeleteAbandonedFails, PurgerGoto, OnlyPurgers
<1>12. ASSUME NEW p \in Purgers, DeleteReservation(p) PROVE PurgerInv'
  BY <1>12 DEF DeleteReservation, PurgerReturn, IdlePurger, OnlyPurgers
<1>13. ASSUME NEW p \in Purgers, RecordPurgeError(p) PROVE PurgerInv'
  BY <1>13 DEF RecordPurgeError, PurgerReturn, IdlePurger, OnlyPurgers, Null
<1>14. ASSUME NEW p \in Purgers, CrashPurger(p) PROVE PurgerInv'
  BY <1>14 DEF CrashPurger, PurgerReturn, IdlePurger, OnlyPurgers
<1>15. CASE Tick
  BY <1>15 DEF Tick
<1>16. CASE AssignmentChanges \/ UNCHANGED vars
  BY <1>16 DEF AssignmentChanges, vars
<1> QED
  BY <1>1, <1>2, <1>3, <1>4, <1>5, <1>6, <1>7, <1>8, <1>9, <1>10, <1>11, <1>12,
     <1>13, <1>14, <1>15, <1>16
     DEF Next, ClientNext, WorkerNext, Advance, PurgerNext, AdvancePurger

\* The invariant holds in every state of Spec.
THEOREM Invariance == Spec => []IInv
<1>1. Init => IInv
  <2> SUFFICES ASSUME Init PROVE IInv
    OBVIOUS
  <2>1. TypeOK
    BY ConstantsAssumption DEF Init, TypeOK, AccountStatus, ReportStatus, Worker,
       Call, IdleWorker, WorkerStep, Purger, IdlePurger, PurgerStep, NoToken, Null
  <2>2. RowsInv
    BY ConstantsAssumption DEF Init, RowsInv, ReportOutcome
  <2>3. ObjectInv /\ JobInv
    BY DEF Init, ObjectInv, JobInv, Unpurged
  <2>4. WorkerInv /\ PurgerInv
    BY DEF Init, WorkerInv, PurgerInv, IdleWorker, Call, IdlePurger
  <2> QED
    BY <2>1, <2>2, <2>3, <2>4 DEF IInv
<1>2. IInv /\ [Next]_vars => IInv'
  BY TypeOKStep, RowsStep, ObjectStep, JobStep, WorkersStep, PurgersStep DEF IInv
<1> QED
  BY <1>1, <1>2, PTL DEF Spec

-----------------------------------------------------------------------------
(* The properties.                                                         *)

\* While a report is open or in review its evidence object is stored: the
\* retention purge and reportCashier never both take a reservation.
THEOREM EvidenceStaysAvailable == Spec => []EvidenceAvailable
<1>1. IInv => EvidenceAvailable
  BY DEF IInv, ObjectInv, EvidenceAvailable
<1> QED
  BY <1>1, Invariance, PTL

\* No evidence object outlives the rows that name its key.
THEOREM NoOrphans == Spec => []NoOrphanObject
<1>1. IInv => NoOrphanObject
  BY DEF IInv, TypeOK, ObjectInv, NoOrphanObject
<1> QED
  BY <1>1, Invariance, PTL

\* A report has its closure job exactly while CLOSING, its evidence row exactly
\* until it is CLOSED, and the deferred triggers never abort a transaction.
THEOREM JobLifecycle == Spec => []ClosureJobLifecycle
<1>1. IInv => ClosureJobLifecycle
  BY DEF IInv, RowsInv, ClosureJobLifecycle
<1> QED
  BY <1>1, Invariance, PTL

\* A closure is announced exactly once, with any number of workers and faults.
THEOREM ExactlyOnceClosure == Spec => []NotifiedOnce
<1>1. IInv => NotifiedOnce
  BY DEF IInv, RowsInv, NotifiedOnce
<1> QED
  BY <1>1, Invariance, PTL

\* Nobody closes a report without having opened its evidence, and the outcome
\* CASHIER_DELETED is only ever recorded of a deleted cashier.
THEOREM ReviewPrecedesClosure == Spec => []ReviewedBeforeClosed
<1>1. IInv => ReviewedBeforeClosed
  BY DEF IInv, RowsInv, ReviewedBeforeClosed
<1> QED
  BY <1>1, Invariance, PTL

\* An evidence object is only removed after its upload authorization expired,
\* for a closing report or for a reservation that no report can claim any more.
THEOREM PurgeWaitsForAuthorization == Spec => PurgeWaits
<1> DEFINE Waits ==
      \A u \in objects \ objects' :
          /\ grantExpiresAt[u] <= now
          /\ \/ status[u] \in {"CLOSING", "CLOSED"}
             \/ u \in reservations /\ lastPurgeAttemptAt[u] # Null
<1>1. ASSUME IInv, [Next]_vars PROVE [Waits]_vars
  <2> SUFFICES ASSUME NEW u \in objects, u \notin objects'
               PROVE  /\ grantExpiresAt[u] <= now
                      /\ \/ status[u] \in {"CLOSING", "CLOSED"}
                         \/ u \in reservations /\ lastPurgeAttemptAt[u] # Null
    OBVIOUS
  <2> USE <1>1 DEF IInv, TypeOK
  <2>1. ASSUME NEW w \in Workers, DeleteObject(w) \/ DeleteObjectFails(w),
               u = worker[w].report
        PROVE grantExpiresAt[u] <= now /\ status[u] \in {"CLOSING", "CLOSED"}
    BY <2>1 DEF DeleteObject, DeleteObjectFails, WorkerInv, Worker
  <2>2. ASSUME NEW p \in Purgers, DeleteAbandoned(p) \/ DeleteAbandonedFails(p),
               u = purger[p].upload
        PROVE /\ grantExpiresAt[u] <= now
              /\ u \in reservations /\ lastPurgeAttemptAt[u] # Null
    <3>1. grantExpiresAt[u] <= now /\ ~Unpurged(u) /\ status[u] = "NONE"
      BY <2>2 DEF DeleteAbandoned, DeleteAbandonedFails, PurgerInv, Purger
    <3>2. u \in reservations
      BY <3>1 DEF ObjectInv, RowsInv
    <3> QED
      BY <3>1, <3>2 DEF Unpurged
  <2>3. \/ \E w \in Workers : /\ DeleteObject(w) \/ DeleteObjectFails(w)
                              /\ u = worker[w].report
        \/ \E p \in Purgers : /\ DeleteAbandoned(p) \/ DeleteAbandonedFails(p)
                              /\ u = purger[p].upload
    <3>1. ASSUME ClientNext PROVE FALSE
      BY <3>1 DEF ClientNext, RequestEvidenceUpload, PutEvidence, ReportCashierStep,
         ReportCashier
    <3>2. ASSUME AdminNext PROVE FALSE
      BY <3>2, AdminFrame
    <3>3. ASSUME WorkerNext
          PROVE \E w \in Workers : /\ DeleteObject(w) \/ DeleteObjectFails(w)
                                   /\ u = worker[w].report
      BY <3>3 DEF WorkerNext, Advance, RunBatch, ReadClock, Claim, Reread,
         DeleteObject, DeleteObjectFails, Finalize, FinalizeFails, ScheduleRetry, Crash
    <3>4. ASSUME PurgerNext
          PROVE \E p \in Purgers : /\ DeleteAbandoned(p) \/ DeleteAbandonedFails(p)
                                   /\ u = purger[p].upload
      BY <3>4 DEF PurgerNext, AdvancePurger, SelectAbandoned, ClaimAbandoned,
         DeleteAbandoned, DeleteAbandonedFails, DeleteReservation, RecordPurgeError,
         CrashPurger
    <3>5. ASSUME AssignmentChanges \/ Tick \/ UNCHANGED vars PROVE FALSE
      BY <3>5 DEF AssignmentChanges, Tick, vars
    <3> QED
      BY <3>1, <3>2, <3>3, <3>4, <3>5 DEF Next
  <2> QED
    BY <2>1, <2>2, <2>3
<1> QED
  BY <1>1, Invariance, PTL DEF Spec, PurgeWaits

\* The state of a report moves forward one step at a time; its reviewer and its
\* outcome are written once. This is the trigger on reports, so no update of the
\* application is ever refused by it.
THEOREM HistoryIsMonotone == Spec => ReportHistory
<1> DEFINE History ==
      \A u \in Uploads :
          /\ status'[u] # status[u] => <<status[u], status'[u]>> \in StatusSteps
          /\ reviewer[u] # None => reviewer'[u] = reviewer[u]
          /\ outcome[u] # None => outcome'[u] = outcome[u]
<1>1. ASSUME IInv, [Next]_vars PROVE History
  <2> USE <1>1 DEF IInv, TypeOK, RowsInv, StatusSteps, reportVars
  <2>1. ASSUME NEW u \in Uploads, RequestEvidenceUpload(u) \/ PutEvidence(u) \/ ReportCashierStep(u)
        PROVE History
    BY <2>1 DEF RequestEvidenceUpload, PutEvidence, ReportCashierStep
  <2>2. ASSUME NEW u \in Uploads, ReportCashier(u) PROVE History
    <3>1. status[u] = "NONE"
      BY <2>2 DEF ReportCashier, Unpurged
    <3> QED
      BY <2>2, <3>1 DEF ReportCashier
  <2>3. ASSUME NEW a \in Admins, NEW u \in Uploads, BeginReview(a, u) PROVE History
    BY <2>3 DEF BeginReview, Reviewable
  <2>4. ASSUME NEW a \in Admins, NEW u \in Uploads, NEW o \in Outcomes,
               NEW w \in Workers, Close(a, u, o, w)
        PROVE History
    BY <2>4 DEF Close
  <2>5. ASSUME NEW u \in Uploads,
               \/ \E s \in AccountStatus : SetCashierStatus(u, s)
               \/ \E a \in Admins : EvidenceDownload(a, u)
               \/ \E a \in Admins, o \in Outcomes, w \in Workers : CloseAgain(a, u, o, w)
        PROVE History
    BY <2>5 DEF SetCashierStatus, EvidenceDownload, CloseAgain
  <2>6. ASSUME NEW w \in Workers, Finalize(w) PROVE History
    BY <2>6 DEF Finalize, Holds, CanFinalize, LostLease
  <2>7. ASSUME NEW w \in Workers,
               \/ \E u \in Uploads : RunBatch(w, u)
               \/ ReadClock(w) \/ Claim(w) \/ Reread(w) \/ DeleteObject(w)
               \/ DeleteObjectFails(w) \/ FinalizeFails(w) \/ ScheduleRetry(w) \/ Crash(w)
        PROVE History
    BY <2>7 DEF RunBatch, ReadClock, Claim, Reread, DeleteObject, DeleteObjectFails,
       FinalizeFails, ScheduleRetry, Crash
  <2>8. ASSUME PurgerNext PROVE History
    BY <2>8 DEF PurgerNext, AdvancePurger, SelectAbandoned, ClaimAbandoned,
       DeleteAbandoned, DeleteAbandonedFails, DeleteReservation, RecordPurgeError,
       CrashPurger, OnlyPurgers
  <2>9. CASE AssignmentChanges \/ Tick \/ UNCHANGED vars
    BY <2>9 DEF AssignmentChanges, Tick, vars
  <2> QED
    BY <2>1, <2>2, <2>3, <2>4, <2>5, <2>6, <2>7, <2>8, <2>9
       DEF Next, ClientNext, AdminNext, WorkerNext, Advance
<1> QED
  BY <1>1, Invariance, PTL DEF Spec, ReportHistory

\* Until it expires, a lease is given up only by the call that holds it: a slow
\* call that lost its lease, or one that claims with an old clock reading,
\* changes nothing.
THEOREM LeasesBind == Spec => LeaseRespected
<1> DEFINE Changed(u) == \/ u \notin jobs' \/ leaseToken'[u] # leaseToken[u]
                         \/ nextAttemptAt'[u] # nextAttemptAt[u]
           Holder(u) == \E w \in Workers :
                           /\ worker[w].report = u /\ worker[w].token = leaseToken[u]
                           /\ worker'[w] # worker[w]
           Respected ==
               \A u \in jobs :
                  /\ leaseToken[u] # NoToken /\ leasedUntil[u] > now
                  /\ \/ u \notin jobs' \/ leaseToken'[u] # leaseToken[u]
                     \/ nextAttemptAt'[u] # nextAttemptAt[u]
                  => \E w \in Workers :
                        /\ worker[w].report = u /\ worker[w].token = leaseToken[u]
                        /\ worker'[w] # worker[w]
<1>1. ASSUME IInv, [Next]_vars PROVE Respected
  <2> SUFFICES ASSUME NEW u \in jobs, leaseToken[u] # NoToken, leasedUntil[u] > now,
                      Changed(u)
               PROVE  Holder(u)
    OBVIOUS
  <2> USE <1>1 DEF IInv, TypeOK, jobVars, columns
  <2>1. ASSUME NEW a \in Admins, NEW v \in Uploads, NEW o \in Outcomes,
               NEW w \in Workers, Close(a, v, o, w)
        PROVE FALSE
    BY <2>1 DEF Close, CreateJob, RowsInv
  <2>2. ASSUME NEW w \in Workers, Claim(w) PROVE FALSE
    BY <2>2 DEF Claim, Due, WorkerInv, Worker
  <2>3. ASSUME NEW w \in Workers, Finalize(w) PROVE Holder(u)
    BY <2>3 DEF Finalize, LostLease, Holds, Return, IdleWorker, Call, Worker
  <2>4. ASSUME NEW w \in Workers, ScheduleRetry(w) PROVE Holder(u)
    BY <2>4 DEF ScheduleRetry, Holds, Return, IdleWorker, Call, Worker
  <2>5. ASSUME NEW v \in Uploads,
               \/ \E s \in AccountStatus : SetCashierStatus(v, s)
               \/ \E a \in Admins : BeginReview(a, v) \/ EvidenceDownload(a, v)
               \/ \E a \in Admins, o \in Outcomes, w \in Workers : CloseAgain(a, v, o, w)
        PROVE FALSE
    BY <2>5 DEF SetCashierStatus, BeginReview, EvidenceDownload, CloseAgain
  <2>6. ASSUME NEW w \in Workers,
               \/ \E v \in Uploads : RunBatch(w, v)
               \/ ReadClock(w) \/ Reread(w) \/ DeleteObject(w)
               \/ DeleteObjectFails(w) \/ FinalizeFails(w) \/ Crash(w)
        PROVE FALSE
    BY <2>6 DEF RunBatch, ReadClock, Reread, DeleteObject, DeleteObjectFails,
       FinalizeFails, Crash
  <2>7. ASSUME ClientNext PROVE FALSE
    BY <2>7 DEF ClientNext, RequestEvidenceUpload, PutEvidence, ReportCashierStep,
       ReportCashier
  <2>8. ASSUME PurgerNext PROVE FALSE
    BY <2>8 DEF PurgerNext, AdvancePurger, SelectAbandoned, ClaimAbandoned,
       DeleteAbandoned, DeleteAbandonedFails, DeleteReservation, RecordPurgeError,
       CrashPurger, OnlyPurgers
  <2>9. ASSUME AssignmentChanges \/ Tick \/ UNCHANGED vars PROVE FALSE
    BY <2>9 DEF AssignmentChanges, Tick, vars
  <2> QED
    BY <2>1, <2>2, <2>3, <2>4, <2>5, <2>6, <2>7, <2>8, <2>9
       DEF Next, AdminNext, WorkerNext, Advance
<1> QED
  BY <1>1, Invariance, PTL DEF Spec, LeaseRespected

-----------------------------------------------------------------------------
(* Refinement.                                                             *)

\* An upload's phase depends on its status and on whether it was issued and is
\* still reserved.
LEMMA PhaseFrame ==
    ASSUME NEW u \in Uploads, status'[u] = status[u],
           u \in reservations' <=> u \in reservations, u \in issued' <=> u \in issued
    PROVE  phaseOf(u)' = phaseOf(u)
BY DEF phaseOf

\* A step that moves the phase of one upload from p to q and leaves the storage
\* alone is the lifecycle's Move.
LEMMA PhaseMove ==
    ASSUME NEW u \in Uploads, NEW p, NEW q,
           \A v \in Uploads : v # u => phaseOf(v)' = phaseOf(v),
           phaseOf(u) = p, phaseOf(u)' = q, UNCHANGED objects
    PROVE  Lifecycle!Move(u, p, q)
<1>1. [v \in Uploads |-> phaseOf(v)]' = [[v \in Uploads |-> phaseOf(v)] EXCEPT ![u] = q]
  OBVIOUS
<1> QED
  BY <1>1 DEF Lifecycle!Move

\* The rows, leases and workers implement the evidence lifecycle: stored before
\* it is reported, kept under review, and gone for good once closed or abandoned.
THEOREM Refinement == Spec => ImplementsLifecycle
<1>1. Init => Lifecycle!Init
  BY DEF Init, Lifecycle!Init, phaseOf
<1>2. ASSUME IInv, [Next]_vars PROVE [Lifecycle!Next]_(Lifecycle!lifecycleVars)
  <2> DEFINE Same == \A v \in Uploads : phaseOf(v)' = phaseOf(v)
  <2>0. ASSUME Same, UNCHANGED objects PROVE UNCHANGED Lifecycle!lifecycleVars
    BY <2>0 DEF Lifecycle!lifecycleVars
  <2>s. ASSUME UNCHANGED <<status, reservations, issued>> PROVE Same
    BY <2>s, PhaseFrame
  <2> USE <1>2 DEF IInv, TypeOK, grantVars, ledgerVars, reportVars
  <2>1. ASSUME NEW u \in Uploads, RequestEvidenceUpload(u) PROVE Lifecycle!Next
    <3>1. phaseOf(u) = "free" /\ phaseOf(u)' = "reserved"
      BY <2>1 DEF RequestEvidenceUpload, phaseOf, RowsInv, ReportStatus
    <3>2. \A v \in Uploads : v # u => phaseOf(v)' = phaseOf(v)
      BY <2>1, PhaseFrame DEF RequestEvidenceUpload
    <3>3. UNCHANGED objects
      BY <2>1 DEF RequestEvidenceUpload
    <3> QED
      BY <3>1, <3>2, <3>3, PhaseMove DEF Lifecycle!Next, Lifecycle!Reserve
  <2>2. ASSUME NEW u \in Uploads, PutEvidence(u) PROVE Lifecycle!Next
    <3>a. u \in reservations \/ u \in evidence
      BY <2>2 DEF PutEvidence, RowsInv, ObjectInv, PurgerInv
    <3>b. status[u] \in ReportStatus /\ (u \in reservations => status[u] = "NONE")
          /\ (u \in evidence => status[u] \in {"OPEN", "IN_REVIEW", "CLOSING"})
      BY DEF RowsInv
    <3>1. phaseOf(u) \in {"reserved", "open", "review", "closing"}
      BY <3>a, <3>b DEF phaseOf
    <3>2. Same /\ objects' = objects \cup {u}
      BY <2>2, <2>s DEF PutEvidence
    <3>3. Lifecycle!Store(u)
      BY <3>1, <3>2 DEF Lifecycle!Store
    <3> QED
      BY <3>3 DEF Lifecycle!Next
  <2>3. ASSUME NEW u \in Uploads, ReportCashierStep(u)
        PROVE UNCHANGED Lifecycle!lifecycleVars
    BY <2>3, <2>0, <2>s DEF ReportCashierStep
  <2>4. ASSUME NEW u \in Uploads, ReportCashier(u) PROVE Lifecycle!Next
    <3>a. u \in reservations /\ status[u] = "NONE" /\ status'[u] = "OPEN"
      BY <2>4 DEF ReportCashier, Unpurged, RowsInv
    <3>b. u \in objects
      BY <2>4 DEF ReportCashier, Unpurged, RowsInv, ObjectInv
    <3>1. phaseOf(u) = "reserved" /\ phaseOf(u)' = "open" /\ u \in objects
      BY <3>a, <3>b DEF phaseOf
    <3>2. \A v \in Uploads : v # u => phaseOf(v)' = phaseOf(v)
      BY <2>4, PhaseFrame DEF ReportCashier
    <3>3. UNCHANGED objects
      BY <2>4 DEF ReportCashier
    <3> QED
      BY <3>1, <3>2, <3>3, PhaseMove DEF Lifecycle!Next, Lifecycle!Report
  <2>5. ASSUME NEW a \in Admins, NEW u \in Uploads, BeginReview(a, u)
        PROVE Lifecycle!Next
    <3>1. phaseOf(u) = "open" /\ phaseOf(u)' = "review"
      BY <2>5 DEF BeginReview, Reviewable, phaseOf
    <3>2. \A v \in Uploads : v # u => phaseOf(v)' = phaseOf(v)
      BY <2>5, PhaseFrame DEF BeginReview
    <3>3. UNCHANGED objects
      BY <2>5 DEF BeginReview
    <3> QED
      BY <3>1, <3>2, <3>3, PhaseMove DEF Lifecycle!Next, Lifecycle!Review
  <2>6. ASSUME NEW a \in Admins, NEW u \in Uploads, NEW o \in Outcomes,
               NEW w \in Workers, Close(a, u, o, w)
        PROVE Lifecycle!Next
    <3>1. phaseOf(u) = "review" /\ phaseOf(u)' = "closing"
      BY <2>6 DEF Close, phaseOf
    <3>2. \A v \in Uploads : v # u => phaseOf(v)' = phaseOf(v)
      BY <2>6, PhaseFrame DEF Close
    <3>3. UNCHANGED objects
      BY <2>6 DEF Close
    <3> QED
      BY <3>1, <3>2, <3>3, PhaseMove DEF Lifecycle!Next, Lifecycle!RequestClosure
  <2>7. ASSUME NEW u \in Uploads,
               \/ \E s \in AccountStatus : SetCashierStatus(u, s)
               \/ \E a \in Admins : EvidenceDownload(a, u)
               \/ \E a \in Admins, o \in Outcomes, w \in Workers : CloseAgain(a, u, o, w)
        PROVE UNCHANGED Lifecycle!lifecycleVars
    BY <2>7, <2>0, <2>s DEF SetCashierStatus, EvidenceDownload, CloseAgain
  <2>8. ASSUME NEW w \in Workers, DeleteObject(w) \/ DeleteObjectFails(w)
        PROVE Lifecycle!Next \/ UNCHANGED Lifecycle!lifecycleVars
    <3>u. PICK u \in Uploads : u = worker[w].report
      BY <2>8 DEF DeleteObject, DeleteObjectFails, WorkerInv
    <3>1. u \in Uploads /\ status[u] \in {"CLOSING", "CLOSED"}
      BY <2>8, <3>u DEF DeleteObject, DeleteObjectFails, WorkerInv
    <3>2. Same /\ objects' \in {objects, objects \ {u}}
      BY <2>8, <3>u, <2>s DEF DeleteObject, DeleteObjectFails, OnlyWorkers
    <3>3. CASE status[u] = "CLOSING" /\ objects' = objects \ {u}
      <4>1. phaseOf(u) = "closing"
        BY <3>3 DEF phaseOf
      <4>2. Lifecycle!Remove(u)
        BY <3>1, <3>2, <3>3, <4>1 DEF Lifecycle!Remove
      <4> QED
        BY <3>1, <4>2 DEF Lifecycle!Next
    <3>4. CASE status[u] = "CLOSED" \/ objects' = objects
      <4>1. UNCHANGED objects
        <5>1. status[u] = "CLOSED" => u \notin objects
          BY <3>1 DEF RowsInv, ObjectInv
        <5>2. u \notin objects => objects \ {u} = objects
          OBVIOUS
        <5> QED
          BY <3>2, <3>4, <5>1, <5>2
      <4> QED
        BY <3>2, <4>1, <2>0
    <3> QED
      BY <3>1, <3>2, <3>3, <3>4
  <2>9. ASSUME NEW w \in Workers, Finalize(w)
        PROVE Lifecycle!Next \/ UNCHANGED Lifecycle!lifecycleVars
    <3>u. PICK u \in Uploads : u = worker[w].report
      BY <2>9 DEF Finalize, WorkerInv
    <3>1. CASE Holds(w)
      <4>1. /\ u \in Uploads /\ status[u] = "CLOSING" /\ u \notin objects
            /\ status' = [status EXCEPT ![u] = "CLOSED"]
            /\ UNCHANGED <<objects, reservations, issued>>
        BY <2>9, <3>u, <3>1 DEF Finalize, CanFinalize, Holds, OnlyWorkers, WorkerInv
      <4>2. phaseOf(u) = "closing" /\ phaseOf(u)' = "closed"
        BY <4>1 DEF phaseOf
      <4>3. \A v \in Uploads : v # u => phaseOf(v)' = phaseOf(v)
        BY <4>1, PhaseFrame
      <4>4. Lifecycle!Move(u, "closing", "closed")
        BY <4>1, <4>2, <4>3, PhaseMove
      <4> QED
        BY <4>1, <4>4 DEF Lifecycle!Next, Lifecycle!Closed
    <3>2. CASE ~Holds(w)
      BY <2>9, <3>2, <2>0, <2>s DEF Finalize, LostLease, OnlyWorkers
    <3> QED
      BY <3>1, <3>2
  <2>10. ASSUME NEW w \in Workers,
                \/ \E u \in Uploads : RunBatch(w, u)
                \/ ReadClock(w) \/ Claim(w) \/ Reread(w)
                \/ FinalizeFails(w) \/ ScheduleRetry(w) \/ Crash(w)
         PROVE UNCHANGED Lifecycle!lifecycleVars
    BY <2>10, <2>0, <2>s DEF RunBatch, ReadClock, Claim, Reread, FinalizeFails,
       ScheduleRetry, Crash, OnlyWorkers
  <2>11. ASSUME NEW p \in Purgers, DeleteAbandoned(p) \/ DeleteAbandonedFails(p)
         PROVE Lifecycle!Next \/ UNCHANGED Lifecycle!lifecycleVars
    <3>u. PICK u \in Uploads : u = purger[p].upload
      BY <2>11 DEF DeleteAbandoned, DeleteAbandonedFails, PurgerInv
    <3>1. u \in Uploads /\ u \in issued /\ status[u] = "NONE"
      BY <2>11, <3>u DEF DeleteAbandoned, DeleteAbandonedFails, PurgerInv
    <3>2. Same /\ objects' \in {objects, objects \ {u}}
      BY <2>11, <3>u, <2>s DEF DeleteAbandoned, DeleteAbandonedFails, OnlyPurgers
    <3>3. CASE u \in reservations /\ objects' = objects \ {u}
      <4>1. phaseOf(u) = "reserved"
        BY <3>1, <3>3 DEF phaseOf
      <4>2. Lifecycle!Remove(u)
        BY <3>1, <3>2, <3>3, <4>1 DEF Lifecycle!Remove
      <4> QED
        BY <3>1, <4>2 DEF Lifecycle!Next
    <3>4. CASE u \notin reservations \/ objects' = objects
      <4>1. UNCHANGED objects
        BY <3>1, <3>2, <3>4 DEF RowsInv, ObjectInv
      <4> QED
        BY <3>2, <4>1, <2>0
    <3> QED
      BY <3>2, <3>3, <3>4
  <2>12. ASSUME NEW p \in Purgers, DeleteReservation(p)
         PROVE Lifecycle!Next \/ UNCHANGED Lifecycle!lifecycleVars
    <3>u. PICK u \in Uploads : u = purger[p].upload
      BY <2>12 DEF DeleteReservation, PurgerInv
    <3>1. /\ u \in Uploads /\ u \in issued /\ status[u] = "NONE" /\ u \notin objects
          /\ reservations' = reservations \ {u}
          /\ UNCHANGED <<objects, status, issued>>
      BY <2>12, <3>u DEF DeleteReservation, OnlyPurgers, PurgerInv
    <3>2. CASE u \in reservations
      <4>1. phaseOf(u) = "reserved" /\ phaseOf(u)' = "abandoned"
        BY <3>1, <3>2 DEF phaseOf
      <4>2. \A v \in Uploads : v # u => phaseOf(v)' = phaseOf(v)
        BY <3>1, PhaseFrame
      <4>3. Lifecycle!Move(u, "reserved", "abandoned")
        BY <3>1, <4>1, <4>2, PhaseMove
      <4> QED
        BY <3>1, <4>3 DEF Lifecycle!Next, Lifecycle!Abandon
    <3>3. CASE u \notin reservations
      <4>1. reservations' = reservations
        BY <3>1, <3>3
      <4> QED
        BY <3>1, <4>1, <2>0, <2>s
    <3> QED
      BY <3>2, <3>3
  <2>13. ASSUME NEW p \in Purgers,
                \/ \E u \in Uploads : SelectAbandoned(p, u)
                \/ ClaimAbandoned(p) \/ RecordPurgeError(p) \/ CrashPurger(p)
         PROVE UNCHANGED Lifecycle!lifecycleVars
    BY <2>13, <2>0, <2>s DEF SelectAbandoned, ClaimAbandoned, RecordPurgeError,
       CrashPurger, OnlyPurgers
  <2>14. CASE AssignmentChanges \/ Tick \/ UNCHANGED vars
    BY <2>14, <2>0, <2>s DEF AssignmentChanges, Tick, vars
  <2> QED
    BY <2>1, <2>2, <2>3, <2>4, <2>5, <2>6, <2>7, <2>8, <2>9, <2>10, <2>11, <2>12,
       <2>13, <2>14
       DEF Next, ClientNext, AdminNext, WorkerNext, Advance, PurgerNext, AdvancePurger
<1> QED
  BY <1>1, <1>2, Invariance, PTL DEF Spec, ImplementsLifecycle, Lifecycle!Spec

\* The evidence of an open report is stored and no object is orphaned, for any
\* number of uploads, admins, workers and faults.
THEOREM EvidenceIsSafe == Spec => []EvidenceSafe
<1>1. EvidenceAvailable /\ NoOrphanObject => EvidenceSafe
  BY DEF EvidenceSafe
<1> QED
  BY <1>1, EvidenceStaysAvailable, NoOrphans, PTL

\* The rows of a closure agree at every moment: job, notification, reviewer.
THEOREM ClosureIsSafe == Spec => []ClosureSafe
<1>1. TypeOK /\ ClosureJobLifecycle /\ NotifiedOnce /\ ReviewedBeforeClosed => ClosureSafe
  BY DEF ClosureSafe
<1> QED
  BY <1>1, TypeCorrect, JobLifecycle, ExactlyOnceClosure, ReviewPrecedesClosure, PTL

\* No step takes a report back, and none deletes its object before its time.
THEOREM HistoryIsKept == Spec => HistoryKept
BY HistoryIsMonotone, PurgeWaitsForAuthorization DEF HistoryKept
=============================================================================
