---------------------------- MODULE Assignments ----------------------------
(***************************************************************************)
(* Which cashier serves which client.                                      *)
(*                                                                         *)
(* A client registers through a cashier's invitation and is assigned to    *)
(* it.  Blocks, reports, administrative actions on either account and the  *)
(* expiry of the cashier's subscription end the assignment and open a      *)
(* reassignment request, which the same transaction completes with the     *)
(* least loaded eligible cashier or leaves pending for a worker to retry   *)
(* (assignments.service.ts, admin-users.service.ts, moderation.service.ts, *)
(* auth.service.ts, subscription-expiry.worker.ts).                        *)
(*                                                                         *)
(* Every operation is one serializable transaction, hence one action; only *)
(* registerClient reads before its transaction.  Times are kept as the     *)
(* time that is left, which is all that the code compares.                 *)
(***************************************************************************)
EXTENDS Naturals, FiniteSets

CONSTANTS
    Clients, Cashiers,
    None,
    CASHIER_BLOCK_REVIEW_THRESHOLD,
    ASSIGNMENT_BATCH_SIZE,
    MaxPeriod,      \* longest subscription period with an end
    BACKOFF_BASE, BACKOFF_MAX, BACKOFF_EXPONENT

ASSUME ConstantsAssumption ==
    /\ IsFiniteSet(Clients) /\ IsFiniteSet(Cashiers)
    /\ Clients \cap Cashiers = {} /\ None \notin Clients \cup Cashiers
    /\ CASHIER_BLOCK_REVIEW_THRESHOLD \in Nat \ {0}
    /\ ASSIGNMENT_BATCH_SIZE \in Nat \ {0}
    /\ MaxPeriod \in Nat \ {0}
    /\ BACKOFF_BASE \in Nat \ {0} /\ BACKOFF_MAX \in Nat \ {0}
    /\ BACKOFF_EXPONENT \in Nat
    /\ \A n \in 0 .. BACKOFF_EXPONENT : BACKOFF_BASE * 2 ^ n \in Nat

VARIABLES
    account,        \* status of each client and cashier account
    approved,       \* cashiers with an APPROVED profile
    resetRequired,  \* cashiers with passwordResetRequired
    subscribed,     \* cashiers with a subscription row that says ACTIVE
    periodLeft,     \* time left of that row's period, Unlimited without end
    lookup,         \* whose invitation a registration in flight has found
    active,         \* assignments without end, <<client, cashier>>
    pending,        \* PENDING requests, <<client, excluded cashier>>
    attemptCount, retryIn,  \* their attempts and the back-off left
    blocks,         \* <<client, cashier, initiator>>
    reviews,        \* clients with an open account review
    listed          \* relationships whose last device list change, if any, is
                    \* not LEFT

userVars    == <<account, approved, resetRequired>>
periodVars  == <<subscribed, periodLeft>>
requestVars == <<pending, attemptCount, retryIn>>
placeVars   == <<active, requestVars, listed>>
vars == <<userVars, periodVars, lookup, placeVars, blocks, reviews>>

Unlimited == MaxPeriod + 1
Pairs == Clients \X Cashiers
Status == {"NONE", "PENDING", "ACTIVE", "SUSPENDED", "DELETED"}

Init ==
    /\ account = [u \in Clients \cup Cashiers |-> "NONE"]
    /\ approved = {} /\ resetRequired = {}
    /\ subscribed = {} /\ periodLeft = [c \in Cashiers |-> 0]
    /\ lookup = [k \in Clients |-> None]
    /\ active = {} /\ pending = {}
    /\ attemptCount = [k \in Clients |-> 0] /\ retryIn = [k \in Clients |-> 0]
    /\ blocks = {} /\ reviews = {}
    /\ listed = {}

-----------------------------------------------------------------------------
(* Eligibility and selection.                                              *)

\* The subscription covers the present.
Current(c) == c \in subscribed /\ periodLeft[c] > 0

\* A cashier who may receive clients, and whose conversations are usable. An
\* approved profile is a verified one.
Available(c) ==
    /\ account[c] = "ACTIVE" /\ c \in approved /\ c \notin resetRequired
    /\ Current(c)

Blocked(k, c) == \E who \in {"CLIENT", "CASHIER"} : <<k, c, who>> \in blocks

\* Mutant: an earlier block is forgotten.
EligibleUnblocked(k) == {c \in Cashiers : account[k] = "ACTIVE" /\ Available(c)}

\* The cashiers an active client may be assigned to.
Eligible(k) ==
    {c \in Cashiers : account[k] = "ACTIVE" /\ Available(c) /\ ~Blocked(k, c)}
eligible == [k \in Clients |-> Eligible(k)]

\* Mutant: the previous cashier is a candidate.
CandidatesAnyone(pool, k, x) == pool[k]

\* The candidates for k of the pool of eligible cashiers: not the previous one.
findEligibleCandidates(pool, k, x) == pool[k] \ {x}

Load(rows, c) == Cardinality({k \in Clients : <<k, c>> \in rows})

ServedBy(c) == {k \in Clients : <<k, c>> \in active}

\* Mutant: every client of the batch is compared with the loads before it.
LeastLoadedStale(rows, placed, cands, c) ==
    \A d \in cands : Load(rows, c) <= Load(rows, d)

\* c has the least clients of cands, given the rows and those placed earlier
\* in the transaction.
selectLeastLoadedCashier(rows, placed, cands, c) ==
    \A d \in cands : Load(rows \cup placed, c) <= Load(rows \cup placed, d)

\* How a transaction may place the clients ks, one after another in some order,
\* given the rows that stay: f[k] is the new cashier, None without a candidate.
Placements(ks, x, rows, pool) ==
    {f \in [ks -> Cashiers \cup {None}] :
        \E turn \in [ks -> 1 .. Cardinality(ks)] :
            /\ \A j, k \in ks : turn[j] = turn[k] => j = k
            /\ \A k \in ks :
                 LET cands == findEligibleCandidates(pool, k, x[k])
                     earlier == {j \in ks : turn[j] < turn[k] /\ f[j] # None}
                     placed == {<<j, f[j]>> : j \in earlier}
                 IN  IF cands = {} THEN f[k] = None
                     ELSE /\ f[k] \in cands
                          /\ selectLeastLoadedCashier(rows, placed, cands, f[k])}

\* Back-off of a pending request after n attempts.
Backoff(n) ==
    LET delay == BACKOFF_BASE * 2 ^ (IF n < BACKOFF_EXPONENT THEN n ELSE BACKOFF_EXPONENT)
    IN  IF delay < BACKOFF_MAX THEN delay ELSE BACKOFF_MAX

\* The attempt counter, saturated where the back-off no longer depends on it.
NextAttempt(n) == IF n < BACKOFF_EXPONENT THEN n + 1 ELSE BACKOFF_EXPONENT

-----------------------------------------------------------------------------
(* Reassignment: assignments.service.ts                                    *)

\* Mutants: a completed request stays PENDING; a request without a candidate
\* is not kept.
StillOpenAll(ks, won, x) == {<<k, x[k]>> : k \in ks}
StillOpenNone(ks, won, x) == {}

\* The requests of ks that stay PENDING when the clients won are placed.
StillOpen(ks, won, x) == {<<k, x[k]>> : k \in ks \ won}

\* completePending for each of the clients ks, the last part of every
\* transaction that reassigns. x[k] is the excluded cashier, rows and open the
\* other assignments and requests, told the relationships listed so far. The
\* accounts, subscriptions and blocks are those the transaction has written.
CompletePending(ks, x, rows, open, told) ==
    \E f \in Placements(ks, x, rows, eligible') :
        LET won   == {k \in ks : f[k] # None}
            tried == {k \in ks \ won : account'[k] = "ACTIVE"}
            made  == {<<k, f[k]>> : k \in won}
            count(k) == IF k \in tried
                        THEN NextAttempt(IF <<k, x[k]>> \in pending THEN attemptCount[k] ELSE 0)
                        ELSE IF k \in ks THEN 0 ELSE attemptCount[k]
        IN  /\ active' = rows \cup made
            /\ pending' = open \cup StillOpen(ks, won, x)
            /\ attemptCount' = [k \in Clients |-> count(k)]
            /\ retryIn' = [k \in Clients |->
                              IF k \in tried THEN Backoff(count(k))
                              ELSE IF k \in ks THEN 0 ELSE retryIn[k]]
            /\ listed' = told \cup made

\* beginReassignment for each of the clients ks of the cashier c.
BeginReassignment(ks, c) ==
    LET ended == ks \X {c}
    IN  CompletePending(ks, [k \in ks |-> c], active \ ended, pending,
                        listed \ ended)

Excluded(k) == CHOOSE c \in Cashiers : <<k, c>> \in pending
RequestsOf(ks) == {p \in pending : p[1] \in ks}

\* completePending for the pending requests of the clients ks.
RetryPending(ks, told) ==
    CompletePending(ks, [k \in ks |-> Excluded(k)], active,
                    pending \ RequestsOf(ks), told)

\* retryPendingInTransaction: the requests of the active accounts.
Waiting == {k \in Clients : account[k] = "ACTIVE" /\ RequestsOf({k}) # {}}

\* The deferred trigger on reassignment_requests: the reason of a request must
\* match the reason its assignment ended for.
RequestAccepted(reason, endReason) ==
    CASE reason = "CASHIER_UNAVAILABLE" -> endReason \in {"CASHIER_UNAVAILABLE", "CASHIER_SUSPENDED"}
      [] OTHER -> reason = endReason

\* An admin moves a client; a pending request is retried instead.
ReassignAdministrative(k) ==
    /\ account[k] = "ACTIVE"
    /\ UNCHANGED <<userVars, periodVars, lookup, blocks, reviews>>
    /\ IF k \in Waiting THEN RetryPending({k}, listed)
       ELSE \E c \in Cashiers :
               <<k, c>> \in active /\ BeginReassignment({k}, c)

\* Mutant: a turn that finds no assignment ends early.
DrainedSome(c, ks) == ks # {} /\ ks = ServedBy(c)

\* No client is left with c once ks are moved.
Drained(c, ks) == ks = ServedBy(c)

\* One turn of the expiry worker: a batch of the clients of an expired
\* subscription is reassigned, and the row becomes EXPIRED once none is left.
ReconcileNextExpiredSubscription(c) ==
    \E ks \in SUBSET ServedBy(c) :
        /\ c \in subscribed /\ periodLeft[c] = 0
        /\ Cardinality(ks) <= ASSIGNMENT_BATCH_SIZE
        /\ ks = ServedBy(c) \/ Cardinality(ks) = ASSIGNMENT_BATCH_SIZE
        /\ subscribed' = IF Drained(c, ks) THEN subscribed \ {c} ELSE subscribed
        /\ UNCHANGED <<userVars, periodLeft, lookup, blocks, reviews>>
        /\ BeginReassignment(ks, c)

\* Mutant: only the requests never attempted are selected.
DueRequestsOnce == {k \in Waiting : attemptCount[k] = 0}

DueRequests == {k \in Waiting : retryIn[k] = 0}

\* The worker retries the requests whose back-off is over.
ReconcilePendingReassignments ==
    /\ DueRequests # {}
    /\ UNCHANGED <<userVars, periodVars, lookup, blocks, reviews>>
    /\ RetryPending(DueRequests, listed)

-----------------------------------------------------------------------------
(* Registration and invitations: auth.service.ts, cashier-invitations      *)

\* registerCashier: the account waits for approval.
RegisterCashier(c) ==
    /\ account[c] = "NONE"
    /\ account' = [account EXCEPT ![c] = "PENDING"]
    /\ UNCHANGED <<approved, resetRequired, periodVars, lookup, placeVars, blocks, reviews>>

\* registerClient finds the cashier's current invitation, ...
LookUpInvitation(k, c) ==
    /\ account[k] = "NONE" /\ lookup[k] = None /\ Available(c)
    /\ lookup' = [lookup EXCEPT ![k] = c]
    /\ UNCHANGED <<userVars, periodVars, placeVars, blocks, reviews>>

Revoke(c) == [k \in Clients |-> IF lookup[k] = c THEN None ELSE lookup[k]]

\* ... which a rotation revokes: those who have found it will fail ...
Rotate(c) ==
    /\ Available(c)
    /\ lookup' = Revoke(c)
    /\ UNCHANGED <<userVars, periodVars, placeVars, blocks, reviews>>

\* Mutant: the eligibility read before the transaction is trusted.
OriginUnchecked(c) == TRUE

\* What the deferred trigger on assignments demands at the commit.
OriginValid(c) == Available(c)

\* ... and the transaction commits, or fails on the trigger. No device list
\* change concerns the new relationship yet.
RegisterClient(k) ==
    LET c == lookup[k]
    IN  /\ c # None
        /\ lookup' = [lookup EXCEPT ![k] = None]
        /\ \/ /\ OriginValid(c)
              /\ account' = [account EXCEPT ![k] = "ACTIVE"]
              /\ active' = active \cup {<<k, c>>}
              /\ listed' = listed \cup {<<k, c>>}
           \/ ~OriginValid(c) /\ UNCHANGED <<account, active, listed>>
        /\ UNCHANGED <<approved, resetRequired, periodVars, requestVars, blocks, reviews>>

-----------------------------------------------------------------------------
(* Moderation: moderation.service.ts                                       *)

\* Mutant: the account review ends the assignment and leaves a request.
ReviewClientPending(k, c) ==
    /\ account' = [account EXCEPT ![k] = "SUSPENDED"]
    /\ reviews' = reviews \cup {k}
    /\ active' = active \ {<<k, c>>}
    /\ pending' = pending \cup {<<k, c>>}
    /\ listed' = listed \ {<<k, c>>}
    /\ UNCHANGED <<attemptCount, retryIn>>

\* Enough distinct cashiers have blocked the client: the account is suspended
\* for review, and nobody else is assigned.
ReviewClient(k, c) ==
    /\ account' = [account EXCEPT ![k] = "SUSPENDED"]
    /\ reviews' = reviews \cup {k}
    /\ active' = active \ {<<k, c>>}
    /\ listed' = listed \ {<<k, c>>}
    /\ UNCHANGED requestVars

CashierBlocks(k) == {c \in Cashiers : <<k, c, "CASHIER">> \in blocks}

BlockClient(k, c) ==
    /\ <<k, c>> \in active /\ Available(c) /\ account[k] = "ACTIVE"
    /\ blocks' = blocks \cup {<<k, c, "CASHIER">>}
    /\ UNCHANGED <<approved, resetRequired, periodVars, lookup>>
    /\ IF Cardinality(CashierBlocks(k) \cup {c}) >= CASHIER_BLOCK_REVIEW_THRESHOLD
       THEN ReviewClient(k, c)
       ELSE UNCHANGED <<account, reviews>> /\ BeginReassignment({k}, c)

\* The part of reportCashier about the relationship; the evidence and the
\* report itself are in ReportClosure. The cashier need not be available.
ReportCashier(k, c) ==
    /\ <<k, c>> \in active /\ account[k] = "ACTIVE"
    /\ blocks' = blocks \cup {<<k, c, "CLIENT">>}
    /\ UNCHANGED <<userVars, periodVars, lookup, reviews>>
    /\ BeginReassignment({k}, c)

-----------------------------------------------------------------------------
(* Administration: admin-users.service.ts                                  *)

RelationshipsOf(u) == {p \in active : u \in {p[1], p[2]}}

ApproveCashier(c) ==
    /\ account[c] = "PENDING" /\ c \notin approved
    /\ account' = [account EXCEPT ![c] = "ACTIVE"]
    /\ approved' = approved \cup {c}
    /\ UNCHANGED <<resetRequired, periodVars, lookup, blocks, reviews>>
    /\ RetryPending(Waiting, listed)

SuspendClient(k) ==
    /\ account[k] = "ACTIVE"
    /\ account' = [account EXCEPT ![k] = "SUSPENDED"]
    /\ listed' = listed \ RelationshipsOf(k)
    /\ UNCHANGED <<approved, resetRequired, periodVars, lookup, active,
                   requestVars, blocks, reviews>>

\* The row leaves the ACTIVE state, and the period no longer matters.
Unsubscribe(c) ==
    /\ subscribed' = subscribed \ {c}
    /\ periodLeft' = [periodLeft EXCEPT ![c] = 0]

\* reassignCashierClientsInTransaction
MoveClients(c) == BeginReassignment(ServedBy(c), c)

SuspendCashier(c) ==
    /\ account[c] \in {"PENDING", "ACTIVE"}
    /\ account' = [account EXCEPT ![c] = "SUSPENDED"]
    /\ UNCHANGED <<approved, resetRequired, periodVars, lookup, blocks,
                   reviews>>
    /\ MoveClients(c)

\* Mutant: the devices of a reactivated client are not listed.
ChangedUnpublished(u) == listed

Changed(u) == listed \cup RelationshipsOf(u)

ReactivateClient(k) ==
    /\ account[k] = "SUSPENDED"
    /\ account' = [account EXCEPT ![k] = "ACTIVE"]
    /\ UNCHANGED <<approved, resetRequired, periodVars, lookup, blocks,
                   reviews>>
    /\ RetryPending({j \in {k} : RequestsOf({j}) # {}}, Changed(k))

ReactivateCashier(c) ==
    /\ account[c] = "SUSPENDED"
    /\ account' = [account EXCEPT ![c] = IF c \in approved THEN "ACTIVE" ELSE "PENDING"]
    /\ UNCHANGED <<approved, resetRequired, periodVars, lookup, blocks,
                   reviews>>
    /\ RetryPending(IF c \in approved THEN Waiting ELSE {}, listed)

\* endClientRelationshipsForDeletionInTransaction
DeleteClient(k) ==
    /\ account[k] \in {"ACTIVE", "SUSPENDED"}
    /\ account' = [account EXCEPT ![k] = "DELETED"]
    /\ active' = active \ RelationshipsOf(k)
    /\ pending' = pending \ RequestsOf({k})
    /\ attemptCount' = [attemptCount EXCEPT ![k] = 0]
    /\ retryIn' = [retryIn EXCEPT ![k] = 0]
    /\ listed' = listed \ RelationshipsOf(k)
    /\ UNCHANGED <<approved, resetRequired, periodVars, lookup, blocks, reviews>>

\* The assignments end with ACCOUNT_DELETED and the requests say
\* CASHIER_UNAVAILABLE, which the trigger judges at the commit.
DeletionCommits(c) ==
    ServedBy(c) # {} => RequestAccepted("CASHIER_UNAVAILABLE", "ACCOUNT_DELETED")

DeleteCashier(c) ==
    /\ account[c] \notin {"NONE", "DELETED"} /\ DeletionCommits(c)
    /\ account' = [account EXCEPT ![c] = "DELETED"]
    /\ approved' = approved \ {c}
    /\ Unsubscribe(c)
    /\ lookup' = Revoke(c)
    /\ UNCHANGED <<resetRequired, blocks, reviews>>
    /\ MoveClients(c)

\* The cashier keeps the clients, who cannot be served until the reset is done.
ResetPassword(c) ==
    /\ account[c] \notin {"NONE", "DELETED"}
    /\ resetRequired' = resetRequired \cup {c}
    /\ listed' = listed \ RelationshipsOf(c)
    /\ UNCHANGED <<account, approved, periodVars, lookup, active, requestVars,
                   blocks, reviews>>

\* The request may also run out, which leaves the reset to another one.
CompleteAdminReset(c) ==
    /\ c \in resetRequired /\ account[c] # "DELETED"
    /\ resetRequired' = resetRequired \ {c}
    /\ listed' = Changed(c)
    /\ UNCHANGED <<account, approved, periodVars, lookup, active, requestVars,
                   blocks, reviews>>

\* A period that expired but still says ACTIVE must first be reconciled.
ActivateSubscription(c, d) ==
    /\ account[c] \notin {"NONE", "DELETED"} /\ c \notin subscribed
    /\ subscribed' = subscribed \cup {c}
    /\ periodLeft' = [periodLeft EXCEPT ![c] = d]
    /\ UNCHANGED <<userVars, lookup, blocks, reviews>>
    /\ RetryPending(Waiting, listed)

DeactivateSubscription(c) ==
    /\ account[c] # "DELETED" /\ c \in subscribed
    /\ Unsubscribe(c)
    /\ UNCHANGED <<userVars, lookup, blocks, reviews>>
    /\ MoveClients(c)

-----------------------------------------------------------------------------
Less(n) == IF n = 0 THEN 0 ELSE n - 1

Tick ==
    /\ periodLeft' = [c \in Cashiers |->
                         IF periodLeft[c] = Unlimited THEN Unlimited ELSE Less(periodLeft[c])]
    /\ retryIn' = [k \in Clients |-> Less(retryIn[k])]
    /\ UNCHANGED <<account, approved, resetRequired, subscribed, lookup, active,
                   pending, attemptCount, listed, blocks, reviews>>

ClientNext == \E k \in Clients :
    \/ ReassignAdministrative(k) \/ RegisterClient(k)
    \/ SuspendClient(k) \/ ReactivateClient(k) \/ DeleteClient(k)
    \/ \E c \in Cashiers : LookUpInvitation(k, c) \/ BlockClient(k, c) \/ ReportCashier(k, c)

CashierNext == \E c \in Cashiers :
    \/ RegisterCashier(c) \/ Rotate(c) \/ ApproveCashier(c)
    \/ SuspendCashier(c) \/ ReactivateCashier(c) \/ DeleteCashier(c)
    \/ ResetPassword(c) \/ CompleteAdminReset(c)
    \/ \E d \in 1 .. Unlimited : ActivateSubscription(c, d)
    \/ DeactivateSubscription(c)

WorkerNext ==
    \/ \E c \in Cashiers : ReconcileNextExpiredSubscription(c)
    \/ ReconcilePendingReassignments

Next == ClientNext \/ CashierNext \/ WorkerNext \/ Tick

Spec == Init /\ [][Next]_vars

-----------------------------------------------------------------------------
(* Properties.                                                             *)

\* Type invariant of the accounts, subscriptions, assignments and requests.
TypeOK ==
    /\ account \in [Clients \cup Cashiers -> Status]
    /\ approved \in SUBSET Cashiers /\ resetRequired \in SUBSET Cashiers
    /\ subscribed \in SUBSET Cashiers
    /\ periodLeft \in [Cashiers -> 0 .. Unlimited]
    /\ lookup \in [Clients -> Cashiers \cup {None}]
    /\ active \in SUBSET Pairs /\ pending \in SUBSET Pairs
    /\ attemptCount \in [Clients -> 0 .. BACKOFF_EXPONENT]
    /\ retryIn \in [Clients -> 0 .. BACKOFF_MAX]
    /\ blocks \in SUBSET (Clients \X Cashiers \X {"CLIENT", "CASHIER"})
    /\ reviews \in SUBSET Clients
    /\ listed \in SUBSET Pairs

\* A client has one relationship: one assignment or one pending request, never
\* both. (Partial unique indexes and a trigger would abort the transaction.)
OneRelationship ==
    \A k \in Clients, c, d \in Cashiers :
        <<k, c>> \in active \cup pending /\ <<k, d>> \in active \cup pending =>
            c = d /\ ~(<<k, c>> \in active /\ <<k, c>> \in pending)

\* Whatever makes a cashier unavailable for good moves the clients in the same
\* transaction: nobody stays with a suspended, deleted or unsubscribed cashier.
NobodyLeftBehind ==
    \A k \in Clients, c \in Cashiers : <<k, c>> \in active =>
        /\ account[k] \in {"ACTIVE", "SUSPENDED"}
        /\ account[c] = "ACTIVE" /\ c \in approved /\ c \in subscribed

Served(k) == \E c \in Cashiers : <<k, c>> \in active \cup pending

\* No client is lost between two cashiers: an active account has an assignment
\* or a request, unless it was suspended for review.
ClientNotLost ==
    \A k \in Clients : account[k] = "ACTIVE" => Served(k) \/ k \in reviews

\* A client blocked by enough distinct cashiers is under review and is never
\* assigned again, neither by a request left over nor after a reactivation.
ReviewEndsService ==
    \A k \in Clients :
        Cardinality(CashierBlocks(k)) >= CASHIER_BLOCK_REVIEW_THRESHOLD =>
            k \in reviews /\ ~Served(k)

\* One relationship at most, never with a cashier who is gone, and none after a
\* review, in every order of the operations that end and begin one.
RelationshipsSafe == OneRelationship /\ NobodyLeftBehind /\ ReviewEndsService

\* Device lists follow the relationship through suspensions, resets and
\* reassignments in any order: only a current one is announced, and one that
\* can be used is not left announced as LEFT.
ListedWhenUsable ==
    /\ listed \subseteq active
    /\ \A k \in Clients, c \in Cashiers :
         /\ <<k, c>> \in active
         /\ account[k] = "ACTIVE" /\ account[c] = "ACTIVE" /\ c \notin resetRequired
         => <<k, c>> \in listed

\* A new assignment is with a cashier who is available, was never party to a
\* block with the client and is not the one the client comes from.
FreshCashier ==
    [][\A k \in Clients, c \in Cashiers : <<k, c>> \in active' \ active =>
          /\ Available(c)' /\ ~Blocked(k, c)'
          /\ \A d \in Cashiers : <<k, d>> \in active \cup pending => d # c]_vars

\* A transaction that places several clients counts the ones it has placed:
\* the last client given to c had no candidate with fewer clients.
PlacedEvenly ==
    \A c \in Cashiers :
        LET new == {k \in Clients : account[k] # "NONE" /\ <<k, c>> \in active' \ active}
        IN  new # {} => \E k \in new : \A d \in eligible'[k] :
               \/ <<k, d>> \in active \cup pending
               \/ Load(active', c) <= Load(active', d) + 1

\* An expired subscription is reconciled and its clients move on.
ExpiredReleased ==
    \A c \in Cashiers : []<>~(c \in subscribed /\ periodLeft[c] = 0)

\* A pending client does not wait for ever while somebody could serve it.
PendingPlaced ==
    \A k \in Clients : []<>~(k \in Waiting /\ eligible[k] \ {Excluded(k)} # {})

\* What PRODUCT_SPEC says of a client: one cashier, or a pending reassignment
\* that is retried; after five blocks, once the admin has resolved the case.
ActiveClientServed ==
    \A k \in Clients : account[k] = "ACTIVE" => Served(k)

\* What ADMIN_USER_MANAGEMENT says of the deletion of a cashier: the clients
\* are reassigned and the account is deleted.
CashierDeletionCommits ==
    \A c \in Cashiers : account[c] \notin {"NONE", "DELETED"} => DeletionCommits(c)
=============================================================================
