----------------------------- MODULE Onboarding -----------------------------
(***************************************************************************)
(* Terms and onboarding: publication of the terms (cli/publish-terms.ts)   *)
(* against registrations that accept them (auth/auth.service.ts) and the   *)
(* invitations by which cashiers come in (admin/admin-invitations).        *)
(*                                                                         *)
(* Publications and registrations are serializable transactions that begin *)
(* with one advisory lock.  The statement that asks for the lock already   *)
(* fixes the snapshot, so a transaction that had to wait works with what   *)
(* was committed before it waited.  A transaction whose reads and writes   *)
(* cross those of one that committed meanwhile is refused when it commits  *)
(* (P2034) and tried again from the start, three times at most.            *)
(***************************************************************************)
EXTENDS Naturals, FiniteSets

CONSTANTS
    Versions,              \* documents: a version and its only content
    Publishers,            \* operators who run the publication command
    Cashiers, Clients,     \* people who register
    Invitations,           \* onboarding invitations for cashiers
    MaxTime,               \* bound: instants 0..MaxTime
    InvitationTTL,         \* how long an invitation is good for
    MaxAttempts,           \* of a transaction: 3 in the code
    NoOne                  \* nobody, no version, no invitation

OnboardingAssumption ==
    /\ MaxTime \in Nat /\ InvitationTTL \in Nat /\ MaxAttempts \in Nat \ {0}
    /\ NoOne \notin Versions \cup Publishers \cup Cashiers \cup Clients \cup Invitations
    /\ Publishers \cap (Cashiers \cup Clients) = {} /\ Cashiers \cap Clients = {}

VARIABLES
    now,
    docs,       \* the window of each document, [from, to)
    accepted,   \* acceptances: who, which document, when, what they had read
    inv,        \* invitations
    tx,         \* the call that each process has under way
    lock        \* who holds the lock of the terms' life cycle

vars == <<now, docs, accepted, inv, tx, lock>>

Registrants == Cashiers \cup Clients
Procs == Publishers \cup Registrants

\* A date that never comes: of a document that is not retired, or not published.
Never == MaxTime + 2
Dates == 0..MaxTime + 1
Unpublished == [from |-> Never, to |-> Never]

Idle == [step |-> "idle", tries |-> 0, doc |-> NoOne, at |-> 0, code |-> NoOne, seen |-> <<>>]
Snapshot == [docs |-> docs, accepted |-> accepted, inv |-> inv]

Steps == {"idle", "read", "begin", "waiting", "locked", "accepted", "written"}

\* Every variable has its type, whatever the order of the steps.
TypeOK ==
    /\ now \in 0..MaxTime
    /\ \A v \in Versions :
          docs[v] # Unpublished => docs[v].from \in Dates /\ docs[v].to \in docs[v].from + 1..Never
    /\ \A a \in accepted : a.who \in Registrants /\ a.doc \in Versions /\ a.at \in 0..now
    /\ \A i \in Invitations : inv[i].state \in {"none", "open", "revoked", "redeemed"}
                              /\ (inv[i].state = "redeemed" <=> inv[i].by \in Cashiers)
    /\ \A p \in Procs : tx[p].step \in Steps /\ tx[p].tries \in 0..MaxAttempts - 1
                        /\ (lock = p <=> tx[p].step \in {"locked", "accepted", "written"})

Init ==
    /\ now = 0
    /\ docs = [v \in Versions |-> Unpublished]
    /\ accepted = {}
    /\ inv = [i \in Invitations |-> [state |-> "none", expires |-> 0, by |-> NoOne]]
    /\ tx = [p \in Procs |-> Idle]
    /\ lock = NoOne

-----------------------------------------------------------------------------
(* Documents *)

InForce(ds, v, t) == ds[v].from <= t /\ t < ds[v].to
AllInForce(ds, t) == {v \in Versions : InForce(ds, v, t)}
\* Of those in force the last to take effect.
CurrentTerms(ds, t) ==
    {v \in AllInForce(ds, t) : \A w \in AllInForce(ds, t) : ds[w].from <= ds[v].from}
Published(ds) == {v \in Versions : ds[v].from # Never}
Open(ds) == {v \in Published(ds) : ds[v].to = Never}
Latest(ds) == {v \in Published(ds) : \A w \in Published(ds) : ds[w].from <= ds[v].from}

-----------------------------------------------------------------------------
(* Transactions *)

Step(p, s) == tx' = [tx EXCEPT ![p].step = s]

\* Mutant: a lock of the session, which the end of the transaction keeps.
UnlockedNever(p) == lock

\* The lock is the transaction's.
Unlocked(p) == IF lock = p THEN NoOne ELSE lock

\* The call is over: with an answer, with an error or with the process.
End(p) ==
    /\ tx' = [tx EXCEPT ![p] = Idle]
    /\ lock' = Unlocked(p)

\* Mutant: an attempt too many.
LastAttemptLate(n) == n > MaxAttempts

\* The attempt number n was the last one.
LastAttempt(n) == n = MaxAttempts

\* The transaction is refused by P2034: again, unless it was the last attempt.
Retry(p) ==
    /\ tx' = [tx EXCEPT ![p] =
          IF LastAttempt(tx[p].tries + 1)
          THEN Idle
          ELSE [tx[p] EXCEPT !.step = "begin", !.tries = tx[p].tries + 1, !.seen = <<>>,
                             !.at = IF p \in Publishers THEN tx[p].at ELSE 0]]
    /\ lock' = Unlocked(p)

\* The first statement fixes the snapshot and then asks for the lock.
Begin(p) ==
    /\ tx[p].step = "begin"
    /\ tx' = [tx EXCEPT ![p].step = "waiting", ![p].seen = Snapshot]
    /\ UNCHANGED <<now, docs, accepted, inv, lock>>

LockTermsLifecycle(p) ==
    /\ tx[p].step = "waiting" /\ lock = NoOne
    /\ Step(p, "locked")
    /\ lock' = p
    /\ UNCHANGED <<now, docs, accepted, inv>>

\* A time-out, a unique violation, a lost connection or a crash.
Fail(p) ==
    /\ tx[p].step # "idle"
    /\ End(p)
    /\ UNCHANGED <<now, docs, accepted, inv>>

\* PostgreSQL refuses a transaction that crosses another one; it may also
\* refuse one of two that only overlap.
Overlaps(p) == tx[p].seen # Snapshot

-----------------------------------------------------------------------------
(* Publication *)

\* publishTerms, up to its transaction: the operator gives a version and a date,
\* past or to come.
PublishTerms(p) ==
    /\ tx[p].step = "idle"
    /\ \E v \in Versions, d \in Dates :
          tx' = [tx EXCEPT ![p] = [Idle EXCEPT !.step = "begin", !.doc = v, !.at = d]]
    /\ UNCHANGED <<now, docs, accepted, inv, lock>>

\* sinochat_protect_terms_acceptances_on_document_change, for the document that
\* the publication retires on the date d.
KeepsAcceptances(s, d) ==
    \A a \in s.accepted : a.doc \in Open(s.docs) => a.at < d

\* The checks of the transaction, as its snapshot has the documents.
MayPublish(s, v, d) ==
    /\ v \notin Published(s.docs)
    /\ Cardinality(Open(s.docs)) <= 1
    /\ Cardinality(AllInForce(s.docs, d)) <= 1
    /\ \A w \in Published(s.docs) : d > s.docs[w].from
    /\ Open(s.docs) # {} => Open(s.docs) = Latest(s.docs)
    /\ \A w \in Latest(s.docs) : s.docs[w].to = Never \/ s.docs[w].to <= d

\* A version that is there already is only compared; the rest are errors.
DecidePublication(p) ==
    /\ tx[p].step = "locked"
    /\ LET s == tx[p].seen
           d == tx[p].at
       IN IF MayPublish(s, tx[p].doc, d) /\ KeepsAcceptances(s, d)
          THEN Step(p, "written") /\ UNCHANGED lock
          ELSE End(p)
    /\ UNCHANGED <<now, docs, accepted, inv>>

\* Mutant: snapshots without the check for crossing transactions.
PublicationCrossesNever(p) == FALSE

\* Another publication committed, or an acceptance of the document to retire.
PublicationCrosses(p) ==
    LET s == tx[p].seen
    IN \/ s.docs # docs
       \/ \E a \in accepted \ s.accepted : a.doc \in Open(s.docs)

CommitPublication(p) ==
    /\ tx[p].step = "written" /\ ~PublicationCrosses(p)
    /\ docs' = [v \in Versions |->
          CASE v = tx[p].doc -> [from |-> tx[p].at, to |-> Never]
            [] v \in Open(tx[p].seen.docs) -> [docs[v] EXCEPT !.to = tx[p].at]
            [] OTHER -> docs[v]]
    /\ End(p)
    /\ UNCHANGED <<now, accepted, inv>>

RefusePublication(p) ==
    /\ tx[p].step = "written" /\ Overlaps(p)
    /\ Retry(p)
    /\ UNCHANGED <<now, docs, accepted, inv>>

-----------------------------------------------------------------------------
(* Registration *)

Registered(r) == \E a \in accepted : a.who = r

\* currentTerms, shown by the form, which sends back what it showed.
ReadTerms(r) ==
    /\ tx[r].step = "idle" /\ ~Registered(r)
    /\ \E v \in CurrentTerms(docs, now) :
          tx' = [tx EXCEPT ![r] = [Idle EXCEPT !.step = "read", !.doc = v]]
    /\ UNCHANGED <<now, docs, accepted, inv, lock>>

Usable(row, t) == row.state = "open" /\ row.expires > t

\* registerCashier, before its transaction: the invitation is good and the
\* version that was read exists.  The password is hashed after this.
RegisterCashier(r) ==
    /\ tx[r].step = "read" /\ r \in Cashiers
    /\ tx[r].doc \in Published(docs)
    /\ \E i \in Invitations :
          /\ Usable(inv[i], now)
          /\ tx' = [tx EXCEPT ![r].step = "begin", ![r].code = i]
    /\ UNCHANGED <<now, docs, accepted, inv, lock>>

\* registerClient, before its transaction.  The invitation of a cashier, and
\* what becomes of the relationship, are in Assignments.
RegisterClient(r) ==
    /\ tx[r].step = "read" /\ r \in Clients
    /\ tx[r].doc \in Published(docs)
    /\ Step(r, "begin")
    /\ UNCHANGED <<now, docs, accepted, inv, lock>>

\* Mutant: the document in force is accepted, whichever was read.
SameTermsAlways(v, read) == TRUE

\* assertAcceptedTerms
SameTerms(v, read) == v = read

\* currentTermsInTransaction and assertAcceptedTerms: the clock is read under
\* the lock, the documents from the snapshot.  A document that is not in force
\* or not the one that was read ends the call.
AcceptTerms(r) ==
    /\ tx[r].step = "locked"
    /\ \/ \E v \in CurrentTerms(tx[r].seen.docs, now) :
             /\ SameTerms(v, tx[r].doc)
             /\ tx' = [tx EXCEPT ![r].at = now,
                                 ![r].step = IF r \in Cashiers THEN "accepted" ELSE "written"]
             /\ UNCHANGED lock
       \/ /\ \A v \in CurrentTerms(tx[r].seen.docs, now) : ~SameTerms(v, tx[r].doc)
          /\ End(r)
    /\ UNCHANGED <<now, docs, accepted, inv>>

\* Mutant: the row is taken as it is now, redeemed or not.
RedeemableAny(i, s) == Usable(s.inv[i], now)

\* The UPDATE of the invitation finds its row unchanged since the snapshot and
\* still good by the clock.
Redeemable(i, s) == Usable(s.inv[i], now) /\ inv[i] = s.inv[i]

\* The UPDATE meets a row that is no longer good in the snapshot (an error), or
\* one that changed after it (P2034).
RedeemInvitation(r) ==
    /\ tx[r].step = "accepted"
    /\ LET s == tx[r].seen
           i == tx[r].code
       IN \/ Redeemable(i, s) /\ Step(r, "written") /\ UNCHANGED lock
          \/ ~Usable(s.inv[i], now) /\ End(r)
          \/ Usable(s.inv[i], now) /\ inv[i] # s.inv[i] /\ Retry(r)
    /\ UNCHANGED <<now, docs, accepted, inv>>

\* Mutant: snapshots without the check for crossing transactions.
RegistrationCrossesNever(r) == FALSE

\* A publication retired the document meanwhile: it read the acceptances that
\* this transaction adds to, and changed the row that this transaction read.
RegistrationCrosses(r) == tx[r].seen.docs[tx[r].doc] # docs[tx[r].doc]

CommitRegistration(r) ==
    /\ tx[r].step = "written" /\ ~RegistrationCrosses(r)
    /\ \E v \in CurrentTerms(tx[r].seen.docs, tx[r].at) :
          accepted' = accepted \cup {[who |-> r, doc |-> v, at |-> tx[r].at, read |-> tx[r].doc]}
    /\ inv' = IF r \in Cashiers
              THEN [inv EXCEPT ![tx[r].code].state = "redeemed", ![tx[r].code].by = r]
              ELSE inv
    /\ End(r)
    /\ UNCHANGED <<now, docs>>

RefuseRegistration(r) ==
    /\ tx[r].step = "written" /\ Overlaps(r)
    /\ Retry(r)
    /\ UNCHANGED <<now, docs, accepted, inv>>

-----------------------------------------------------------------------------
(* Invitations *)

CreateCashierInvitation(i) ==
    /\ inv[i].state = "none"
    /\ inv' = [inv EXCEPT ![i] = [state |-> "open", expires |-> now + InvitationTTL, by |-> NoOne]]
    /\ UNCHANGED <<now, docs, accepted, tx, lock>>

\* A registration that has updated the row keeps it locked until it ends.
RowLocked(i) == \E r \in Cashiers : tx[r].step = "written" /\ tx[r].code = i

\* Neither redeemed nor revoked, as the row is once its lock is free.
Revocable(i) == inv[i].state = "open" /\ ~RowLocked(i)

\* Expired invitations can be revoked as well.
RevokeCashierInvitation(i) ==
    /\ Revocable(i)
    /\ inv' = [inv EXCEPT ![i].state = "revoked"]
    /\ UNCHANGED <<now, docs, accepted, tx, lock>>

Tick ==
    /\ now < MaxTime
    /\ now' = now + 1
    /\ UNCHANGED <<docs, accepted, inv, tx, lock>>

-----------------------------------------------------------------------------

Proceed(p) == Begin(p) \/ LockTermsLifecycle(p) \/ Fail(p)

\* What the server does by itself once a transaction holds its lock.
EndsPublication(p) == DecidePublication(p) \/ CommitPublication(p) \/ RefusePublication(p)
EndsRegistration(r) ==
    AcceptTerms(r) \/ RedeemInvitation(r) \/ CommitRegistration(r) \/ RefuseRegistration(r)

Publication(p) == PublishTerms(p) \/ EndsPublication(p)
Registration(r) == ReadTerms(r) \/ RegisterCashier(r) \/ RegisterClient(r) \/ EndsRegistration(r)

Next ==
    \/ \E p \in Procs : Proceed(p)
    \/ \E p \in Publishers : Publication(p)
    \/ \E r \in Registrants : Registration(r)
    \/ \E i \in Invitations : CreateCashierInvitation(i) \/ RevokeCashierInvitation(i)
    \/ Tick

Spec == Init /\ [][Next]_vars

-----------------------------------------------------------------------------
(* Properties *)

\* Every acceptance lies in the window of its document, also when a publication
\* that was waiting for the lock retires that document on a date of the past.
AcceptancesInForce == \A a \in accepted : InForce(docs, a.doc, a.at)

\* Windows of published documents do not overlap: at no instant are two
\* versions in force, whichever publications raced.
OneInForce ==
    \A v, w \in Published(docs) :
        v # w => docs[v].to <= docs[w].from \/ docs[w].to <= docs[v].from

\* What a registration accepted is the document that its form showed, although
\* time passes and documents change between the form and the transaction.
AcceptedWasRead == \A a \in accepted : a.doc = a.read

\* A cashier is registered exactly if one invitation names it as redeemed: none
\* admits two, and none that admitted somebody is revoked afterwards.
InvitationAdmitsOne ==
    \A r \in Cashiers :
        Cardinality({i \in Invitations : inv[i].state = "redeemed" /\ inv[i].by = r})
            = IF Registered(r) THEN 1 ELSE 0

\* Whoever waits for the lock of the life cycle gets it or gives up: no way out
\* of a transaction keeps it.
WaitersServed == \A p \in Procs : tx[p].step = "waiting" ~> tx[p].step # "waiting"

\* What every reachable state satisfies, whatever publications, registrations and
\* revocations race.
OnboardingSafe ==
    TypeOK /\ AcceptancesInForce /\ OneInForce /\ AcceptedWasRead /\ InvitationAdmitsOne
=============================================================================
