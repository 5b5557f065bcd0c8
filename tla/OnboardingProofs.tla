-------------------------- MODULE OnboardingProofs --------------------------
(***************************************************************************)
(* Proofs about Onboarding: what publications, registrations and           *)
(* invitations keep, for every number of them and every order of their     *)
(* transactions.  The invariant has one part for the documents (also those *)
(* of every snapshot), one for acceptances, one for invitations and one    *)
(* for each call under way; each lemma shows that one step keeps it.       *)
(***************************************************************************)
EXTENDS Onboarding, FiniteSetTheorems, TLAPS

\* The documents' windows, of any dates.
Docs == [Versions -> [from : Nat, to : Nat]]

\* The rows of acceptances.
Acceptances == [who : Registrants, doc : Versions, at : Nat, read : Versions]

\* The rows of the invitations.
Rows == [Invitations -> [state : {"none", "open", "revoked", "redeemed"}, expires : Nat, by : Cashiers \cup {NoOne}]]

\* What a transaction can have read when it began.
Snapshots == [docs : Docs, accepted : SUBSET Acceptances, inv : Rows]

\* A call under way, with what it was given and what it read.
Calls ==
    [step : Steps, tries : 0..(MaxAttempts - 1), doc : Versions \cup {NoOne}, at : Nat,
     code : Invitations \cup {NoOne}, seen : {<<>>} \cup Snapshots]

\* The steps at which a transaction holds the lock of the life cycle.
Holding == {"locked", "accepted", "written"}

\* The invitations that name r as the one who redeemed them:
\* InvitationAdmitsOne counts these.
RedeemedBy(r) == {i \in Invitations : inv[i].state = "redeemed" /\ inv[i].by = r}

\* The documents, live or in a snapshot: every published one has a window, no
\* two windows overlap, and one document is the last to take effect. The last
\* part is what makes the checks of a publication, which look at the latest
\* document only, enough for all.
DocsInv(ds) ==
    /\ ds \in Docs
    /\ \A v \in Versions : ds[v] = Unpublished \/ (ds[v].from \in Dates /\ ds[v].to \in ds[v].from + 1..Never)
    /\ \A v, w \in Published(ds) : v # w => ds[v].to <= ds[w].from \/ ds[w].to <= ds[v].from
    /\ Published(ds) # {} => Latest(ds) # {}

\* Every acceptance is of the document that was read, at an instant that has
\* passed and at which the document is in force.
AcceptedInv ==
    /\ accepted \subseteq Acceptances
    /\ \A a \in accepted : a.at <= now /\ a.doc = a.read /\ InForce(docs, a.doc, a.at)

\* A cashier who is registered is named by exactly one redeemed invitation, and
\* one who is not by none.
RowsInv ==
    /\ inv \in Rows
    /\ \A i \in Invitations : inv[i].state = "redeemed" <=> inv[i].by \in Cashiers
    /\ \A r \in Cashiers : /\ Registered(r) => \E i \in Invitations : RedeemedBy(r) = {i}
                           /\ ~Registered(r) => RedeemedBy(r) = {}

\* A call under way. It holds the lock exactly in the steps that need it; who
\* is under way is not registered; what it read when it began satisfies the
\* invariant of the documents; a publication that has written passed its checks
\* on what it read; a registration that has accepted did so on a document that
\* was current, by its snapshot, at its instant; and the invitation of one that
\* has written is open and stays so, because its row is locked.
CallInv(p) ==
    /\ lock = p <=> tx[p].step \in Holding
    /\ tx[p].step # "idle" => tx[p].doc \in Versions
    /\ p \in Registrants /\ tx[p].step # "idle" => ~Registered(p)
    /\ p \in Cashiers /\ tx[p].step \notin {"idle", "read"} => tx[p].code \in Invitations
    /\ p \in Publishers /\ tx[p].step # "idle" => tx[p].at \in Dates
    /\ tx[p].step \in {"waiting", "locked", "accepted", "written"} =>
          tx[p].seen \in Snapshots /\ DocsInv(tx[p].seen.docs)
    /\ p \in Publishers /\ tx[p].step = "written" =>
          MayPublish(tx[p].seen, tx[p].doc, tx[p].at) /\ KeepsAcceptances(tx[p].seen, tx[p].at)
    /\ p \in Registrants /\ tx[p].step \in {"accepted", "written"} =>
          tx[p].doc \in CurrentTerms(tx[p].seen.docs, tx[p].at) /\ tx[p].at <= now
    /\ p \in Cashiers /\ tx[p].step = "written" => inv[tx[p].code].state = "open"

\* The inductive invariant.
IInv ==
    /\ now \in 0..MaxTime
    /\ DocsInv(docs) /\ AcceptedInv /\ RowsInv
    /\ tx \in [Procs -> Calls] /\ lock \in Procs \cup {NoOne}
    /\ \A p \in Procs : CallInv(p)

\* Who is who: publishers do not register, cashiers are not clients, and NoOne
\* is nobody.
LEMMA ProcFacts ==
    ASSUME OnboardingAssumption
    PROVE  /\ NoOne \notin Procs /\ Publishers \subseteq Procs /\ Registrants \subseteq Procs
           /\ Cashiers \subseteq Registrants /\ Clients \subseteq Registrants
           /\ Publishers \cap Registrants = {} /\ Cashiers \cap Clients = {}
BY DEF OnboardingAssumption, Procs, Registrants

\* A call that is over is a call.
LEMMA IdleType ==
    ASSUME OnboardingAssumption PROVE Idle \in Calls /\ Idle.step = "idle"
<1>1. 0 \in 0..(MaxAttempts - 1)
    BY DEF OnboardingAssumption
<1> QED BY <1>1 DEF Idle, Calls, Steps

\* The end of a call touches no other call and gives up the lock if the call
\* held it.
LEMMA EndEffect ==
    ASSUME OnboardingAssumption, IInv, NEW p \in Procs, End(p)
    PROVE  /\ tx' \in [Procs -> Calls] /\ tx'[p] = Idle /\ \A q \in Procs \ {p} : tx'[q] = tx[q]
           /\ lock' \in Procs \cup {NoOne} /\ lock' # p /\ \A q \in Procs \ {p} : lock' = q <=> lock = q
<1>1. tx' = [tx EXCEPT ![p] = Idle] /\ lock' = IF lock = p THEN NoOne ELSE lock
    BY DEF End, Unlocked
<1> QED BY <1>1, IdleType, ProcFacts DEF IInv

\* A refused transaction starts again with what its caller gave it, or ends; it
\* gives up the lock.
LEMMA RetryEffect ==
    ASSUME OnboardingAssumption, IInv, NEW p \in Procs, Retry(p)
    PROVE  /\ tx' \in [Procs -> Calls] /\ \A q \in Procs \ {p} : tx'[q] = tx[q]
           /\ \/ tx'[p] = Idle
              \/ /\ tx'[p].step = "begin" /\ tx'[p].doc = tx[p].doc /\ tx'[p].code = tx[p].code
                 /\ p \in Publishers => tx'[p].at = tx[p].at
           /\ lock' \in Procs \cup {NoOne} /\ lock' # p /\ \A q \in Procs \ {p} : lock' = q <=> lock = q
<1> DEFINE c == tx[p]
           again == [c EXCEPT !.step = "begin", !.tries = c.tries + 1, !.seen = <<>>,
                              !.at = IF p \in Publishers THEN c.at ELSE 0]
<1>1. c \in Calls /\ tx \in [Procs -> Calls]
    BY DEF IInv
<1>2. /\ tx' = [tx EXCEPT ![p] = IF c.tries + 1 = MaxAttempts THEN Idle ELSE again]
      /\ lock' = IF lock = p THEN NoOne ELSE lock
    BY DEF Retry, Unlocked, LastAttempt
<1> HIDE DEF c
<1>3. ASSUME c.tries + 1 # MaxAttempts
      PROVE  /\ again \in Calls /\ again.step = "begin" /\ again.doc = c.doc /\ again.code = c.code
             /\ p \in Publishers => again.at = c.at
    <2>1. c.tries + 1 \in 0..(MaxAttempts - 1)
        BY <1>1, <1>3 DEF Calls, OnboardingAssumption
    <2> QED BY <1>1, <2>1 DEF Calls, Steps
<1> HIDE DEF again
<1> QED BY <1>1, <1>2, <1>3, IdleType, ProcFacts DEF IInv, c

\* A step of a call keeps what the call was given and what it read.
LEMMA StepEffect ==
    ASSUME IInv, NEW p \in Procs, NEW st \in Steps, Step(p, st)
    PROVE  /\ tx' \in [Procs -> Calls] /\ \A q \in Procs \ {p} : tx'[q] = tx[q]
           /\ tx'[p].step = st /\ tx'[p].doc = tx[p].doc /\ tx'[p].at = tx[p].at
           /\ tx'[p].code = tx[p].code /\ tx'[p].seen = tx[p].seen
<1>1. tx[p] \in Calls /\ tx \in [Procs -> Calls]
    BY DEF IInv
<1> QED BY <1>1 DEF Step, Calls

\* A call that is left alone keeps its invariant if the registration of its
\* caller, the clock and the row of its invitation allow it.
LEMMA CallKept ==
    ASSUME NEW q \in Procs, CallInv(q), tx'[q] = tx[q], lock' = q <=> lock = q,
           Registered(q)' => Registered(q), tx[q].at <= now => tx[q].at <= now',
           q \in Cashiers /\ tx[q].step = "written" => inv'[tx[q].code].state = "open"
    PROVE  CallInv(q)'
BY DEF CallInv

\* A call that is over satisfies its invariant.
LEMMA IdleCall ==
    ASSUME OnboardingAssumption, NEW p \in Procs, tx'[p] = Idle, lock' # p PROVE CallInv(p)'
<1>1. tx'[p].step = "idle"
    BY IdleType
<1> QED BY <1>1 DEF CallInv, Holding

\* A step that changes one call only keeps the invariant if it keeps that
\* call's.
LEMMA CallStep ==
    ASSUME OnboardingAssumption, IInv, NEW p \in Procs, UNCHANGED <<now, docs, accepted, inv>>,
           tx' \in [Procs -> Calls], \A q \in Procs \ {p} : tx'[q] = tx[q],
           lock' \in Procs \cup {NoOne}, \A q \in Procs \ {p} : lock' = q <=> lock = q,
           CallInv(p)'
    PROVE  IInv'
<1>1. ASSUME NEW q \in Procs PROVE CallInv(q)'
    <2>1. CASE q # p
        <3>1. CallInv(q) /\ (Registered(q)' <=> Registered(q)) /\ (CallInv(q) /\ q \in Cashiers /\ tx[q].step = "written" => inv'[tx[q].code].state = "open")
            BY DEF IInv, Registered, CallInv
        <3> QED BY <2>1, <3>1, CallKept
    <2> QED BY <2>1
<1>2. AcceptedInv' /\ RowsInv' /\ DocsInv(docs)'
    BY DEF IInv, AcceptedInv, RowsInv, Registered, RedeemedBy
<1> QED BY <1>1, <1>2 DEF IInv

\* The end of a call, by whatever error, keeps the invariant.
LEMMA EndStep ==
    ASSUME OnboardingAssumption, IInv, NEW p \in Procs, UNCHANGED <<now, docs, accepted, inv>>, End(p)
    PROVE  IInv'
BY EndEffect, IdleCall, CallStep

\* A transaction that is refused and tried again keeps the invariant.
LEMMA RetryStep ==
    ASSUME OnboardingAssumption, IInv, NEW p \in Procs, UNCHANGED <<now, docs, accepted, inv>>, Retry(p),
           tx[p].step \notin {"idle", "read"}
    PROVE  IInv'
<1>1. CallInv(p) /\ (Registered(p)' <=> Registered(p))
    BY DEF IInv, Registered
<1>2. CallInv(p)'
    <2>1. CASE tx'[p] = Idle
        BY <2>1, RetryEffect, IdleCall
    <2>2. CASE /\ tx'[p].step = "begin" /\ tx'[p].doc = tx[p].doc /\ tx'[p].code = tx[p].code
               /\ p \in Publishers => tx'[p].at = tx[p].at
        BY <1>1, <2>2, RetryEffect DEF CallInv, Holding
    <2> QED BY <2>1, <2>2, RetryEffect
<1> QED BY <1>2, RetryEffect, CallStep

\* The beginning of a transaction, its lock and its failure keep the invariant.
LEMMA ProceedStep ==
    ASSUME OnboardingAssumption, IInv, NEW p \in Procs, Proceed(p) PROVE IInv'
<1>0. CallInv(p) /\ tx[p] \in Calls /\ tx \in [Procs -> Calls]
    BY DEF IInv
<1>1. CASE Begin(p)
    <2>1. /\ tx[p].step = "begin" /\ UNCHANGED <<now, docs, accepted, inv, lock>>
          /\ tx' = [tx EXCEPT ![p].step = "waiting", ![p].seen = Snapshot]
        BY <1>1 DEF Begin
    <2>2. Snapshot \in Snapshots /\ DocsInv(Snapshot.docs)
        BY DEF Snapshot, Snapshots, IInv, AcceptedInv, RowsInv, DocsInv
    <2> DEFINE n == [[tx[p] EXCEPT !.step = "waiting"] EXCEPT !.seen = Snapshot]
    <2>3. tx' = [tx EXCEPT ![p] = n]
        BY <1>0, <2>1
    <2>4. n \in Calls /\ n.step = "waiting" /\ n.doc = tx[p].doc /\ n.at = tx[p].at /\ n.code = tx[p].code /\ n.seen = Snapshot
        BY <1>0, <2>2 DEF Calls, Steps
    <2> HIDE DEF n
    <2>5. tx' \in [Procs -> Calls] /\ tx'[p] = n /\ \A q \in Procs \ {p} : tx'[q] = tx[q]
        BY <1>0, <2>3, <2>4
    <2>6. Registered(p)' <=> Registered(p)
        BY <2>1 DEF Registered
    <2>7. CallInv(p)'
        BY <1>0, <2>1, <2>2, <2>4, <2>5, <2>6 DEF CallInv, Holding
    <2> QED BY <2>1, <2>5, <2>7, CallStep DEF IInv
<1>2. CASE LockTermsLifecycle(p)
    <2>1. tx[p].step = "waiting" /\ lock = NoOne /\ lock' = p /\ Step(p, "locked") /\ UNCHANGED <<now, docs, accepted, inv>>
        BY <1>2 DEF LockTermsLifecycle
    <2>2. /\ tx' \in [Procs -> Calls] /\ \A q \in Procs \ {p} : tx'[q] = tx[q]
          /\ tx'[p].step = "locked" /\ tx'[p].doc = tx[p].doc /\ tx'[p].at = tx[p].at
          /\ tx'[p].code = tx[p].code /\ tx'[p].seen = tx[p].seen
        BY <2>1, StepEffect DEF Steps
    <2>3. Registered(p)' <=> Registered(p)
        BY <2>1 DEF Registered
    <2>4. CallInv(p)'
        BY <1>0, <2>1, <2>2, <2>3 DEF CallInv, Holding
    <2>5. \A q \in Procs \ {p} : lock' = q <=> lock = q
        BY <2>1, ProcFacts
    <2> QED BY <2>1, <2>2, <2>4, <2>5, CallStep
<1>3. CASE Fail(p)
    BY <1>3, EndStep DEF Fail
<1> QED BY <1>1, <1>2, <1>3 DEF Proceed

\* A new publication keeps the invariant.
LEMMA PublishTermsStep ==
    ASSUME OnboardingAssumption, IInv, NEW p \in Publishers, PublishTerms(p) PROVE IInv'
<1>0. p \in Procs /\ p \notin Registrants /\ p \notin Cashiers
    BY ProcFacts
<1>1. CallInv(p) /\ tx \in [Procs -> Calls] /\ tx[p].step = "idle" /\ UNCHANGED <<now, docs, accepted, inv, lock>>
    BY <1>0 DEF PublishTerms, IInv
<1>2. PICK v \in Versions, d \in Dates :
          tx' = [tx EXCEPT ![p] = [Idle EXCEPT !.step = "begin", !.doc = v, !.at = d]]
    BY DEF PublishTerms
<1> DEFINE n == [Idle EXCEPT !.step = "begin", !.doc = v, !.at = d]
<1>3. n \in Calls /\ n.step = "begin" /\ n.doc = v /\ n.at = d
    <2>1. d \in Nat
        BY DEF Dates, OnboardingAssumption
    <2> QED BY <2>1, IdleType DEF Calls, Idle, Steps
<1> HIDE DEF n
<1>4. tx' \in [Procs -> Calls] /\ tx'[p] = n /\ \A q \in Procs \ {p} : tx'[q] = tx[q]
    BY <1>0, <1>1, <1>2, <1>3 DEF n
<1>5. CallInv(p)'
    BY <1>0, <1>1, <1>3, <1>4 DEF CallInv, Holding
<1> QED BY <1>0, <1>1, <1>4, <1>5, CallStep DEF IInv

\* The checks of a publication keep the invariant.
LEMMA DecidePublicationStep ==
    ASSUME OnboardingAssumption, IInv, NEW p \in Publishers, DecidePublication(p) PROVE IInv'
<1>0. p \in Procs /\ p \notin Registrants /\ p \notin Cashiers
    BY ProcFacts
<1>1. CallInv(p) /\ tx[p].step = "locked" /\ UNCHANGED <<now, docs, accepted, inv>>
    BY <1>0 DEF DecidePublication, IInv
<1>2. CASE End(p)
    BY <1>0, <1>1, <1>2, EndStep
<1>3. CASE /\ MayPublish(tx[p].seen, tx[p].doc, tx[p].at) /\ KeepsAcceptances(tx[p].seen, tx[p].at)
           /\ Step(p, "written") /\ UNCHANGED lock
    <2>1. /\ tx' \in [Procs -> Calls] /\ \A q \in Procs \ {p} : tx'[q] = tx[q]
          /\ tx'[p].step = "written" /\ tx'[p].doc = tx[p].doc /\ tx'[p].at = tx[p].at
          /\ tx'[p].code = tx[p].code /\ tx'[p].seen = tx[p].seen
        BY <1>0, <1>3, StepEffect DEF Steps
    <2>2. CallInv(p)'
        BY <1>0, <1>1, <1>3, <2>1 DEF CallInv, Holding
    <2> QED BY <1>0, <1>1, <1>3, <2>1, <2>2, CallStep DEF IInv
<1> QED BY <1>2, <1>3 DEF DecidePublication

\* Reading the terms keeps the invariant.
LEMMA ReadTermsStep ==
    ASSUME OnboardingAssumption, IInv, NEW r \in Registrants, ReadTerms(r) PROVE IInv'
<1>0. r \in Procs /\ r \notin Publishers
    BY ProcFacts
<1>1. CallInv(r) /\ tx \in [Procs -> Calls] /\ tx[r].step = "idle" /\ ~Registered(r)
      /\ UNCHANGED <<now, docs, accepted, inv, lock>>
    BY <1>0 DEF ReadTerms, IInv
<1>2. PICK v \in Versions : tx' = [tx EXCEPT ![r] = [Idle EXCEPT !.step = "read", !.doc = v]]
    BY DEF ReadTerms, CurrentTerms, AllInForce
<1> DEFINE n == [Idle EXCEPT !.step = "read", !.doc = v]
<1>3. n \in Calls /\ n.step = "read" /\ n.doc = v
    BY IdleType DEF Calls, Idle, Steps
<1> HIDE DEF n
<1>4. tx' \in [Procs -> Calls] /\ tx'[r] = n /\ \A q \in Procs \ {r} : tx'[q] = tx[q]
    BY <1>0, <1>1, <1>2, <1>3 DEF n
<1>5. ~Registered(r)'
    BY <1>1 DEF Registered
<1>6. CallInv(r)'
    BY <1>0, <1>1, <1>3, <1>4, <1>5 DEF CallInv, Holding
<1> QED BY <1>0, <1>1, <1>4, <1>6, CallStep DEF IInv

\* The checks of a registration before its transaction keep the invariant.
LEMMA RegisterStep ==
    ASSUME OnboardingAssumption, IInv, NEW r \in Registrants, RegisterCashier(r) \/ RegisterClient(r) PROVE IInv'
<1>0. r \in Procs /\ r \notin Publishers
    BY ProcFacts
<1>1. CallInv(r) /\ tx \in [Procs -> Calls] /\ tx[r] \in Calls /\ tx[r].step = "read"
      /\ UNCHANGED <<now, docs, accepted, inv, lock>> /\ (Registered(r)' <=> Registered(r))
    BY <1>0 DEF RegisterCashier, RegisterClient, IInv, Registered
<1>2. /\ tx' \in [Procs -> Calls] /\ \A q \in Procs \ {r} : tx'[q] = tx[q]
      /\ tx'[r].step = "begin" /\ tx'[r].doc = tx[r].doc
      /\ r \in Cashiers => tx'[r].code \in Invitations
    <2>1. CASE RegisterCashier(r)
        <3>1. PICK i \in Invitations : tx' = [tx EXCEPT ![r].step = "begin", ![r].code = i]
            BY <2>1 DEF RegisterCashier
        <3> DEFINE n == [[tx[r] EXCEPT !.step = "begin"] EXCEPT !.code = i]
        <3>2. tx' = [tx EXCEPT ![r] = n]
            BY <1>0, <1>1, <3>1
        <3>3. n \in Calls /\ n.step = "begin" /\ n.doc = tx[r].doc /\ n.code = i
            BY <1>1 DEF Calls, Steps
        <3> HIDE DEF n
        <3> QED BY <1>0, <1>1, <3>2, <3>3
    <2>2. CASE RegisterClient(r)
        <3>1. Step(r, "begin") /\ r \notin Cashiers
            BY <2>2, ProcFacts DEF RegisterClient
        <3> QED BY <1>0, <3>1, StepEffect DEF Steps
    <2> QED BY <2>1, <2>2
<1>3. CallInv(r)'
    BY <1>0, <1>1, <1>2 DEF CallInv, Holding
<1> QED BY <1>0, <1>1, <1>2, <1>3, CallStep DEF IInv

\* Accepting the terms keeps the invariant.
LEMMA AcceptTermsStep ==
    ASSUME OnboardingAssumption, IInv, NEW r \in Registrants, AcceptTerms(r) PROVE IInv'
<1>0. r \in Procs /\ r \notin Publishers
    BY ProcFacts
<1>1. CallInv(r) /\ tx \in [Procs -> Calls] /\ tx[r] \in Calls /\ tx[r].step = "locked"
      /\ UNCHANGED <<now, docs, accepted, inv>> /\ (Registered(r)' <=> Registered(r))
    BY <1>0 DEF AcceptTerms, IInv, Registered
<1>2. CASE End(r)
    BY <1>0, <1>1, <1>2, EndStep
<1>3. CASE \E v \in CurrentTerms(tx[r].seen.docs, now) :
              /\ SameTerms(v, tx[r].doc)
              /\ tx' = [tx EXCEPT ![r].at = now, ![r].step = IF r \in Cashiers THEN "accepted" ELSE "written"]
              /\ UNCHANGED lock
    <2> DEFINE st == IF r \in Cashiers THEN "accepted" ELSE "written"
               n == [[tx[r] EXCEPT !.at = now] EXCEPT !.step = st]
    <2>1. tx[r].doc \in CurrentTerms(tx[r].seen.docs, now) /\ UNCHANGED lock
        BY <1>3 DEF SameTerms
    <2>2. tx' = [tx EXCEPT ![r] = n]
        BY <1>0, <1>1, <1>3
    <2>3. now \in Nat
        BY DEF IInv, OnboardingAssumption
    <2>4. st \in Steps /\ st \in {"accepted", "written"} /\ (st = "written" => r \notin Cashiers)
        BY DEF Steps
    <2> HIDE DEF st
    <2>5. /\ n \in Calls /\ n.step = st /\ n.at = now /\ n.doc = tx[r].doc
          /\ n.code = tx[r].code /\ n.seen = tx[r].seen
        BY <1>1, <2>3, <2>4 DEF Calls
    <2> HIDE DEF n
    <2>6. tx' \in [Procs -> Calls] /\ tx'[r] = n /\ \A q \in Procs \ {r} : tx'[q] = tx[q]
        BY <1>0, <1>1, <2>2, <2>5
    <2>7. CallInv(r)'
        BY <1>0, <1>1, <2>1, <2>3, <2>4, <2>5, <2>6 DEF CallInv, Holding
    <2> QED BY <1>0, <1>1, <2>1, <2>6, <2>7, CallStep DEF IInv
<1> QED BY <1>2, <1>3 DEF AcceptTerms

\* The update of an invitation keeps the invariant: the row is as the snapshot
\* has it, and open.
LEMMA RedeemInvitationStep ==
    ASSUME OnboardingAssumption, IInv, NEW r \in Registrants, RedeemInvitation(r) PROVE IInv'
<1>0. r \in Procs /\ r \notin Publishers
    BY ProcFacts
<1>1. CallInv(r) /\ tx[r].step = "accepted" /\ UNCHANGED <<now, docs, accepted, inv>>
      /\ (Registered(r)' <=> Registered(r))
    BY <1>0 DEF RedeemInvitation, IInv, Registered
<1>2. CASE End(r)
    BY <1>0, <1>1, <1>2, EndStep
<1>3. CASE Retry(r)
    BY <1>0, <1>1, <1>3, RetryStep
<1>4. CASE Redeemable(tx[r].code, tx[r].seen) /\ Step(r, "written") /\ UNCHANGED lock
    <2>1. /\ tx' \in [Procs -> Calls] /\ \A q \in Procs \ {r} : tx'[q] = tx[q]
          /\ tx'[r].step = "written" /\ tx'[r].doc = tx[r].doc /\ tx'[r].at = tx[r].at
          /\ tx'[r].code = tx[r].code /\ tx'[r].seen = tx[r].seen
        BY <1>0, <1>4, StepEffect DEF Steps
    <2>2. inv[tx[r].code].state = "open"
        BY <1>4 DEF Redeemable, Usable
    <2>3. CallInv(r)'
        BY <1>0, <1>1, <1>4, <2>1, <2>2 DEF CallInv, Holding
    <2> QED BY <1>0, <1>1, <1>4, <2>1, <2>3, CallStep DEF IInv
<1> QED BY <1>2, <1>3, <1>4 DEF RedeemInvitation

\* A transaction refused at its commit keeps the invariant.
LEMMA RefuseStep ==
    ASSUME OnboardingAssumption, IInv,
           \/ \E p \in Publishers : RefusePublication(p)
           \/ \E r \in Registrants : RefuseRegistration(r)
    PROVE  IInv'
<1>1. PICK p \in Procs : tx[p].step = "written" /\ Retry(p) /\ UNCHANGED <<now, docs, accepted, inv>>
    BY ProcFacts DEF RefusePublication, RefuseRegistration
<1> QED BY <1>1, RetryStep

\* New and revoked invitations and the passage of time keep the invariant: a
\* row that a registration has updated cannot be revoked.
LEMMA RowsStep ==
    ASSUME OnboardingAssumption, IInv,
           (\E i \in Invitations : CreateCashierInvitation(i) \/ RevokeCashierInvitation(i)) \/ Tick
    PROVE  IInv'
<1>1. UNCHANGED <<docs, accepted, tx, lock>>
    BY DEF CreateCashierInvitation, RevokeCashierInvitation, Tick
<1>2. now' \in 0..MaxTime /\ now \in Nat /\ now' \in Nat /\ now <= now'
    BY DEF CreateCashierInvitation, RevokeCashierInvitation, Tick, IInv, OnboardingAssumption
<1>3. /\ inv' \in Rows
      /\ \A i \in Invitations : /\ inv'[i] = inv[i] \/ (inv'[i].state \in {"open", "revoked"} /\ inv[i].state \in {"none", "open"}
                                                        /\ inv'[i].by \notin Cashiers)
                                /\ inv[i].state = "open" /\ inv'[i] # inv[i] => ~RowLocked(i)
    <2>1. ASSUME NEW i \in Invitations, CreateCashierInvitation(i)
          PROVE  /\ inv' \in Rows /\ \A k \in Invitations \ {i} : inv'[k] = inv[k]
                 /\ inv[i].state = "none" /\ inv'[i].state = "open" /\ inv'[i].by = NoOne
        <3> DEFINE row == [state |-> "open", expires |-> now + InvitationTTL, by |-> NoOne]
        <3>1. inv' = [inv EXCEPT ![i] = row] /\ inv[i].state = "none" /\ inv \in Rows
            BY <2>1 DEF CreateCashierInvitation, IInv, RowsInv
        <3>2. row \in [state : {"none", "open", "revoked", "redeemed"}, expires : Nat, by : Cashiers \cup {NoOne}]
            BY <1>2 DEF OnboardingAssumption
        <3> QED BY <3>1, <3>2 DEF Rows
    <2>2. ASSUME NEW i \in Invitations, RevokeCashierInvitation(i)
          PROVE  /\ inv' \in Rows /\ \A k \in Invitations \ {i} : inv'[k] = inv[k]
                 /\ inv[i].state = "open" /\ inv'[i].state = "revoked" /\ inv'[i].by = inv[i].by /\ ~RowLocked(i)
        <3>1. inv' = [inv EXCEPT ![i].state = "revoked"] /\ inv[i].state = "open" /\ ~RowLocked(i) /\ inv \in Rows
            BY <2>2 DEF RevokeCashierInvitation, Revocable, IInv, RowsInv
        <3> QED BY <3>1 DEF Rows
    <2>3. CASE Tick
        BY <2>3 DEF Tick, IInv, RowsInv
    <2>4. NoOne \notin Cashiers
        BY DEF OnboardingAssumption
    <2>5. \A i \in Invitations : inv[i].state = "redeemed" <=> inv[i].by \in Cashiers
        BY DEF IInv, RowsInv
    <2>6. CASE \E i \in Invitations : CreateCashierInvitation(i)
        BY <2>1, <2>4, <2>6
    <2>7. CASE \E i \in Invitations : RevokeCashierInvitation(i)
        BY <2>2, <2>5, <2>7
    <2> QED BY <2>3, <2>6, <2>7
<1>4. RowsInv'
    <2>1. \A r \in Cashiers : RedeemedBy(r)' = RedeemedBy(r) /\ (Registered(r)' <=> Registered(r))
        BY <1>1, <1>3 DEF RedeemedBy, Registered
    <2>2. \A i \in Invitations : inv'[i].state = "redeemed" <=> inv'[i].by \in Cashiers
        BY <1>3 DEF IInv, RowsInv
    <2> QED BY <1>3, <2>1, <2>2 DEF IInv, RowsInv
<1>5. ASSUME NEW q \in Procs PROVE CallInv(q)'
    <2>1. CallInv(q) /\ (Registered(q)' <=> Registered(q)) /\ tx[q].at \in Nat
        BY <1>1 DEF IInv, Registered, Calls
    <2>2. q \in Cashiers /\ tx[q].step = "written" => inv'[tx[q].code].state = "open"
        BY <1>3, <2>1 DEF CallInv, RowLocked
    <2>3. tx[q].at <= now => tx[q].at <= now'
        BY <1>2, <2>1
    <2> QED BY <1>1, <2>1, <2>2, <2>3, CallKept
<1>6. AcceptedInv' /\ DocsInv(docs)'
    <2>1. \A a \in accepted : a.at \in Nat
        BY DEF IInv, AcceptedInv, Acceptances
    <2> QED BY <1>1, <1>2, <2>1 DEF IInv, AcceptedInv
<1> QED BY <1>1, <1>2, <1>4, <1>5, <1>6 DEF IInv

\* What the invariant of the documents says of a single window.
LEMMA DocFacts ==
    ASSUME OnboardingAssumption, NEW ds, DocsInv(ds), NEW v \in Versions
    PROVE  /\ ds[v].from \in Nat /\ ds[v].to \in Nat /\ Never \in Nat
           /\ v \in Published(ds) => ds[v].from < Never /\ ds[v].from < ds[v].to /\ ds[v].to <= Never
           /\ v \notin Published(ds) => ds[v] = Unpublished
<1>1. ds[v].from \in Nat /\ ds[v].to \in Nat
    BY DEF DocsInv, Docs
<1>2. Never \in Nat /\ MaxTime \in Nat /\ Never = MaxTime + 2
    BY DEF OnboardingAssumption, Never
<1>3. ds[v] = Unpublished \/ (ds[v].from \in Dates /\ ds[v].to \in ds[v].from + 1..Never)
    BY DEF DocsInv
<1>4. ASSUME ds[v].from \in Dates, ds[v].to \in ds[v].from + 1..Never
      PROVE  ds[v].from < Never /\ ds[v].from < ds[v].to /\ ds[v].to <= Never /\ ds[v].from # Never
    BY <1>1, <1>2, <1>4 DEF Dates
<1>5. CASE ds[v] = Unpublished
    <2>1. v \notin Published(ds)
        BY <1>5 DEF Published, Unpublished
    <2> QED BY <1>1, <1>2, <1>5, <2>1
<1>6. CASE ds[v].from \in Dates /\ ds[v].to \in ds[v].from + 1..Never
    <2>1. v \in Published(ds)
        BY <1>4, <1>6 DEF Published
    <2> QED BY <1>1, <1>2, <1>4, <1>6, <2>1
<1> QED BY <1>3, <1>5, <1>6

\* The documents es are the documents ds after v was published on the date d:
\* those that were open are retired on that date.
Follows(es, ds, v, d) ==
    /\ es \in Docs
    /\ es[v].from = d /\ es[v].to = Never
    /\ \A w \in Open(ds) : es[w].from = ds[w].from /\ es[w].to = d
    /\ \A w \in Versions \ (Open(ds) \cup {v}) : es[w] = ds[w]

\* A publication that passed its checks leaves windows that do not overlap.
\* Those that are not open end before the latest begins or are the latest, so
\* they end by d.
LEMMA PublicationKeeps ==
    ASSUME OnboardingAssumption, NEW s, DocsInv(s.docs), NEW v \in Versions, NEW d \in Dates,
           MayPublish(s, v, d), NEW es, Follows(es, s.docs, v, d)
    PROVE  DocsInv(es)
<1> DEFINE ds == s.docs
<1>1. /\ v \notin Published(ds)
      /\ \A w \in Published(ds) : d > ds[w].from
      /\ Open(ds) # {} => Open(ds) = Latest(ds)
      /\ \A w \in Latest(ds) : ds[w].to = Never \/ ds[w].to <= d
    BY DEF MayPublish
<1>2. d \in Nat /\ Never \in Nat /\ d < Never
    BY DEF Dates, Never, OnboardingAssumption
<1>3. DocsInv(ds)
    OBVIOUS
<1> HIDE DEF ds
<1>4. \A w \in Versions : ds[w].from \in Nat /\ ds[w].to \in Nat
    BY <1>3, DocFacts
<1>5. \A w \in Published(ds) : w \in Versions /\ ds[w].from < Never /\ ds[w].from < ds[w].to /\ ds[w].to <= Never
    BY <1>3, DocFacts DEF Published
<1>6. Open(ds) \subseteq Published(ds) /\ v \notin Open(ds)
    BY <1>1 DEF Open
<1>7. /\ \A w \in Open(ds) : es[w].from = ds[w].from /\ es[w].to = d
      /\ \A w \in Versions \ (Open(ds) \cup {v}) : es[w] = ds[w]
      /\ es[v].from = d /\ es[v].to = Never /\ es \in Docs
    BY DEF Follows, ds
<1>8. Published(es) = Published(ds) \cup {v}
    BY <1>2, <1>5, <1>6, <1>7 DEF Published
<1>9. ASSUME NEW w \in Published(ds) \ Open(ds) PROVE ds[w].to <= d
    <2>1. w \in Versions /\ ds[w].to # Never /\ ds[w].from < d
        BY <1>1, <1>5 DEF Open
    <2>2. PICK x \in Latest(ds) : TRUE
        BY <1>3 DEF DocsInv
    <2>3. x \in Published(ds) /\ ds[w].from <= ds[x].from /\ ds[x].from < d
        BY <1>1, <2>2 DEF Latest
    <2>4. CASE x = w
        BY <1>1, <2>1, <2>2, <2>4
    <2>5. CASE x # w
        <3>1. ds[w].to <= ds[x].from \/ ds[x].to <= ds[w].from
            BY <1>3, <2>3, <2>5 DEF DocsInv
        <3> QED BY <1>2, <1>4, <1>5, <2>1, <2>3, <3>1
    <2> QED BY <2>4, <2>5
<1>10. \A w \in Published(ds) : es[w].from = ds[w].from /\ es[w].to <= d /\ es[w].to <= ds[w].to
    <2>1. ASSUME NEW w \in Open(ds) PROVE es[w].to <= d /\ es[w].to <= ds[w].to
        BY <1>2, <1>7, <2>1 DEF Open
    <2>2. ASSUME NEW w \in Published(ds) \ Open(ds) PROVE es[w] = ds[w] /\ es[w].to <= d /\ es[w].to <= ds[w].to
        <3>1. w # v /\ w \in Versions
            BY <1>1, <1>5
        <3> QED BY <1>4, <1>7, <1>9, <3>1
    <2> QED BY <1>7, <2>1, <2>2
<1>11. ASSUME NEW x \in Published(es), NEW y \in Published(es), x # y
       PROVE  es[x].to <= es[y].from \/ es[y].to <= es[x].from
    <2>1. CASE x = v
        BY <1>7, <1>8, <1>10, <1>11, <2>1
    <2>2. CASE y = v
        BY <1>7, <1>8, <1>10, <1>11, <2>2
    <2>3. CASE x \in Published(ds) /\ y \in Published(ds)
        <3>1. ds[x].to <= ds[y].from \/ ds[y].to <= ds[x].from
            BY <1>3, <1>11, <2>3 DEF DocsInv
        <3>2. es[x].to \in Nat /\ es[y].to \in Nat
            BY <1>5, <1>7, <2>3 DEF Docs
        <3> QED BY <1>4, <1>5, <1>10, <2>3, <3>1, <3>2
    <2> QED BY <1>8, <2>1, <2>2, <2>3
<1>12. ASSUME NEW w \in Versions
       PROVE  es[w] = Unpublished \/ (es[w].from \in Dates /\ es[w].to \in es[w].from + 1..Never)
    <2>1. CASE w = v
        BY <1>2, <1>7, <2>1
    <2>2. CASE w \in Open(ds)
        <3>1. w \in Published(ds) /\ ds[w].from < d /\ ds[w].from \in Dates
            <4>1. w \in Published(ds) /\ ds[w].from < d /\ ds[w].from # Never
                BY <1>1, <1>4, <1>5, <1>6, <2>2
            <4>2. ds[w] # Unpublished
                BY <4>1 DEF Unpublished
            <4> QED BY <1>3, <4>1, <4>2 DEF DocsInv
        <3> QED BY <1>2, <1>4, <1>7, <2>2, <3>1
    <2>3. CASE w \notin Open(ds) /\ w # v
        BY <1>3, <1>7, <2>3 DEF DocsInv
    <2> QED BY <2>1, <2>2, <2>3
<1>13. Latest(es) # {}
    <2>1. ASSUME NEW w \in Published(es) PROVE es[w].from <= es[v].from
        <3>1. CASE w = v
            BY <1>2, <1>7, <3>1
        <3>2. CASE w \in Published(ds)
            BY <1>1, <1>2, <1>4, <1>5, <1>7, <1>10, <3>2
        <3> QED BY <1>8, <3>1, <3>2
    <2> QED BY <1>8, <2>1 DEF Latest
<1> QED BY <1>7, <1>11, <1>12, <1>13 DEF DocsInv

\* The commit of a publication keeps the invariant. Documents are as the
\* snapshot has them, since a publication that crosses another is refused;
\* every acceptance of the document that it retires is in the snapshot, so it
\* lies before the date.
LEMMA CommitPublicationStep ==
    ASSUME OnboardingAssumption, IInv, NEW p \in Publishers, CommitPublication(p) PROVE IInv'
<1> DEFINE s == tx[p].seen
           v == tx[p].doc
           d == tx[p].at
<1>0. p \in Procs /\ p \notin Registrants
    BY ProcFacts
<1>1. /\ tx[p].step = "written" /\ ~PublicationCrosses(p) /\ End(p) /\ UNCHANGED <<now, accepted, inv>>
      /\ docs' = [w \in Versions |-> CASE w = v -> [from |-> d, to |-> Never]
                                       [] w \in Open(s.docs) -> [docs[w] EXCEPT !.to = d]
                                       [] OTHER -> docs[w]]
    BY DEF CommitPublication
<1>2. /\ v \in Versions /\ d \in Dates /\ MayPublish(s, v, d) /\ KeepsAcceptances(s, d)
      /\ DocsInv(docs) /\ now \in 0..MaxTime
    BY <1>0, <1>1 DEF IInv, CallInv
<1>3. s.docs = docs /\ \A a \in accepted \ s.accepted : a.doc \notin Open(docs)
    BY <1>1 DEF PublicationCrosses
<1>4. \A a \in accepted : a.doc \in Open(docs) => a.at < d
    BY <1>2, <1>3 DEF KeepsAcceptances
<1>5. v \notin Published(docs) /\ Open(docs) \subseteq Published(docs) /\ Published(docs) \subseteq Versions
    BY <1>2, <1>3 DEF MayPublish, Open, Published
<1>6. Follows(docs', docs, v, d)
    <2>1. d \in Nat /\ Never \in Nat
        BY <1>2 DEF Dates, Never, OnboardingAssumption
    <2>2. docs \in Docs
        BY <1>2 DEF DocsInv
    <2>3. docs'[v] = [from |-> d, to |-> Never] /\ docs'[v].from = d /\ docs'[v].to = Never
        <3> HIDE DEF v, d
        <3>1. docs'[v] = [from |-> d, to |-> Never]
            BY <1>1, <1>2, <1>3, <1>5
        <3> QED BY <3>1
    <2>4. ASSUME NEW w \in Open(docs) PROVE docs'[w] = [docs[w] EXCEPT !.to = d] /\ docs'[w].from = docs[w].from /\ docs'[w].to = d
                                            /\ docs'[w] \in [from : Nat, to : Nat]
        <3>1. w # v /\ w \in Versions
            BY <1>5
        <3>2. docs'[w] = [docs[w] EXCEPT !.to = d]
            BY <1>1, <1>3, <3>1
        <3>3. docs[w] \in [from : Nat, to : Nat]
            BY <2>2, <3>1 DEF Docs
        <3> QED BY <2>1, <3>2, <3>3
    <2>5. ASSUME NEW w \in Versions \ (Open(docs) \cup {v}) PROVE docs'[w] = docs[w]
        BY <1>1, <1>3
    <2>6. docs' \in Docs
        <3>1. ASSUME NEW w \in Versions PROVE docs'[w] \in [from : Nat, to : Nat]
            <4>1. CASE w = v
                <5> HIDE DEF v, d
                <5> QED BY <2>1, <2>3, <4>1
            <4>2. CASE w \in Open(docs)
                BY <2>4, <4>2
            <4>3. CASE w \in Versions \ (Open(docs) \cup {v})
                BY <2>2, <2>5, <4>3 DEF Docs
            <4> QED BY <4>1, <4>2, <4>3
        <3>2. docs' = [w \in Versions |-> docs'[w]]
            BY <1>1
        <3> QED BY <3>1, <3>2 DEF Docs
    <2> HIDE DEF v, d
    <2> QED BY <2>3, <2>4, <2>5, <2>6 DEF Follows
<1>7. DocsInv(docs')
    BY <1>2, <1>3, <1>6, PublicationKeeps
<1>8. AcceptedInv'
    <2> SUFFICES ASSUME NEW a \in accepted PROVE InForce(docs', a.doc, a.at)
        BY <1>1 DEF IInv, AcceptedInv
    <2>1. a.doc \in Versions /\ a.at \in Nat /\ a.at <= now /\ docs[a.doc].from <= a.at /\ a.at < docs[a.doc].to
        BY DEF IInv, AcceptedInv, Acceptances, InForce
    <2>2. a.doc \in Published(docs)
        <3>1. a.at < Never /\ docs[a.doc].from \in Nat /\ Never \in Nat
            BY <1>2, <2>1, DocFacts DEF Never, OnboardingAssumption
        <3> QED BY <2>1, <3>1 DEF Published
    <2>3. CASE a.doc \in Open(docs)
        BY <1>4, <1>6, <2>1, <2>3 DEF Follows, InForce
    <2>4. CASE a.doc \notin Open(docs)
        BY <1>5, <1>6, <2>1, <2>2, <2>4 DEF Follows, InForce
    <2> QED BY <2>3, <2>4
<1>9. RowsInv'
    BY <1>1 DEF IInv, RowsInv, Registered, RedeemedBy
<1>10. ASSUME NEW q \in Procs PROVE CallInv(q)'
    <2>1. CASE q = p
        BY <1>0, <1>1, <2>1, EndEffect, IdleCall
    <2>2. CASE q # p
        <3>1. CallInv(q) /\ (Registered(q)' <=> Registered(q))
            BY <1>1 DEF IInv, Registered
        <3>2. q \in Cashiers /\ tx[q].step = "written" => inv'[tx[q].code].state = "open"
            BY <1>1, <3>1 DEF CallInv
        <3>3. tx'[q] = tx[q] /\ (lock' = q <=> lock = q)
            BY <1>0, <1>1, <2>2, EndEffect
        <3> QED BY <1>1, <3>1, <3>2, <3>3, CallKept
    <2> QED BY <2>1, <2>2
<1> QED BY <1>0, <1>1, <1>7, <1>8, <1>9, <1>10, EndEffect DEF IInv

\* At an instant one document is current, at most.
LEMMA OneCurrent ==
    ASSUME OnboardingAssumption, NEW ds, DocsInv(ds), NEW t \in Nat,
           NEW v \in CurrentTerms(ds, t), NEW w \in CurrentTerms(ds, t), t < Never
    PROVE  v = w
<1>1. v \in Versions /\ w \in Versions /\ InForce(ds, v, t) /\ InForce(ds, w, t)
    BY DEF CurrentTerms, AllInForce
<1>2. /\ ds[v].from \in Nat /\ ds[v].to \in Nat /\ ds[w].from \in Nat /\ ds[w].to \in Nat /\ Never \in Nat
      /\ ds[v].from <= t /\ t < ds[v].to /\ ds[w].from <= t /\ t < ds[w].to
    BY <1>1, DocFacts DEF InForce
<1>3. v \in Published(ds) /\ w \in Published(ds)
    BY <1>1, <1>2 DEF Published
<1> QED BY <1>2, <1>3 DEF DocsInv

\* The commit of a registration keeps the invariant. The document that was
\* current by the snapshot is in force now, since its row has not changed; the
\* lock of the life cycle keeps any other registration from having written.
LEMMA CommitRegistrationStep ==
    ASSUME OnboardingAssumption, IInv, NEW r \in Registrants, CommitRegistration(r) PROVE IInv'
<1> DEFINE s == tx[r].seen
           d == tx[r].doc
           t == tx[r].at
           i == tx[r].code
<1>0. r \in Procs /\ r \notin Publishers
    BY ProcFacts
<1>1. /\ tx[r].step = "written" /\ ~RegistrationCrosses(r) /\ End(r) /\ UNCHANGED <<now, docs>>
      /\ inv' = IF r \in Cashiers THEN [inv EXCEPT ![i].state = "redeemed", ![i].by = r] ELSE inv
    BY DEF CommitRegistration
<1>2. PICK v \in CurrentTerms(s.docs, t) : accepted' = accepted \cup {[who |-> r, doc |-> v, at |-> t, read |-> d]}
    BY DEF CommitRegistration
<1>3. /\ CallInv(r) /\ d \in Versions /\ d \in CurrentTerms(s.docs, t) /\ t \in Nat /\ t <= now /\ DocsInv(s.docs)
      /\ ~Registered(r) /\ (r \in Cashiers => i \in Invitations /\ inv[i].state = "open")
      /\ now \in 0..MaxTime /\ inv \in Rows
    BY <1>0, <1>1 DEF IInv, CallInv, Calls, RowsInv
<1>4. v = d
    <2>1. t < Never
        BY <1>3 DEF Never, OnboardingAssumption
    <2> QED BY <1>2, <1>3, <2>1, OneCurrent
<1>5. InForce(docs, d, t)
    <2>1. InForce(s.docs, d, t) /\ s.docs[d] = docs[d]
        BY <1>1, <1>3 DEF CurrentTerms, AllInForce, RegistrationCrosses
    <2> QED BY <2>1 DEF InForce
<1> DEFINE new == [who |-> r, doc |-> d, at |-> t, read |-> d]
<1>6. accepted' = accepted \cup {new}
    BY <1>2, <1>4
<1>7. new \in Acceptances /\ new.at = t /\ new.doc = d /\ new.read = d /\ new.who = r
    BY <1>3 DEF Acceptances
<1> HIDE DEF new
<1>8. AcceptedInv'
    BY <1>1, <1>3, <1>5, <1>6, <1>7 DEF IInv, AcceptedInv
<1>9. \A q \in Registrants : Registered(q)' <=> (Registered(q) \/ q = r)
    BY <1>6, <1>7 DEF Registered
<1>10. ASSUME r \in Cashiers PROVE RowsInv'
    <2>1. i \in Invitations /\ inv[i].state = "open" /\ inv' = [inv EXCEPT ![i].state = "redeemed", ![i].by = r]
        BY <1>1, <1>3, <1>10
    <2> DEFINE row == [[inv[i] EXCEPT !.state = "redeemed"] EXCEPT !.by = r]
    <2>2. inv' = [inv EXCEPT ![i] = row]
        BY <1>3, <2>1 DEF Rows
    <2>3. /\ row \in [state : {"none", "open", "revoked", "redeemed"}, expires : Nat, by : Cashiers \cup {NoOne}]
          /\ row.state = "redeemed" /\ row.by = r
        BY <1>3, <1>10, <2>1 DEF Rows
    <2> HIDE DEF row
    <2> HIDE DEF i
    <2>4. inv' \in Rows /\ inv'[i] = row /\ \A k \in Invitations \ {i} : inv'[k] = inv[k]
        <3> DEFINE R == [state : {"none", "open", "revoked", "redeemed"}, expires : Nat, by : Cashiers \cup {NoOne}]
        <3>1. inv \in [Invitations -> R] /\ row \in R
            BY <1>3, <2>3 DEF Rows
        <3> HIDE DEF R
        <3>2. inv' \in [Invitations -> R] /\ inv'[i] = row /\ \A k \in Invitations \ {i} : inv'[k] = inv[k]
            BY <2>1, <2>2, <3>1
        <3> QED BY <3>2 DEF R, Rows
    <2>5. \A k \in Invitations, q \in Cashiers :
              k \in RedeemedBy(q)' <=> inv'[k].state = "redeemed" /\ inv'[k].by = q
        BY DEF RedeemedBy
    <2>6. \A k \in Invitations, q \in Cashiers :
              k \in RedeemedBy(q) <=> inv[k].state = "redeemed" /\ inv[k].by = q
        BY DEF RedeemedBy
    <2>7. \A q \in Cashiers : RedeemedBy(q) \subseteq Invitations /\ RedeemedBy(q)' \subseteq Invitations
        BY DEF RedeemedBy
    <2>8. RedeemedBy(r)' = {i}
        <3>1. RedeemedBy(r) = {}
            BY <1>3, <1>10 DEF IInv, RowsInv
        <3>2. \A k \in Invitations : k \in RedeemedBy(r)' <=> k = i
            <4>1. i \in RedeemedBy(r)'
                BY <1>10, <2>1, <2>3, <2>4, <2>5
            <4>2. ASSUME NEW k \in Invitations \ {i} PROVE k \notin RedeemedBy(r)'
                <5>1. inv'[k] = inv[k] /\ k \notin RedeemedBy(r)
                    BY <2>4, <3>1
                <5> QED BY <1>10, <2>5, <2>6, <5>1
            <4> QED BY <4>1, <4>2
        <3> QED BY <1>10, <2>1, <2>7, <3>2
    <2>9. ASSUME NEW q \in Cashiers \ {r} PROVE RedeemedBy(q)' = RedeemedBy(q)
        <3>1. ASSUME NEW k \in Invitations PROVE k \in RedeemedBy(q)' <=> k \in RedeemedBy(q)
            <4>1. CASE k = i
                <5>1. k \notin RedeemedBy(q)
                    BY <2>1, <2>6, <4>1
                <5>2. inv'[k].by # q
                    BY <2>3, <2>4, <4>1
                <5>3. k \notin RedeemedBy(q)'
                    BY <2>5, <5>2
                <5> QED BY <5>1, <5>3
            <4>2. CASE k # i
                <5>1. inv'[k] = inv[k]
                    BY <2>4, <4>2
                <5> QED BY <2>5, <2>6, <5>1
            <4> QED BY <4>1, <4>2
        <3> QED BY <2>7, <3>1
    <2>10. RowsInv'
        <3>1. ASSUME NEW q \in Cashiers
              PROVE  /\ Registered(q)' => \E k \in Invitations : RedeemedBy(q)' = {k}
                     /\ ~Registered(q)' => RedeemedBy(q)' = {}
            <4>1. CASE q = r
                BY <1>0, <1>9, <2>1, <2>8, <4>1
            <4>2. CASE q # r
                BY <1>9, <2>9, <4>2, ProcFacts DEF IInv, RowsInv
            <4> QED BY <4>1, <4>2
        <3>2. \A k \in Invitations : inv'[k].state = "redeemed" <=> inv'[k].by \in Cashiers
            BY <1>10, <2>3, <2>4 DEF IInv, RowsInv
        <3> QED BY <2>4, <3>1, <3>2 DEF RowsInv
    <2> QED BY <2>10
<1>11. ASSUME r \notin Cashiers PROVE RowsInv'
    <2>1. inv' = inv
        BY <1>1, <1>11
    <2>2. \A q \in Cashiers : Registered(q)' <=> Registered(q)
        BY <1>9, <1>11, ProcFacts
    <2> QED BY <2>1, <2>2 DEF IInv, RowsInv, RedeemedBy
<1>12. ASSUME NEW q \in Procs PROVE CallInv(q)'
    <2>1. CASE q = r
        BY <1>0, <1>1, <2>1, EndEffect, IdleCall
    <2>2. CASE q # r
        <3>1. CallInv(q) /\ CallInv(r)
            BY <1>3 DEF IInv
        <3>2. tx[q].step # "written"
            BY <1>1, <2>2, <3>1 DEF CallInv, Holding
        <3>3. Registered(q)' => Registered(q)
            BY <1>6, <1>7, <2>2 DEF Registered
        <3>4. tx'[q] = tx[q] /\ (lock' = q <=> lock = q)
            BY <1>0, <1>1, <2>2, EndEffect
        <3> QED BY <1>1, <3>1, <3>2, <3>3, <3>4, CallKept
    <2> QED BY <2>1, <2>2
<1>13. DocsInv(docs)' /\ now' \in 0..MaxTime
    BY <1>1 DEF IInv
<1> QED BY <1>0, <1>1, <1>8, <1>10, <1>11, <1>12, <1>13, EndEffect DEF IInv

\* The invariant holds at the start.
LEMMA InitInv ==
    ASSUME OnboardingAssumption, Init PROVE IInv
<1>1. Published(docs) = {} /\ docs \in Docs /\ \A v \in Versions : docs[v] = Unpublished
    BY DEF Init, Published, Unpublished, Docs, Never, OnboardingAssumption
<1>2. DocsInv(docs)
    BY <1>1 DEF DocsInv
<1>3. inv \in Rows /\ \A i \in Invitations : inv[i].state = "none" /\ inv[i].by = NoOne
    BY DEF Init, Rows
<1>4. RowsInv
    BY <1>3 DEF RowsInv, Init, Registered, RedeemedBy, OnboardingAssumption
<1>5. tx \in [Procs -> Calls] /\ \A p \in Procs : tx[p].step = "idle" /\ lock # p
    BY IdleType, ProcFacts DEF Init
<1>6. \A p \in Procs : CallInv(p)
    BY <1>5 DEF CallInv, Holding
<1>7. AcceptedInv /\ now \in 0..MaxTime /\ lock \in Procs \cup {NoOne}
    BY DEF Init, AcceptedInv, OnboardingAssumption
<1> QED BY <1>2, <1>4, <1>5, <1>6, <1>7 DEF IInv

\* A step that changes nothing keeps the invariant.
LEMMA StutterStep ==
    ASSUME IInv, UNCHANGED vars PROVE IInv'
BY DEF vars, IInv, AcceptedInv, RowsInv, CallInv, Registered, RedeemedBy

\* The invariant holds in every reachable state, for any number of documents,
\* operators, registrations and invitations.
THEOREM Invariance ==
    ASSUME OnboardingAssumption PROVE Spec => []IInv
<1>1. IInv /\ [Next]_vars => IInv'
    <2> SUFFICES ASSUME IInv, [Next]_vars PROVE IInv'
        OBVIOUS
    <2>1. ASSUME NEW p \in Publishers, Publication(p) PROVE IInv'
        BY <2>1, PublishTermsStep, DecidePublicationStep, CommitPublicationStep, RefuseStep
           DEF Publication, EndsPublication
    <2>2. ASSUME NEW r \in Registrants, Registration(r) PROVE IInv'
        BY <2>2, ReadTermsStep, RegisterStep, AcceptTermsStep, RedeemInvitationStep,
           CommitRegistrationStep,
           RefuseStep DEF Registration, EndsRegistration
    <2> QED BY <2>1, <2>2, ProceedStep, RowsStep, StutterStep DEF Next
<1> QED BY <1>1, InitInv, PTL DEF Spec

\* Whatever publications, registrations and revocations race (publishTerms,
\* registerCashier, registerClient, revokeCashierInvitation): acceptances lie
\* in the windows of their documents, windows do not overlap, what was accepted
\* was read, and an invitation admits one cashier.
THEOREM OnboardingIsSafe ==
    ASSUME OnboardingAssumption PROVE Spec => []OnboardingSafe
<1>1. ASSUME IInv PROVE TypeOK
    <2>1. ASSUME NEW v \in Versions, docs[v] # Unpublished
          PROVE  docs[v].from \in Dates /\ docs[v].to \in docs[v].from + 1..Never
        BY <1>1, <2>1 DEF IInv, DocsInv
    <2>2. \A a \in accepted : a.who \in Registrants /\ a.doc \in Versions /\ a.at \in 0..now
        BY <1>1 DEF IInv, AcceptedInv, Acceptances, OnboardingAssumption
    <2>3. \A i \in Invitations : inv[i].state \in {"none", "open", "revoked", "redeemed"}
                                 /\ (inv[i].state = "redeemed" <=> inv[i].by \in Cashiers)
        BY <1>1 DEF IInv, RowsInv, Rows
    <2>4. \A p \in Procs : tx[p].step \in Steps /\ tx[p].tries \in 0..MaxAttempts - 1
                           /\ (lock = p <=> tx[p].step \in {"locked", "accepted", "written"})
        BY <1>1 DEF IInv, Calls, CallInv, Holding
    <2> QED BY <1>1, <2>1, <2>2, <2>3, <2>4 DEF IInv, TypeOK
<1>2. ASSUME IInv PROVE AcceptancesInForce /\ OneInForce /\ AcceptedWasRead
    BY <1>2 DEF IInv, AcceptedInv, DocsInv, AcceptancesInForce, OneInForce, AcceptedWasRead
<1>3. ASSUME IInv PROVE InvitationAdmitsOne
    <2> SUFFICES ASSUME NEW r \in Cashiers
                 PROVE  Cardinality(RedeemedBy(r)) = IF Registered(r) THEN 1 ELSE 0
        BY DEF InvitationAdmitsOne, RedeemedBy
    <2>1. CASE Registered(r)
        BY <1>3, <2>1, FS_Singleton DEF IInv, RowsInv
    <2>2. CASE ~Registered(r)
        BY <1>3, <2>2, FS_EmptySet DEF IInv, RowsInv
    <2> QED BY <2>1, <2>2
<1>4. IInv => OnboardingSafe
    BY <1>1, <1>2, <1>3 DEF OnboardingSafe
<1> QED BY <1>4, Invariance, PTL
=============================================================================
