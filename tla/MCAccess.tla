------------------------------ MODULE MCAccess ------------------------------
(* Instances of AccountAccess, AdminMfa, AdminSessions and Onboarding for    *)
(* TLC, in one run. They share no state: `part` names the component that     *)
(* runs, who takes part and for how long, and the others stay as they begin. *)
EXTENDS AccountServices, Onboarding, TLC

CONSTANTS
    l3,              \* AccountAccess
    s1, s2, y3,      \* AdminMfa
    q1, q2, q3,      \* AdminSessions
    v2, p2           \* Onboarding

VARIABLE part

account == <<ops, acct, request, codes, gen, spent, login, aSess, reset, rotation>>
mfa == <<sess, key, chals, batch, mCodes, recoveries, call>>
sessions == <<sSess, req>>
runVars == <<part, clock, account, mfa, sessions, vars>>

\* Three requests of one session.
RequestsOfOne == q1 :> s1 @@ q2 :> s1 @@ q3 :> s1

ASSUME InstanceAssumption ==
    /\ Access!AccessAssumption /\ Mfa!MfaAssumption /\ Admins!SessionsAssumption
    /\ OnboardingAssumption

RunInit ==
    /\ part \in {"access", "lock", "mfa", "limit", "admins", "terms", "invitations"}
    /\ Access!Init /\ Mfa!Init /\ Admins!Init /\ Init

\* Two logins that overlap with resets and a rotation.
AccessStep ==
    /\ part = "access" /\ Access!Next /\ UNCHANGED <<part, mfa, sessions, vars>>
    /\ clock' <= 2 /\ UNCHANGED login[l3]

\* Three attempts that lock the account.
LockStep ==
    /\ part = "lock" /\ Access!Next /\ UNCHANGED <<part, mfa, sessions, vars>>
    /\ clock' <= 3 /\ ops' <= 1 /\ UNCHANGED <<reset, rotation>>

\* Two sessions of an administrator with two passkeys.
MfaStep ==
    /\ part = "mfa" /\ Mfa!Next /\ UNCHANGED <<part, account, sessions, vars>>
    /\ clock' <= 3 /\ Cardinality(chals') <= 2
    /\ \A c \in Calls : "key" \in DOMAIN call'[c] => call'[c].key # y3

\* One session that reaches the limit of passkeys.
LimitStep ==
    /\ part = "limit" /\ Mfa!Next /\ UNCHANGED <<part, account, sessions, vars>>
    /\ clock' <= 1 /\ UNCHANGED sess[s2]

AdminsStep ==
    /\ part = "admins" /\ Admins!Next /\ UNCHANGED <<part, account, mfa, vars>>
    /\ UNCHANGED sSess[s2]

\* Two publications and a registration that race.
TermsStep ==
    /\ part = "terms" /\ Next /\ UNCHANGED <<part, clock, account, mfa, sessions>>
    /\ UNCHANGED inv /\ \A r \in Cashiers : UNCHANGED tx[r]

\* Two cashiers who race for an invitation.
InvitationsStep ==
    /\ part = "invitations" /\ Next /\ UNCHANGED <<part, clock, account, mfa, sessions>>
    /\ \A p \in Clients \cup {p2} : UNCHANGED tx[p]
    /\ \A p \in Publishers : tx'[p].doc # v2

RunNext ==
    \/ AccessStep \/ LockStep \/ MfaStep \/ LimitStep \/ AdminsStep
    \/ TermsStep \/ InvitationsStep

RunSpec == RunInit /\ [][RunNext]_runVars
=============================================================================
