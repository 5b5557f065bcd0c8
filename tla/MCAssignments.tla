--------------------------- MODULE MCAssignments ---------------------------
(* Instances of Assignments for TLC, in one run: a team of three cashiers at  *)
(* work, where a selection has a choice, and two cashiers from the beginning. *)
(* `part` names the instance.                                                *)
EXTENDS Assignments, TLC

CONSTANT c3

VARIABLE part

Pair == Cashiers \ {c3}

Two == INSTANCE Assignments WITH
    Cashiers <- Pair, ASSIGNMENT_BATCH_SIZE <- 1, BACKOFF_MAX <- 1, BACKOFF_EXPONENT <- 0

\* A team at work, as a few registrations and activations lead to: every
\* cashier is available for an unlimited period and serves some clients.
StaffedInit ==
    /\ account = [u \in Clients \cup Cashiers |-> "ACTIVE"]
    /\ approved = Cashiers /\ resetRequired = {}
    /\ subscribed = Cashiers /\ periodLeft = [c \in Cashiers |-> Unlimited]
    /\ lookup = [k \in Clients |-> None]
    /\ \E serves \in [Clients -> Cashiers] :
         active = {<<k, serves[k]>> : k \in Clients}
    /\ pending = {}
    /\ attemptCount = [k \in Clients |-> 0] /\ retryIn = [k \in Clients |-> 0]
    /\ blocks = {} /\ reviews = {}
    /\ listed = active

\* Bounds of the team: one block, no deletion, no reset.
TeamBounds ==
    part = "team" =>
        /\ Cardinality(blocks) <= 1 /\ resetRequired = {}
        /\ \A u \in Clients \cup Cashiers : account[u] # "DELETED"

PartsInit == (part = "team" /\ StaffedInit) \/ (part = "two" /\ Two!Init)
TeamStep == part = "team" /\ Next /\ UNCHANGED part
TwoStep == part = "two" /\ Two!Next /\ UNCHANGED part
PartsNext == TeamStep \/ TwoStep
PartsSpec == PartsInit /\ [][PartsNext]_<<vars, part>>

\* Two states of the pair are images of each other only under permutations that
\* keep the pair: their functions have it as domain.
UserSymmetry == Permutations(Clients) \cup Permutations(Cashiers)

-----------------------------------------------------------------------------
\* selectLeastLoadedCashier over a batch: the clients that one transaction
\* places are spread over the team.
LeastLoaded == [][part = "team" => PlacedEvenly]_<<vars, part>>
=============================================================================
