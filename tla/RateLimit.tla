----------------------------- MODULE RateLimit -----------------------------
(***************************************************************************)
(* The counters that limit packets and requests (rate-limit/               *)
(* rate-limit.storage.ts and realtime/socket-packet-rate-limit.ts).  A     *)
(* packet passes the bucket of its socket, kept by the process, and then a *)
(* counter that all instances share in Redis.  Both are fixed windows with *)
(* a block: the Lua script and consumeBucket compute the same function.    *)
(* An instance talks to Redis over one connection that is never renewed;   *)
(* commands time out, answers come late, Redis forgets when it restarts    *)
(* and an instance may be shut down while it is still connecting.          *)
(***************************************************************************)
EXTENDS Naturals, FiniteSets

CONSTANTS
    Nodes, Sockets, Requests,
    NodeOf,              \* the instance that holds each socket
    SocketOf,            \* the socket of each packet
    Local, Shared,       \* policies: [limit, ttl, block]
    MaxClock, MaxFaults  \* bounds: instants; lost connections and shutdowns

Policies == [limit : Nat \ {0}, ttl : Nat \ {0}, block : Nat \ {0}]

\* assertPolicy
RateLimitAssumption ==
    /\ Local \in Policies /\ Shared \in Policies
    /\ NodeOf \in [Sockets -> Nodes] /\ SocketOf \in [Requests -> Sockets]
    /\ "redis" \notin Sockets
    /\ MaxClock \in Nat /\ MaxFaults \in Nat

VARIABLES
    clock,
    faults,    \* how often a connection or an instance was lost
    state,     \* of the storage of each instance
    client,    \* instances whose this.client is defined
    link,      \* instances whose connection to Redis is ready
    busy,      \* what each instance awaits: "init" or "close"
    cell,      \* the counters: one for each socket and "redis"
    req,       \* the progress of each packet
    granted    \* history: the packets each counter granted, with the instant

vars == <<clock, faults, state, client, link, busy, cell, req, granted>>

Counters == Sockets \cup {"redis"}
Policy(c) == IF c = "redis" THEN Shared ELSE Local
NoCell == [hits |-> 0, window |-> 0, block |-> 0]

Init ==
    /\ clock = 0 /\ faults = 0
    /\ state = [n \in Nodes |-> "new"] /\ client = {} /\ link = {}
    /\ busy = [n \in Nodes |-> {}]
    /\ cell = [c \in Counters |-> NoCell]
    /\ req = [r \in Requests |-> "idle"]
    /\ granted = [c \in Counters |-> {}]

-----------------------------------------------------------------------------
(* The counter *)

Blocked(k, now) == k.block > now

\* Mutant: the comparison is the wrong way round.
RenewedBefore(k, now) == k.block > 0 \/ k.window >= now

\* The window is over, or it ended in a block that is over.
Renewed(k, now) == k.block > 0 \/ k.window <= now

\* Mutant: one more than the limit.
ExceedsLate(hits, p) == hits > p.limit + 1

Exceeds(hits, p) == hits > p.limit

\* Mutant: a refused request prolongs the block.
WhileBlockedAgain(k, p, now) == [k EXCEPT !.block = now + p.block]

WhileBlocked(k, p, now) == k

Consumed(k, p, now) ==
    LET hits   == IF Renewed(k, now) THEN 1 ELSE k.hits + 1
        window == IF Renewed(k, now) THEN now + p.ttl ELSE k.window
    IN  IF Blocked(k, now) THEN WhileBlocked(k, p, now)
        ELSE [hits |-> hits, window |-> window,
              block |-> IF Exceeds(hits, p) THEN now + p.block ELSE 0]

Grants(k, p, now) == ~Blocked(k, now) /\ ~Blocked(Consumed(k, p, now), now)

\* Counter c is consumed; packet r goes on as "yes" or "no" says.
Consume(c, r, yes, no) ==
    LET grants == Grants(cell[c], Policy(c), clock) IN
    /\ cell' = [cell EXCEPT ![c] = Consumed(cell[c], Policy(c), clock)]
    /\ req' = [req EXCEPT ![r] = IF grants THEN yes ELSE no]
    /\ granted' = IF grants THEN [granted EXCEPT ![c] = @ \cup {<<r, clock>>}] ELSE granted

-----------------------------------------------------------------------------
(* A packet *)

NodeFor(r) == NodeOf[SocketOf[r]]

\* consumeSocketPacketLocally
Arrive(r) ==
    /\ req[r] = "idle"
    /\ Consume(SocketOf[r], r, "local", "refused")
    /\ UNCHANGED <<clock, faults, state, client, link, busy>>

\* Mutant: the state alone says whether Redis can be asked.
UsableByState(n) == state[n] = "ready"

Usable(n) == state[n] = "ready" /\ n \in client \cap link

\* increment: the command is sent, or refused at once.
Increment(r) ==
    /\ req[r] = "local"
    /\ req' = [req EXCEPT ![r] = IF Usable(NodeFor(r)) THEN "sent" ELSE "refused"]
    /\ UNCHANGED <<clock, faults, state, client, link, busy, cell, granted>>

\* Redis runs the script, for a command it received; "late" is one whose
\* caller has given up.
Eval(r) ==
    /\ req[r] \in {"sent", "late"}
    /\ IF req[r] = "sent" THEN Consume("redis", r, "yes", "no")
                          ELSE Consume("redis", r, "refused", "refused")
    /\ UNCHANGED <<clock, faults, state, client, link, busy>>

\* Mutant: who is not answered in time may pass.
UnansweredPasses == "admitted"

Unanswered == "late"

\* withTimeout, or the connection is lost while the answer is awaited.
TimeOut(r) ==
    \/ /\ req[r] = "sent"
       /\ req' = [req EXCEPT ![r] = Unanswered]
       /\ UNCHANGED <<clock, faults, state, client, link, busy, cell, granted>>
    \/ /\ req[r] \in {"yes", "no"}
       /\ req' = [req EXCEPT ![r] = "refused"]
       /\ UNCHANGED <<clock, faults, state, client, link, busy, cell, granted>>

\* A command that never reaches Redis.
Lost(r) ==
    /\ req[r] = "late" /\ req' = [req EXCEPT ![r] = "refused"]
    /\ UNCHANGED <<clock, faults, state, client, link, busy, cell, granted>>

\* parseRedisRateLimitRecord
Answer(r) ==
    /\ req[r] \in {"yes", "no"}
    /\ req' = [req EXCEPT ![r] = IF req[r] = "yes" THEN "admitted" ELSE "refused"]
    /\ UNCHANGED <<clock, faults, state, client, link, busy, cell, granted>>

-----------------------------------------------------------------------------
(* The connection of an instance *)

\* onModuleInit
Start(n) ==
    /\ state[n] = "new"
    /\ state' = [state EXCEPT ![n] = "connecting"]
    /\ client' = client \cup {n} /\ busy' = [busy EXCEPT ![n] = {"init"}]
    /\ UNCHANGED <<clock, faults, link, cell, req, granted>>

LinkUp(n) ==
    /\ "init" \in busy[n] /\ n \notin link /\ link' = link \cup {n}
    /\ UNCHANGED <<clock, faults, state, client, busy, cell, req, granted>>

\* initializeRedis goes on when ping has answered, and does not ask whether the
\* instance was shut down meanwhile.
Ready(n) ==
    /\ "init" \in busy[n] /\ n \in link
    /\ state' = [state EXCEPT ![n] = "ready"]
    /\ busy' = [busy EXCEPT ![n] = @ \ {"init"}]
    /\ UNCHANGED <<clock, faults, client, link, cell, req, granted>>

InitFails(n) ==
    /\ "init" \in busy[n]
    /\ state' = [state EXCEPT ![n] = "unavailable"] /\ link' = link \ {n}
    /\ busy' = [busy EXCEPT ![n] = @ \ {"init"}]
    /\ UNCHANGED <<clock, faults, client, cell, req, granted>>

\* The connection drops; the events of the client tell the storage later.
LinkDown(n) ==
    /\ n \in link /\ faults < MaxFaults
    /\ link' = link \ {n} /\ faults' = faults + 1
    /\ UNCHANGED <<clock, state, client, busy, cell, req, granted>>

OnEnd(n) ==
    /\ n \notin link /\ state[n] = "ready"
    /\ state' = [state EXCEPT ![n] = "unavailable"]
    /\ UNCHANGED <<clock, faults, client, link, busy, cell, req, granted>>

\* onApplicationShutdown, up to the close of the connection.
Shutdown(n) ==
    /\ n \in client /\ faults < MaxFaults /\ faults' = faults + 1
    /\ state' = [state EXCEPT ![n] = "closing"] /\ client' = client \ {n}
    /\ busy' = [busy EXCEPT ![n] = @ \cup {"close"}]
    /\ UNCHANGED <<clock, link, cell, req, granted>>

Closed(n) ==
    /\ "close" \in busy[n]
    /\ state' = [state EXCEPT ![n] = "closed"] /\ link' = link \ {n}
    /\ busy' = [busy EXCEPT ![n] = @ \ {"close"}]
    /\ UNCHANGED <<clock, faults, client, cell, req, granted>>

\* Redis restarts without its counters and every connection is lost.  The
\* history begins again: it is of the counters Redis has.
RedisRestart ==
    /\ faults < MaxFaults /\ faults' = faults + 1
    /\ link' = {}
    /\ cell' = [cell EXCEPT !["redis"] = NoCell]
    /\ granted' = [granted EXCEPT !["redis"] = {}]
    /\ UNCHANGED <<clock, state, client, busy, req>>

\* Time passes, and Redis drops a key past its window and its block.
Tick ==
    LET k == cell["redis"] IN
    /\ clock < MaxClock /\ clock' = clock + 1
    /\ cell' = [cell EXCEPT !["redis"] = IF k.window <= clock + 1 /\ k.block <= clock + 1
                                         THEN NoCell ELSE k]
    /\ UNCHANGED <<faults, state, client, link, busy, req, granted>>

-----------------------------------------------------------------------------

Packet(r) == Arrive(r) \/ Increment(r) \/ Eval(r) \/ TimeOut(r) \/ Lost(r) \/ Answer(r)
Instance(n) ==
    \/ Start(n) \/ LinkUp(n) \/ Ready(n) \/ InitFails(n)
    \/ LinkDown(n) \/ OnEnd(n) \/ Shutdown(n) \/ Closed(n)

Next ==
    \/ \E r \in Requests : Packet(r)
    \/ \E n \in Nodes : Instance(n)
    \/ RedisRestart \/ Tick

Spec == Init /\ [][Next]_vars

-----------------------------------------------------------------------------
(* Properties *)

\* The state keeps its shape, and no counter runs past the hit that blocks it.
TypeOK ==
    /\ clock \in 0..MaxClock /\ faults \in 0..MaxFaults
    /\ state \in [Nodes -> {"new", "connecting", "ready", "unavailable", "closing", "closed"}]
    /\ client \subseteq Nodes /\ link \subseteq Nodes
    /\ busy \in [Nodes -> SUBSET {"init", "close"}]
    /\ \A c \in Counters :
         /\ cell[c].hits \in 0..(Policy(c).limit + 1)
         /\ cell[c].window \in Nat /\ cell[c].block \in Nat
    /\ req \in [Requests -> {"idle", "local", "sent", "late", "yes", "no", "admitted", "refused"}]
    /\ granted \in [Counters -> SUBSET (Requests \X (0..MaxClock))]

\* What a counter grants in an interval.
During(G, from, to) == {g \in G : from <= g[2] /\ g[2] < to}

\* Two windows begin at least this far apart: a window that ended in a block is
\* over with the block, although its own time may run on.
Period(p) == IF p.block < p.ttl THEN p.block ELSE p.ttl

\* A counter grants at most twice its limit less one in any such period, whichever
\* instances and sockets the packets come through: the later grants of one fixed
\* window, for it begins with its first, and all of the next (the Lua script and
\* consumeBucket).
WindowBound ==
    \A c \in Counters, t \in 0..MaxClock :
        Cardinality(During(granted[c], t, t + Period(Policy(c)))) <= 2 * Policy(c).limit - 1

\* A block stands until its instant and is not moved by the requests it refuses
\* (the first branch of the script).
BlockStands ==
    [][\A c \in Counters :
         Blocked(cell[c], clock')
         => cell'[c].block = cell[c].block \/ (c = "redis" /\ RedisRestart)]_vars

\* A packet is admitted only by an answer of Redis that came in time: time-outs,
\* lost connections and late answers all refuse (increment).
FailsClosed ==
    [][\A r \in Requests :
         req'[r] = "admitted" /\ req[r] # "admitted" => req[r] = "yes"]_vars

\* An instance that was shut down sends nothing more, although initializeRedis,
\* when it was still connecting, may declare itself ready afterwards
\* (onApplicationShutdown takes the client away).
NothingAfterShutdown ==
    [][\A r \in Requests :
         req'[r] = "sent" /\ req[r] # "sent" => NodeFor(r) \in client]_vars

\* What every reachable state satisfies: the counters keep to their limits.
LimitsSafe == TypeOK /\ WindowBound

\* What every step observes: a block runs its time, and nothing passes without an
\* answer of Redis to an instance that runs.
LimitsStand == BlockStands /\ FailsClosed /\ NothingAfterShutdown
=============================================================================
