------------------------------ MODULE Realtime ------------------------------
(***************************************************************************)
(* The sockets of the two users of a conversation and the events sent to   *)
(* them (realtime/chat.gateway.ts and realtime/realtime.service.ts).  A    *)
(* socket is admitted by a read of its session and watched by a timer; an  *)
(* event is four awaits: the conversation is read, the sockets of the room *)
(* are fetched, their sessions are read, and the conversation is read      *)
(* again before the event is emitted.  Between any two of them sessions    *)
(* end, the conversation ends and sockets come and go.                     *)
(***************************************************************************)
EXTENDS Naturals, FiniteSets

CONSTANTS
    Users, Sessions, Sockets,
    Owner,               \* the user of each session
    Cookie,              \* the session each socket is opened with
    Ops,                 \* the events: a kind with its user (HTTP) or socket
    MaxEnds, MaxLapses   \* bounds: ends of sessions, ends of the subscription

HttpKinds == {"message", "receipt"}
SocketKinds == {"online", "offline", "typing"}

RealtimeAssumption ==
    /\ \E u, v \in Users : u # v /\ Users = {u, v}
    /\ Owner \in [Sessions -> Users] /\ Cookie \in [Sockets -> Sessions]
    /\ Ops \subseteq HttpKinds \X Users \cup SocketKinds \X Sockets
    /\ MaxEnds \in Nat /\ MaxLapses \in Nat

VARIABLES
    ended,        \* sessions: "no", "expired" or "revoked"
    suspended,    \* users suspended or deleted
    subscribed,   \* the subscription of the cashier runs
    lapses,       \* how often it ran out
    expired,      \* the message of the HTTP events is past its retention
    kick,         \* users whose disconnectUser is still to be carried out
    conn,         \* progress of handleConnection
    up,           \* sockets that are connected
    known,        \* sockets with client.data.user
    timers,       \* sockets with a revalidation timer
    room,         \* sockets that joined the room of their user
    before,       \* history: the room when each socket joined
    closing,      \* sockets another instance was asked to close
    op,           \* the events in progress
    got           \* history: the events each socket received

base == <<ended, suspended, subscribed, lapses, expired>>
socks == <<conn, up, known, timers, room, before, closing>>
vars == <<base, kick, socks, op, got>>

UserOf(s) == Owner[Cookie[s]]
Peer(u) == CHOOSE v \in Users : v # u
RoomOf(u) == {s \in room : UserOf(s) = u}
Gone == {x \in Sessions : ended[x] # "no"}

Init ==
    /\ ended = [x \in Sessions |-> "no"]
    /\ suspended = {} /\ subscribed = TRUE /\ lapses = 0 /\ expired = FALSE
    /\ kick = {}
    /\ conn = [s \in Sockets |-> "new"]
    /\ up = {} /\ known = {} /\ timers = {} /\ room = {} /\ closing = {}
    /\ before = [s \in Sockets |-> {}]
    /\ op = [o \in Ops |-> [stage |-> "idle", socks |-> {}, gone |-> {}]]
    /\ got = [s \in Sockets |-> {}]

-----------------------------------------------------------------------------
(* Sessions, accounts and the conversation *)

Expire(x) ==
    /\ ended[x] = "no" /\ Cardinality(Gone) < MaxEnds
    /\ ended' = [ended EXCEPT ![x] = "expired"]
    /\ UNCHANGED <<suspended, subscribed, lapses, expired, kick, socks, op, got>>

\* logout closes no socket.
Logout(x) ==
    /\ ended[x] = "no" /\ Cardinality(Gone) < MaxEnds
    /\ ended' = [ended EXCEPT ![x] = "revoked"]
    /\ UNCHANGED <<suspended, subscribed, lapses, expired, kick, socks, op, got>>

\* The device of the session is revoked; disconnectUser follows the commit.
RevokeDevice(x) ==
    /\ ended[x] = "no" /\ Cardinality(Gone) < MaxEnds
    /\ ended' = [ended EXCEPT ![x] = "revoked"]
    /\ kick' = kick \cup {Owner[x]}
    /\ UNCHANGED <<suspended, subscribed, lapses, expired, socks, op, got>>

\* suspend and delete
Suspend(u) ==
    /\ u \notin suspended /\ Cardinality(Gone) < MaxEnds
    /\ suspended' = suspended \cup {u}
    /\ ended' = [x \in Sessions |-> IF Owner[x] = u /\ ended[x] = "no" THEN "revoked" ELSE ended[x]]
    /\ kick' = kick \cup {u}
    /\ UNCHANGED <<subscribed, lapses, expired, socks, op, got>>

Lapse ==
    /\ subscribed /\ lapses < MaxLapses
    /\ subscribed' = FALSE /\ lapses' = lapses + 1
    /\ UNCHANGED <<ended, suspended, expired, kick, socks, op, got>>

Renew ==
    /\ ~subscribed /\ subscribed' = TRUE
    /\ UNCHANGED <<ended, suspended, lapses, expired, kick, socks, op, got>>

ExpireMessage ==
    /\ ~expired /\ expired' = TRUE
    /\ UNCHANGED <<ended, suspended, subscribed, lapses, kick, socks, op, got>>

\* ELIGIBILITY_PREDICATES; the events of a message also ask for its retention.
Current(o) ==
    /\ subscribed /\ suspended = {}
    /\ o[1] \in HttpKinds => ~expired

-----------------------------------------------------------------------------
(* Events *)

From(o) == IF o[1] \in HttpKinds THEN o[2] ELSE UserOf(o[2])
Targets(o) == IF o[1] = "message" THEN Users ELSE {Peer(From(o))}

Started(ops, o, stage) ==
    IF o \in Ops THEN [ops EXCEPT ![o] = [stage |-> stage, socks |-> {}, gone |-> Gone]] ELSE ops

\* Mutant: the room is not left.
LeavesNot(C) ==
    /\ up' = up \ C /\ timers' = timers \ C /\ closing' = closing \ C
    /\ UNCHANGED room

\* A socket closes: handleDisconnect clears its timers and, when it had a user,
\* goes on to count the sockets that are left.
Leaves(C) ==
    /\ up' = up \ C /\ timers' = timers \ C /\ closing' = closing \ C
    /\ room' = room \ C

Counting(ops, C) ==
    [o \in Ops |-> IF o[1] = "offline" /\ o[2] \in C \cap known
                   THEN [stage |-> "count", socks |-> {}, gone |-> Gone] ELSE ops[o]]

Close(C) ==
    /\ Leaves(C)
    /\ op' = Counting(op, C)
    /\ UNCHANGED <<base, kick, conn, known, before, got>>

Stage(o, stage) == op' = [op EXCEPT ![o].stage = stage]

\* notifyMessage and notifyReceipt, called once the transaction committed.
Notify(o) ==
    /\ o[1] \in HttpKinds /\ op[o].stage = "idle" /\ Current(o)
    /\ op' = Started(op, o, "first")
    /\ UNCHANGED <<base, kick, socks, got>>

\* A conversation:typing packet of a known socket.
Packet(o) ==
    /\ o[1] = "typing" /\ o[2] \in up \cap known /\ op[o].stage = "idle"
    /\ op' = Started(op, o, "auth")
    /\ UNCHANGED <<base, kick, socks, got>>

\* Mutant: the packet is believed because the socket is connected.
TrustedPacket(s) == s \in up

\* revalidateSession on behalf of the packet.
ValidPacket(s) == s \in up /\ Cookie[s] \notin Gone

AuthorizePacket(o) ==
    /\ op[o].stage = "auth"
    /\ \/ /\ ValidPacket(o[2]) /\ Stage(o, "first")
          /\ UNCHANGED <<base, kick, socks, got>>
       \/ /\ ~ValidPacket(o[2])
          /\ Leaves({o[2]} \cap up)
          /\ op' = [Counting(op, {o[2]} \cap up) EXCEPT ![o].stage = "done"]
          /\ UNCHANGED <<base, kick, conn, known, before, got>>

\* connectedSocketCount in handleDisconnect
CountSockets(o) ==
    /\ op[o].stage = "count"
    /\ Stage(o, IF RoomOf(From(o)) = {} THEN "first" ELSE "done")
    /\ UNCHANGED <<base, kick, socks, got>>

\* The first read of the conversation.
FirstCheck(o) ==
    /\ op[o].stage = "first"
    /\ Stage(o, IF Current(o) THEN "fetch" ELSE "done")
    /\ UNCHANGED <<base, kick, socks, got>>

Fetch(o) ==
    LET S == UNION {RoomOf(u) : u \in Targets(o)} IN
    /\ op[o].stage = "fetch"
    /\ op' = [op EXCEPT ![o].socks = S, ![o].stage = IF S = {} THEN "done" ELSE "query"]
    /\ UNCHANGED <<base, kick, socks, got>>

\* Mutant: whoever is in the room may hear.
AuthorizedAll(S) == S

\* authorizedSockets: the sessions in force.
Authorized(S) == {s \in S : Cookie[s] \notin Gone}

QuerySessions(o) ==
    LET A == Authorized(op[o].socks) IN
    /\ op[o].stage = "query"
    /\ op' = [op EXCEPT ![o].socks = A, ![o].stage = IF A = {} THEN "done" ELSE "final"]
    /\ closing' = closing \cup ((op[o].socks \ A) \cap up)
    /\ UNCHANGED <<base, kick, conn, up, known, timers, room, before, got>>

\* Mutant: the first read of the conversation is enough.
StillCurrentOnce(o) == TRUE

StillCurrent(o) == Current(o)

\* The last read of the conversation, and the emits in the same turn.
Emit(o) ==
    /\ op[o].stage = "final" /\ Stage(o, "done")
    /\ got' = IF StillCurrent(o)
              THEN [s \in Sockets |-> IF s \in op[o].socks \cap up THEN got[s] \cup {o} ELSE got[s]]
              ELSE got
    /\ UNCHANGED <<base, kick, socks>>

-----------------------------------------------------------------------------
(* Sockets *)

\* A connection with the cookie of a session, which may have ended before.
Connect(s) ==
    /\ conn[s] = "new"
    /\ conn' = [conn EXCEPT ![s] = "principal"]
    /\ up' = up \cup {s}
    /\ UNCHANGED <<base, kick, known, timers, room, before, closing, op, got>>

\* A rate limit, or getSessionPrincipal, refuses.
Refuse(s) ==
    /\ conn[s] = "principal" /\ conn' = [conn EXCEPT ![s] = "done"]
    /\ Leaves({s})
    /\ UNCHANGED <<base, kick, known, before, op, got>>

ReadPrincipal(s) ==
    /\ conn[s] = "principal" /\ Cookie[s] \notin Gone
    /\ conn' = [conn EXCEPT ![s] = "granted"]
    /\ UNCHANGED <<base, kick, up, known, timers, room, before, closing, op, got>>

\* Mutant: only the first socket of the room announces its user.
AnnouncesFirst(s) == RoomOf(UserOf(s)) = {}

Announces(s) == TRUE

\* Mutant: no timer watches the socket.
WatchedNever(s) == {}

Watched(s) == {s}

\* The rest of handleConnection once the principal has arrived.  scheduleExpiry
\* closes the socket at once when the session ran out meanwhile, and a socket
\* that is no longer connected joins no room; both still announce their user.
Establish(s) ==
    LET closes == s \in up /\ ended[Cookie[s]] = "expired"
        joins  == s \in up /\ ~closes
        opened == IF Announces(s) THEN Started(op, <<"online", s>>, "first") ELSE op
    IN
    /\ conn[s] = "granted" /\ conn' = [conn EXCEPT ![s] = "done"]
    /\ known' = known \cup {s}
    /\ up' = IF closes THEN up \ {s} ELSE up
    /\ timers' = IF closes THEN timers ELSE timers \cup Watched(s)
    /\ room' = IF joins THEN room \cup {s} ELSE room
    /\ before' = IF joins THEN [before EXCEPT ![s] = room] ELSE before
    /\ op' = IF closes THEN Started(opened, <<"offline", s>>, "count") ELSE opened
    /\ UNCHANGED <<base, kick, closing, got>>

\* The timer, or that of the expiry, finds that the session has ended.
Revalidate(s) ==
    /\ s \in timers \cap up \cap known /\ Cookie[s] \in Gone
    /\ Close({s})

\* The client goes away.
Leave(s) == s \in up /\ Close({s})

\* A request to close a socket arrives at the instance that holds it.
CloseRequested(s) == s \in closing \cap up /\ Close({s})

\* disconnectUser reaches the sockets of the room.
DisconnectUser(u) ==
    /\ u \in kick /\ kick' = kick \ {u}
    /\ Leaves(RoomOf(u)) /\ op' = Counting(op, RoomOf(u))
    /\ UNCHANGED <<base, conn, known, before, got>>

\* The process ends between the commit and disconnectUser.
CrashBeforeDisconnect(u) ==
    /\ u \in kick /\ kick' = kick \ {u}
    /\ UNCHANGED <<base, socks, op, got>>

-----------------------------------------------------------------------------

Session(x) == Expire(x) \/ Logout(x) \/ RevokeDevice(x)
User(u) == Suspend(u) \/ DisconnectUser(u) \/ CrashBeforeDisconnect(u)
Event(o) ==
    \/ Notify(o) \/ Packet(o) \/ AuthorizePacket(o) \/ CountSockets(o)
    \/ FirstCheck(o) \/ Fetch(o) \/ QuerySessions(o) \/ Emit(o)
Handshake(s) == ReadPrincipal(s) \/ Refuse(s) \/ Establish(s)
Socket(s) ==
    \/ Connect(s) \/ Handshake(s) \/ Revalidate(s) \/ Leave(s) \/ CloseRequested(s)

Next ==
    \/ \E x \in Sessions : Session(x)
    \/ \E u \in Users : User(u)
    \/ Lapse \/ Renew \/ ExpireMessage
    \/ \E o \in Ops : Event(o)
    \/ \E s \in Sockets : Socket(s)

Spec == Init /\ [][Next]_vars

-----------------------------------------------------------------------------
(* Properties *)

\* The state keeps its shape, and a room holds connected sockets of known
\* users only: fetchSockets never returns a closed one of this instance.
TypeOK ==
    /\ ended \in [Sessions -> {"no", "expired", "revoked"}]
    /\ suspended \subseteq Users /\ kick \subseteq Users
    /\ subscribed \in BOOLEAN /\ expired \in BOOLEAN /\ lapses \in 0..MaxLapses
    /\ conn \in [Sockets -> {"new", "principal", "granted", "done"}]
    /\ up \subseteq Sockets /\ known \subseteq Sockets /\ timers \subseteq known
    /\ room \subseteq up \cap known /\ closing \subseteq up
    /\ before \in [Sockets -> SUBSET Sockets]
    /\ op \in [Ops -> [stage : {"idle", "auth", "count", "first", "fetch", "query", "final", "done"},
                       socks : SUBSET Sockets, gone : SUBSET Sessions]]
    /\ got \in [Sockets -> SUBSET Ops]

\* The events that a step delivers to a socket.
Received(s) == got'[s] \ got[s]

\* An ended session hears nothing of an event that began after its end, even on
\* a socket that joined its room after disconnectUser had passed or that
\* disconnectUser never reached (the session query of authorizedSockets).
NothingToEnded ==
    [][\A s \in Sockets : \A o \in Received(s) : Cookie[s] \notin op[o].gone]_vars

\* Nobody is shown the typing of a socket whose session had ended when the
\* packet came: authorizePacket reads the session of every packet.
NothingFromEnded ==
    [][\A s \in Sockets : \A o \in Received(s) :
         o[1] = "typing" => Cookie[o[2]] \notin op[o].gone]_vars

\* No event arrives once the conversation has ended, a user is suspended or the
\* message is past its retention, whatever the first read said (the last read
\* of notifyMessage, notifyReceipt, emitTyping and emitPresence).
NothingAfterEnd == [][\A s \in Sockets : \A o \in Received(s) : Current(o)]_vars

\* A user who connects is announced to the sockets of the counterpart that were
\* there, also when several connections are accepted at the same time
\* (handleConnection emits on every connection).
OnlineReaches ==
    \A t \in room, s \in Sockets :
        /\ <<"online", t>> \in Ops
        /\ \A o \in Ops : o[1] = "online" /\ From(o) = UserOf(t) => op[o].stage \in {"idle", "done"}
        /\ s \in before[t] \cap room /\ UserOf(s) # UserOf(t)
        /\ Cookie[s] \notin Gone /\ lapses = 0 /\ suspended = {}
        => \E o \in got[s] : o[1] = "online" /\ UserOf(o[2]) = UserOf(t)

\* A socket of an ended session is closed in the end, although disconnectUser
\* missed it or was lost with its process (the revalidation timer).
EndedSocketsClose ==
    \A s \in Sockets : (s \in up /\ Cookie[s] \in Gone) ~> s \notin up

\* What every delivery observes: nothing to an ended session, nothing from one,
\* nothing once the conversation has ended.
DeliveriesInForce == NothingToEnded /\ NothingFromEnded /\ NothingAfterEnd

\* What every reachable state satisfies: rooms of connected users, and nobody
\* present who was not announced.
RealtimeSafe == TypeOK /\ OnlineReaches
=============================================================================
