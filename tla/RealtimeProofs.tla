--------------------------- MODULE RealtimeProofs ---------------------------
(***************************************************************************)
(* Proofs about the realtime gateway (Realtime) and the counters that      *)
(* limit its packets (RateLimit), for every value of their constants.      *)
(* Each part has an inductive invariant, a lemma for every action and,     *)
(* from them, the properties that the run of both checks on its instances. *)
(***************************************************************************)
EXTENDS RealtimeServices, FiniteSetTheorems, TLAPS

-----------------------------------------------------------------------------
(* The gateway *)

\* An event in progress.
Progress ==
    [stage : {"idle", "auth", "count", "first", "fetch", "query", "final", "done"},
     socks : SUBSET Sockets, gone : SUBSET Sessions]

\* The sockets in a room, asked to close or met in a room are those whose connection
\* was handled to its end.
GatewaySocketsInv ==
    /\ \A s \in room \cup closing : conn[s] = "done"
    /\ \A t \in Sockets : \A s \in before[t] : conn[s] = "done"

\* Of an event in progress: only packets are authorized and only a disconnection
\* counts sockets; sessions do not come back, so that those that had ended when it
\* began are not among the ones it reaches, nor is the one that a packet came from.
GatewayOpInv(o) ==
    /\ \A s \in op[o].socks : conn[s] = "done"
    /\ op[o].stage = "auth" => o[1] = "typing"
    /\ op[o].stage = "count" => o[1] = "offline"
    /\ op[o].gone \subseteq Gateway!Gone
    /\ op[o].stage = "final" => \A s \in op[o].socks : Cookie[s] \notin op[o].gone
    /\ o[1] = "typing" /\ op[o].stage \in {"first", "fetch", "query", "final"} =>
          Cookie[o[2]] \notin op[o].gone

\* The counterpart is in force and nothing has disturbed the conversation.
GatewayCalm(s, t) == Gateway!UserOf(s) # Gateway!UserOf(t) /\ Cookie[s] \notin Gateway!Gone /\ lapses = 0 /\ suspended = {}

\* How far the announcement of t is: whom it must reach is among its sockets, and
\* has received it once it is done.
GatewayTold(t) ==
    LET o == <<"online", t>> IN
    /\ op[o].stage # "idle"
    /\ \A s \in before[t] \cap room : GatewayCalm(s, t) =>
          /\ op[o].stage \in {"query", "final"} => s \in op[o].socks
          /\ op[o].stage = "done" => o \in got[s]

\* Whoever is in a room is announced as far as the announcement has come.
GatewayAnnounceInv == \A t \in room : <<"online", t>> \in Ops => GatewayTold(t)

\* The subscription that never ran out runs.
GatewayLapseInv == lapses = 0 => subscribed

\* The inductive invariant of the gateway.
GatewayIInv == Gateway!TypeOK /\ GatewaySocketsInv /\ (\A o \in Ops : GatewayOpInv(o)) /\ GatewayAnnounceInv /\ GatewayLapseInv

\* An event is a kind with a user or with a socket.
LEMMA GatewayOpsForm ==
    ASSUME Gateway!RealtimeAssumption, NEW o \in Ops
    PROVE  /\ o = <<o[1], o[2]>>
           /\ o[1] \in Gateway!HttpKinds \cup Gateway!SocketKinds
           /\ o[1] \in Gateway!HttpKinds => o[2] \in Users
           /\ o[1] \in Gateway!SocketKinds => o[2] \in Sockets
BY DEF Gateway!RealtimeAssumption, Gateway!HttpKinds, Gateway!SocketKinds

\* The counterpart is the other of the two users.
LEMMA GatewayPeerIs ==
    ASSUME Gateway!RealtimeAssumption, NEW u \in Users, NEW v \in Users, u # v
    PROVE  Gateway!Peer(u) = v
<1>1. \A w \in Users : w # u => w = v
    BY DEF Gateway!RealtimeAssumption
<1> QED BY <1>1 DEF Gateway!Peer

\* A socket belongs to a user by its session.
LEMMA GatewayUserType ==
    ASSUME Gateway!RealtimeAssumption, NEW s \in Sockets PROVE Gateway!UserOf(s) \in Users /\ Cookie[s] \in Sessions
BY DEF Gateway!RealtimeAssumption, Gateway!UserOf

\* The shape of one event in progress.
LEMMA GatewayOpTypes ==
    ASSUME Gateway!TypeOK, NEW o \in Ops
    PROVE  op \in [Ops -> Progress] /\ op[o] \in Progress
BY DEF Gateway!TypeOK, Progress

\* The shape of the events in progress.
LEMMA GatewayAllOpTypes ==
    ASSUME Gateway!TypeOK PROVE op \in [Ops -> Progress]
BY DEF Gateway!TypeOK, Progress

\* An event that has just begun knows the sessions that have ended and no
\* socket.
LEMMA GatewayFreshOp ==
    ASSUME NEW o \in Ops, NEW st \in {"first", "auth", "count"}, Gateway!Gone' = Gateway!Gone,
           op'[o] = [stage |-> st, socks |-> {}, gone |-> Gateway!Gone],
           st = "auth" => o[1] = "typing", st = "count" => o[1] = "offline", st = "first" => o[1] # "typing"
    PROVE  GatewayOpInv(o)'
<1>1. op'[o].stage = st /\ op'[o].socks = {} /\ op'[o].gone = Gateway!Gone'
    OBVIOUS
<1> QED BY <1>1 DEF GatewayOpInv

\* An event goes on to another stage.
LEMMA GatewayStageEffect ==
    ASSUME Gateway!TypeOK, NEW o \in Ops, NEW st \in {"idle", "auth", "count", "first", "fetch", "query", "final", "done"},
           Gateway!Stage(o, st)
    PROVE  /\ op' \in [Ops -> Progress] /\ \A x \in Ops \ {o} : op'[x] = op[x]
           /\ op'[o].stage = st /\ op'[o].socks = op[o].socks /\ op'[o].gone = op[o].gone
BY GatewayOpTypes DEF Gateway!Stage, Progress

\* An event goes on with other sockets.
LEMMA GatewaySocksEffect ==
    ASSUME Gateway!TypeOK, NEW o \in Ops, NEW st \in {"idle", "auth", "count", "first", "fetch", "query", "final", "done"},
           NEW S \in SUBSET Sockets, op' = [op EXCEPT ![o].socks = S, ![o].stage = st]
    PROVE  /\ op' \in [Ops -> Progress] /\ \A x \in Ops \ {o} : op'[x] = op[x]
           /\ op'[o].stage = st /\ op'[o].socks = S /\ op'[o].gone = op[o].gone
<1> DEFINE q == [op[o] EXCEPT !.socks = S]
<1>1. op \in [Ops -> Progress] /\ op[o] \in Progress
    BY GatewayOpTypes
<1>2. q \in Progress /\ q.socks = S /\ q.gone = op[o].gone
    BY <1>1 DEF Progress
<1>3. op' = [op EXCEPT ![o] = [q EXCEPT !.stage = st]]
    BY <1>1
<1> HIDE DEF q
<1>4. /\ [q EXCEPT !.stage = st] \in Progress /\ [q EXCEPT !.stage = st].stage = st
      /\ [q EXCEPT !.stage = st].socks = S /\ [q EXCEPT !.stage = st].gone = op[o].gone
    BY <1>2 DEF Progress
<1> QED BY <1>1, <1>3, <1>4

\* An event is begun, unless it is not one of those considered.
LEMMA GatewayStartedEffect ==
    ASSUME NEW ops \in [Ops -> Progress], NEW o, NEW st \in {"first", "auth", "count"}
    PROVE  /\ Gateway!Started(ops, o, st) \in [Ops -> Progress]
           /\ \A x \in Ops \ {o} : Gateway!Started(ops, o, st)[x] = ops[x]
           /\ o \in Ops => Gateway!Started(ops, o, st)[o] = [stage |-> st, socks |-> {}, gone |-> Gateway!Gone]
<1>1. [stage |-> st, socks |-> {}, gone |-> Gateway!Gone] \in Progress
    BY DEF Progress, Gateway!Gone
<1> QED BY <1>1 DEF Gateway!Started

\* A disconnection begins to count the sockets that are left.
LEMMA GatewayCountingEffect ==
    ASSUME Gateway!TypeOK, NEW C
    PROVE  /\ Gateway!Counting(op, C) \in [Ops -> Progress]
           /\ \A o \in Ops : \/ Gateway!Counting(op, C)[o] = op[o]
                             \/ /\ o[1] = "offline"
                                /\ Gateway!Counting(op, C)[o] = [stage |-> "count", socks |-> {}, gone |-> Gateway!Gone]
<1>1. [stage |-> "count", socks |-> {}, gone |-> Gateway!Gone] \in Progress
    BY DEF Progress, Gateway!Gone
<1> QED BY <1>1, GatewayOpTypes DEF Gateway!Counting

\* What steps other than the end of a handshake do.
GatewayMoves ==
    /\ \A s \in Sockets : conn[s] = "done" => conn'[s] = "done"
    /\ Gateway!Gone \subseteq Gateway!Gone' /\ (lapses' = 0 => lapses = 0) /\ (suspended' = {} => suspended = {})
    /\ room' \subseteq room /\ before' = before
    /\ \A s \in closing' : conn'[s] = "done"
    /\ \A s \in Sockets : got[s] \subseteq got'[s]

\* A step other than the end of a handshake preserves the invariant when it
\* does so for the events it changes: sockets leave the room but none joins,
\* and sessions end but none comes back.
LEMMA GatewayKept ==
    ASSUME Gateway!RealtimeAssumption, GatewayIInv, Gateway!TypeOK', GatewayLapseInv', GatewayMoves,
           \A o \in Ops : \/ op'[o] = op[o]
                          \/ GatewayOpInv(o)' /\ (o[1] = "online" /\ o[2] \in room' => GatewayTold(o[2])')
    PROVE  GatewayIInv'
<1>1. GatewaySocketsInv'
    <2>1. room \subseteq Sockets /\ before \in [Sockets -> SUBSET Sockets]
        BY DEF GatewayIInv, Gateway!TypeOK
    <2> QED BY <2>1 DEF GatewayIInv, GatewaySocketsInv, GatewayMoves
<1>2. ASSUME NEW o \in Ops PROVE GatewayOpInv(o)'
    <2>1. CASE op'[o] = op[o]
        <3>1. op[o].socks \subseteq Sockets
            BY GatewayOpTypes DEF GatewayIInv, Progress
        <3> QED BY <2>1, <3>1 DEF GatewayIInv, GatewayOpInv, GatewayMoves
    <2> QED BY <2>1
<1>3. ASSUME NEW t \in room', <<"online", t>> \in Ops PROVE GatewayTold(t)'
    <2> DEFINE o == <<"online", t>>
    <2>1. CASE op'[o] = op[o]
        <3>1. t \in room /\ GatewayTold(t)
            BY <1>3 DEF GatewayIInv, GatewayAnnounceInv, GatewayMoves
        <3>2. ASSUME NEW s \in before'[t] \cap room', GatewayCalm(s, t)' PROVE s \in before[t] \cap room /\ GatewayCalm(s, t)
            BY <3>2 DEF GatewayMoves, GatewayCalm, Gateway!UserOf
        <3>3. room \subseteq Sockets
            BY DEF GatewayIInv, Gateway!TypeOK
        <3> QED BY <2>1, <3>1, <3>2, <3>3 DEF GatewayTold, GatewayMoves
    <2>2. CASE o[1] = "online" /\ o[2] \in room' => GatewayTold(o[2])'
        BY <1>3, <2>2
    <2> QED BY <1>3, <2>1, <2>2
<1> QED BY <1>1, <1>2, <1>3 DEF GatewayIInv, GatewayAnnounceInv

\* No socket and no event: the invariant holds.
LEMMA GatewayInitInv ==
    ASSUME Gateway!RealtimeAssumption, Gateway!Init PROVE GatewayIInv
<1>1. Gateway!TypeOK
    <2>1. op \in [Ops -> Progress] /\ before \in [Sockets -> SUBSET Sockets] /\ got \in [Sockets -> SUBSET Ops]
        BY DEF Gateway!Init, Progress
    <2>2. /\ ended \in [Sessions -> {"no", "expired", "revoked"}]
          /\ conn \in [Sockets -> {"new", "principal", "granted", "done"}]
        BY DEF Gateway!Init
    <2>3. subscribed \in BOOLEAN /\ expired \in BOOLEAN
        BY DEF Gateway!Init
    <2>4. lapses \in 0..MaxLapses
        BY DEF Gateway!Init, Gateway!RealtimeAssumption
    <2>5. /\ suspended \subseteq Users /\ kick \subseteq Users
          /\ up \subseteq Sockets /\ known \subseteq Sockets /\ timers \subseteq known
          /\ room \subseteq up \cap known /\ closing \subseteq up
        BY DEF Gateway!Init
    <2> QED BY <2>1, <2>2, <2>3, <2>4, <2>5 DEF Gateway!TypeOK, Progress
<1> QED BY <1>1 DEF Gateway!Init, GatewayIInv, GatewaySocketsInv, GatewayOpInv, GatewayAnnounceInv,
        GatewayLapseInv, Gateway!Gone

\* Sessions, accounts and the conversation change: the invariant is preserved.
LEMMA GatewayWorldStep ==
    ASSUME Gateway!RealtimeAssumption, GatewayIInv,
           \/ \E x \in Sessions : Gateway!Session(x)
           \/ \E u \in Users : Gateway!Suspend(u) \/ Gateway!CrashBeforeDisconnect(u)
           \/ Gateway!Lapse \/ Gateway!Renew \/ Gateway!ExpireMessage \/ UNCHANGED Gateway!vars
    PROVE  GatewayIInv'
<1>1. UNCHANGED <<Gateway!socks, op, got>>
    BY DEF Gateway!Session, Gateway!Expire, Gateway!Logout, Gateway!RevokeDevice, Gateway!Suspend,
       Gateway!CrashBeforeDisconnect, Gateway!Lapse, Gateway!Renew, Gateway!ExpireMessage,
       Gateway!vars
<1>2. /\ ended' \in [Sessions -> {"no", "expired", "revoked"}]
      /\ \A x \in Sessions : ended[x] # "no" => ended'[x] = ended[x]
    BY DEF Gateway!Session, Gateway!Expire, Gateway!Logout, Gateway!RevokeDevice, Gateway!Suspend,
       Gateway!CrashBeforeDisconnect, Gateway!Lapse, Gateway!Renew, Gateway!ExpireMessage,
           Gateway!vars, Gateway!base, GatewayIInv, Gateway!TypeOK
<1>3. suspended' \subseteq Users /\ suspended \subseteq suspended' /\ kick' \subseteq Users
    BY DEF Gateway!Session, Gateway!Expire, Gateway!Logout, Gateway!RevokeDevice, Gateway!Suspend,
       Gateway!CrashBeforeDisconnect, Gateway!Lapse, Gateway!Renew, Gateway!ExpireMessage,
           Gateway!vars, Gateway!base, GatewayIInv, Gateway!TypeOK, Gateway!RealtimeAssumption
<1>4. /\ subscribed' \in BOOLEAN /\ expired' \in BOOLEAN /\ lapses' \in 0..MaxLapses
      /\ (lapses' = 0 => lapses = 0) /\ GatewayLapseInv'
    <2>0. /\ subscribed \in BOOLEAN /\ expired \in BOOLEAN /\ lapses \in 0..MaxLapses
          /\ GatewayLapseInv /\ MaxLapses \in Nat
        BY DEF GatewayIInv, Gateway!TypeOK, Gateway!RealtimeAssumption
    <2>1. CASE UNCHANGED <<subscribed, lapses, expired>>
        BY <2>0, <2>1 DEF GatewayLapseInv
    <2>2. CASE Gateway!Lapse
        <3>1. subscribed' = FALSE /\ expired' = expired /\ lapses' = lapses + 1 /\ lapses < MaxLapses
            BY <2>2 DEF Gateway!Lapse
        <3>2. lapses' \in 0..MaxLapses /\ lapses' # 0
            BY <2>0, <3>1
        <3> QED BY <2>0, <3>1, <3>2 DEF GatewayLapseInv
    <2>3. CASE Gateway!Renew
        BY <2>0, <2>3 DEF Gateway!Renew, GatewayLapseInv
    <2>4. CASE Gateway!ExpireMessage
        BY <2>0, <2>4 DEF Gateway!ExpireMessage, GatewayLapseInv
    <2>5. ASSUME \/ \E x \in Sessions : Gateway!Session(x)
                 \/ \E u \in Users : Gateway!Suspend(u) \/ Gateway!CrashBeforeDisconnect(u)
                 \/ UNCHANGED Gateway!vars
          PROVE UNCHANGED <<subscribed, lapses, expired>>
        BY <2>5 DEF Gateway!Session, Gateway!Expire, Gateway!Logout, Gateway!RevokeDevice,
           Gateway!Suspend, Gateway!CrashBeforeDisconnect, Gateway!vars, Gateway!base
    <2> QED BY <2>1, <2>2, <2>3, <2>4, <2>5
<1>5. Gateway!TypeOK'
    BY <1>1, <1>2, <1>3, <1>4 DEF GatewayIInv, Gateway!TypeOK, Gateway!socks
<1>6. Gateway!Gone \subseteq Gateway!Gone'
    BY <1>2 DEF Gateway!Gone
<1>7. GatewayMoves
    BY <1>1, <1>3, <1>4, <1>6 DEF GatewayMoves, Gateway!socks, GatewayIInv, GatewaySocketsInv
<1> QED BY <1>1, <1>4, <1>5, <1>7, GatewayKept

\* Sockets that close leave the room.
LEMMA GatewayLeavesEffect ==
    ASSUME GatewayIInv, NEW C, Gateway!Leaves(C)
    PROVE  /\ up' \subseteq Sockets /\ timers' \subseteq known /\ room' \subseteq up' \cap known /\ closing' \subseteq up'
           /\ room' \subseteq room /\ \A s \in closing' : conn[s] = "done"
BY DEF GatewayIInv, Gateway!TypeOK, Gateway!Leaves, GatewaySocketsInv

\* Sockets close and are counted: the invariant is preserved.
LEMMA GatewayClosingStep ==
    ASSUME Gateway!RealtimeAssumption, GatewayIInv, NEW C, Gateway!Leaves(C),
           op' = Gateway!Counting(op, C), kick' \subseteq Users,
           UNCHANGED <<Gateway!base, conn, known, before, got>>
    PROVE  GatewayIInv'
<1>1. /\ op' \in [Ops -> Progress]
      /\ \A o \in Ops : \/ op'[o] = op[o]
                        \/ o[1] = "offline" /\ op'[o] = [stage |-> "count", socks |-> {}, gone |-> Gateway!Gone]
    BY GatewayCountingEffect DEF GatewayIInv
<1>2. Gateway!TypeOK'
    BY <1>1, GatewayLeavesEffect DEF GatewayIInv, Gateway!TypeOK, Progress, Gateway!base
<1>3. GatewayMoves /\ GatewayLapseInv'
    BY GatewayLeavesEffect DEF GatewayMoves, Gateway!base, Gateway!Gone, GatewayIInv,
       GatewayLapseInv
<1>4. ASSUME NEW o \in Ops PROVE op'[o] = op[o] \/ (GatewayOpInv(o)' /\ o[1] # "online")
    <2>1. Gateway!Gone' = Gateway!Gone
        BY DEF Gateway!base, Gateway!Gone
    <2>2. CASE o[1] = "offline" /\ op'[o] = [stage |-> "count", socks |-> {}, gone |-> Gateway!Gone]
        <3>1. GatewayOpInv(o)'
            BY <2>1, <2>2, GatewayFreshOp
        <3> QED BY <2>2, <3>1
    <2>3. \/ op'[o] = op[o]
          \/ o[1] = "offline" /\ op'[o] = [stage |-> "count", socks |-> {}, gone |-> Gateway!Gone]
        BY <1>1
    <2> QED BY <2>2, <2>3
<1> QED BY <1>2, <1>3, <1>4, GatewayKept

\* A handshake that has not come to its end preserves the invariant.
LEMMA GatewaySocketStep ==
    ASSUME Gateway!RealtimeAssumption, GatewayIInv, NEW s \in Sockets, Gateway!Connect(s) \/ Gateway!Refuse(s) \/ Gateway!ReadPrincipal(s)
    PROVE  GatewayIInv'
<1>1. UNCHANGED <<Gateway!base, kick, known, before, op, got>>
    BY DEF Gateway!Connect, Gateway!Refuse, Gateway!ReadPrincipal
<1>2. /\ conn' \in [Sockets -> {"new", "principal", "granted", "done"}]
      /\ \A x \in Sockets : conn[x] = "done" => conn'[x] = "done"
    BY DEF Gateway!Connect, Gateway!Refuse, Gateway!ReadPrincipal, GatewayIInv, Gateway!TypeOK
<1>3. /\ up' \subseteq Sockets /\ timers' \subseteq known /\ room' \subseteq up' \cap known /\ closing' \subseteq up'
      /\ room' \subseteq room /\ \A x \in closing' : conn[x] = "done"
    BY GatewayLeavesEffect DEF Gateway!Connect, Gateway!Refuse, Gateway!ReadPrincipal, GatewayIInv,
       Gateway!TypeOK, GatewaySocketsInv
<1>4. Gateway!TypeOK'
    BY <1>1, <1>2, <1>3 DEF GatewayIInv, Gateway!TypeOK, Gateway!base
<1>5. GatewayMoves /\ GatewayLapseInv'
    BY <1>1, <1>2, <1>3, <1>4 DEF GatewayMoves, Gateway!base, Gateway!Gone, GatewayIInv,
       GatewayLapseInv, Gateway!TypeOK
<1> QED BY <1>1, <1>4, <1>5, GatewayKept

\* An event step that leaves the sockets alone.
LEMMA GatewayEventStep ==
    ASSUME Gateway!RealtimeAssumption, GatewayIInv, NEW o \in Ops, UNCHANGED <<Gateway!base, kick, Gateway!socks>>,
           op' \in [Ops -> Progress], \A x \in Ops \ {o} : op'[x] = op[x],
           got' \in [Sockets -> SUBSET Ops], \A s \in Sockets : got[s] \subseteq got'[s],
           GatewayOpInv(o)', o[1] = "online" /\ o[2] \in room => GatewayTold(o[2])'
    PROVE  GatewayIInv'
<1>1. Gateway!TypeOK'
    BY DEF GatewayIInv, Gateway!TypeOK, Progress, Gateway!base, Gateway!socks
<1>2. GatewayMoves /\ GatewayLapseInv'
    BY DEF GatewayMoves, Gateway!base, Gateway!socks, Gateway!Gone, GatewayIInv, GatewayLapseInv,
       GatewaySocketsInv
<1>3. room' = room
    BY DEF Gateway!socks
<1> QED BY <1>1, <1>2, <1>3, GatewayKept

\* An event that is begun preserves the invariant.
LEMMA GatewayStartedStep ==
    ASSUME Gateway!RealtimeAssumption, GatewayIInv, NEW o \in Ops, NEW st \in {"first", "auth"},
           op' = Gateway!Started(op, o, st), UNCHANGED <<Gateway!base, kick, Gateway!socks, got>>, o[1] # "online",
           st = "auth" => o[1] = "typing", st = "first" => o[1] # "typing"
    PROVE  GatewayIInv'
<1>1. op \in [Ops -> Progress]
    BY GatewayAllOpTypes DEF GatewayIInv
<1>2. [stage |-> st, socks |-> {}, gone |-> Gateway!Gone] \in Progress
    BY DEF Progress, Gateway!Gone
<1>3. /\ op' \in [Ops -> Progress] /\ \A x \in Ops \ {o} : op'[x] = op[x]
      /\ op'[o] = [stage |-> st, socks |-> {}, gone |-> Gateway!Gone]
    BY <1>1, <1>2 DEF Gateway!Started
<1>4. Gateway!Gone' = Gateway!Gone
    BY DEF Gateway!base, Gateway!Gone
<1>5. GatewayOpInv(o)'
    BY <1>3, <1>4, GatewayFreshOp
<1>6. got' \in [Sockets -> SUBSET Ops] /\ \A s \in Sockets : got[s] \subseteq got'[s]
    BY DEF GatewayIInv, Gateway!TypeOK
<1> QED BY <1>3, <1>5, <1>6, GatewayEventStep

\* A notification and a packet preserve the invariant.
LEMMA GatewayStartStep ==
    ASSUME Gateway!RealtimeAssumption, GatewayIInv, NEW o \in Ops, Gateway!Notify(o) \/ Gateway!Packet(o) PROVE GatewayIInv'
<1>1. CASE Gateway!Notify(o)
    <2>1. op' = Gateway!Started(op, o, "first") /\ o[1] # "online" /\ o[1] # "typing" /\ UNCHANGED <<Gateway!base, kick, Gateway!socks, got>>
        BY <1>1 DEF Gateway!Notify, Gateway!HttpKinds
    <2> QED BY <2>1, GatewayStartedStep
<1>2. CASE Gateway!Packet(o)
    <2>1. op' = Gateway!Started(op, o, "auth") /\ o[1] = "typing" /\ UNCHANGED <<Gateway!base, kick, Gateway!socks, got>>
        BY <1>2 DEF Gateway!Packet
    <2> QED BY <2>1, GatewayStartedStep
<1> QED BY <1>1, <1>2

\* authorizePacket: the packet goes on with a session in force, or its socket
\* is closed; the invariant is preserved.
LEMMA GatewayAuthorizePacketStep ==
    ASSUME Gateway!RealtimeAssumption, GatewayIInv, NEW o \in Ops, Gateway!AuthorizePacket(o) PROVE GatewayIInv'
<1>0. op[o].stage = "auth" /\ o[1] = "typing" /\ GatewayOpInv(o)
    BY DEF Gateway!AuthorizePacket, GatewayIInv, GatewayOpInv
<1>1. CASE Gateway!ValidPacket(o[2]) /\ Gateway!Stage(o, "first") /\ UNCHANGED <<Gateway!base, kick, Gateway!socks, got>>
    <2>1. /\ op' \in [Ops -> Progress] /\ \A x \in Ops \ {o} : op'[x] = op[x]
          /\ op'[o].stage = "first" /\ op'[o].socks = op[o].socks /\ op'[o].gone = op[o].gone
        BY <1>1, GatewayStageEffect DEF GatewayIInv
    <2>2. GatewayOpInv(o)'
        BY <1>0, <1>1, <2>1 DEF GatewayOpInv, Gateway!ValidPacket, Gateway!Gone, Gateway!base,
           Gateway!socks
    <2>3. got' \in [Sockets -> SUBSET Ops] /\ \A s \in Sockets : got[s] \subseteq got'[s]
        BY <1>1 DEF GatewayIInv, Gateway!TypeOK
    <2> QED BY <1>0, <1>1, <2>1, <2>2, <2>3, GatewayEventStep
<1>2. CASE /\ Gateway!Leaves({o[2]} \cap up)
           /\ op' = [Gateway!Counting(op, {o[2]} \cap up) EXCEPT ![o].stage = "done"]
           /\ UNCHANGED <<Gateway!base, kick, conn, known, before, got>>
    <2> DEFINE ops == Gateway!Counting(op, {o[2]} \cap up)
    <2>1. /\ ops \in [Ops -> Progress]
          /\ \A x \in Ops : \/ ops[x] = op[x]
                            \/ x[1] = "offline" /\ ops[x] = [stage |-> "count", socks |-> {}, gone |-> Gateway!Gone]
        BY GatewayCountingEffect DEF GatewayIInv
    <2>2. op' = [ops EXCEPT ![o].stage = "done"]
        BY <1>2
    <2> HIDE DEF ops
    <2>3. /\ op' \in [Ops -> Progress] /\ \A x \in Ops \ {o} : op'[x] = ops[x]
          /\ op'[o].stage = "done" /\ op'[o].socks = op[o].socks /\ op'[o].gone = op[o].gone
        BY <1>0, <2>1, <2>2 DEF Progress
    <2>4. Gateway!TypeOK'
        BY <1>2, <2>3, GatewayLeavesEffect DEF GatewayIInv, Gateway!TypeOK, Progress, Gateway!base
    <2>5. GatewayMoves /\ GatewayLapseInv'
        BY <1>2, GatewayLeavesEffect DEF GatewayMoves, Gateway!base, Gateway!Gone, GatewayIInv,
           GatewayLapseInv
    <2>6. GatewayOpInv(o)'
        BY <1>0, <1>2, <2>3 DEF GatewayOpInv, Gateway!Gone, Gateway!base
    <2>7. ASSUME NEW x \in Ops \ {o} PROVE op'[x] = op[x] \/ (GatewayOpInv(x)' /\ x[1] # "online")
        <3>1. Gateway!Gone' = Gateway!Gone
            BY <1>2 DEF Gateway!base, Gateway!Gone
        <3>2. CASE x[1] = "offline" /\ op'[x] = [stage |-> "count", socks |-> {}, gone |-> Gateway!Gone]
            <4>1. GatewayOpInv(x)'
                BY <3>1, <3>2, GatewayFreshOp
            <4> QED BY <3>2, <4>1
        <3>3. \/ op'[x] = op[x]
              \/ x[1] = "offline" /\ op'[x] = [stage |-> "count", socks |-> {}, gone |-> Gateway!Gone]
            BY <2>1, <2>3
        <3> QED BY <3>2, <3>3
    <2> QED BY <1>0, <2>4, <2>5, <2>6, <2>7, GatewayKept
<1> QED BY <1>1, <1>2 DEF Gateway!AuthorizePacket

\* handleDisconnect counts the sockets that are left: the invariant is
\* preserved.
LEMMA GatewayCountSocketsStep ==
    ASSUME Gateway!RealtimeAssumption, GatewayIInv, NEW o \in Ops, Gateway!CountSockets(o) PROVE GatewayIInv'
<1>0. op[o].stage = "count" /\ o[1] = "offline" /\ GatewayOpInv(o)
    BY DEF Gateway!CountSockets, GatewayIInv, GatewayOpInv
<1>1. UNCHANGED <<Gateway!base, kick, Gateway!socks, got>> /\ \E st \in {"first", "done"} : Gateway!Stage(o, st)
    BY DEF Gateway!CountSockets
<1>2. /\ op' \in [Ops -> Progress] /\ \A x \in Ops \ {o} : op'[x] = op[x]
      /\ op'[o].stage \in {"first", "done"} /\ op'[o].socks = op[o].socks /\ op'[o].gone = op[o].gone
    BY <1>1, GatewayStageEffect DEF GatewayIInv
<1>3. GatewayOpInv(o)'
    BY <1>0, <1>1, <1>2 DEF GatewayOpInv, Gateway!Gone, Gateway!base, Gateway!socks
<1>4. got' \in [Sockets -> SUBSET Ops] /\ \A s \in Sockets : got[s] \subseteq got'[s]
    BY <1>1 DEF GatewayIInv, Gateway!TypeOK
<1> QED BY <1>0, <1>1, <1>2, <1>3, <1>4, GatewayEventStep

\* Of the announcement of t: as long as anybody must hear of it, it goes on.
LEMMA GatewayCalmIsCurrent ==
    ASSUME GatewayLapseInv, NEW s, NEW t, GatewayCalm(s, t) PROVE Gateway!Current(<<"online", t>>)
BY DEF GatewayLapseInv, GatewayCalm, Gateway!Current, Gateway!HttpKinds

\* The first read of the conversation preserves the invariant: an announcement
\* that somebody must hear goes on.
LEMMA GatewayFirstCheckStep ==
    ASSUME Gateway!RealtimeAssumption, GatewayIInv, NEW o \in Ops, Gateway!FirstCheck(o) PROVE GatewayIInv'
<1>0. op[o].stage = "first" /\ GatewayOpInv(o)
    BY DEF Gateway!FirstCheck, GatewayIInv
<1>1. UNCHANGED <<Gateway!base, kick, Gateway!socks, got>> /\ Gateway!Stage(o, IF Gateway!Current(o) THEN "fetch" ELSE "done")
    BY DEF Gateway!FirstCheck
<1>2. /\ op' \in [Ops -> Progress] /\ \A x \in Ops \ {o} : op'[x] = op[x]
      /\ op'[o].stage = (IF Gateway!Current(o) THEN "fetch" ELSE "done")
      /\ op'[o].socks = op[o].socks /\ op'[o].gone = op[o].gone
    BY <1>1, GatewayStageEffect DEF GatewayIInv
<1>3. GatewayOpInv(o)'
    BY <1>0, <1>1, <1>2 DEF GatewayOpInv, Gateway!Gone, Gateway!base, Gateway!socks
<1>4. got' \in [Sockets -> SUBSET Ops] /\ \A s \in Sockets : got[s] \subseteq got'[s]
    BY <1>1 DEF GatewayIInv, Gateway!TypeOK
<1>5. ASSUME o[1] = "online" PROVE GatewayTold(o[2])'
    <2>1. o = <<"online", o[2]>>
        BY <1>5, GatewayOpsForm
    <2>2. ASSUME NEW s, GatewayCalm(s, o[2])' PROVE op'[o].stage = "fetch"
        <3>1. GatewayCalm(s, o[2])
            BY <1>1, <2>2 DEF GatewayCalm, Gateway!Gone, Gateway!base, Gateway!UserOf
        <3> QED BY <1>2, <2>1, <3>1, GatewayCalmIsCurrent DEF GatewayIInv
    <2> QED BY <1>2, <2>1, <2>2 DEF GatewayTold
<1> QED BY <1>1, <1>2, <1>3, <1>4, <1>5, GatewayEventStep

\* fetchSockets finds whoever must hear of a connection: the invariant is
\* preserved.
LEMMA GatewayFetchStep ==
    ASSUME Gateway!RealtimeAssumption, GatewayIInv, NEW o \in Ops, Gateway!Fetch(o) PROVE GatewayIInv'
<1> DEFINE S == UNION {Gateway!RoomOf(u) : u \in Gateway!Targets(o)}
<1>0. op[o].stage = "fetch" /\ GatewayOpInv(o)
    BY DEF Gateway!Fetch, GatewayIInv
<1>1. /\ UNCHANGED <<Gateway!base, kick, Gateway!socks, got>>
      /\ op' = [op EXCEPT ![o].socks = S, ![o].stage = IF S = {} THEN "done" ELSE "query"]
    BY DEF Gateway!Fetch
<1>2. S \subseteq room /\ S \in SUBSET Sockets
    BY DEF Gateway!RoomOf, GatewayIInv, Gateway!TypeOK
<1>3. ASSUME o[1] = "online", NEW s \in room, Gateway!UserOf(s) # Gateway!UserOf(o[2]) PROVE s \in S
    <2>1. o[2] \in Sockets /\ s \in Sockets
        BY <1>3, GatewayOpsForm DEF Gateway!SocketKinds, GatewayIInv, Gateway!TypeOK
    <2>2. Gateway!UserOf(s) \in Users /\ Gateway!UserOf(o[2]) \in Users
        BY <2>1, GatewayUserType
    <2>3. Gateway!From(o) = Gateway!UserOf(o[2]) /\ Gateway!Targets(o) = {Gateway!Peer(Gateway!From(o))}
        BY <1>3 DEF Gateway!From, Gateway!Targets, Gateway!HttpKinds
    <2>4. Gateway!Targets(o) = {Gateway!UserOf(s)}
        BY <1>3, <2>2, <2>3, GatewayPeerIs
    <2>5. s \in Gateway!RoomOf(Gateway!UserOf(s))
        BY DEF Gateway!RoomOf
    <2> QED BY <2>4, <2>5
<1> HIDE DEF S
<1>4. /\ op' \in [Ops -> Progress] /\ \A x \in Ops \ {o} : op'[x] = op[x]
      /\ op'[o].stage = (IF S = {} THEN "done" ELSE "query")
      /\ op'[o].socks = S /\ op'[o].gone = op[o].gone
    BY <1>1, <1>2, GatewaySocksEffect DEF GatewayIInv
<1>5. GatewayOpInv(o)'
    BY <1>0, <1>1, <1>2, <1>4 DEF GatewayOpInv, Gateway!Gone, Gateway!base, Gateway!socks,
       GatewayIInv, GatewaySocketsInv
<1>6. got' \in [Sockets -> SUBSET Ops] /\ \A s \in Sockets : got[s] \subseteq got'[s]
    BY <1>1 DEF GatewayIInv, Gateway!TypeOK
<1>7. ASSUME o[1] = "online" PROVE GatewayTold(o[2])'
    <2>1. o = <<"online", o[2]>>
        BY <1>7, GatewayOpsForm
    <2>2. ASSUME NEW s \in room', GatewayCalm(s, o[2])' PROVE s \in S
        BY <1>1, <1>3, <1>7, <2>2 DEF GatewayCalm, Gateway!socks, Gateway!UserOf
    <2> QED BY <1>4, <2>1, <2>2 DEF GatewayTold
<1> QED BY <1>1, <1>4, <1>5, <1>6, <1>7, GatewayEventStep

\* authorizedSockets drops the sockets of ended sessions and no other: the
\* invariant is preserved.
LEMMA GatewayQuerySessionsStep ==
    ASSUME Gateway!RealtimeAssumption, GatewayIInv, NEW o \in Ops, Gateway!QuerySessions(o) PROVE GatewayIInv'
<1> DEFINE A == Gateway!Authorized(op[o].socks)
<1>0. op[o].stage = "query" /\ GatewayOpInv(o) /\ op[o].socks \subseteq Sockets
    BY GatewayOpTypes DEF Gateway!QuerySessions, GatewayIInv, Progress
<1>1. /\ UNCHANGED <<Gateway!base, kick, conn, up, known, timers, room, before, got>>
      /\ op' = [op EXCEPT ![o].socks = A, ![o].stage = IF A = {} THEN "done" ELSE "final"]
      /\ closing' = closing \cup ((op[o].socks \ A) \cap up)
    BY DEF Gateway!QuerySessions
<1>2. A \subseteq op[o].socks /\ A \in SUBSET Sockets
    BY <1>0 DEF Gateway!Authorized
<1>3. \A s \in op[o].socks : Cookie[s] \notin Gateway!Gone <=> s \in A
    BY DEF Gateway!Authorized
<1> HIDE DEF A
<1>4. /\ op' \in [Ops -> Progress] /\ \A x \in Ops \ {o} : op'[x] = op[x]
      /\ op'[o].stage = (IF A = {} THEN "done" ELSE "final")
      /\ op'[o].socks = A /\ op'[o].gone = op[o].gone
    BY <1>1, <1>2, GatewaySocksEffect DEF GatewayIInv
<1>5. GatewayOpInv(o)'
    BY <1>0, <1>1, <1>2, <1>3, <1>4 DEF GatewayOpInv, Gateway!Gone, Gateway!base
<1>6. Gateway!TypeOK'
    BY <1>1, <1>4 DEF GatewayIInv, Gateway!TypeOK, Progress, Gateway!base
<1>7. GatewayMoves /\ GatewayLapseInv'
    <2>1. \A s \in closing' : conn'[s] = "done"
        BY <1>0, <1>1 DEF GatewayOpInv, GatewayIInv, GatewaySocketsInv
    <2> QED BY <1>1, <2>1 DEF GatewayMoves, Gateway!base, Gateway!Gone, GatewayIInv, GatewayLapseInv
<1>8. ASSUME o[1] = "online", o[2] \in room' PROVE GatewayTold(o[2])'
    <2>1. o = <<"online", o[2]>>
        BY <1>8, GatewayOpsForm
    <2>2. ASSUME NEW s \in before'[o[2]] \cap room', GatewayCalm(s, o[2])' PROVE s \in A
        <3>1. GatewayCalm(s, o[2]) /\ s \in before[o[2]] \cap room
            BY <1>1, <2>2 DEF GatewayCalm, Gateway!Gone, Gateway!base, Gateway!UserOf
        <3>2. GatewayTold(o[2])
            BY <1>1, <1>8, <2>1 DEF GatewayIInv, GatewayAnnounceInv
        <3>3. s \in op[o].socks
            BY <1>0, <2>1, <3>1, <3>2 DEF GatewayTold
        <3> QED BY <1>3, <3>1, <3>3 DEF GatewayCalm
    <2> QED BY <1>4, <2>1, <2>2 DEF GatewayTold
<1> QED BY <1>4, <1>5, <1>6, <1>7, <1>8, GatewayKept

\* The last read and the emits: whoever must hear has heard; the invariant is
\* preserved.
LEMMA GatewayEmitStep ==
    ASSUME Gateway!RealtimeAssumption, GatewayIInv, NEW o \in Ops, Gateway!Emit(o) PROVE GatewayIInv'
<1>0. op[o].stage = "final" /\ GatewayOpInv(o)
    BY DEF Gateway!Emit, GatewayIInv
<1>1. /\ UNCHANGED <<Gateway!base, kick, Gateway!socks>> /\ Gateway!Stage(o, "done")
      /\ got' = IF Gateway!StillCurrent(o)
                THEN [s \in Sockets |-> IF s \in op[o].socks \cap up THEN got[s] \cup {o} ELSE got[s]]
                ELSE got
    BY DEF Gateway!Emit
<1>2. /\ op' \in [Ops -> Progress] /\ \A x \in Ops \ {o} : op'[x] = op[x]
      /\ op'[o].stage = "done" /\ op'[o].socks = op[o].socks /\ op'[o].gone = op[o].gone
    BY <1>1, GatewayStageEffect DEF GatewayIInv
<1>3. GatewayOpInv(o)'
    BY <1>0, <1>1, <1>2 DEF GatewayOpInv, Gateway!Gone, Gateway!base, Gateway!socks
<1>4. got' \in [Sockets -> SUBSET Ops] /\ \A s \in Sockets : got[s] \subseteq got'[s]
    BY <1>1 DEF GatewayIInv, Gateway!TypeOK
<1>5. ASSUME o[1] = "online", o[2] \in room PROVE GatewayTold(o[2])'
    <2>1. o = <<"online", o[2]>>
        BY <1>5, GatewayOpsForm
    <2>2. ASSUME NEW s \in before'[o[2]] \cap room', GatewayCalm(s, o[2])' PROVE o \in got'[s]
        <3>1. GatewayCalm(s, o[2]) /\ s \in before[o[2]] \cap room
            BY <1>1, <2>2 DEF GatewayCalm, Gateway!Gone, Gateway!base, Gateway!UserOf, Gateway!socks
        <3>2. GatewayTold(o[2])
            BY <1>5, <2>1 DEF GatewayIInv, GatewayAnnounceInv
        <3>3. s \in op[o].socks /\ s \in up /\ s \in Sockets
            BY <1>0, <2>1, <3>1, <3>2 DEF GatewayTold, GatewayIInv, Gateway!TypeOK
        <3>4. Gateway!StillCurrent(o)
            BY <2>1, <3>1, GatewayCalmIsCurrent DEF GatewayIInv, Gateway!StillCurrent
        <3> QED BY <1>1, <3>3, <3>4
    <2> QED BY <1>2, <2>1, <2>2 DEF GatewayTold
<1> QED BY <1>1, <1>2, <1>3, <1>4, <1>5, GatewayEventStep

\* The end of handleConnection: the socket joins the room and its announcement
\* begins in the same turn, so that the invariant is preserved.
LEMMA GatewayEstablishStep ==
    ASSUME Gateway!RealtimeAssumption, GatewayIInv, NEW s \in Sockets, Gateway!Establish(s) PROVE GatewayIInv'
<1> DEFINE closes == s \in up /\ ended[Cookie[s]] = "expired"
           joins  == s \in up /\ ~closes
           on == <<"online", s>>
           off == <<"offline", s>>
           opened == Gateway!Started(op, on, "first")
<1>1. /\ conn[s] = "granted" /\ conn' = [conn EXCEPT ![s] = "done"]
      /\ known' = known \cup {s}
      /\ up' = IF closes THEN up \ {s} ELSE up
      /\ timers' = IF closes THEN timers ELSE timers \cup {s}
      /\ room' = IF joins THEN room \cup {s} ELSE room
      /\ before' = IF joins THEN [before EXCEPT ![s] = room] ELSE before
      /\ op' = IF closes THEN Gateway!Started(opened, off, "count") ELSE opened
      /\ UNCHANGED <<Gateway!base, kick, closing, got>>
    BY DEF Gateway!Establish, Gateway!Announces, Gateway!Watched
<1>2. s \notin room /\ s \notin closing /\ \A t \in Sockets : s \notin before[t]
    BY <1>1 DEF GatewayIInv, GatewaySocketsInv
<1>3. /\ conn' \in [Sockets -> {"new", "principal", "granted", "done"}]
      /\ \A x \in Sockets : conn[x] = "done" => conn'[x] = "done"
      /\ conn'[s] = "done"
    BY <1>1 DEF GatewayIInv, Gateway!TypeOK
<1>4. op \in [Ops -> Progress]
    BY GatewayAllOpTypes DEF GatewayIInv
<1>5. /\ opened \in [Ops -> Progress]
      /\ \A x \in Ops \ {on} : opened[x] = op[x]
      /\ on \in Ops => opened[on] = [stage |-> "first", socks |-> {}, gone |-> Gateway!Gone]
    <2>1. [stage |-> "first", socks |-> {}, gone |-> Gateway!Gone] \in Progress
        BY DEF Progress, Gateway!Gone
    <2>2. ASSUME NEW o
          PROVE  /\ Gateway!Started(op, o, "first") \in [Ops -> Progress]
                 /\ \A x \in Ops \ {o} : Gateway!Started(op, o, "first")[x] = op[x]
                 /\ o \in Ops => Gateway!Started(op, o, "first")[o]
                                       = [stage |-> "first", socks |-> {}, gone |-> Gateway!Gone]
        BY ONLY <1>4, <2>1 DEF Gateway!Started
    <2> QED BY ONLY <2>2
<1> HIDE DEF opened
<1>6. /\ op' \in [Ops -> Progress] /\ \A x \in Ops \ {on, off} : op'[x] = op[x]
      /\ on \in Ops => op'[on] = [stage |-> "first", socks |-> {}, gone |-> Gateway!Gone]
      /\ off \in Ops => op'[off] = op[off] \/ op'[off] = [stage |-> "count", socks |-> {}, gone |-> Gateway!Gone]
    <2>1. on # off
        OBVIOUS
    <2>2. /\ Gateway!Started(opened, off, "count") \in [Ops -> Progress]
          /\ \A x \in Ops \ {off} : Gateway!Started(opened, off, "count")[x] = opened[x]
          /\ off \in Ops => Gateway!Started(opened, off, "count")[off]
                                 = [stage |-> "count", socks |-> {}, gone |-> Gateway!Gone]
        <3>1. opened \in [Ops -> Progress] /\ "count" \in {"first", "auth", "count"}
            BY <1>5
        <3> HIDE DEF off
        <3> QED BY ONLY <3>1, GatewayStartedEffect
    <2> HIDE DEF on, off
    <2> QED BY <1>1, <1>4, <1>5, <2>1, <2>2
<1>7. room \subseteq Sockets /\ before' \in [Sockets -> SUBSET Sockets]
    BY <1>1 DEF GatewayIInv, Gateway!TypeOK
<1>8. Gateway!TypeOK'
    <2>1. /\ up' \subseteq Sockets /\ known' \subseteq Sockets /\ timers' \subseteq known'
          /\ room' \subseteq up' \cap known' /\ closing' \subseteq up'
        BY <1>1, <1>2 DEF GatewayIInv, Gateway!TypeOK
    <2> QED BY <1>1, <1>3, <1>6, <1>7, <2>1 DEF GatewayIInv, Gateway!TypeOK, Progress, Gateway!base
<1>9. GatewaySocketsInv'
    <2>1. closing \subseteq Sockets /\ before \in [Sockets -> SUBSET Sockets]
        BY DEF GatewayIInv, Gateway!TypeOK
    <2>2. \A t \in Sockets : before'[t] = before[t] \/ before'[t] = room
        BY <1>1, <2>1
    <2>3. \A x \in room' \cup closing' : conn'[x] = "done"
        BY <1>1, <1>3, <1>7, <2>1 DEF GatewayIInv, GatewaySocketsInv
    <2>4. ASSUME NEW t \in Sockets, NEW x \in before'[t] PROVE conn'[x] = "done"
        BY <1>3, <1>7, <2>1, <2>2, <2>4 DEF GatewayIInv, GatewaySocketsInv
    <2> QED BY <2>3, <2>4 DEF GatewaySocketsInv
<1>10. ASSUME NEW o \in Ops PROVE GatewayOpInv(o)'
    <2>1. CASE op'[o] = op[o]
        <3>1. op[o].socks \subseteq Sockets
            BY GatewayOpTypes DEF GatewayIInv, Progress
        <3> QED BY <1>1, <1>3, <2>1, <3>1 DEF GatewayIInv, GatewayOpInv, Gateway!base, Gateway!Gone
    <2>2. CASE op'[o] = [stage |-> "first", socks |-> {}, gone |-> Gateway!Gone] /\ o[1] = "online"
        BY <1>1, <2>2 DEF GatewayOpInv, Gateway!base, Gateway!Gone
    <2>3. CASE op'[o] = [stage |-> "count", socks |-> {}, gone |-> Gateway!Gone] /\ o[1] = "offline"
        BY <1>1, <2>3 DEF GatewayOpInv, Gateway!base, Gateway!Gone
    <2> QED BY <1>6, <2>1, <2>2, <2>3
<1>11. ASSUME NEW t \in room', <<"online", t>> \in Ops PROVE GatewayTold(t)'
    <2>1. CASE t = s
        BY <1>6, <1>11, <2>1 DEF GatewayTold
    <2>2. CASE t # s
        <3>1. t \in room /\ t \in Sockets
            BY <1>1, <1>7, <2>2
        <3>2. GatewayTold(t)
            BY <1>11, <3>1 DEF GatewayIInv, GatewayAnnounceInv
        <3>3. op'[<<"online", t>>] = op[<<"online", t>>]
            <4>1. <<"online", t>> # on /\ <<"online", t>> # off
                BY <2>2
            <4> HIDE DEF on, off
            <4> QED BY <1>6, <1>11, <4>1
        <3>4. before'[t] = before[t]
            BY <1>1, <2>2, <3>1 DEF GatewayIInv, Gateway!TypeOK
        <3>5. ASSUME NEW x \in before'[t] \cap room', GatewayCalm(x, t)' PROVE x \in before[t] \cap room /\ GatewayCalm(x, t)
            <4>1. x # s
                BY <1>2, <3>1, <3>4
            <4> QED BY <1>1, <3>4, <3>5, <4>1 DEF GatewayCalm, Gateway!base, Gateway!Gone,
                    Gateway!UserOf
        <3> QED BY <1>1, <3>2, <3>3, <3>5 DEF GatewayTold
    <2> QED BY <2>1, <2>2
<1>12. GatewayLapseInv'
    BY <1>1 DEF GatewayIInv, GatewayLapseInv, Gateway!base
<1> QED BY <1>8, <1>9, <1>10, <1>11, <1>12 DEF GatewayIInv, GatewayAnnounceInv

\* Timers, clients that go away, requests to close and disconnectUser preserve
\* the invariant.
LEMMA GatewayCloseSteps ==
    ASSUME Gateway!RealtimeAssumption, GatewayIInv,
           \/ \E s \in Sockets : Gateway!Revalidate(s) \/ Gateway!Leave(s) \/ Gateway!CloseRequested(s)
           \/ \E u \in Users : Gateway!DisconnectUser(u)
    PROVE  GatewayIInv'
<1>1. ASSUME NEW s \in Sockets, Gateway!Close({s}) PROVE GatewayIInv'
    <2>1. kick' \subseteq Users
        BY <1>1 DEF Gateway!Close, GatewayIInv, Gateway!TypeOK
    <2> QED BY <1>1, <2>1, GatewayClosingStep DEF Gateway!Close
<1>2. ASSUME NEW u \in Users, Gateway!DisconnectUser(u) PROVE GatewayIInv'
    <2>1. kick' \subseteq Users
        BY <1>2 DEF Gateway!DisconnectUser, GatewayIInv, Gateway!TypeOK
    <2> QED BY <1>2, <2>1, GatewayClosingStep DEF Gateway!DisconnectUser
<1> QED BY <1>1, <1>2 DEF Gateway!Revalidate, Gateway!Leave, Gateway!CloseRequested

\* The invariant of the gateway holds in every reachable state.
THEOREM GatewayInvariance ==
    ASSUME Gateway!RealtimeAssumption PROVE Gateway!Spec => []GatewayIInv
<1>1. GatewayIInv /\ [Gateway!Next]_(Gateway!vars) => GatewayIInv'
    <2> SUFFICES ASSUME GatewayIInv, [Gateway!Next]_(Gateway!vars) PROVE GatewayIInv'
        OBVIOUS
    <2>1. ASSUME NEW o \in Ops, Gateway!Event(o) PROVE GatewayIInv'
        BY <2>1, GatewayStartStep, GatewayAuthorizePacketStep, GatewayCountSocketsStep,
           GatewayFirstCheckStep, GatewayFetchStep,
           GatewayQuerySessionsStep, GatewayEmitStep DEF Gateway!Event
    <2>2. ASSUME NEW s \in Sockets, Gateway!Socket(s) PROVE GatewayIInv'
        BY <2>2, GatewaySocketStep, GatewayEstablishStep, GatewayCloseSteps DEF Gateway!Socket,
           Gateway!Handshake
    <2> QED BY <2>1, <2>2, GatewayWorldStep, GatewayCloseSteps DEF Gateway!Next, Gateway!User
<1> QED BY <1>1, GatewayInitInv, PTL DEF Gateway!Spec

\* For any sessions, sockets and events of a conversation: rooms hold connected
\* sockets of known users, and when the announcements of a user are done the
\* counterpart that was there has heard of one, however connections overlap
\* (handleConnection).
THEOREM RealtimeIsSafe ==
    ASSUME Gateway!RealtimeAssumption PROVE Gateway!Spec => []RealtimeSafe
<1>1. ASSUME GatewayIInv PROVE Gateway!OnlineReaches
    <2> SUFFICES ASSUME NEW t \in room, NEW s \in Sockets, <<"online", t>> \in Ops,
                        \A o \in Ops : o[1] = "online" /\ Gateway!From(o) = Gateway!UserOf(t) => op[o].stage \in {"idle", "done"},
                        s \in before[t] \cap room, Gateway!UserOf(s) # Gateway!UserOf(t),
                        Cookie[s] \notin Gateway!Gone, lapses = 0, suspended = {}
                 PROVE  \E o \in got[s] : o[1] = "online" /\ Gateway!UserOf(o[2]) = Gateway!UserOf(t)
        BY DEF Gateway!OnlineReaches
    <2> DEFINE o == <<"online", t>>
    <2>1. o[1] = "online" /\ o[2] = t /\ Gateway!From(o) = Gateway!UserOf(t)
        BY DEF Gateway!From, Gateway!HttpKinds
    <2>2. GatewayTold(t) /\ GatewayCalm(s, t)
        BY <1>1 DEF GatewayIInv, GatewayAnnounceInv, GatewayCalm
    <2>3. op[o].stage = "done"
        BY <2>1, <2>2 DEF GatewayTold
    <2> QED BY <2>1, <2>2, <2>3 DEF GatewayTold
<1>2. GatewayIInv => RealtimeSafe
    BY <1>1 DEF GatewayIInv, RealtimeSafe, Gateway!RealtimeSafe
<1> QED BY <1>2, GatewayInvariance, PTL

\* What a socket receives comes from an emit that was allowed.
LEMMA GatewayReceivedStep ==
    ASSUME Gateway!RealtimeAssumption, GatewayIInv, Gateway!Next, NEW s \in Sockets, NEW o \in Gateway!Received(s)
    PROVE  /\ Cookie[s] \notin op[o].gone /\ Gateway!Current(o)
           /\ o[1] = "typing" => Cookie[o[2]] \notin op[o].gone
<1>1. got'[s] # got[s] /\ o \in got'[s] /\ o \notin got[s]
    BY DEF Gateway!Received
<1>2. PICK x \in Ops : Gateway!Emit(x)
    BY <1>1 DEF Gateway!Next, Gateway!Session, Gateway!Expire, Gateway!Logout, Gateway!RevokeDevice,
       Gateway!User, Gateway!Suspend, Gateway!DisconnectUser, Gateway!CrashBeforeDisconnect,
       Gateway!Lapse, Gateway!Renew, Gateway!ExpireMessage, Gateway!Event, Gateway!Notify,
       Gateway!Packet, Gateway!AuthorizePacket, Gateway!CountSockets, Gateway!FirstCheck,
       Gateway!Fetch,
       Gateway!QuerySessions, Gateway!Socket, Gateway!Handshake, Gateway!Connect,
       Gateway!ReadPrincipal, Gateway!Refuse, Gateway!Establish, Gateway!Revalidate, Gateway!Leave,
       Gateway!CloseRequested, Gateway!Close
<1>3. x = o /\ s \in op[o].socks /\ Gateway!Current(o) /\ op[o].stage = "final"
    BY <1>1, <1>2 DEF Gateway!Emit, Gateway!StillCurrent, GatewayIInv, Gateway!TypeOK
<1> QED BY <1>3 DEF GatewayIInv, GatewayOpInv

\* For any sessions, sockets and events of a conversation: nothing reaches or
\* comes from a session that had ended when the event began, and nothing
\* arrives once the conversation has ended.
THEOREM DeliveriesAreInForce ==
    ASSUME Gateway!RealtimeAssumption PROVE Gateway!Spec => DeliveriesInForce
<1> DEFINE A == \A s \in Sockets : \A o \in Gateway!Received(s) : Cookie[s] \notin op[o].gone
           B == \A s \in Sockets : \A o \in Gateway!Received(s) :
                   o[1] = "typing" => Cookie[o[2]] \notin op[o].gone
           C == \A s \in Sockets : \A o \in Gateway!Received(s) : Gateway!Current(o)
<1>1. GatewayIInv /\ [Gateway!Next]_(Gateway!vars) => [A]_(Gateway!vars) /\ [B]_(Gateway!vars) /\ [C]_(Gateway!vars)
    BY GatewayReceivedStep
<1> HIDE DEF A, B, C
<1>2. Gateway!Spec => [][A]_(Gateway!vars) /\ [][B]_(Gateway!vars) /\ [][C]_(Gateway!vars)
    BY <1>1, GatewayInvariance, PTL DEF Gateway!Spec
<1> QED BY <1>2 DEF DeliveriesInForce, Gateway!DeliveriesInForce, Gateway!NothingToEnded, Gateway!NothingFromEnded,
        Gateway!NothingAfterEnd, A, B, C

-----------------------------------------------------------------------------
(* The counters *)

\* A counter that does not block has not passed its limit.
LimitsCellInv(k, p) ==
    /\ k \in [hits : Nat, window : Nat, block : Nat]
    /\ k.hits <= p.limit + 1
    /\ k.block = 0 => k.hits <= p.limit

\* The instant at which the window of a counter is over.
LimitsOver(k) == IF k.block > 0 THEN k.block ELSE k.window

\* The grants of the window that runs.
LimitsOfWindow(k, G, p) == {g \in G : g[2] + p.ttl >= k.window}

\* Those among them that came after its beginning.
LimitsLater(k, G, p) == {g \in G : g[2] + p.ttl > k.window}

\* The grants of the period before it.
LimitsPrevious(k, G, p) == {g \in G : g[2] + p.ttl < k.window /\ g[2] + Limits!Period(p) + p.ttl > k.window}

\* The grants less than a period before t.
LimitsRecent(G, p, t) == {g \in G : g[2] + Limits!Period(p) > t}

\* A finite set of grants at instants up to now.
LimitsGrantsType(G, now) == IsFiniteSet(G) /\ \A g \in G : g[2] \in Nat /\ g[2] <= now

\* What ties the grants to the counter.  A window begins with its first grant, so
\* that the later ones are fewer than its hits: of a window that is over, fewer
\* than the limit are recent, and fewer came in the period before the next one.
LimitsWindowInv(k, G, p, now) ==
    /\ LimitsGrantsType(G, now)
    /\ \A g \in G : g[2] < LimitsOver(k) \/ g[2] < now
    /\ k.window <= now + p.ttl
    /\ \A t \in Nat : LimitsOver(k) <= t /\ now <= t => Cardinality(LimitsRecent(G, p, t)) <= p.limit - 1
    /\ k.block = 0 /\ now < k.window =>
          /\ Cardinality(LimitsOfWindow(k, G, p)) <= k.hits
          /\ Cardinality(LimitsLater(k, G, p)) <= k.hits - 1
          /\ Cardinality(LimitsPrevious(k, G, p)) <= p.limit - 1

\* The bound for one counter.
LimitsBound(G, p) == \A t \in Nat : Cardinality(Limits!During(G, t, t + Limits!Period(p))) <= 2 * p.limit - 1

\* A part of a finite set has no more elements.
LEMMA Fewer ==
    ASSUME NEW S, NEW T, IsFiniteSet(S), T \subseteq S, NEW n \in Nat, Cardinality(S) <= n
    PROVE  IsFiniteSet(T) /\ Cardinality(T) \in Nat /\ Cardinality(T) <= n
<1>1. IsFiniteSet(T) /\ Cardinality(T) <= Cardinality(S)
    BY FS_Subset
<1>2. Cardinality(T) \in Nat /\ Cardinality(S) \in Nat
    BY <1>1, FS_CardinalityType
<1> QED BY <1>1, <1>2

\* One element more is at most one more.
LEMMA OneMore ==
    ASSUME NEW S, NEW T, NEW e, IsFiniteSet(S), T \subseteq S \cup {e}, NEW n \in Nat, Cardinality(S) <= n
    PROVE  Cardinality(T) <= n + 1
<1>1. IsFiniteSet(S \cup {e}) /\ Cardinality(S) \in Nat
      /\ (Cardinality(S \cup {e}) = Cardinality(S) \/ Cardinality(S \cup {e}) = Cardinality(S) + 1)
    BY FS_AddElement, FS_CardinalityType
<1>2. Cardinality(S \cup {e}) <= n + 1
    BY <1>1
<1> QED BY <1>1, <1>2, Fewer

\* A part of a single element.
LEMMA JustOne ==
    ASSUME NEW T, NEW e, T \subseteq {e} PROVE Cardinality(T) \in Nat /\ Cardinality(T) <= 1
<1>1. IsFiniteSet({e}) /\ Cardinality({e}) = 1
    BY FS_Singleton
<1>2. Cardinality({e}) <= 1
    BY <1>1
<1> QED BY <1>1, <1>2, Fewer

\* Two sets together have no more elements than their sum.
LEMMA Together ==
    ASSUME NEW S, NEW T, NEW U, IsFiniteSet(S), IsFiniteSet(T), U \subseteq S \cup T,
           NEW m \in Nat, NEW n \in Nat, Cardinality(S) <= m, Cardinality(T) <= n
    PROVE  Cardinality(U) <= m + n
<1>1. /\ IsFiniteSet(S \cup T) /\ IsFiniteSet(S \cap T)
      /\ Cardinality(S \cup T) = Cardinality(S) + Cardinality(T) - Cardinality(S \cap T)
    BY FS_Union, FS_Intersection
<1>2. Cardinality(S) \in Nat /\ Cardinality(T) \in Nat /\ Cardinality(S \cap T) \in Nat
    BY <1>1, FS_CardinalityType
<1>3. Cardinality(S \cup T) <= m + n /\ m + n \in Nat
    BY <1>1, <1>2
<1> QED BY <1>1, <1>3, Fewer

\* A period is at least an instant, and neither longer than a window nor than a
\* block.
LEMMA LimitsPeriodType ==
    ASSUME NEW p \in Limits!Policies
    PROVE  /\ p.limit \in Nat /\ p.limit >= 1 /\ p.limit - 1 \in Nat /\ p.ttl \in Nat /\ p.ttl >= 1 /\ p.block \in Nat /\ p.block >= 1
           /\ Limits!Period(p) \in Nat /\ Limits!Period(p) >= 1 /\ Limits!Period(p) <= p.ttl /\ Limits!Period(p) <= p.block
BY DEF Limits!Policies, Limits!Period

\* A packet is granted. When a window begins with it, fewer than the limit were
\* granted in the period before; otherwise it is one more of the hits of the
\* window that runs. In both cases every period holds fewer than two limits.
LEMMA LimitsGrantKeeps ==
    ASSUME NEW p \in Limits!Policies, NEW now \in Nat, NEW k, NEW G, NEW r,
           LimitsCellInv(k, p), LimitsWindowInv(k, G, p, now), LimitsBound(G, p), Limits!Grants(k, p, now)
    PROVE  /\ LimitsWindowInv(Limits!Consumed(k, p, now), G \cup {<<r, now>>}, p, now)
           /\ LimitsBound(G \cup {<<r, now>>}, p)
<1> DEFINE e == <<r, now>>
           H == G \cup {e}
           j == Limits!Consumed(k, p, now)
           P == Limits!Period(p)
<1>1. /\ p.limit \in Nat /\ p.limit >= 1 /\ p.limit - 1 \in Nat /\ p.ttl \in Nat /\ p.ttl >= 1 /\ p.block \in Nat /\ p.block >= 1
      /\ P \in Nat /\ P >= 1 /\ P <= p.ttl /\ P <= p.block
    BY LimitsPeriodType
<1>2. /\ k.hits \in Nat /\ k.window \in Nat /\ k.block \in Nat
      /\ (k.block = 0 => k.hits <= p.limit) /\ k.block <= now
    BY DEF LimitsCellInv, Limits!Grants, Limits!Blocked
<1>3. e[2] = now /\ IsFiniteSet(G) /\ IsFiniteSet(H) /\ \A g \in G : g[2] \in Nat /\ g[2] <= now
    BY FS_AddElement DEF LimitsWindowInv, LimitsGrantsType
<1>4. LimitsGrantsType(H, now)
    BY <1>3 DEF LimitsGrantsType
<1>5. /\ j = [hits |-> IF Limits!Renewed(k, now) THEN 1 ELSE k.hits + 1,
              window |-> IF Limits!Renewed(k, now) THEN now + p.ttl ELSE k.window,
              block |-> 0]
      /\ (IF Limits!Renewed(k, now) THEN 1 ELSE k.hits + 1) <= p.limit
    <2>1. ~Limits!Blocked(k, now) /\ ~Limits!Blocked(j, now)
        BY DEF Limits!Grants
    <2>2. j = [hits |-> IF Limits!Renewed(k, now) THEN 1 ELSE k.hits + 1,
               window |-> IF Limits!Renewed(k, now) THEN now + p.ttl ELSE k.window,
               block |-> IF Limits!Exceeds(IF Limits!Renewed(k, now) THEN 1 ELSE k.hits + 1, p) THEN now + p.block ELSE 0]
        BY <2>1 DEF Limits!Consumed
    <2>3. ~Limits!Exceeds(IF Limits!Renewed(k, now) THEN 1 ELSE k.hits + 1, p)
        BY <1>1, <2>1, <2>2 DEF Limits!Blocked
    <2> QED BY <1>1, <1>2, <2>2, <2>3 DEF Limits!Exceeds
<1> HIDE DEF e, H, j, P
<1>6. CASE Limits!Renewed(k, now)
    <2>1. j.hits = 1 /\ j.window = now + p.ttl /\ j.block = 0 /\ LimitsOver(j) = now + p.ttl
        BY <1>5, <1>6 DEF LimitsOver
    <2>2. LimitsOver(k) <= now
        BY <1>2, <1>6 DEF Limits!Renewed, LimitsOver
    <2>3. \A g \in G : g[2] < now
        BY <1>2, <1>3, <2>2 DEF LimitsWindowInv, LimitsOver
    <2>4. Cardinality(LimitsRecent(G, p, now)) <= p.limit - 1 /\ IsFiniteSet(LimitsRecent(G, p, now))
        BY <1>3, <2>2, FS_Subset DEF LimitsWindowInv, LimitsRecent
    <2>5. LimitsOfWindow(j, H, p) \subseteq {e}
        BY <1>1, <1>3, <2>1, <2>3 DEF LimitsOfWindow, H
    <2>6. Cardinality(LimitsOfWindow(j, H, p)) <= 1
        BY <2>5, JustOne
    <2>7. LimitsPrevious(j, H, p) \subseteq LimitsRecent(G, p, now)
        BY <1>1, <1>3, <2>1, <2>3 DEF LimitsPrevious, LimitsRecent, H, P
    <2>8. Cardinality(LimitsPrevious(j, H, p)) <= p.limit - 1
        BY <1>1, <2>4, <2>7, Fewer
    <2>9. ASSUME NEW t \in Nat, LimitsOver(j) <= t, now <= t PROVE Cardinality(LimitsRecent(H, p, t)) <= p.limit - 1
        <3>1. LimitsRecent(H, p, t) = {}
            BY <1>1, <1>3, <2>1, <2>3, <2>9 DEF LimitsRecent, H, P
        <3>2. Cardinality(LimitsRecent(H, p, t)) = 0
            BY <3>1, FS_EmptySet
        <3> QED BY <1>1, <3>2
    <2>10. LimitsWindowInv(j, H, p, now)
        <3>1. \A g \in H : g[2] < LimitsOver(j) \/ g[2] < now
            BY <1>1, <1>3, <2>1, <2>3 DEF H
        <3>2. j.window <= now + p.ttl
            BY <1>1, <2>1
        <3>3. LimitsLater(j, H, p) = {}
            BY <1>1, <1>3, <2>1, <2>3 DEF LimitsLater, H
        <3>4. Cardinality(LimitsLater(j, H, p)) = 0
            BY <3>3, FS_EmptySet
        <3> QED BY <1>4, <2>1, <2>6, <2>8, <2>9, <3>1, <3>2, <3>4 DEF LimitsWindowInv
    <2>11. ASSUME NEW t \in Nat PROVE Cardinality(Limits!During(H, t, t + P)) <= 2 * p.limit - 1
        <3>1. CASE now < t + P
            <4>1. Limits!During(H, t, t + P) \subseteq LimitsRecent(G, p, now) \cup {e}
                BY <1>1, <1>3, <3>1 DEF Limits!During, LimitsRecent, H, P
            <4>2. Cardinality(Limits!During(H, t, t + P)) <= (p.limit - 1) + 1
                BY <1>1, <2>4, <4>1, OneMore
            <4>3. Cardinality(Limits!During(H, t, t + P)) \in Nat
                BY <1>3, FS_Subset, FS_CardinalityType DEF Limits!During
            <4> QED BY <1>1, <4>2, <4>3
        <3>2. CASE ~(now < t + P)
            <4>1. Limits!During(H, t, t + P) = Limits!During(G, t, t + P)
                BY <1>1, <1>3, <3>2 DEF Limits!During, H
            <4> QED BY <4>1 DEF LimitsBound, P
        <3> QED BY <3>1, <3>2
    <2> QED BY <2>10, <2>11 DEF LimitsBound, P, H, e, j
<1>7. CASE ~Limits!Renewed(k, now)
    <2>1. j.hits = k.hits + 1 /\ j.window = k.window /\ j.block = 0 /\ LimitsOver(j) = k.window
          /\ k.block = 0 /\ now < k.window /\ k.hits + 1 <= p.limit /\ k.window <= now + p.ttl
        BY <1>2, <1>5, <1>7 DEF LimitsOver, Limits!Renewed, LimitsWindowInv
    <2>2. /\ IsFiniteSet(LimitsOfWindow(k, G, p)) /\ Cardinality(LimitsOfWindow(k, G, p)) <= k.hits
          /\ IsFiniteSet(LimitsLater(k, G, p)) /\ Cardinality(LimitsLater(k, G, p)) <= k.hits - 1
          /\ IsFiniteSet(LimitsPrevious(k, G, p)) /\ Cardinality(LimitsPrevious(k, G, p)) <= p.limit - 1
        <3>1. /\ Cardinality(LimitsOfWindow(k, G, p)) <= k.hits /\ Cardinality(LimitsLater(k, G, p)) <= k.hits - 1
              /\ Cardinality(LimitsPrevious(k, G, p)) <= p.limit - 1
            BY <2>1 DEF LimitsWindowInv
        <3>2. LimitsOfWindow(k, G, p) \subseteq G /\ LimitsLater(k, G, p) \subseteq G /\ LimitsPrevious(k, G, p) \subseteq G
            BY DEF LimitsOfWindow, LimitsLater, LimitsPrevious
        <3> QED BY <1>3, <3>1, <3>2, FS_Subset
    <2>3. LimitsOfWindow(j, H, p) \subseteq LimitsOfWindow(k, G, p) \cup {e}
        BY <2>1 DEF LimitsOfWindow, H
    <2>4. Cardinality(LimitsOfWindow(j, H, p)) <= k.hits + 1
        BY <1>2, <2>2, <2>3, OneMore
    <2>5. LimitsPrevious(j, H, p) \subseteq LimitsPrevious(k, G, p)
        BY <1>1, <1>2, <1>3, <2>1 DEF LimitsPrevious, H
    <2>6. Cardinality(LimitsPrevious(j, H, p)) <= p.limit - 1
        BY <1>1, <2>2, <2>5, Fewer
    <2>7. IsFiniteSet(LimitsOfWindow(j, H, p)) /\ Cardinality(LimitsOfWindow(j, H, p)) <= p.limit
        <3>1. LimitsOfWindow(j, H, p) \subseteq H
            BY DEF LimitsOfWindow
        <3>2. IsFiniteSet(LimitsOfWindow(j, H, p)) /\ Cardinality(LimitsOfWindow(j, H, p)) \in Nat
            BY <1>3, <3>1, FS_Subset, FS_CardinalityType
        <3> QED BY <1>1, <1>2, <2>1, <2>4, <3>2
    <2>8. IsFiniteSet(LimitsLater(j, H, p)) /\ Cardinality(LimitsLater(j, H, p)) <= k.hits
        <3>1. LimitsLater(j, H, p) \subseteq LimitsLater(k, G, p) \cup {e}
            BY <2>1 DEF LimitsLater, H
        <3>2. Cardinality(LimitsLater(k, G, p)) \in Nat
            BY <2>2, FS_CardinalityType
        <3>3. k.hits - 1 \in Nat
            BY <1>2, <2>2, <3>2
        <3>4. Cardinality(LimitsLater(j, H, p)) <= (k.hits - 1) + 1
            BY <2>2, <3>1, <3>3, OneMore
        <3>5. LimitsLater(j, H, p) \subseteq H
            BY DEF LimitsLater
        <3> QED BY <1>2, <1>3, <3>4, <3>5, FS_Subset
    <2>9. ASSUME NEW t \in Nat, LimitsOver(j) <= t, now <= t PROVE Cardinality(LimitsRecent(H, p, t)) <= p.limit - 1
        <3>1. \A g \in H : g[2] \in Nat
            BY <1>3 DEF H
        <3>2. LimitsRecent(H, p, t) \subseteq LimitsLater(j, H, p)
            BY <1>1, <1>2, <2>1, <2>9, <3>1 DEF LimitsRecent, LimitsLater, P
        <3>3. Cardinality(LimitsRecent(H, p, t)) \in Nat /\ Cardinality(LimitsRecent(H, p, t)) <= k.hits
            BY <1>2, <2>8, <3>2, Fewer
        <3> QED BY <1>1, <1>2, <2>1, <3>3
    <2>10. LimitsWindowInv(j, H, p, now)
        <3>1. \A g \in H : g[2] < LimitsOver(j) \/ g[2] < now
            BY <1>2, <1>3, <2>1 DEF H
        <3>2. Cardinality(LimitsLater(j, H, p)) <= j.hits - 1
            BY <1>2, <2>1, <2>8
        <3> QED BY <1>4, <2>1, <2>4, <2>6, <2>9, <3>1, <3>2 DEF LimitsWindowInv
    <2>11. ASSUME NEW t \in Nat PROVE Cardinality(Limits!During(H, t, t + P)) <= 2 * p.limit - 1
        <3>1. CASE now < t + P
            <4>1. Limits!During(H, t, t + P) \subseteq LimitsOfWindow(j, H, p) \cup LimitsPrevious(k, G, p)
                <5> SUFFICES ASSUME NEW g \in H, t <= g[2], ~(g[2] + p.ttl >= j.window)
                             PROVE  g \in LimitsPrevious(k, G, p)
                    BY DEF Limits!During, LimitsOfWindow
                <5>1. g \in G /\ g[2] \in Nat
                    BY <1>1, <1>3, <2>1 DEF H
                <5>2. g[2] + P + p.ttl > k.window
                    BY <1>1, <1>2, <2>1, <3>1, <5>1
                <5> QED BY <1>1, <1>2, <2>1, <5>1, <5>2 DEF LimitsPrevious, P
            <4>2. Cardinality(Limits!During(H, t, t + P)) <= p.limit + (p.limit - 1)
                BY <1>1, <2>2, <2>7, <4>1, Together
            <4> QED BY <1>1, <4>2
        <3>2. CASE ~(now < t + P)
            <4>1. Limits!During(H, t, t + P) = Limits!During(G, t, t + P)
                BY <1>1, <1>3, <3>2 DEF Limits!During, H
            <4> QED BY <4>1 DEF LimitsBound, P
        <3> QED BY <3>1, <3>2
    <2> QED BY <2>10, <2>11 DEF LimitsBound, P, H, e, j
<1> QED BY <1>6, <1>7

\* A packet is refused: the counter is blocked already, or this packet blocks
\* it, and whatever is granted after the block is a period away from what was
\* granted before the window.
LEMMA LimitsRefusalKeeps ==
    ASSUME NEW p \in Limits!Policies, NEW now \in Nat, NEW k, NEW G,
           LimitsCellInv(k, p), LimitsWindowInv(k, G, p, now), ~Limits!Grants(k, p, now)
    PROVE  LimitsWindowInv(Limits!Consumed(k, p, now), G, p, now)
<1> DEFINE j == Limits!Consumed(k, p, now)
           P == Limits!Period(p)
<1>1. /\ p.limit \in Nat /\ p.limit >= 1 /\ p.limit - 1 \in Nat /\ p.ttl \in Nat /\ p.ttl >= 1 /\ p.block \in Nat /\ p.block >= 1
      /\ P \in Nat /\ P >= 1 /\ P <= p.ttl /\ P <= p.block
    BY LimitsPeriodType
<1>2. /\ k.hits \in Nat /\ k.window \in Nat /\ k.block \in Nat /\ (k.block = 0 => k.hits <= p.limit)
    BY DEF LimitsCellInv
<1>3. CASE Limits!Blocked(k, now)
    BY <1>3 DEF Limits!Consumed, Limits!WhileBlocked
<1>4. CASE ~Limits!Blocked(k, now)
    <2>1. Limits!Blocked(j, now)
        BY <1>4 DEF Limits!Grants
    <2>2. j = [hits |-> IF Limits!Renewed(k, now) THEN 1 ELSE k.hits + 1,
               window |-> IF Limits!Renewed(k, now) THEN now + p.ttl ELSE k.window,
               block |-> IF Limits!Exceeds(IF Limits!Renewed(k, now) THEN 1 ELSE k.hits + 1, p) THEN now + p.block ELSE 0]
        BY <1>4 DEF Limits!Consumed
    <2> HIDE DEF j, P
    <2>3. Limits!Exceeds(IF Limits!Renewed(k, now) THEN 1 ELSE k.hits + 1, p)
        BY <2>1, <2>2 DEF Limits!Blocked
    <2>4. ~Limits!Renewed(k, now) /\ k.block = 0 /\ now < k.window
        BY <1>1, <1>2, <2>3 DEF Limits!Exceeds, Limits!Renewed
    <2>5. j.block = now + p.block /\ j.window = k.window /\ LimitsOver(j) = now + p.block
        BY <1>1, <2>2, <2>3, <2>4 DEF LimitsOver
    <2>6. IsFiniteSet(G) /\ k.window <= now + p.ttl /\ \A g \in G : g[2] \in Nat /\ g[2] <= now
        BY DEF LimitsWindowInv, LimitsGrantsType
    <2>7. ASSUME NEW t \in Nat, LimitsOver(j) <= t PROVE Cardinality(LimitsRecent(G, p, t)) <= p.limit - 1
        <3>1. LimitsRecent(G, p, t) = {}
            BY <1>1, <2>5, <2>6, <2>7 DEF LimitsRecent, P
        <3>2. Cardinality(LimitsRecent(G, p, t)) = 0
            BY <3>1, FS_EmptySet
        <3> QED BY <1>1, <3>2
    <2>8. \A g \in G : g[2] < LimitsOver(j)
        BY <1>1, <2>5, <2>6
    <2>9. LimitsWindowInv(j, G, p, now)
        BY <1>1, <2>5, <2>6, <2>7, <2>8 DEF LimitsWindowInv, LimitsGrantsType
    <2> QED BY <2>9 DEF j
<1> QED BY <1>3, <1>4

\* Time passes, and Redis may drop a counter that is over.
LEMMA LimitsTimeKeeps ==
    ASSUME NEW p \in Limits!Policies, NEW now \in Nat, NEW k, NEW j, NEW G,
           LimitsCellInv(k, p), LimitsWindowInv(k, G, p, now),
           j = k \/ (j = Limits!NoCell /\ k.window <= now + 1 /\ k.block <= now + 1)
    PROVE  LimitsWindowInv(j, G, p, now + 1)
<1>1. p.limit \in Nat /\ p.ttl \in Nat /\ k.window \in Nat /\ k.block \in Nat
    BY LimitsPeriodType DEF LimitsCellInv
<1>2. LimitsGrantsType(G, now + 1) /\ \A g \in G : g[2] < now + 1
    BY DEF LimitsWindowInv, LimitsGrantsType
<1>3. CASE j = k
    BY <1>1, <1>2, <1>3 DEF LimitsWindowInv
<1>4. CASE j = Limits!NoCell /\ k.window <= now + 1 /\ k.block <= now + 1
    <2>1. j.window = 0 /\ j.block = 0
        BY <1>4 DEF Limits!NoCell
    <2>2. LimitsOver(k) <= now + 1 /\ LimitsOver(k) \in Nat
        BY <1>1, <1>4 DEF LimitsOver
    <2>3. ASSUME NEW t \in Nat, now + 1 <= t PROVE Cardinality(LimitsRecent(G, p, t)) <= p.limit - 1
        BY <2>2, <2>3 DEF LimitsWindowInv
    <2> QED BY <1>1, <1>2, <2>1, <2>3 DEF LimitsWindowInv
<1> QED BY <1>3, <1>4

\* A new counter, or one that Redis forgot, has granted nothing.
LEMMA LimitsNothingGranted ==
    ASSUME NEW p \in Limits!Policies, NEW now \in Nat
    PROVE  LimitsWindowInv(Limits!NoCell, {}, p, now) /\ LimitsBound({}, p)
<1>1. p.limit \in Nat /\ p.limit >= 1 /\ p.ttl \in Nat
    BY LimitsPeriodType
<1>2. IsFiniteSet({}) /\ Cardinality({}) = 0
    BY FS_EmptySet
<1>3. ASSUME NEW t \in Nat PROVE Cardinality(LimitsRecent({}, p, t)) <= p.limit - 1
    <2>1. LimitsRecent({}, p, t) = {}
        BY DEF LimitsRecent
    <2>2. Cardinality(LimitsRecent({}, p, t)) = 0
        BY <1>2, <2>1
    <2> QED BY <1>1, <2>2
<1>4. ASSUME NEW t \in Nat PROVE Cardinality(Limits!During({}, t, t + Limits!Period(p))) <= 2 * p.limit - 1
    <2>1. Limits!During({}, t, t + Limits!Period(p)) = {}
        BY DEF Limits!During
    <2>2. Cardinality(Limits!During({}, t, t + Limits!Period(p))) = 0
        BY <1>2, <2>1
    <2> QED BY <1>1, <2>2
<1> QED BY <1>1, <1>2, <1>3, <1>4 DEF LimitsWindowInv, LimitsGrantsType, Limits!NoCell, LimitsBound

\* What holds of one counter.
LimitsCounterInv(c) ==
    /\ LimitsCellInv(cell[c], Limits!Policy(c))
    /\ LimitsWindowInv(cell[c], granted[c], Limits!Policy(c), clock)
    /\ LimitsBound(granted[c], Limits!Policy(c))

\* The inductive invariant of the limiter.
LimitsIInv ==
    /\ Limits!TypeOK
    /\ DOMAIN cell = Limits!Counters /\ cell = [c \in Limits!Counters |-> cell[c]]
    /\ \A c \in Limits!Counters : LimitsCounterInv(c)

\* The policy of a counter is one that assertPolicy accepts.
LEMMA LimitsPolicyType ==
    ASSUME Limits!RateLimitAssumption, NEW c \in Limits!Counters
    PROVE  /\ Limits!Policy(c) \in Limits!Policies
           /\ Limits!Policy(c).limit \in Nat \ {0} /\ Limits!Policy(c).ttl \in Nat \ {0} /\ Limits!Policy(c).block \in Nat \ {0}
BY DEF Limits!RateLimitAssumption, Limits!Policies, Limits!Policy

\* The Lua script and consumeBucket keep a counter within its limit, and leave
\* a blocked one alone.
LEMMA LimitsConsumedInv ==
    ASSUME Limits!RateLimitAssumption, NEW c \in Limits!Counters, NEW k, LimitsCellInv(k, Limits!Policy(c)), NEW now \in Nat
    PROVE  /\ LimitsCellInv(Limits!Consumed(k, Limits!Policy(c), now), Limits!Policy(c))
           /\ k.block > now => Limits!Consumed(k, Limits!Policy(c), now) = k
<1> DEFINE p == Limits!Policy(c)
           hits == IF Limits!Renewed(k, now) THEN 1 ELSE k.hits + 1
           window == IF Limits!Renewed(k, now) THEN now + p.ttl ELSE k.window
           block == IF Limits!Exceeds(hits, p) THEN now + p.block ELSE 0
<1>1. p.limit \in Nat \ {0} /\ p.ttl \in Nat \ {0} /\ p.block \in Nat \ {0}
    BY LimitsPolicyType
<1>2. k.hits \in Nat /\ k.window \in Nat /\ k.block \in Nat /\ k.hits <= p.limit + 1
      /\ (k.block = 0 => k.hits <= p.limit)
    BY DEF LimitsCellInv
<1>3. CASE Limits!Blocked(k, now)
    BY <1>3 DEF Limits!Consumed, Limits!WhileBlocked
<1>4. CASE ~Limits!Blocked(k, now)
    <2>1. Limits!Consumed(k, p, now) = [hits |-> hits, window |-> window, block |-> block]
        BY <1>4 DEF Limits!Consumed
    <2>2. hits \in Nat /\ window \in Nat /\ block \in Nat
        BY <1>1, <1>2
    <2>3. hits <= p.limit + 1 /\ (block = 0 => hits <= p.limit)
        BY <1>1, <1>2 DEF Limits!Renewed, Limits!Exceeds
    <2> HIDE DEF hits, window, block, p
    <2>4. LimitsCellInv([hits |-> hits, window |-> window, block |-> block], p)
        BY <2>2, <2>3 DEF LimitsCellInv
    <2> QED BY <1>2, <1>4, <2>1, <2>4 DEF Limits!Blocked, p
<1> QED BY <1>3, <1>4

\* A counter is consumed: what becomes of it, of the packet and of the history.
LEMMA LimitsConsumeEffect ==
    ASSUME Limits!RateLimitAssumption, LimitsIInv, NEW c \in Limits!Counters, NEW r \in Requests,
           NEW yes \in {"local", "yes", "refused"}, NEW no \in {"no", "refused"}, Limits!Consume(c, r, yes, no),
           UNCHANGED clock
    PROVE  /\ cell' = [cell EXCEPT ![c] = Limits!Consumed(cell[c], Limits!Policy(c), clock)]
           /\ \A x \in Limits!Counters : LimitsCounterInv(x)'
           /\ DOMAIN cell' = Limits!Counters /\ cell' = [x \in Limits!Counters |-> cell'[x]]
           /\ req' \in [Requests -> {"idle", "local", "sent", "late", "yes", "no", "admitted", "refused"}]
           /\ \A x \in Requests : req'[x] # req[x] => req'[x] \in {yes, no}
           /\ granted' \in [Limits!Counters -> SUBSET (Requests \X (0..MaxClock))]
<1>1. cell' = [cell EXCEPT ![c] = Limits!Consumed(cell[c], Limits!Policy(c), clock)]
    BY DEF Limits!Consume
<1>2. clock \in Nat /\ clock \in 0..MaxClock
    BY DEF LimitsIInv, Limits!TypeOK, Limits!RateLimitAssumption
<1>3. LimitsCellInv(Limits!Consumed(cell[c], Limits!Policy(c), clock), Limits!Policy(c))
    BY <1>2, LimitsConsumedInv DEF LimitsIInv, LimitsCounterInv
<1>4. DOMAIN cell' = Limits!Counters /\ cell' = [x \in Limits!Counters |-> cell'[x]]
    BY <1>1 DEF LimitsIInv
<1>5. /\ cell'[c] = Limits!Consumed(cell[c], Limits!Policy(c), clock)
      /\ granted'[c] = IF Limits!Grants(cell[c], Limits!Policy(c), clock) THEN granted[c] \cup {<<r, clock>>} ELSE granted[c]
      /\ \A x \in Limits!Counters \ {c} : cell'[x] = cell[x] /\ granted'[x] = granted[x]
    BY <1>1 DEF LimitsIInv, Limits!TypeOK, Limits!Consume
<1>6. /\ LimitsWindowInv(cell'[c], granted'[c], Limits!Policy(c), clock)
      /\ LimitsBound(granted'[c], Limits!Policy(c))
    <2>1. /\ Limits!Policy(c) \in Limits!Policies /\ LimitsCellInv(cell[c], Limits!Policy(c))
          /\ LimitsWindowInv(cell[c], granted[c], Limits!Policy(c), clock) /\ LimitsBound(granted[c], Limits!Policy(c))
        BY LimitsPolicyType DEF LimitsIInv, LimitsCounterInv
    <2>2. CASE Limits!Grants(cell[c], Limits!Policy(c), clock)
        <3>1. /\ LimitsWindowInv(Limits!Consumed(cell[c], Limits!Policy(c), clock), granted[c] \cup {<<r, clock>>}, Limits!Policy(c), clock)
              /\ LimitsBound(granted[c] \cup {<<r, clock>>}, Limits!Policy(c))
            BY <1>2, <2>1, <2>2, LimitsGrantKeeps
        <3> QED BY <1>5, <2>2, <3>1
    <2>3. CASE ~Limits!Grants(cell[c], Limits!Policy(c), clock)
        BY <1>2, <1>5, <2>1, <2>3, LimitsRefusalKeeps
    <2> QED BY <2>2, <2>3
<1>7. ASSUME NEW x \in Limits!Counters PROVE LimitsCounterInv(x)'
    <2>1. CASE x = c
        BY <1>3, <1>5, <1>6, <2>1 DEF LimitsCounterInv, Limits!Policy
    <2>2. CASE x # c
        BY <1>5, <2>2 DEF LimitsIInv, LimitsCounterInv, Limits!Policy
    <2> QED BY <2>1, <2>2
<1>8. req' = [req EXCEPT ![r] = yes] \/ req' = [req EXCEPT ![r] = no]
    BY DEF Limits!Consume
<1>9. granted' \in [Limits!Counters -> SUBSET (Requests \X (0..MaxClock))]
    BY <1>2 DEF Limits!Consume, LimitsIInv, Limits!TypeOK
<1>10. req' \in [Requests -> {"idle", "local", "sent", "late", "yes", "no", "admitted", "refused"}]
    BY <1>8 DEF LimitsIInv, Limits!TypeOK
<1>11. \A x \in Requests : req'[x] # req[x] => req'[x] \in {yes, no}
    BY <1>8 DEF LimitsIInv, Limits!TypeOK
<1> QED BY <1>1, <1>4, <1>7, <1>9, <1>10, <1>11

\* The shape of the counters follows from their invariant.
LEMMA LimitsCellTypes ==
    ASSUME Limits!RateLimitAssumption, \A c \in Limits!Counters : LimitsCounterInv(c)
    PROVE  \A c \in Limits!Counters : /\ cell[c].hits \in 0..(Limits!Policy(c).limit + 1)
                               /\ cell[c].window \in Nat /\ cell[c].block \in Nat
<1> SUFFICES ASSUME NEW c \in Limits!Counters
             PROVE  cell[c].hits \in 0..(Limits!Policy(c).limit + 1) /\ cell[c].window \in Nat /\ cell[c].block \in Nat
    OBVIOUS
<1>1. Limits!Policy(c).limit \in Nat
    BY LimitsPolicyType
<1> QED BY <1>1 DEF LimitsCounterInv, LimitsCellInv

\* New counters satisfy the invariant.
LEMMA LimitsInitInv ==
    ASSUME Limits!RateLimitAssumption, Limits!Init PROVE LimitsIInv
<1>2. ASSUME NEW c \in Limits!Counters PROVE LimitsCounterInv(c)
    <2>1. cell[c] = Limits!NoCell /\ granted[c] = {} /\ clock = 0 /\ Limits!Policy(c) \in Limits!Policies
        BY LimitsPolicyType DEF Limits!Init
    <2>2. LimitsCellInv(cell[c], Limits!Policy(c))
        BY <2>1, LimitsPolicyType DEF LimitsCellInv, Limits!NoCell
    <2> QED BY <2>1, <2>2, LimitsNothingGranted DEF LimitsCounterInv
<1>3. granted \in [Limits!Counters -> SUBSET (Requests \X (0..MaxClock))]
    BY DEF Limits!Init
<1>4. Limits!TypeOK
    BY <1>2, <1>3, LimitsCellTypes DEF Limits!Init, Limits!TypeOK, Limits!RateLimitAssumption
<1> QED BY <1>2, <1>4 DEF LimitsIInv, Limits!Init

\* The bucket of the socket and the script of Redis preserve the invariant.
LEMMA LimitsConsumeStep ==
    ASSUME Limits!RateLimitAssumption, LimitsIInv, NEW r \in Requests, Limits!Arrive(r) \/ Limits!Eval(r) PROVE LimitsIInv'
<1>1. \E c \in Limits!Counters, yes \in {"local", "yes", "refused"}, no \in {"no", "refused"} :
        Limits!Consume(c, r, yes, no)
    BY DEF Limits!Arrive, Limits!Eval, Limits!Counters, Limits!RateLimitAssumption
<1>2. UNCHANGED <<clock, faults, state, client, link, busy>>
    BY DEF Limits!Arrive, Limits!Eval
<1>3. /\ \A x \in Limits!Counters : LimitsCounterInv(x)'
      /\ DOMAIN cell' = Limits!Counters /\ cell' = [x \in Limits!Counters |-> cell'[x]]
      /\ req' \in [Requests -> {"idle", "local", "sent", "late", "yes", "no", "admitted", "refused"}]
      /\ granted' \in [Limits!Counters -> SUBSET (Requests \X (0..MaxClock))]
    BY <1>1, <1>2, LimitsConsumeEffect
<1>4. \A c \in Limits!Counters : /\ cell'[c].hits \in 0..(Limits!Policy(c).limit + 1)
                          /\ cell'[c].window \in Nat /\ cell'[c].block \in Nat
    BY <1>3, LimitsPolicyType DEF LimitsCounterInv, LimitsCellInv, Limits!Policy
<1> QED BY <1>2, <1>3, <1>4 DEF LimitsIInv, Limits!TypeOK

\* Commands, time-outs and answers preserve the invariant.
LEMMA LimitsPacketStep ==
    ASSUME Limits!RateLimitAssumption, LimitsIInv, NEW r \in Requests,
           Limits!Increment(r) \/ Limits!TimeOut(r) \/ Limits!Lost(r) \/ Limits!Answer(r)
    PROVE  LimitsIInv'
<1>1. req' \in [Requests -> {"idle", "local", "sent", "late", "yes", "no", "admitted", "refused"}]
    BY DEF LimitsIInv, Limits!TypeOK, Limits!Increment, Limits!TimeOut, Limits!Lost, Limits!Answer,
       Limits!Unanswered
<1>2. UNCHANGED <<clock, faults, state, client, link, busy, cell, granted>>
    BY DEF Limits!Increment, Limits!TimeOut, Limits!Lost, Limits!Answer
<1> QED BY <1>1, <1>2 DEF LimitsIInv, Limits!TypeOK, LimitsCounterInv

\* Instances that start, stop and lose their connection preserve the invariant.
LEMMA LimitsInstanceStep ==
    ASSUME Limits!RateLimitAssumption, LimitsIInv, NEW n \in Nodes, Limits!Instance(n) PROVE LimitsIInv'
<1>1. UNCHANGED <<clock, cell, req, granted>>
    BY DEF Limits!Instance, Limits!Start, Limits!LinkUp, Limits!Ready, Limits!InitFails,
       Limits!LinkDown, Limits!OnEnd, Limits!Shutdown, Limits!Closed
<1>2. faults' \in 0..MaxFaults
    BY DEF Limits!Instance, Limits!Start, Limits!LinkUp, Limits!Ready, Limits!InitFails,
       Limits!LinkDown, Limits!OnEnd, Limits!Shutdown, Limits!Closed, LimitsIInv, Limits!TypeOK,
           Limits!RateLimitAssumption
<1>3. /\ state' \in [Nodes -> {"new", "connecting", "ready", "unavailable", "closing", "closed"}]
      /\ client' \subseteq Nodes /\ link' \subseteq Nodes
    BY DEF Limits!Instance, Limits!Start, Limits!LinkUp, Limits!Ready, Limits!InitFails,
       Limits!LinkDown, Limits!OnEnd, Limits!Shutdown, Limits!Closed, LimitsIInv, Limits!TypeOK
<1>4. busy' \in [Nodes -> SUBSET {"init", "close"}]
    BY DEF Limits!Instance, Limits!Start, Limits!LinkUp, Limits!Ready, Limits!InitFails,
       Limits!LinkDown, Limits!OnEnd, Limits!Shutdown, Limits!Closed, LimitsIInv, Limits!TypeOK
<1> QED BY <1>1, <1>2, <1>3, <1>4 DEF LimitsIInv, Limits!TypeOK, LimitsCounterInv

\* A restart of Redis and the time preserve the invariant.
LEMMA LimitsRestartStep ==
    ASSUME Limits!RateLimitAssumption, LimitsIInv, Limits!RedisRestart \/ Limits!Tick PROVE LimitsIInv'
<1>1. \E k \in {Limits!NoCell, cell["redis"]} : cell' = [cell EXCEPT !["redis"] = k]
    BY DEF Limits!RedisRestart, Limits!Tick
<1>2. DOMAIN cell' = Limits!Counters /\ cell' = [x \in Limits!Counters |-> cell'[x]]
    BY <1>1 DEF LimitsIInv
<1>3. ASSUME NEW c \in Limits!Counters PROVE LimitsCounterInv(c)'
    <2>1. /\ Limits!Policy(c) \in Limits!Policies /\ LimitsCellInv(Limits!NoCell, Limits!Policy(c)) /\ clock \in Nat
          /\ LimitsCellInv(cell[c], Limits!Policy(c)) /\ LimitsWindowInv(cell[c], granted[c], Limits!Policy(c), clock)
          /\ LimitsBound(granted[c], Limits!Policy(c))
        BY LimitsPolicyType DEF LimitsCellInv, Limits!NoCell, LimitsIInv, LimitsCounterInv,
           Limits!TypeOK, Limits!RateLimitAssumption
    <2>2. CASE Limits!RedisRestart
        <3>1. clock' = clock /\ (c # "redis" => cell'[c] = cell[c] /\ granted'[c] = granted[c])
              /\ (c = "redis" => cell'[c] = Limits!NoCell /\ granted'[c] = {})
            BY <2>2 DEF Limits!RedisRestart, LimitsIInv, Limits!TypeOK
        <3>2. LimitsWindowInv(Limits!NoCell, {}, Limits!Policy(c), clock) /\ LimitsBound({}, Limits!Policy(c))
            BY <2>1, LimitsNothingGranted
        <3> QED BY <2>1, <3>1, <3>2 DEF LimitsCounterInv, Limits!Policy
    <2>3. CASE Limits!Tick
        <3>1. /\ clock' = clock + 1 /\ granted'[c] = granted[c]
              /\ \/ cell'[c] = cell[c]
                 \/ cell'[c] = Limits!NoCell /\ cell[c].window <= clock + 1 /\ cell[c].block <= clock + 1
            BY <2>3 DEF Limits!Tick, LimitsIInv, Limits!TypeOK
        <3>2. LimitsWindowInv(cell'[c], granted[c], Limits!Policy(c), clock + 1)
            BY <2>1, <3>1, LimitsTimeKeeps
        <3> QED BY <2>1, <3>1, <3>2 DEF LimitsCounterInv, Limits!Policy
    <2> QED BY <2>2, <2>3
<1>4. \A c \in Limits!Counters : /\ cell'[c].hits \in 0..(Limits!Policy(c).limit + 1)
                          /\ cell'[c].window \in Nat /\ cell'[c].block \in Nat
    BY <1>3, LimitsPolicyType DEF LimitsCounterInv, LimitsCellInv, Limits!Policy
<1>5. granted' \in [Limits!Counters -> SUBSET (Requests \X (0..MaxClock))]
    BY DEF Limits!RedisRestart, Limits!Tick, LimitsIInv, Limits!TypeOK
<1>6. clock' \in 0..MaxClock /\ faults' \in 0..MaxFaults /\ link' \subseteq Nodes
    BY DEF Limits!RedisRestart, Limits!Tick, LimitsIInv, Limits!TypeOK, Limits!RateLimitAssumption
<1>7. UNCHANGED <<state, client, busy, req>>
    BY DEF Limits!RedisRestart, Limits!Tick
<1> QED BY <1>2, <1>3, <1>4, <1>5, <1>6, <1>7 DEF LimitsIInv, Limits!TypeOK

\* The invariant of the limiter holds in every reachable state.
THEOREM LimitsInvariance ==
    ASSUME Limits!RateLimitAssumption PROVE Limits!Spec => []LimitsIInv
<1>1. LimitsIInv /\ UNCHANGED Limits!vars => LimitsIInv'
    BY DEF LimitsIInv, Limits!TypeOK, LimitsCounterInv, Limits!vars
<1>2. LimitsIInv /\ [Limits!Next]_(Limits!vars) => LimitsIInv'
    BY <1>1, LimitsConsumeStep, LimitsPacketStep, LimitsInstanceStep, LimitsRestartStep
       DEF Limits!Next, Limits!Packet
<1> QED BY <1>2, LimitsInitInv, PTL DEF Limits!Spec

\* Inside the instance the cardinality has a name of its own.
LEMMA LimitsSize ==
    ASSUME NEW S PROVE Limits!Cardinality(S) = Cardinality(S)
BY DEF Limits!Cardinality, Cardinality

\* For any instances, sockets, packets and policies: no counter runs past the
\* hit that blocks it, and in any period - a window, or a block where that is
\* shorter - it grants at most twice its limit less one, through whichever instances the
\* packets come (the Lua script and consumeBucket).
THEOREM LimitsAreSafe ==
    ASSUME Limits!RateLimitAssumption PROVE Limits!Spec => []LimitsSafe
<1>1. ASSUME LimitsIInv, NEW c \in Limits!Counters, NEW t \in 0..MaxClock
      PROVE  Cardinality(Limits!During(granted[c], t, t + Limits!Period(Limits!Policy(c)))) <= 2 * Limits!Policy(c).limit - 1
    BY <1>1 DEF LimitsIInv, LimitsCounterInv, LimitsBound
<1>2. LimitsIInv => LimitsSafe
    BY <1>1, LimitsSize DEF LimitsIInv, LimitsSafe, Limits!LimitsSafe, Limits!WindowBound
<1> QED BY <1>2, LimitsInvariance, PTL

\* A block is changed by nothing but a restart of Redis before its instant.
LEMMA LimitsBlockStep ==
    ASSUME Limits!RateLimitAssumption, LimitsIInv, Limits!Next, NEW c \in Limits!Counters, Limits!Blocked(cell[c], clock')
    PROVE  cell'[c].block = cell[c].block \/ (c = "redis" /\ Limits!RedisRestart)
<1>0. clock \in Nat /\ cell[c].block \in Nat
    BY DEF LimitsIInv, Limits!TypeOK, Limits!RateLimitAssumption
<1>1. ASSUME NEW r \in Requests, Limits!Arrive(r) \/ Limits!Eval(r) PROVE cell'[c].block = cell[c].block
    <2>1. PICK d \in Limits!Counters, yes \in {"local", "yes", "refused"}, no \in {"no", "refused"} :
            Limits!Consume(d, r, yes, no)
        BY <1>1 DEF Limits!Arrive, Limits!Eval, Limits!Counters, Limits!RateLimitAssumption
    <2>2. cell' = [cell EXCEPT ![d] = Limits!Consumed(cell[d], Limits!Policy(d), clock)]
        BY <2>1 DEF Limits!Consume
    <2>3. clock' = clock
        BY <1>1 DEF Limits!Arrive, Limits!Eval
    <2>4. c = d => Limits!Consumed(cell[d], Limits!Policy(d), clock) = cell[d]
        BY <1>0, <2>3, LimitsConsumedInv DEF LimitsIInv, LimitsCounterInv, Limits!Blocked
    <2> QED BY <2>2, <2>4 DEF LimitsIInv
<1>2. CASE Limits!Tick
    <2>1. clock' = clock + 1 /\ (c = "redis" => ~(cell["redis"].block <= clock + 1))
        BY <1>0, <1>2 DEF Limits!Tick, Limits!Blocked
    <2> QED BY <1>2, <2>1 DEF Limits!Tick, LimitsIInv
<1>3. CASE Limits!RedisRestart
    BY <1>3 DEF Limits!RedisRestart, LimitsIInv
<1>4. ASSUME UNCHANGED cell PROVE cell'[c].block = cell[c].block
    BY <1>4
<1> QED BY <1>1, <1>2, <1>3, <1>4 DEF Limits!Next, Limits!Packet, Limits!Increment, Limits!TimeOut,
        Limits!Lost, Limits!Answer,
         Limits!Instance, Limits!Start, Limits!LinkUp, Limits!Ready, Limits!InitFails,
         Limits!LinkDown, Limits!OnEnd, Limits!Shutdown, Limits!Closed

\* Only a positive answer admits, and only an instance with a client sends.
LEMMA LimitsAdmitStep ==
    ASSUME Limits!RateLimitAssumption, LimitsIInv, Limits!Next, NEW r \in Requests
    PROVE  /\ req'[r] = "admitted" /\ req[r] # "admitted" => req[r] = "yes"
           /\ req'[r] = "sent" /\ req[r] # "sent" => Limits!NodeFor(r) \in client
<1> DEFINE G == /\ req'[r] = "admitted" /\ req[r] # "admitted" => req[r] = "yes"
                /\ req'[r] = "sent" /\ req[r] # "sent" => Limits!NodeFor(r) \in client
<1>1. ASSUME NEW x \in Requests, Limits!Arrive(x) \/ Limits!Eval(x) PROVE G
    <2>1. PICK c \in Limits!Counters, yes \in {"local", "yes", "refused"}, no \in {"no", "refused"} :
            Limits!Consume(c, x, yes, no)
        BY <1>1 DEF Limits!Arrive, Limits!Eval, Limits!Counters, Limits!RateLimitAssumption
    <2>2. UNCHANGED clock
        BY <1>1 DEF Limits!Arrive, Limits!Eval
    <2> QED BY <2>1, <2>2, LimitsConsumeEffect
<1>2. ASSUME NEW x \in Requests, Limits!Increment(x) \/ Limits!TimeOut(x) \/ Limits!Lost(x) \/ Limits!Answer(x) PROVE G
    BY <1>2 DEF LimitsIInv, Limits!TypeOK, Limits!Increment, Limits!TimeOut, Limits!Lost,
       Limits!Answer, Limits!Unanswered, Limits!Usable
<1>3. ASSUME UNCHANGED req PROVE G
    BY <1>3
<1> QED BY <1>1, <1>2, <1>3 DEF Limits!Next, Limits!Packet, Limits!RedisRestart, Limits!Tick,
         Limits!Instance, Limits!Start, Limits!LinkUp, Limits!Ready, Limits!InitFails,
         Limits!LinkDown, Limits!OnEnd, Limits!Shutdown, Limits!Closed

\* For any instances, sockets, packets and policies: a block stands until its
\* instant, a packet passes only by an answer of Redis that came in time, and
\* an instance that was shut down sends nothing (increment).
THEOREM LimitsDoStand ==
    ASSUME Limits!RateLimitAssumption PROVE Limits!Spec => LimitsStand
<1> DEFINE A == \A c \in Limits!Counters :
                   Limits!Blocked(cell[c], clock')
                   => cell'[c].block = cell[c].block \/ (c = "redis" /\ Limits!RedisRestart)
           B == \A r \in Requests :
                   req'[r] = "admitted" /\ req[r] # "admitted" => req[r] = "yes"
           C == \A r \in Requests :
                   req'[r] = "sent" /\ req[r] # "sent" => Limits!NodeFor(r) \in client
<1>1. LimitsIInv /\ [Limits!Next]_(Limits!vars) => [A]_(Limits!vars) /\ [B]_(Limits!vars) /\ [C]_(Limits!vars)
    BY LimitsBlockStep, LimitsAdmitStep
<1> HIDE DEF A, B, C
<1>2. Limits!Spec => [][A]_(Limits!vars) /\ [][B]_(Limits!vars) /\ [][C]_(Limits!vars)
    BY <1>1, LimitsInvariance, PTL DEF Limits!Spec
<1> QED BY <1>2 DEF LimitsStand, Limits!LimitsStand, Limits!BlockStands, Limits!FailsClosed,
        Limits!NothingAfterShutdown, A, B, C
=============================================================================
