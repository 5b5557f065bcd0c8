-------------------------- MODULE RealtimeServices --------------------------
(***************************************************************************)
(* The realtime gateway and the counters that limit its packets. The       *)
(* gateway asks the limiter for a verdict on each packet and sees a        *)
(* refusal as one of its own outcomes, so that the two share no state.     *)
(* This module names what each of them promises; RealtimeProofs proves it  *)
(* and MCRealtime checks it on instances.                                  *)
(***************************************************************************)
EXTENDS Naturals, FiniteSets

CONSTANTS
    Users, Sessions, Owner, Cookie, Ops, MaxEnds, MaxLapses,        \* Realtime
    Nodes, Requests, NodeOf, SocketOf, Local, Shared,
    MaxClock, MaxFaults,                                            \* RateLimit
    Sockets                                                         \* both

VARIABLES
    ended, suspended, subscribed, lapses, expired, kick, conn, up, known, timers,
    room, before, closing, op, got,                                 \* Realtime
    clock, faults, state, client, link, busy, cell, req, granted    \* RateLimit

Gateway == INSTANCE Realtime

Limits == INSTANCE RateLimit

-----------------------------------------------------------------------------
(* Properties *)

\* notifyMessage, emitTyping: an event reaches only sessions in force, comes only
\* from one, and not after the conversation has ended.
DeliveriesInForce == Gateway!DeliveriesInForce

\* handleConnection, handleDisconnect: rooms hold connected users, and whoever
\* connects is announced to the counterpart that is there.
RealtimeSafe == Gateway!RealtimeSafe

\* The script of RedisThrottlerStorage and consumeBucket: at most twice the
\* limit in any period as long as a window, or as a block that is shorter.
LimitsSafe == Limits!LimitsSafe

\* increment: a block stands, and without an answer of Redis nothing passes.
LimitsStand == Limits!LimitsStand
=============================================================================
