--------------------------- MODULE MatrixSyncProofs --------------------------
(***************************************************************************)
(* Proofs about the to-device messages and their sync (MatrixSync), for    *)
(* every value of its constants: the properties SyncSafe and EventsKept    *)
(* that the run MatrixSync checks on its instance.  The invariant has a    *)
(* part about the tables of the server and one about each browser.  Steps  *)
(* of the server are shown to move its tables in a few ways only (Moves),  *)
(* and what was processed up to a token stays so under any such move.      *)
(***************************************************************************)
EXTENDS MatrixSync, WellFoundedInduction, TLAPS

\* Of the batch of token t, if the server still has it: it belongs to d, and every
\* unexpired event up to its end is in seen.
Processed(d, B, E, t, seen) ==
    \A p \in B : p.id = t =>
        p.dev = d /\ \A e \in E : e.dev = d /\ e.left > 0 /\ e.seq <= p.upTo => e.seq \in seen

\* Of the batch of token t: every change for d after position from and up to its
\* end is covered by what known says of its subject.
Told(d, B, C, t, from, known) ==
    \A q \in B : q.id = t =>
        \A p \in DOMAIN C : from < p /\ p <= q.dlTo /\ d \in C[p].to => p <= known[C[p].subject]

\* What the crypto store was given, and what was withheld from it for good.
Seen(d) == got[d] \cup withheld[d]

\* What the crypto store will know of each device list once it has the answer.
NewView(d) == [s \in Subjects |-> IF answer[d].lists[s] # 0 THEN answer[d].lists[s] ELSE view[d][s]]

\* Identifiers, sequence numbers and stream positions are drawn in order: what the
\* server holds lies below the counters.
Positions ==
    /\ nextId >= 1
    /\ \A e \in events : 1 <= e.seq /\ e.seq <= latest[e.dev]
    /\ \A b \in batches :
          /\ 1 <= b.id /\ b.id < nextId /\ b.prev < b.id
          /\ b.upTo <= latest[b.dev] /\ b.dlTo <= Len(changes)
          /\ b.prev = 0 => b.from = 0
    /\ \A b, c \in batches : b.id = c.id => b = c

\* The tokens a client may still use were drawn, and the browser asks with the one
\* it stored; after a recovered position it has none.
TokensInv(d) ==
    /\ token[d] < nextId /\ answer[d].token < nextId /\ \A t \in late[d] : t < nextId
    /\ loop[d].step \in {"waiting", "answered", "applied"} => loop[d].since = token[d]
    /\ loop[d].recovered /\ ~loop[d].flushFailed => token[d] = 0

\* Everything up to a token in use was processed, and everything up to the token of
\* an answer is processed once the answer is.
DeliveryInv(d) ==
    /\ \A t \in {token[d]} \cup late[d] : Processed(d, batches, events, t, Seen(d))
    /\ loop[d].step = "answered" =>
          Processed(d, batches, events, answer[d].token,
                    Seen(d) \cup answer[d].events \cup answer[d].withheld)
    /\ loop[d].step = "applied" => Processed(d, batches, events, answer[d].token, Seen(d))

\* The same for the device lists. A first sync sets the position they count from.
ListsInv(d) ==
    /\ Told(d, batches, changes, token[d], base[d], view[d])
    /\ loop[d].step = "answered" =>
          IF answer[d].incremental
          THEN \A t \in {token[d], answer[d].token} :
                  Told(d, batches, changes, t, base[d], NewView(d))
          ELSE /\ token[d] = 0
               /\ \A q \in batches : q.id = answer[d].token => q.dlTo = answer[d].position
    /\ loop[d].step = "applied" => Told(d, batches, changes, answer[d].token, base[d], view[d])

\* The part of the invariant that is about one browser.
ClientInv(d) == TokensInv(d) /\ DeliveryInv(d) /\ ListsInv(d)

\* The part of the invariant that is about the tables of the server.
ServerInv == Positions /\ OneSuccessor /\ ReplayWindow

\* The inductive invariant of the to-device messages and their sync.
IInv == TypeOK /\ ServerInv /\ PositionRecovered /\ \A d \in Devices : ClientInv(d)

\* Two states of one batch: only its acknowledgement may differ.
SameRange(b, c) ==
    /\ b.id = c.id /\ b.dev = c.dev /\ b.prev = c.prev /\ b.from = c.from /\ b.upTo = c.upTo
    /\ b.dlFrom = c.dlFrom /\ b.dlTo = c.dlTo

\* What a step may do to the events: none comes up below the last sequence
\* number of its device.
EventsMove ==
    \A e \in events' : \/ e.seq > latest[e.dev]
                       \/ \E f \in events : f.dev = e.dev /\ f.seq = e.seq /\ (e.left > 0 => f.left > 0)

\* What a step may do to the batches: none comes up below the identifiers
\* drawn, and none changes its range.
BatchesMove ==
    /\ nextId <= nextId'
    /\ \A b \in batches' : b.id >= nextId \/ \E c \in batches : SameRange(b, c)

\* Changes of device lists are only appended.
ChangesMove == Len(changes) <= Len(changes') /\ \A p \in DOMAIN changes : changes'[p] = changes[p]

\* What every step leaves of the tables of the server.
Moves == EventsMove /\ BatchesMove /\ ChangesMove

\* A set of positions that is not empty has a last one.
LEMMA HasMaximum ==
    ASSUME NEW n \in Nat, NEW P \in SUBSET (0..n), P # {}
    PROVE  \E p \in P : \A q \in P : q <= p
<1> DEFINE R == {x \in Nat \X Nat : x[1] < x[2]}
           T == {m \in 0..n : n - m \in P}
<1>1. IsWellFoundedOn(R, Nat)
  BY NatLessThanWellFounded DEF OpToRel
<1>2. T \subseteq Nat /\ T # {}
  <2>1. PICK p \in P : TRUE
    OBVIOUS
  <2>2. n - p \in 0..n /\ n - (n - p) = p
    OBVIOUS
  <2>3. n - p \in T
    BY <2>2
  <2>4. T \subseteq Nat
    OBVIOUS
  <2> QED BY <2>3, <2>4
<1>3. PICK x \in T : \A y \in T : <<y, x>> \notin R
  <2> HIDE DEF R, T
  <2> QED BY <1>1, <1>2, WFMin
<1>4. \A y \in T : ~(y < x)
  BY <1>2, <1>3
<1>5. ASSUME NEW q \in P PROVE q <= n - x
  <2>1. q \in 0..n /\ n - q \in 0..n /\ n - (n - q) = q
    OBVIOUS
  <2> QED BY <1>4, <2>1
<1> QED BY <1>5

\* The changes of a batch: of each subject the position of the last one in its
\* range, or zero.
LEMMA LastChangesForm ==
    ASSUME TypeOK, NEW d \in Devices, NEW b \in Batch
    PROVE  /\ LastChanges(d, b) \in Lists
           /\ \A s \in Subjects :
                 LET P == {p \in DOMAIN changes : /\ b.dlFrom < p /\ p <= b.dlTo
                                                  /\ d \in changes[p].to /\ changes[p].subject = s}
                 IN  IF P = {} THEN LastChanges(d, b)[s] = 0
                     ELSE LastChanges(d, b)[s] \in P /\ \A q \in P : q <= LastChanges(d, b)[s]
<1> DEFINE P(s) == {p \in DOMAIN changes : /\ b.dlFrom < p /\ p <= b.dlTo
                                           /\ d \in changes[p].to /\ changes[p].subject = s}
           last(s) == IF P(s) = {} THEN 0 ELSE CHOOSE p \in P(s) : \A q \in P(s) : q <= p
<1>1. Len(changes) \in Nat /\ DOMAIN changes = 1..Len(changes)
  BY DEF TypeOK
<1>2. ASSUME NEW s \in Subjects, P(s) # {}
      PROVE  last(s) \in P(s) /\ \A q \in P(s) : q <= last(s)
  <2>1. P(s) \in SUBSET (0..Len(changes))
    BY <1>1
  <2>2. \E p \in P(s) : \A q \in P(s) : q <= p
    <3> HIDE DEF P
    <3> QED BY <1>1, <1>2, <2>1, HasMaximum
  <2> HIDE DEF P
  <2> QED BY <1>2, <2>2
<1>3. \A s \in Subjects : P(s) \subseteq Nat
  BY <1>1
<1>4. \A s \in Subjects : last(s) \in Nat
  <2> HIDE DEF P
  <2> QED BY <1>2, <1>3
<1>5. LastChanges(d, b) = [s \in Subjects |-> last(s)]
  BY DEF LastChanges
<1> HIDE DEF last
<1>6. LastChanges(d, b) \in Lists /\ \A s \in Subjects : LastChanges(d, b)[s] = last(s)
  BY <1>4, <1>5 DEF Lists
<1>7. \A s \in Subjects : P(s) = {} => last(s) = 0
  BY DEF last
<1> HIDE DEF P
<1>8. \A s \in Subjects : IF P(s) = {} THEN LastChanges(d, b)[s] = 0
                          ELSE LastChanges(d, b)[s] \in P(s) /\ \A q \in P(s) : q <= LastChanges(d, b)[s]
  BY <1>2, <1>6, <1>7
<1> QED BY <1>6, <1>8 DEF P

\* A step that leaves the tables alone keeps the part about the server.
LEMMA ServerSame ==
    ASSUME IInv, UNCHANGED <<serverVars, changes>>
    PROVE  ServerInv' /\ Moves
<1>1. UNCHANGED <<tombs, latest, events, batches, nextId, changes>>
  BY DEF serverVars
<1>2. ServerInv'
  BY <1>1 DEF IInv, ServerInv, Positions, OneSuccessor, OpenInitial, ReplayWindow
<1>3. Moves
  BY <1>1 DEF Moves, EventsMove, BatchesMove, ChangesMove, SameRange, IInv, TypeOK
<1> QED BY <1>2, <1>3

\* A to-device message gets the next sequence number of its device, and its
\* transaction is kept from repeating.
LEMMA SendServer ==
    ASSUME IInv, NEW t \in Txns, NEW wait \in 0..MaxWait, Send(t, wait)
    PROVE  TypeOK' /\ ServerInv' /\ Moves
<1> DEFINE new(d) == [dev |-> d, seq |-> latest[d] + 1, txn |-> t, left |-> TTL - wait]
<1>1. \A d \in Targets[t] : d \in Devices
  BY ConstantsAssumption
<1>2. events' = events \cup {new(d) : d \in Targets[t]}
  BY DEF Send
<1>3. \A d \in Targets[t] : new(d) \in Event /\ new(d).dev = d /\ new(d).seq = latest[d] + 1
  BY <1>1, ConstantsAssumption DEF IInv, TypeOK, Event
<1> HIDE DEF new
<1>4. /\ tombs' = tombs \cup {t}
      /\ latest' = [d \in Devices |-> IF d \in Targets[t] THEN latest[d] + 1 ELSE latest[d]]
      /\ UNCHANGED <<time, faults, batches, nextId, changes, active, eligible, clientVars, late>>
  BY DEF Send
<1>5. \A d \in Devices : latest[d] \in Nat /\ latest'[d] \in Nat /\ latest[d] <= latest'[d]
  BY <1>4 DEF IInv, TypeOK
<1>6. \A e \in events' : e \in events \/ \E d \in Targets[t] : e = new(d)
  BY <1>2
<1>7. TypeOK'
  <2>1. events' \subseteq Event
    BY <1>2, <1>3 DEF IInv, TypeOK
  <2>2. latest' \in [Devices -> Nat]
    BY <1>4 DEF IInv, TypeOK
  <2> QED BY <1>4, <2>1, <2>2 DEF IInv, TypeOK, clientVars
<1>8. Positions'
  <2>1. \A e \in events' : 1 <= e.seq /\ e.seq <= latest'[e.dev]
    <3>1. ASSUME NEW e \in events PROVE 1 <= e.seq /\ e.seq <= latest'[e.dev]
      BY <1>5 DEF IInv, TypeOK, Event, ServerInv, Positions
    <3>2. ASSUME NEW d \in Targets[t] PROVE 1 <= new(d).seq /\ new(d).seq <= latest'[new(d).dev]
      BY <1>1, <1>3, <1>4, <1>5
    <3> QED BY <1>6, <3>1, <3>2
  <2>2. ASSUME NEW b \in batches PROVE b.upTo <= latest'[b.dev]
    <3>1. b.dev \in Devices /\ b.upTo \in Nat
      BY DEF IInv, TypeOK, Batch
    <3>2. b.upTo <= latest[b.dev]
      BY DEF IInv, ServerInv, Positions
    <3> QED BY <1>5, <3>1, <3>2
  <2> QED BY <1>4, <2>1, <2>2 DEF IInv, ServerInv, Positions
<1>9. OneSuccessor'
  BY <1>4 DEF IInv, ServerInv, OneSuccessor, OpenInitial
<1>10. ReplayWindow'
  <2> SUFFICES ASSUME NEW b \in batches, NEW e \in events', InRange(e, b), e.left > 0
               PROVE  b.left <= e.left
    BY <1>4 DEF ReplayWindow, InRange
  <2>1. ASSUME NEW d \in Targets[t], e = new(d) PROVE FALSE
    <3>1. b.dev \in Devices /\ b.upTo \in Nat /\ b.upTo <= latest[b.dev]
      BY DEF IInv, ServerInv, Positions, TypeOK, Batch
    <3>2. e.dev = b.dev /\ e.seq <= b.upTo
      BY DEF InRange
    <3> QED BY <1>3, <1>5, <2>1, <3>1, <3>2
  <2> QED BY <1>6, <2>1 DEF IInv, ServerInv, ReplayWindow
<1>11. EventsMove
  <2>1. \A d \in Targets[t] : new(d).seq > latest[new(d).dev]
    BY <1>1, <1>3, <1>5
  <2> QED BY <1>6, <2>1 DEF EventsMove
<1>12. BatchesMove /\ ChangesMove
  BY <1>4 DEF BatchesMove, ChangesMove, SameRange, IInv, TypeOK
<1> QED BY <1>7, <1>8, <1>9, <1>10, <1>11, <1>12 DEF ServerInv, Moves

\* A change of a device list gets the next position of the stream.
LEMMA PublishServer ==
    ASSUME IInv, NEW to \in SUBSET Devices, NEW s \in Subjects, Publish(to, s)
    PROVE  TypeOK' /\ ServerInv' /\ Moves
<1>1. /\ changes' = Append(changes, [to |-> to, subject |-> s])
      /\ UNCHANGED <<time, faults, tombs, latest, events, batches, nextId, active, eligible, clientVars, late>>
  BY DEF Publish, serverVars
<1>2. changes \in Seq(Change) /\ [to |-> to, subject |-> s] \in Change
  BY DEF IInv, TypeOK, Change
<1>3. /\ changes' \in Seq(Change) /\ Len(changes') = Len(changes) + 1 /\ Len(changes) \in Nat
      /\ \A p \in DOMAIN changes : changes'[p] = changes[p]
  BY <1>1, <1>2
<1>4. TypeOK'
  BY <1>1, <1>3 DEF IInv, TypeOK, clientVars
<1>5. ServerInv'
  BY <1>1, <1>3 DEF IInv, TypeOK, Batch, ServerInv, Positions, OneSuccessor, OpenInitial,
     ReplayWindow
<1>6. Moves
  BY <1>1, <1>3 DEF Moves, EventsMove, BatchesMove, ChangesMove, SameRange, IInv, TypeOK
<1> QED BY <1>4, <1>5, <1>6

\* The retention worker takes events and batches that ran out.
LEMMA PurgeServer ==
    ASSUME IInv, PurgeExpired
    PROVE  TypeOK' /\ ServerInv' /\ Moves
<1>1. /\ events' \subseteq events /\ batches' \subseteq batches
      /\ UNCHANGED <<time, faults, tombs, latest, nextId, changes, active, eligible, clientVars, late>>
  BY DEF PurgeExpired
<1>2. TypeOK'
  BY <1>1 DEF IInv, TypeOK, clientVars
<1>3. Positions' /\ ReplayWindow'
  BY <1>1 DEF IInv, ServerInv, Positions, ReplayWindow, InRange
<1>4. OneSuccessor'
  BY <1>1 DEF IInv, ServerInv, OneSuccessor, OpenInitial
<1>5. Moves
  BY <1>1 DEF Moves, EventsMove, BatchesMove, ChangesMove, SameRange, IInv, TypeOK
<1> QED BY <1>2, <1>3, <1>4, <1>5 DEF ServerInv

\* Time runs for every event and batch.
LEMMA TickServer ==
    ASSUME IInv, Tick
    PROVE  TypeOK' /\ ServerInv' /\ Moves
<1> DEFINE aged(x) == [x EXCEPT !.left = Less(@)]
<1>1. /\ events' = {aged(e) : e \in events} /\ batches' = {aged(b) : b \in batches}
      /\ time' = time + 1
      /\ UNCHANGED <<faults, tombs, latest, nextId, changes, active, eligible, clientVars, late>>
  BY DEF Tick
<1>0. \A n \in 0..TTL : n \in Nat /\ Less(n) \in 0..TTL
  BY ConstantsAssumption DEF Less
<1>2. ASSUME NEW e \in events
      PROVE  /\ aged(e) \in Event /\ aged(e).dev = e.dev /\ aged(e).seq = e.seq
             /\ aged(e).left = Less(e.left) /\ e.left \in Nat
  BY <1>0 DEF IInv, TypeOK, Event
<1>3. ASSUME NEW b \in batches
      PROVE  /\ aged(b) \in Batch /\ SameRange(aged(b), b) /\ aged(b).acked = b.acked
             /\ aged(b).left = Less(b.left) /\ b.left \in Nat
  BY <1>0 DEF IInv, TypeOK, Batch, SameRange
<1> HIDE DEF aged
<1>4. TypeOK'
  BY <1>1, <1>2, <1>3 DEF IInv, TypeOK, clientVars
<1>5. Positions'
  <2>1. \A e \in events' : 1 <= e.seq /\ e.seq <= latest'[e.dev]
    BY <1>1, <1>2 DEF IInv, ServerInv, Positions
  <2>2. \A b \in batches' : /\ 1 <= b.id /\ b.id < nextId' /\ b.prev < b.id
                            /\ b.upTo <= latest'[b.dev] /\ b.dlTo <= Len(changes')
                            /\ b.prev = 0 => b.from = 0
    BY <1>1, <1>3 DEF IInv, ServerInv, Positions, SameRange
  <2>3. \A b, c \in batches' : b.id = c.id => b = c
    BY <1>1, <1>3 DEF IInv, ServerInv, Positions, SameRange
  <2> QED BY <1>1, <2>1, <2>2, <2>3 DEF IInv, ServerInv, Positions
<1>6. OneSuccessor'
  <2>1. \A b, c \in batches' : b.prev # 0 /\ b.prev = c.prev => b = c
    BY <1>1, <1>3 DEF IInv, ServerInv, OneSuccessor, SameRange
  <2>2. \A b, p \in batches' : b.prev = p.id => p.acked /\ b.dev = p.dev /\ b.from = p.upTo /\ b.dlFrom = p.dlTo
    BY <1>1, <1>3 DEF IInv, ServerInv, OneSuccessor, SameRange
  <2>3. ASSUME NEW d \in Devices, NEW b \in OpenInitial(d)', NEW c \in OpenInitial(d)' PROVE b = c
    <3>1. PICK x \in batches, y \in batches : b = aged(x) /\ c = aged(y)
      BY <1>1 DEF OpenInitial
    <3>2. x \in OpenInitial(d) /\ y \in OpenInitial(d)
      BY <3>1, <1>3 DEF OpenInitial, SameRange, Less
    <3> QED BY <3>1, <3>2 DEF IInv, ServerInv, OneSuccessor
  <2> QED BY <2>1, <2>2, <2>3 DEF OneSuccessor
<1>7. ReplayWindow'
  <2> SUFFICES ASSUME NEW b \in batches', NEW e \in events', InRange(e, b), e.left > 0
               PROVE  b.left <= e.left
    BY DEF ReplayWindow, InRange
  <2>1. PICK x \in batches, y \in events : b = aged(x) /\ e = aged(y)
    BY <1>1
  <2>2. InRange(y, x) /\ y.left > 0
    BY <2>1, <1>2, <1>3 DEF InRange, SameRange, Less
  <2>3. x.left <= y.left
    BY <2>2 DEF IInv, ServerInv, ReplayWindow
  <2> QED BY <2>1, <2>3, <1>2, <1>3 DEF Less
<1>8. EventsMove
  BY <1>1, <1>2 DEF EventsMove, Less
<1>9. BatchesMove /\ ChangesMove
  BY <1>1, <1>3 DEF BatchesMove, ChangesMove, IInv, TypeOK
<1> QED BY <1>4, <1>5, <1>6, <1>7, <1>8, <1>9 DEF ServerInv, Moves

\* A batch that sync draws: the next identifier, the range after the batch it
\* follows, and every event of the device in that range or out of reach.
LEMMA FreshForm ==
    ASSUME IInv, NEW d \in Devices, NEW since \in Nat, NEW b \in Fresh(d, since)
    PROVE  /\ b \in Batch /\ b.id = nextId /\ b.dev = d /\ ~b.acked
           /\ b.upTo <= latest[d] /\ b.dlTo <= Len(changes)
           /\ \A e \in Unexpired(d) : InRange(e, b) => b.left <= e.left
           /\ \/ since = 0 /\ b.prev = 0 /\ b.from = 0 /\ OpenInitial(d) = {}
              \/ since # 0 /\ \E p \in batches :
                    /\ p.id = since /\ p.dev = d /\ Successors(p) = {} /\ ~p.acked
                    /\ b.prev = p.id /\ b.from = p.upTo /\ b.dlFrom = p.dlTo
<1>1. ASSUME NEW prev \in Nat, NEW from \in Nat, NEW dlFrom \in Nat,
             b \in CreateSyncBatch(d, prev, from, dlFrom)
      PROVE  /\ b \in Batch /\ b.id = nextId /\ b.dev = d /\ ~b.acked
             /\ b.upTo <= latest[d] /\ b.dlTo <= Len(changes)
             /\ \A e \in Unexpired(d) : InRange(e, b) => b.left <= e.left
             /\ b.prev = prev /\ b.from = from /\ b.dlFrom = dlFrom
  <2>1. b \in [id : {nextId}, dev : {d}, prev : {prev}, from : {from}, upTo : from..latest[d],
               dlFrom : {dlFrom}, dlTo : dlFrom..Len(changes), left : 1..TTL, acked : {FALSE}]
    BY <1>1 DEF CreateSyncBatch
  <2>2. \A e \in {f \in Unexpired(d) : InRange(f, b)} : b.left <= e.left
    BY <1>1 DEF CreateSyncBatch
  <2>3. nextId \in Nat /\ latest[d] \in Nat /\ Len(changes) \in Nat /\ TTL \in Nat
    BY ConstantsAssumption DEF IInv, TypeOK
  <2>4. /\ b.id = nextId /\ b.dev = d /\ b.prev = prev /\ b.from = from /\ b.dlFrom = dlFrom
        /\ b.upTo \in from..latest[d] /\ b.dlTo \in dlFrom..Len(changes)
        /\ b.left \in 1..TTL /\ b.acked = FALSE
    BY <2>1
  <2>5. b = [id |-> b.id, dev |-> b.dev, prev |-> b.prev, from |-> b.from, upTo |-> b.upTo,
             dlFrom |-> b.dlFrom, dlTo |-> b.dlTo, left |-> b.left, acked |-> b.acked]
    BY <2>1
  <2>6. /\ b.upTo \in Nat /\ b.upTo <= latest[d] /\ b.dlTo \in Nat /\ b.dlTo <= Len(changes)
        /\ b.left \in 0..TTL
    BY <2>3, <2>4
  <2>7. b \in Batch
    BY <2>3, <2>4, <2>5, <2>6 DEF Batch
  <2> QED BY <2>2, <2>4, <2>6, <2>7
<1>2. CASE since = 0
  <2>1. b \in CreateSyncBatch(d, 0, 0, 0) /\ OpenInitial(d) = {}
    BY <1>2 DEF Fresh
  <2> QED BY <1>1, <1>2, <2>1
<1>3. CASE since # 0
  <2>1. PICK p \in batches : /\ p.id = since /\ p.dev = d /\ Successors(p) = {} /\ ~p.acked
                             /\ b \in CreateSyncBatch(d, p.id, p.upTo, p.dlTo)
    BY <1>3 DEF Fresh, Current
  <2>2. p.id \in Nat /\ p.upTo \in Nat /\ p.dlTo \in Nat
    BY DEF IInv, TypeOK, Batch
  <2> QED BY <1>1, <1>3, <2>1, <2>2
<1> QED BY <1>2, <1>3

\* A batch that sync repeats is the one that follows the token it was asked
\* with.
LEMMA RepeatedForm ==
    ASSUME IInv, NEW d \in Devices, NEW since \in Nat, NEW b \in Repeated(d, since)
    PROVE  /\ b \in batches /\ b.dev = d
           /\ \/ since = 0 /\ b.from = 0
              \/ since # 0 /\ \E p \in batches :
                    p.id = since /\ p.dev = d /\ b.prev = p.id /\ b.from = p.upTo /\ b.dlFrom = p.dlTo
<1>1. CASE since = 0
  BY <1>1 DEF Repeated, OpenInitial, IInv, ServerInv, Positions
<1>2. CASE since # 0
  <2>1. PICK p \in batches : p.id = since /\ p.dev = d /\ b \in batches /\ b.prev = p.id
    BY <1>2 DEF Repeated, Current, Successors
  <2> QED BY <1>2, <2>1 DEF IInv, ServerInv, OneSuccessor
<1> QED BY <1>1, <1>2

\* The new batch acknowledges the one before it, and the events of the device
\* up to its own beginning are deleted.
LEMMA AcknowledgeServer ==
    ASSUME IInv, NEW d \in Devices, NEW since \in Nat, NEW b \in Fresh(d, since), Acknowledge(b),
           latest' = latest, changes' = changes
    PROVE  /\ events' \subseteq Event /\ batches' \subseteq Batch /\ nextId' \in Nat
           /\ b \in batches' /\ ServerInv' /\ Moves
<1> DEFINE mark(p) == IF p.id = b.prev THEN [p EXCEPT !.acked = TRUE] ELSE p
<1>1. /\ batches' = {mark(p) : p \in batches} \cup {b}
      /\ events' = {e \in events : e.dev # b.dev \/ e.seq > b.from} /\ nextId' = nextId + 1
  BY DEF Acknowledge
<1>2. ASSUME NEW p \in batches
      PROVE  /\ mark(p) \in Batch /\ SameRange(mark(p), p) /\ mark(p).left = p.left
             /\ p.acked => mark(p).acked
             /\ p.id = b.prev => mark(p).acked
             /\ p.id # b.prev => mark(p) = p
  BY DEF IInv, TypeOK, Batch, SameRange
<1> HIDE DEF mark
<1>3. \A c \in batches' : c = b \/ \E p \in batches : c = mark(p)
  BY <1>1
<1>4. /\ b \in Batch /\ b.id = nextId /\ b.dev = d /\ b.upTo <= latest[d] /\ b.dlTo <= Len(changes)
      /\ \A e \in Unexpired(d) : InRange(e, b) => b.left <= e.left
      /\ b.id \in Nat /\ b.prev \in Nat /\ nextId \in Nat /\ nextId >= 1
  <2>1. b \in Batch /\ nextId \in Nat /\ nextId >= 1
    BY FreshForm DEF IInv, TypeOK, ServerInv, Positions
  <2>2. b.id \in Nat /\ b.prev \in Nat
    BY <2>1 DEF Batch
  <2> QED BY <2>1, <2>2, FreshForm
<1>5. \/ since = 0 /\ b.prev = 0 /\ b.from = 0 /\ OpenInitial(d) = {}
      \/ since # 0 /\ \E p \in batches :
            /\ p.id = since /\ p.dev = d /\ Successors(p) = {} /\ ~p.acked
            /\ b.prev = p.id /\ b.from = p.upTo /\ b.dlFrom = p.dlTo
  BY FreshForm
<1>6. \A p \in batches : /\ p.id \in Nat /\ p.prev \in Nat /\ 1 <= p.id /\ p.id < nextId /\ p.prev < p.id
                         /\ p.upTo <= latest[p.dev] /\ p.dlTo <= Len(changes) /\ (p.prev = 0 => p.from = 0)
  BY DEF IInv, TypeOK, Batch, ServerInv, Positions
<1>7. b.prev < b.id /\ (b.prev = 0 => b.from = 0)
  BY <1>4, <1>5, <1>6
<1>8. \A p \in batches : p.prev = b.prev => b.prev = 0
  BY <1>5 DEF Successors
<1>9. events' \subseteq Event /\ batches' \subseteq Batch /\ nextId' \in Nat /\ b \in batches'
  BY <1>1, <1>2, <1>4 DEF IInv, TypeOK
<1>10. Positions'
  <2>1. ASSUME NEW c \in batches'
        PROVE  /\ 1 <= c.id /\ c.id < nextId' /\ c.prev < c.id /\ c.upTo <= latest[c.dev]
               /\ c.dlTo <= Len(changes) /\ (c.prev = 0 => c.from = 0)
    <3>1. CASE c = b
      BY <3>1, <1>1, <1>4, <1>7
    <3>2. CASE \E p \in batches : c = mark(p)
      BY <3>2, <1>1, <1>2, <1>4, <1>6 DEF SameRange
    <3> QED BY <3>1, <3>2, <1>3
  <2>2. ASSUME NEW c \in batches', NEW e \in batches', c.id = e.id PROVE c = e
    <3>1. ASSUME NEW p \in batches PROVE mark(p).id = p.id /\ p.id # b.id
      BY <1>2, <1>4, <1>6 DEF SameRange
    <3> QED BY <2>2, <3>1, <1>3 DEF IInv, ServerInv, Positions
  <2>3. \A e \in events' : 1 <= e.seq /\ e.seq <= latest[e.dev]
    BY <1>1 DEF IInv, ServerInv, Positions
  <2> QED BY <1>1, <1>4, <2>1, <2>2, <2>3 DEF Positions
<1>11. OneSuccessor'
  <2>1. ASSUME NEW c \in batches', NEW e \in batches', c.prev # 0, c.prev = e.prev PROVE c = e
    <3>1. ASSUME NEW p \in batches PROVE mark(p).prev = p.prev /\ (p.prev = b.prev => b.prev = 0)
      BY <1>2, <1>8 DEF SameRange
    <3> QED BY <2>1, <3>1, <1>3 DEF IInv, ServerInv, OneSuccessor
  <2>2. ASSUME NEW x \in Devices, NEW c \in OpenInitial(x)', NEW e \in OpenInitial(x)' PROVE c = e
    <3>1. ASSUME NEW p \in batches, mark(p) \in OpenInitial(x)' PROVE p \in OpenInitial(x)
      BY <3>1, <1>2 DEF OpenInitial, SameRange
    <3>2. ASSUME b \in OpenInitial(x)' PROVE x = d /\ OpenInitial(x) = {}
      BY <3>2, <1>4, <1>5, <1>6 DEF OpenInitial
    <3>3. c \in batches' /\ e \in batches'
      BY DEF OpenInitial
    <3> QED BY <3>1, <3>2, <3>3, <1>3 DEF IInv, ServerInv, OneSuccessor
  <2>3. ASSUME NEW c \in batches', NEW e \in batches', c.prev = e.id
        PROVE  e.acked /\ c.dev = e.dev /\ c.from = e.upTo /\ c.dlFrom = e.dlTo
    <3>1. e # b
      BY <2>3, <1>2, <1>3, <1>4, <1>6, <1>7 DEF SameRange
    <3>2. PICK p \in batches : e = mark(p)
      BY <3>1, <1>3
    <3>3. CASE c = b
      <4>1. p.id = b.prev
        BY <2>3, <3>2, <3>3, <1>2 DEF SameRange
      <4>2. PICK q \in batches : q.id = b.prev /\ q.dev = d /\ b.from = q.upTo /\ b.dlFrom = q.dlTo
        BY <4>1, <1>5, <1>6
      <4>3. q = p
        BY <4>1, <4>2 DEF IInv, ServerInv, Positions
      <4> QED BY <3>2, <3>3, <4>1, <4>2, <4>3, <1>2, <1>4 DEF SameRange
    <3>4. CASE \E r \in batches : c = mark(r)
      <4>1. PICK r \in batches : c = mark(r)
        BY <3>4
      <4>2. r.prev = p.id
        BY <2>3, <3>2, <4>1, <1>2 DEF SameRange
      <4> QED BY <3>2, <4>1, <4>2, <1>2 DEF SameRange, IInv, ServerInv, OneSuccessor
    <3> QED BY <3>3, <3>4, <1>3
  <2> QED BY <2>1, <2>2, <2>3 DEF OneSuccessor
<1>12. ReplayWindow'
  <2> SUFFICES ASSUME NEW c \in batches', NEW e \in events', InRange(e, c), e.left > 0
               PROVE  c.left <= e.left
    BY DEF ReplayWindow, InRange
  <2>1. e \in events
    BY <1>1
  <2>2. CASE c = b
    BY <2>1, <2>2, <1>4 DEF Unexpired, InRange
  <2>3. ASSUME NEW p \in batches, c = mark(p) PROVE c.left <= e.left
    BY <2>1, <2>3, <1>2 DEF InRange, SameRange, IInv, ServerInv, ReplayWindow
  <2> QED BY <2>2, <2>3, <1>3
<1>13. Moves
  <2>1. EventsMove
    BY <1>1 DEF EventsMove
  <2>2. BatchesMove
    BY <1>1, <1>2, <1>3, <1>4 DEF BatchesMove
  <2>3. ChangesMove
    BY DEF ChangesMove, IInv, TypeOK
  <2> QED BY <2>1, <2>2, <2>3 DEF Moves
<1> QED BY <1>9, <1>10, <1>11, <1>12, <1>13 DEF ServerInv

\* sync as a whole, repeated or fresh: the tables keep the invariant, and only
\* events up to the token that was sent are gone.
LEMMA SyncServer ==
    ASSUME IInv, NEW d \in Devices, NEW since \in Nat, NEW b, Sync(d, since, b),
           latest' = latest, changes' = changes, tombs' = tombs
    PROVE  /\ events' \subseteq Event /\ batches' \subseteq Batch /\ nextId' \in Nat
           /\ ServerInv' /\ Moves
           /\ b \in batches' /\ b \in Batch /\ b.dev = d /\ b.id < nextId'
           /\ \/ since = 0 /\ b.from = 0
              \/ since # 0 /\ \E p \in batches :
                    p.id = since /\ p.dev = d /\ b.from = p.upTo /\ b.dlFrom = p.dlTo
           /\ \A e \in events : e \in events' \/ (e.dev = d /\ e.seq <= b.from)
<1>1. CASE b \in Repeated(d, since) /\ UNCHANGED <<events, batches, nextId>>
  <2>1. ServerInv' /\ Moves
    BY <1>1, ServerSame DEF serverVars
  <2>2. b \in batches /\ b.id < nextId
    BY <1>1, RepeatedForm DEF IInv, ServerInv, Positions
  <2> QED BY <1>1, <2>1, <2>2, RepeatedForm DEF IInv, TypeOK
<1>2. CASE b \in Fresh(d, since) /\ Acknowledge(b)
  <2>1. /\ events' \subseteq Event /\ batches' \subseteq Batch /\ nextId' \in Nat
        /\ b \in batches' /\ ServerInv' /\ Moves
    BY <1>2, AcknowledgeServer
  <2>2. b \in Batch /\ b.dev = d /\ b.id < nextId'
    BY <2>1 , <1>2, FreshForm DEF ServerInv, Positions
  <2>3. \A e \in events : e \in events' \/ (e.dev = d /\ e.seq <= b.from)
    <3>1. b.from \in Nat /\ \A e \in events : e.seq \in Nat
      BY <2>2 DEF Batch, IInv, TypeOK, Event
    <3>2. \A e \in events : (e.dev # b.dev \/ e.seq > b.from) => e \in events'
      BY <1>2 DEF Acknowledge
    <3> QED BY <2>2, <3>1, <3>2
  <2> QED BY <1>2, <2>1, <2>2, <2>3, FreshForm
<1> QED BY <1>1, <1>2 DEF Sync

\* What was processed up to a token stays so, whatever the tables do.
LEMMA ProcessedKept ==
    ASSUME IInv, TypeOK', EventsMove, BatchesMove, NEW d \in Devices, NEW t \in Nat, t < nextId,
           NEW seen, NEW seen2, seen \subseteq seen2, Processed(d, batches, events, t, seen)
    PROVE  Processed(d, batches', events', t, seen2)
<1> SUFFICES ASSUME NEW b \in batches', b.id = t
             PROVE  /\ b.dev = d
                    /\ \A e \in events' : e.dev = d /\ e.left > 0 /\ e.seq <= b.upTo => e.seq \in seen2
  BY DEF Processed
<1>1. PICK c \in batches : SameRange(b, c)
  <2>1. ~(b.id >= nextId)
    BY DEF IInv, TypeOK
  <2> QED BY <2>1 DEF BatchesMove
<1>2. /\ c.id = t /\ b.dev = c.dev /\ b.upTo = c.upTo /\ c.upTo <= latest[c.dev]
      /\ c.upTo \in Nat /\ c.dev \in Devices
  BY <1>1 DEF SameRange, IInv, TypeOK, Batch, ServerInv, Positions
<1>3. c.dev = d /\ \A e \in events : e.dev = d /\ e.left > 0 /\ e.seq <= c.upTo => e.seq \in seen
  BY <1>2 DEF Processed
<1>4. ASSUME NEW e \in events', e.dev = d, e.left > 0, e.seq <= b.upTo PROVE e.seq \in seen2
  <2>1. e.seq \in Nat /\ latest[d] \in Nat
    BY DEF IInv, TypeOK, Event
  <2>2. PICK f \in events : f.dev = e.dev /\ f.seq = e.seq /\ (e.left > 0 => f.left > 0)
    BY <1>2, <1>3, <1>4, <2>1 DEF EventsMove
  <2> QED BY <1>2, <1>3, <1>4, <2>2
<1> QED BY <1>2, <1>3, <1>4

\* What was told of device lists up to a token stays so, whatever the tables
\* do.
LEMMA ToldKept ==
    ASSUME IInv, TypeOK', BatchesMove, ChangesMove, NEW d \in Devices, NEW t \in Nat, t < nextId,
           NEW from \in Nat, NEW known, Told(d, batches, changes, t, from, known)
    PROVE  Told(d, batches', changes', t, from, known)
<1> SUFFICES ASSUME NEW b \in batches', b.id = t,
                    NEW p \in DOMAIN changes', from < p, p <= b.dlTo, d \in changes'[p].to
             PROVE  p <= known[changes'[p].subject]
  BY DEF Told
<1>1. PICK c \in batches : SameRange(b, c)
  <2>1. ~(b.id >= nextId)
    BY DEF IInv, TypeOK
  <2> QED BY <2>1 DEF BatchesMove
<1>2. c.id = t /\ b.dlTo = c.dlTo /\ c.dlTo <= Len(changes) /\ c.dlTo \in Nat
  BY <1>1 DEF SameRange, IInv, TypeOK, Batch, ServerInv, Positions
<1>3. p \in DOMAIN changes
  <2>1. changes \in Seq(Change) /\ changes' \in Seq(Change)
    BY DEF IInv, TypeOK
  <2>2. DOMAIN changes = 1..Len(changes) /\ DOMAIN changes' = 1..Len(changes')
        /\ Len(changes) \in Nat /\ Len(changes') \in Nat
    BY <2>1
  <2> QED BY <1>2, <2>2
<1> QED BY <1>2, <1>3 DEF Told, ChangesMove

\* A browser that keeps its token and its stores keeps its part of the
\* invariant.
LEMMA ClientKept ==
    ASSUME IInv, TypeOK', Moves, NEW d \in Devices,
           token'[d] = token[d], late'[d] \subseteq late[d] \cup {token[d]},
           got'[d] = got[d], withheld'[d] = withheld[d], view'[d] = view[d], base'[d] = base[d],
           \/ loop'[d] = loop[d] /\ answer'[d] = answer[d]
           \/ loop'[d].step \in {"idle", "waiting", "lost", "stopped"}
    PROVE  DeliveryInv(d)' /\ ListsInv(d)'
<1>1. nextId \in Nat /\ nextId' \in Nat /\ nextId <= nextId'
  BY DEF IInv, TypeOK, Moves, BatchesMove
<1>2. token[d] \in Nat /\ answer[d].token \in Nat /\ late[d] \subseteq Nat /\ base[d] \in Nat
  BY DEF IInv, TypeOK, Answer
<1>3. token[d] < nextId /\ answer[d].token < nextId /\ \A t \in late[d] : t < nextId
  BY DEF IInv, ClientInv, TokensInv
<1>4. Seen(d)' = Seen(d)
  BY DEF Seen
<1>5. ASSUME NEW t \in Nat, t < nextId, NEW seen, Processed(d, batches, events, t, seen)
      PROVE  Processed(d, batches', events', t, seen)
  BY <1>5, ProcessedKept DEF Moves
<1>6. ASSUME NEW t \in Nat, t < nextId, NEW known, Told(d, batches, changes, t, base[d], known)
      PROVE  Told(d, batches', changes', t, base[d], known)
  BY <1>2, <1>6, ToldKept DEF Moves
<1>7. \A t \in {token'[d]} \cup late'[d] : Processed(d, batches', events', t, Seen(d)')
  BY <1>2, <1>3, <1>4, <1>5 DEF IInv, ClientInv, DeliveryInv
<1>8. Told(d, batches', changes', token'[d], base'[d], view'[d])
  BY <1>2, <1>3, <1>6 DEF IInv, ClientInv, ListsInv
<1>9. CASE loop'[d].step \in {"idle", "waiting", "lost", "stopped"}
  BY <1>7, <1>8, <1>9 DEF DeliveryInv, ListsInv
<1>10. CASE loop'[d] = loop[d] /\ answer'[d] = answer[d]
  <2>1. NewView(d)' = NewView(d)
    BY <1>10 DEF NewView
  <2>2. DeliveryInv(d)'
    BY <1>2, <1>3, <1>4, <1>5, <1>7, <1>10 DEF IInv, ClientInv, DeliveryInv
  <2>3. ASSUME NEW n, \A q \in batches : q.id = answer[d].token => q.dlTo = n
        PROVE  \A q \in batches' : q.id = answer[d].token => q.dlTo = n
    <3>1. ASSUME NEW q \in batches', q.id = answer[d].token PROVE q.dlTo = n
      <4>1. PICK c \in batches : SameRange(q, c)
        BY <1>1, <1>2, <1>3, <3>1 DEF Moves, BatchesMove
      <4> QED BY <2>3, <3>1, <4>1 DEF SameRange
    <3> QED BY <3>1
  <2>4. ListsInv(d)'
    <3>1. ListsInv(d)
      BY DEF IInv, ClientInv
    <3>2. loop[d].step = "answered" /\ answer[d].incremental =>
              \A t \in {token[d], answer[d].token} : Told(d, batches', changes', t, base[d], NewView(d))
      BY <1>2, <1>3, <1>6, <3>1 DEF ListsInv
    <3>3. loop[d].step = "applied" => Told(d, batches', changes', answer[d].token, base[d], view[d])
      BY <1>2, <1>3, <1>6, <3>1 DEF ListsInv
    <3> QED
      BY <1>2, <1>3, <1>8, <1>10, <2>1, <2>3, <3>1, <3>2, <3>3 DEF ListsInv
  <2> QED BY <2>2, <2>4
<1> QED BY <1>9, <1>10

\* The browsers other than d are left alone.
Others(d) ==
    \A x \in Devices \ {d} :
        /\ token'[x] = token[x] /\ loop'[x] = loop[x] /\ answer'[x] = answer[x] /\ late'[x] = late[x]
        /\ got'[x] = got[x] /\ withheld'[x] = withheld[x] /\ view'[x] = view[x] /\ base'[x] = base[x]
        /\ active'[x] = active[x]

\* A browser that keeps its tokens keeps what is said of them.
LEMMA TokensKept ==
    ASSUME IInv, TypeOK', BatchesMove, NEW d \in Devices,
           token'[d] = token[d], loop'[d] = loop[d], answer'[d] = answer[d], late'[d] = late[d]
    PROVE  TokensInv(d)'
<1>1. nextId \in Nat /\ nextId' \in Nat /\ nextId <= nextId'
  BY DEF IInv, TypeOK, BatchesMove
<1>2. token[d] \in Nat /\ answer[d].token \in Nat /\ late[d] \subseteq Nat
  BY DEF IInv, TypeOK, Answer
<1> QED BY <1>1, <1>2 DEF IInv, ClientInv, TokensInv

\* The invariant after a step of one browser.
LEMMA DeviceStep ==
    ASSUME IInv, TypeOK', ServerInv', Moves, NEW d \in Devices, Others(d),
           ClientInv(d)', loop'[d].step = "lost" => loop'[d].flushFailed
    PROVE  IInv'
<1>1. ASSUME NEW x \in Devices \ {d} PROVE ClientInv(x)'
  BY ClientKept, TokensKept DEF Others, ClientInv, Moves
<1>2. PositionRecovered'
  BY DEF PositionRecovered, IInv, Others
<1> QED BY <1>1, <1>2 DEF IInv

\* The invariant after a step of no browser.
LEMMA QuietStep ==
    ASSUME IInv, TypeOK', ServerInv', Moves, UNCHANGED <<clientVars, late, active>>
    PROVE  IInv'
<1>1. UNCHANGED <<token, loop, answer, got, withheld, view, base, late, active>>
  BY DEF clientVars
<1>2. ASSUME NEW x \in Devices PROVE ClientInv(x)'
  BY <1>1, ClientKept, TokensKept DEF ClientInv, Moves
<1> QED BY <1>1, <1>2 DEF IInv, PositionRecovered

\* The types of what one browser holds.
LEMMA DeviceTypes ==
    ASSUME TypeOK, NEW d \in Devices
    PROVE  /\ token[d] \in Nat /\ loop[d] \in Loop /\ loop[d].since \in Nat
           /\ answer[d] \in Answer /\ late[d] \in SUBSET Nat
           /\ view[d] \in Lists /\ base[d] \in Nat /\ got[d] \in SUBSET Nat /\ withheld[d] \in SUBSET Nat
  BY DEF TypeOK, Loop

\* The loop begins a round with the token that is stored: the invariant is
\* preserved.
LEMMA StartSyncStep ==
    ASSUME IInv, NEW d \in Devices, StartSync(d)
    PROVE  IInv'
<1> DEFINE l == [loop[d] EXCEPT !.step = "waiting"]
           m == [l EXCEPT !.since = token[d]]
<1>1. /\ loop' = [loop EXCEPT ![d] = m]
      /\ UNCHANGED <<time, faults, serverVars, changes, active, eligible, token, answer,
                     got, withheld, view, base, late>>
  BY DEF StartSync, IInv, TypeOK
<1>2. l \in Loop /\ l.step = "waiting" /\ l.recovered = loop[d].recovered /\ l.flushFailed = loop[d].flushFailed
  BY DeviceTypes DEF IInv, Loop, Step
<1> HIDE DEF l
<1>3. /\ m \in Loop /\ m.step = "waiting" /\ m.since = token[d] /\ m.recovered = loop[d].recovered
      /\ m.flushFailed = loop[d].flushFailed
  BY <1>2, DeviceTypes DEF IInv, Loop
<1> HIDE DEF m
<1>4. loop'[d] = m /\ \A x \in Devices \ {d} : loop'[x] = loop[x]
  BY <1>1 DEF IInv, TypeOK
<1>5. TypeOK'
  BY <1>1, <1>3 DEF IInv, TypeOK, serverVars
<1>6. ServerInv' /\ Moves
  BY <1>1, ServerSame
<1>7. Others(d)
  BY <1>1, <1>4 DEF Others
<1>8. DeliveryInv(d)' /\ ListsInv(d)'
  BY <1>1, <1>3, <1>4, <1>5, <1>6, ClientKept
<1>9. TokensInv(d)'
  BY <1>1, <1>3, <1>4 DEF TokensInv, IInv, ClientInv, serverVars
<1> QED BY <1>3, <1>4, <1>5, <1>6, <1>7, <1>8, <1>9, DeviceStep DEF ClientInv

\* A loop that only goes to its next step.
LEMMA LoopSteps ==
    ASSUME IInv, NEW d \in Devices, NEW s \in Step, loop' = [loop EXCEPT ![d].step = s]
    PROVE  /\ loop' \in [Devices -> Loop] /\ \A x \in Devices \ {d} : loop'[x] = loop[x]
           /\ loop'[d].step = s /\ loop'[d].since = loop[d].since
           /\ loop'[d].recovered = loop[d].recovered /\ loop'[d].flushFailed = loop[d].flushFailed
<1>1. loop \in [Devices -> Loop]
  BY DEF IInv, TypeOK
<1> QED BY <1>1 DEF Loop

\* buildSyncResponse answers with the token of the batch, its events that are
\* left and the last changes of the lists.
LEMMA ResponseForm ==
    ASSUME IInv, NEW d \in Devices, NEW since \in Nat, NEW b \in Batch, events' \subseteq Event
    PROVE  /\ BuildSyncResponse(d, since, b) \in Answer
           /\ BuildSyncResponse(d, since, b).token = b.id
           /\ BuildSyncResponse(d, since, b).incremental = (since # 0)
           /\ BuildSyncResponse(d, since, b).lists = LastChanges(d, b)
           /\ BuildSyncResponse(d, since, b).position = b.dlTo
           /\ \A e \in events' : InRange(e, b) /\ e.left > 0 =>
                 e.seq \in BuildSyncResponse(d, since, b).events \cup BuildSyncResponse(d, since, b).withheld
<1> DEFINE page == {e.seq : e \in {f \in events' : InRange(f, b) /\ f.left > 0}}
<1>1. page \subseteq Nat
  BY DEF Event
<1>2. \A e \in events' : InRange(e, b) /\ e.left > 0 => e.seq \in page
  OBVIOUS
<1>3. b.id \in Nat /\ b.dlTo \in Nat /\ LastChanges(d, b) \in Lists
  BY LastChangesForm DEF Batch, IInv
<1>4. BuildSyncResponse(d, since, b) =
        [token |-> b.id, events |-> IF eligible[d] THEN page ELSE {},
         withheld |-> IF eligible[d] THEN {} ELSE page,
         incremental |-> since # 0, lists |-> LastChanges(d, b), position |-> b.dlTo]
  BY DEF BuildSyncResponse
<1> HIDE DEF page
<1>5. BuildSyncResponse(d, since, b) \in Answer
  BY <1>1, <1>3, <1>4 DEF Answer
<1> QED BY <1>2, <1>4, <1>5

\* The server answers a sync: the invariant is preserved.
LEMMA ServeSyncStep ==
    ASSUME IInv, NEW d \in Devices, ServeSync(d)
    PROVE  IInv'
<1> DEFINE since == loop[d].since
<1>1. PICK b : Sync(d, since, b) /\ answer' = [answer EXCEPT ![d] = BuildSyncResponse(d, since, b)]
  BY DEF ServeSync
<1>2. /\ loop[d].step = "waiting" /\ loop' = [loop EXCEPT ![d].step = "answered"]
      /\ UNCHANGED <<time, faults, tombs, latest, changes, active, eligible, token,
                     got, withheld, view, base, late>>
  BY DEF ServeSync
<1>3. since \in Nat /\ since = token[d]
  BY <1>2, DeviceTypes DEF IInv, ClientInv, TokensInv
<1>4. /\ events' \subseteq Event /\ batches' \subseteq Batch /\ nextId' \in Nat
      /\ ServerInv' /\ Moves
      /\ b \in batches' /\ b \in Batch /\ b.dev = d /\ b.id < nextId'
      /\ \/ since = 0 /\ b.from = 0
         \/ since # 0 /\ \E p \in batches :
               p.id = since /\ p.dev = d /\ b.from = p.upTo /\ b.dlFrom = p.dlTo
  BY <1>1, <1>2, <1>3, SyncServer
<1> DEFINE w == BuildSyncResponse(d, since, b)
<1>5. /\ w \in Answer /\ w.token = b.id /\ w.incremental = (since # 0) /\ w.lists = LastChanges(d, b)
      /\ w.position = b.dlTo
      /\ \A e \in events' : InRange(e, b) /\ e.left > 0 => e.seq \in w.events \cup w.withheld
  BY <1>3, <1>4, ResponseForm
<1> HIDE DEF w
<1>6. answer' = [answer EXCEPT ![d] = w]
  BY <1>1 DEF w
<1>7. answer' \in [Devices -> Answer] /\ answer'[d] = w /\ \A x \in Devices \ {d} : answer'[x] = answer[x]
  BY <1>5, <1>6 DEF IInv, TypeOK
<1>8. /\ loop' \in [Devices -> Loop] /\ \A x \in Devices \ {d} : loop'[x] = loop[x]
      /\ loop'[d].step = "answered" /\ loop'[d].since = since
      /\ loop'[d].recovered = loop[d].recovered /\ loop'[d].flushFailed = loop[d].flushFailed
  BY <1>2, LoopSteps DEF Step
<1>9. TypeOK'
  BY <1>2, <1>4, <1>7, <1>8 DEF IInv, TypeOK
<1>10. Others(d)
  BY <1>2, <1>7, <1>8 DEF Others
<1>11. nextId \in Nat /\ nextId <= nextId' /\ token[d] < nextId /\ \A t \in late[d] : t \in Nat /\ t < nextId
  BY <1>4, DeviceTypes DEF Moves, BatchesMove, IInv, TypeOK, ClientInv, TokensInv
<1>12. TokensInv(d)'
  BY <1>2, <1>3, <1>4, <1>5, <1>7, <1>8, <1>11 DEF TokensInv, IInv, ClientInv
<1>13. Seen(d)' = Seen(d)
  BY <1>2 DEF Seen
<1>14. \A t \in {token[d]} \cup late[d] : Processed(d, batches', events', t, Seen(d))
  BY <1>3, <1>4, <1>9, <1>11, ProcessedKept DEF Moves, IInv, ClientInv, DeliveryInv
<1>15. \A c \in batches' : c.id = b.id => c = b
  BY <1>4 DEF ServerInv, Positions
<1>16. Processed(d, batches', events', b.id, Seen(d) \cup w.events \cup w.withheld)
  <2>1. ASSUME NEW e \in events', e.dev = d, e.left > 0, e.seq <= b.upTo
        PROVE  e.seq \in Seen(d) \cup w.events \cup w.withheld
    <3>1. e.seq \in Nat /\ b.from \in Nat /\ e.seq >= 1
      BY <1>4 DEF Event, Batch, ServerInv, Positions
    <3>2. CASE b.from < e.seq
      BY <1>4, <1>5, <2>1, <3>2 DEF InRange
    <3>3. CASE e.seq <= b.from
      <4>1. PICK p \in batches : p.id = token[d] /\ p.dev = d /\ b.from = p.upTo
        BY <1>3, <1>4, <3>1, <3>3
      <4>2. p.upTo \in Nat /\ p.upTo <= latest[d] /\ latest[d] \in Nat
        BY <4>1 DEF IInv, TypeOK, Batch, ServerInv, Positions
      <4>3. PICK f \in events : f.dev = d /\ f.seq = e.seq /\ f.left > 0
        BY <1>4, <2>1, <3>1, <3>3, <4>1, <4>2 DEF Moves, EventsMove
      <4>4. e.seq \in Seen(d)
        BY <3>3, <4>1, <4>3 DEF IInv, ClientInv, DeliveryInv, Processed
      <4> QED BY <4>4
    <3> QED BY <3>1, <3>2, <3>3
  <2> QED BY <1>4, <1>15, <2>1 DEF Processed
<1>17. DeliveryInv(d)'
  BY <1>2, <1>5, <1>7, <1>8, <1>13, <1>14, <1>16 DEF DeliveryInv
<1>18. Told(d, batches', changes', token[d], base[d], view[d])
  BY <1>3, <1>4, <1>9, <1>11, ToldKept, DeviceTypes DEF Moves, IInv, ClientInv, ListsInv
<1>19. \A s \in Subjects : NewView(d)'[s] = IF w.lists[s] # 0 THEN w.lists[s] ELSE view[d][s]
  BY <1>2, <1>7 DEF NewView
<1>20. ASSUME since # 0, NEW c \in batches', c.id \in {token[d], b.id},
              NEW p \in DOMAIN changes, base[d] < p, p <= c.dlTo, d \in changes[p].to
       PROVE  p <= NewView(d)'[changes[p].subject]
  <2> DEFINE s == changes[p].subject
             P == {q \in DOMAIN changes : /\ b.dlFrom < q /\ q <= b.dlTo
                                          /\ d \in changes[q].to /\ changes[q].subject = s}
  <2>1. /\ s \in Subjects /\ p \in Nat /\ b.dlFrom \in Nat /\ b.dlTo \in Nat /\ view[d][s] \in Nat
        /\ c.dlTo \in Nat
    <3>1. changes \in Seq(Change) /\ p \in 1..Len(changes) /\ changes[p] \in Change
      BY DEF IInv, TypeOK
    <3>2. s \in Subjects /\ p \in Nat
      BY <3>1 DEF Change
    <3>3. view[d][s] \in Nat
      BY <3>2, DeviceTypes DEF IInv, Lists
    <3>4. b.dlFrom \in Nat /\ b.dlTo \in Nat /\ c.dlTo \in Nat
      BY <1>4 DEF Batch
    <3> QED BY <3>2, <3>3, <3>4
  <2>2. IF P = {} THEN w.lists[s] = 0 ELSE w.lists[s] \in P /\ \A q \in P : q <= w.lists[s]
    BY <1>4, <1>5, <2>1, LastChangesForm DEF IInv
  <2>3. PICK o \in batches : o.id = token[d] /\ b.dlFrom = o.dlTo
    BY <1>3, <1>4, <1>20
  <2>4. c.id = token[d] => c.dlTo = b.dlFrom
    <3>1. ASSUME c.id = token[d] PROVE \E a \in batches : SameRange(c, a)
      BY <1>3, <1>4, <1>11, <3>1 DEF Moves, BatchesMove
    <3> QED BY <2>3, <3>1 DEF SameRange, IInv, ServerInv, Positions
  <2>5. CASE p <= b.dlFrom
    <3>1. p <= view[d][s]
      BY <1>20, <2>3, <2>5 DEF IInv, ClientInv, ListsInv, Told
    <3>2. w.lists[s] # 0 => w.lists[s] \in Nat /\ b.dlFrom < w.lists[s]
      BY <2>2 DEF IInv, TypeOK
    <3> QED BY <1>19, <2>1, <2>5, <3>1, <3>2
  <2>6. CASE b.dlFrom < p
    <3>1. c.id = b.id
      BY <1>20, <2>1, <2>4, <2>6
    <3>2. p <= b.dlTo
      BY <1>15, <1>20, <3>1
    <3>3. p \in P
      BY <1>20, <2>6, <3>2
    <3>4. w.lists[s] \in P /\ p <= w.lists[s]
      BY <2>2, <3>3
    <3>5. w.lists[s] # 0
      BY <2>1, <3>4
    <3> QED BY <1>19, <2>1, <3>4, <3>5
  <2> QED BY <2>1, <2>5, <2>6
<1>21. since # 0 => \A t \in {token[d], b.id} : Told(d, batches', changes', t, base[d], NewView(d)')
  BY <1>2, <1>20 DEF Told
<1>22. since = 0 => token[d] = 0 /\ \A q \in batches' : q.id = b.id => q.dlTo = b.dlTo
  BY <1>3, <1>15
<1>23. ListsInv(d)'
  <2>1. Told(d, batches', changes', token'[d], base'[d], view'[d])
    BY <1>2, <1>18
  <2>2. IF answer'[d].incremental
        THEN \A t \in {token'[d], answer'[d].token} : Told(d, batches', changes', t, base'[d], NewView(d)')
        ELSE /\ token'[d] = 0
             /\ \A q \in batches' : q.id = answer'[d].token => q.dlTo = answer'[d].position
    <3>1. base' = base /\ token' = token
      BY <1>2
    <3>2. answer'[d].incremental = (since # 0) /\ answer'[d].token = b.id /\ answer'[d].position = b.dlTo
      BY <1>5, <1>7
    <3> HIDE DEF since
    <3> QED BY <1>21, <1>22, <3>1, <3>2
  <2> QED BY <1>8, <2>1, <2>2 DEF ListsInv
<1> QED BY <1>4, <1>8, <1>9, <1>10, <1>12, <1>17, <1>23, DeviceStep DEF ClientInv

\* The answer gets lost after the commit: the invariant is preserved.
LEMMA LoseAnswerStep ==
    ASSUME IInv, NEW d \in Devices, LoseAnswer(d)
    PROVE  IInv'
<1>1. PICK b : Sync(d, loop[d].since, b)
  BY DEF LoseAnswer
<1>2. /\ loop' = [loop EXCEPT ![d].step = "idle"] /\ faults' = faults + 1
      /\ UNCHANGED <<time, tombs, latest, changes, active, eligible, token, answer,
                     got, withheld, view, base, late>>
  BY DEF LoseAnswer
<1>3. events' \subseteq Event /\ batches' \subseteq Batch /\ nextId' \in Nat /\ ServerInv' /\ Moves
  BY <1>1, <1>2, SyncServer, DeviceTypes DEF IInv
<1>4. /\ loop' \in [Devices -> Loop] /\ \A x \in Devices \ {d} : loop'[x] = loop[x]
      /\ loop'[d].step = "idle" /\ loop'[d].recovered = loop[d].recovered
      /\ loop'[d].flushFailed = loop[d].flushFailed
  BY <1>2, LoopSteps DEF Step
<1>5. TypeOK'
  <2>1. faults' \in Nat /\ faults' = faults + 1
    BY <1>2 DEF IInv, TypeOK
  <2> QED BY <1>2, <1>3, <1>4, <2>1 DEF IInv, TypeOK
<1>6. nextId \in Nat /\ nextId <= nextId' /\ answer[d].token \in Nat
  BY <1>3, DeviceTypes DEF Moves, BatchesMove, IInv, TypeOK, Answer
<1>7. TokensInv(d)'
  BY <1>2, <1>3, <1>4, <1>6, DeviceTypes DEF TokensInv, IInv, ClientInv
<1>8. DeliveryInv(d)' /\ ListsInv(d)'
  BY <1>2, <1>3, <1>4, <1>5, ClientKept
<1>9. Others(d)
  BY <1>2, <1>4 DEF Others
<1> QED BY <1>3, <1>4, <1>5, <1>7, <1>8, <1>9, DeviceStep DEF ClientInv

\* The browser gives up a call that may still arrive: the invariant is
\* preserved.
LEMMA GiveUpStep ==
    ASSUME IInv, NEW d \in Devices, GiveUp(d)
    PROVE  IInv'
<1>1. /\ loop[d].step = "waiting" /\ late' = [late EXCEPT ![d] = @ \cup {loop[d].since}]
      /\ loop' = [loop EXCEPT ![d].step = "idle"] /\ faults' = faults + 1
      /\ UNCHANGED <<time, serverVars, changes, active, eligible, token, answer,
                     got, withheld, view, base>>
  BY DEF GiveUp
<1>2. /\ loop' \in [Devices -> Loop] /\ \A x \in Devices \ {d} : loop'[x] = loop[x]
      /\ loop'[d].step = "idle" /\ loop'[d].recovered = loop[d].recovered
      /\ loop'[d].flushFailed = loop[d].flushFailed
  BY <1>1, LoopSteps DEF Step
<1>3. loop[d].since = token[d] /\ token[d] \in Nat
  BY <1>1, DeviceTypes DEF IInv, ClientInv, TokensInv
<1>4. /\ late' \in [Devices -> SUBSET Nat] /\ late'[d] = late[d] \cup {token[d]}
      /\ \A x \in Devices \ {d} : late'[x] = late[x]
  BY <1>1, <1>3 DEF IInv, TypeOK
<1>5. TypeOK'
  BY <1>1, <1>2, <1>4 DEF IInv, TypeOK, serverVars
<1>6. ServerInv' /\ Moves
  BY <1>1, ServerSame
<1>7. TokensInv(d)'
  BY <1>1, <1>2, <1>4 DEF TokensInv, IInv, ClientInv, serverVars
<1>8. DeliveryInv(d)' /\ ListsInv(d)'
  BY <1>1, <1>2, <1>4, <1>5, <1>6, ClientKept
<1>9. Others(d)
  BY <1>1, <1>2, <1>4 DEF Others
<1> QED BY <1>2, <1>5, <1>6, <1>7, <1>8, <1>9, DeviceStep DEF ClientInv

\* A call that was given up arrives: it acknowledges nothing that was not
\* processed.
LEMMA LateCallStep ==
    ASSUME IInv, NEW d \in Devices, LateCall(d)
    PROVE  IInv'
<1>1. PICK since \in late[d] : \E b : Sync(d, since, b) /\ late' = [late EXCEPT ![d] = @ \ {since}]
  BY DEF LateCall
<1>2. UNCHANGED <<time, faults, tombs, latest, changes, active, eligible, clientVars>>
  BY DEF LateCall
<1>3. since \in Nat
  BY DeviceTypes DEF IInv
<1>4. events' \subseteq Event /\ batches' \subseteq Batch /\ nextId' \in Nat /\ ServerInv' /\ Moves
  BY <1>1, <1>2, <1>3, SyncServer
<1>5. /\ late' \in [Devices -> SUBSET Nat] /\ late'[d] \subseteq late[d]
      /\ \A x \in Devices \ {d} : late'[x] = late[x]
  BY <1>1 DEF IInv, TypeOK
<1>6. UNCHANGED <<token, loop, answer, got, withheld, view, base>>
  BY <1>2 DEF clientVars
<1>7. TypeOK'
  BY <1>2, <1>4, <1>5, <1>6 DEF IInv, TypeOK
<1>8. nextId \in Nat /\ nextId <= nextId' /\ answer[d].token \in Nat
  BY <1>4, DeviceTypes DEF Moves, BatchesMove, IInv, TypeOK, Answer
<1>9. TokensInv(d)'
  BY <1>4, <1>5, <1>6, <1>8, DeviceTypes DEF TokensInv, IInv, ClientInv
<1>10. DeliveryInv(d)' /\ ListsInv(d)'
  BY <1>4, <1>5, <1>6, <1>7, ClientKept
<1>11. Others(d)
  BY <1>2, <1>5, <1>6 DEF Others
<1>12. loop'[d].step = "lost" => loop'[d].flushFailed
  BY <1>2, <1>6 DEF IInv, PositionRecovered
<1> QED BY <1>4, <1>7, <1>9, <1>10, <1>11, <1>12, DeviceStep DEF ClientInv

\* The token of a browser that starts afresh answers for nothing.
LEMMA NoBatchZero ==
    ASSUME ServerInv, NEW d, NEW seen, NEW from, NEW known
    PROVE  Processed(d, batches, events, 0, seen) /\ Told(d, batches, changes, 0, from, known)
  BY DEF ServerInv, Positions, Processed, Told

\* A browser whose token the server does not have any more starts afresh: the
\* invariant is preserved.
LEMMA RecoverPositionStep ==
    ASSUME IInv, NEW d \in Devices, RecoverPosition(d)
    PROVE  IInv'
<1>1. /\ loop[d].step = "waiting" /\ UnknownPosition(d, loop[d].since)
      /\ UNCHANGED <<time, faults, serverVars, changes, active, eligible, answer,
                     got, withheld, view, base, late>>
  BY DEF RecoverPosition
<1>2. ServerInv' /\ Moves
  BY <1>1, ServerSame
<1>3. loop[d].since = token[d] /\ token[d] # 0
  BY <1>1 DEF UnknownPosition, IInv, ClientInv, TokensInv
<1>4. CASE loop[d].recovered
  <2>1. loop' = [loop EXCEPT ![d].step = "lost"] /\ token' = token
    BY <1>4 DEF RecoverPosition
  <2>2. /\ loop' \in [Devices -> Loop] /\ \A x \in Devices \ {d} : loop'[x] = loop[x]
        /\ loop'[d].step = "lost" /\ loop'[d].recovered = loop[d].recovered
        /\ loop'[d].flushFailed = loop[d].flushFailed
    BY <2>1, LoopSteps DEF Step
  <2>3. loop[d].flushFailed
    BY <1>3, <1>4 DEF IInv, ClientInv, TokensInv
  <2>4. TypeOK'
    BY <1>1, <2>1, <2>2 DEF IInv, TypeOK, serverVars
  <2>5. TokensInv(d)'
    BY <1>1, <2>1, <2>2, <2>3 DEF TokensInv, IInv, ClientInv, serverVars
  <2>6. DeliveryInv(d)' /\ ListsInv(d)'
    BY <1>1, <1>2, <2>1, <2>2, <2>4, ClientKept
  <2>7. Others(d)
    BY <1>1, <2>1, <2>2 DEF Others
  <2> QED BY <1>2, <2>2, <2>3, <2>4, <2>5, <2>6, <2>7, DeviceStep DEF ClientInv
<1>5. CASE ~loop[d].recovered
  <2> DEFINE l == [loop[d] EXCEPT !.step = "idle"]
             m == [l EXCEPT !.recovered = TRUE]
  <2>1. loop' = [loop EXCEPT ![d] = m] /\ token' = [token EXCEPT ![d] = 0]
    BY <1>5 DEF RecoverPosition, IInv, TypeOK
  <2>2. l \in Loop /\ l.step = "idle"
    BY DeviceTypes DEF IInv, Loop, Step
  <2> HIDE DEF l
  <2>3. m \in Loop /\ m.step = "idle"
    BY <2>2 DEF Loop
  <2> HIDE DEF m
  <2>4. /\ loop' \in [Devices -> Loop] /\ loop'[d] = m /\ \A x \in Devices \ {d} : loop'[x] = loop[x]
        /\ token' \in [Devices -> Nat] /\ token'[d] = 0 /\ \A x \in Devices \ {d} : token'[x] = token[x]
    BY <2>1, <2>3 DEF IInv, TypeOK
  <2>5. TypeOK'
    BY <1>1, <2>4 DEF IInv, TypeOK, serverVars
  <2>6. nextId' = nextId /\ nextId >= 1 /\ nextId \in Nat
    BY <1>1 DEF IInv, TypeOK, ServerInv, Positions, serverVars
  <2>7. TokensInv(d)'
    BY <1>1, <2>3, <2>4, <2>6 DEF TokensInv, IInv, ClientInv
  <2>8. UNCHANGED <<events, batches>> /\ Seen(d)' = Seen(d)
    BY <1>1 DEF serverVars, Seen
  <2>9. DeliveryInv(d)'
    <3>1. Processed(d, batches, events, 0, Seen(d))
      BY NoBatchZero DEF IInv
    <3>2. \A t \in late[d] : Processed(d, batches, events, t, Seen(d))
      BY DEF IInv, ClientInv, DeliveryInv
    <3> QED BY <1>1, <2>3, <2>4, <2>8, <3>1, <3>2 DEF DeliveryInv
  <2>10. ListsInv(d)'
    <3>1. Told(d, batches, changes, 0, base[d], view[d])
      BY NoBatchZero DEF IInv
    <3> QED BY <1>1, <2>3, <2>4, <2>8, <3>1 DEF ListsInv
  <2>11. Others(d)
    BY <1>1, <2>4 DEF Others
  <2> QED BY <1>2, <2>3, <2>4, <2>5, <2>7, <2>9, <2>10, <2>11, DeviceStep DEF ClientInv
<1> QED BY <1>4, <1>5

\* A sync that is refused preserves the invariant.
LEMMA RefuseStep ==
    ASSUME IInv, NEW d \in Devices, Refuse(d)
    PROVE  IInv'
<1>1. /\ loop' = [loop EXCEPT ![d].step = "stopped"]
      /\ UNCHANGED <<time, faults, serverVars, changes, active, eligible, token, answer,
                     got, withheld, view, base, late>>
  BY DEF Refuse
<1>2. ServerInv' /\ Moves
  BY <1>1, ServerSame
<1>3. /\ loop' \in [Devices -> Loop] /\ \A x \in Devices \ {d} : loop'[x] = loop[x]
      /\ loop'[d].step = "stopped" /\ loop'[d].recovered = loop[d].recovered
      /\ loop'[d].flushFailed = loop[d].flushFailed
  BY <1>1, LoopSteps DEF Step
<1>4. TypeOK'
  BY <1>1, <1>3 DEF IInv, TypeOK, serverVars
<1>5. TokensInv(d)'
  BY <1>1, <1>3 DEF TokensInv, IInv, ClientInv, serverVars
<1>6. DeliveryInv(d)' /\ ListsInv(d)'
  BY <1>1, <1>2, <1>3, <1>4, ClientKept
<1>7. Others(d)
  BY <1>1, <1>3 DEF Others
<1> QED BY <1>1, <1>2, <1>3, <1>4, <1>5, <1>6, <1>7, DeviceStep DEF ClientInv

\* A round that fails in the browser leaves the token as it was: the invariant is
\* preserved.
LEMMA FailSyncStep ==
    ASSUME IInv, NEW d \in Devices, FailSync(d)
    PROVE  IInv'
<1>1. /\ loop' = [loop EXCEPT ![d].step = "stopped"] /\ answer' = [answer EXCEPT ![d] = NoAnswer]
      /\ faults' = faults + 1
      /\ UNCHANGED <<time, serverVars, changes, active, eligible, token,
                     got, withheld, view, base, late>>
  BY DEF FailSync
<1>2. NoAnswer \in Answer /\ NoAnswer.token = 0
  BY DEF NoAnswer, Answer, Lists
<1>3. /\ loop' \in [Devices -> Loop] /\ \A x \in Devices \ {d} : loop'[x] = loop[x]
      /\ loop'[d].step = "stopped" /\ loop'[d].recovered = loop[d].recovered
      /\ loop'[d].flushFailed = loop[d].flushFailed
  BY <1>1, LoopSteps DEF Step
<1>4. /\ answer' \in [Devices -> Answer] /\ answer'[d] = NoAnswer
      /\ \A x \in Devices \ {d} : answer'[x] = answer[x]
  BY <1>1, <1>2 DEF IInv, TypeOK
<1>5. TypeOK'
  BY <1>1, <1>3, <1>4 DEF IInv, TypeOK, serverVars
<1>6. ServerInv' /\ Moves
  BY <1>1, ServerSame
<1>7. Others(d)
  BY <1>1, <1>3, <1>4 DEF Others
<1>8. nextId' = nextId /\ nextId \in Nat /\ nextId >= 1
  BY <1>1 DEF IInv, TypeOK, ServerInv, Positions, serverVars
<1>9. TokensInv(d)'
  BY <1>1, <1>2, <1>3, <1>4, <1>8 DEF TokensInv, IInv, ClientInv
<1>10. DeliveryInv(d)' /\ ListsInv(d)'
  BY <1>1, <1>3, <1>4, <1>5, <1>6, ClientKept
<1> QED BY <1>3, <1>5, <1>6, <1>7, <1>9, <1>10, DeviceStep DEF ClientInv

\* A stored token that is not valid is cleared: the invariant is preserved.
LEMMA InvalidTokenStep ==
    ASSUME IInv, NEW d \in Devices, InvalidToken(d)
    PROVE  IInv'
<1>1. /\ loop' = [loop EXCEPT ![d].step = "stopped"] /\ token' = [token EXCEPT ![d] = 0]
      /\ faults' = faults + 1
      /\ UNCHANGED <<time, serverVars, changes, active, eligible, answer,
                     got, withheld, view, base, late>>
  BY DEF InvalidToken
<1>2. /\ loop' \in [Devices -> Loop] /\ \A x \in Devices \ {d} : loop'[x] = loop[x]
      /\ loop'[d].step = "stopped" /\ loop'[d].recovered = loop[d].recovered
      /\ loop'[d].flushFailed = loop[d].flushFailed
  BY <1>1, LoopSteps DEF Step
<1>3. /\ token' \in [Devices -> Nat] /\ token'[d] = 0 /\ \A x \in Devices \ {d} : token'[x] = token[x]
  BY <1>1 DEF IInv, TypeOK
<1>4. TypeOK'
  BY <1>1, <1>2, <1>3 DEF IInv, TypeOK, serverVars
<1>5. ServerInv' /\ Moves
  BY <1>1, ServerSame
<1>6. nextId' = nextId /\ nextId >= 1 /\ nextId \in Nat
  BY <1>1 DEF IInv, TypeOK, ServerInv, Positions, serverVars
<1>7. TokensInv(d)'
  BY <1>1, <1>2, <1>3, <1>6 DEF TokensInv, IInv, ClientInv
<1>8. UNCHANGED <<events, batches>> /\ Seen(d)' = Seen(d)
  BY <1>1 DEF serverVars, Seen
<1>9. DeliveryInv(d)'
  <2>1. Processed(d, batches, events, 0, Seen(d))
    BY NoBatchZero DEF IInv
  <2>2. \A t \in late[d] : Processed(d, batches, events, t, Seen(d))
    BY DEF IInv, ClientInv, DeliveryInv
  <2> QED BY <1>1, <1>2, <1>3, <1>8, <2>1, <2>2 DEF DeliveryInv
<1>10. ListsInv(d)'
  <2>1. Told(d, batches, changes, 0, base[d], view[d])
    BY NoBatchZero DEF IInv
  <2> QED BY <1>1, <1>2, <1>3, <1>8, <2>1 DEF ListsInv
<1>11. Others(d)
  BY <1>1, <1>2, <1>3 DEF Others
<1> QED BY <1>2, <1>4, <1>5, <1>7, <1>9, <1>10, <1>11, DeviceStep DEF ClientInv

\* receiveSyncChanges hands the answer to the crypto store: everything up to
\* its token is processed then.
LEMMA ReceiveStep ==
    ASSUME IInv, NEW d \in Devices, ReceiveSyncChanges(d)
    PROVE  IInv'
<1> DEFINE w == answer[d]
           known == [s \in Subjects |-> IF w.incremental /\ w.lists[s] # 0 THEN w.lists[s] ELSE view[d][s]]
<1>1. /\ loop[d].step = "answered" /\ loop' = [loop EXCEPT ![d].step = "applied"]
      /\ got' = [got EXCEPT ![d] = @ \cup w.events]
      /\ withheld' = [withheld EXCEPT ![d] = @ \cup w.withheld]
      /\ base' = IF w.incremental THEN base ELSE [base EXCEPT ![d] = w.position]
      /\ UNCHANGED <<time, faults, serverVars, changes, active, eligible, token, answer, late>>
  BY DEF ReceiveSyncChanges
<1>2. view' = [view EXCEPT ![d] = known]
  BY DEF ReceiveSyncChanges
<1>3. /\ w.events \subseteq Nat /\ w.withheld \subseteq Nat /\ w.lists \in Lists /\ w.position \in Nat
      /\ view[d] \in Lists /\ w.incremental \in BOOLEAN /\ base[d] \in Nat
  BY DeviceTypes DEF IInv, Answer
<1>4. known \in Lists /\ (w.incremental => known = NewView(d)) /\ (~w.incremental => known = view[d])
  BY <1>3 DEF Lists, NewView
<1> HIDE DEF known
<1>5. ServerInv' /\ Moves
  BY <1>1, ServerSame
<1>6. /\ loop' \in [Devices -> Loop] /\ \A x \in Devices \ {d} : loop'[x] = loop[x]
      /\ loop'[d].step = "applied" /\ loop'[d].since = loop[d].since
      /\ loop'[d].recovered = loop[d].recovered /\ loop'[d].flushFailed = loop[d].flushFailed
  BY <1>1, LoopSteps DEF Step
<1>7. /\ got' \in [Devices -> SUBSET Nat] /\ withheld' \in [Devices -> SUBSET Nat]
      /\ got'[d] = got[d] \cup w.events /\ withheld'[d] = withheld[d] \cup w.withheld
      /\ \A x \in Devices \ {d} : got'[x] = got[x] /\ withheld'[x] = withheld[x]
  BY <1>1, <1>3 DEF IInv, TypeOK
<1>8. /\ view' \in [Devices -> Lists] /\ view'[d] = known /\ \A x \in Devices \ {d} : view'[x] = view[x]
  BY <1>2, <1>4 DEF IInv, TypeOK
<1>9. /\ base' \in [Devices -> Nat] /\ base'[d] = (IF w.incremental THEN base[d] ELSE w.position)
      /\ \A x \in Devices \ {d} : base'[x] = base[x]
  BY <1>1, <1>3 DEF IInv, TypeOK
<1>10. TypeOK'
  BY <1>1, <1>6, <1>7, <1>8, <1>9 DEF IInv, TypeOK, serverVars
<1>11. Others(d)
  BY <1>1, <1>6, <1>7, <1>8, <1>9 DEF Others
<1>12. TokensInv(d)'
  BY <1>1, <1>6 DEF TokensInv, IInv, ClientInv, serverVars
<1>13. Seen(d)' = Seen(d) \cup w.events \cup w.withheld
  BY <1>7 DEF Seen
<1>14. UNCHANGED <<events, batches, changes, token, late, answer>>
  BY <1>1 DEF serverVars
<1>15. DeliveryInv(d)'
  <2>1. \A t \in {token[d]} \cup late[d] : Processed(d, batches, events, t, Seen(d)')
    BY <1>13 DEF IInv, ClientInv, DeliveryInv, Processed
  <2>2. Processed(d, batches, events, w.token, Seen(d)')
    BY <1>1, <1>13 DEF IInv, ClientInv, DeliveryInv
  <2> QED BY <1>6, <1>14, <2>1, <2>2 DEF DeliveryInv
<1>16. ListsInv(d)'
  <2>1. CASE w.incremental
    BY <1>1, <1>4, <1>6, <1>8, <1>9, <1>14, <2>1 DEF IInv, ClientInv, ListsInv
  <2>2. CASE ~w.incremental
    <3>1. token[d] = 0 /\ \A q \in batches : q.id = w.token => q.dlTo = w.position
      BY <1>1, <2>2 DEF IInv, ClientInv, ListsInv
    <3>2. Told(d, batches, changes, 0, w.position, known)
      BY NoBatchZero DEF IInv
    <3>3. \A q \in DOMAIN changes : q \in Nat
      BY DEF IInv, TypeOK
    <3>4. Told(d, batches, changes, w.token, w.position, known)
      BY <1>3, <3>1, <3>3 DEF Told
    <3> QED BY <1>6, <1>8, <1>9, <1>14, <2>2, <3>1, <3>2, <3>4 DEF ListsInv
  <2> QED BY <2>1, <2>2
<1> QED BY <1>5, <1>6, <1>10, <1>11, <1>12, <1>15, <1>16, DeviceStep DEF ClientInv

\* The token is stored after the answer was processed: the invariant is
\* preserved.
LEMMA SaveTokenStep ==
    ASSUME IInv, NEW d \in Devices, SaveToken(d)
    PROVE  IInv'
<1> DEFINE w == answer[d]
<1>1. /\ loop[d].step = "applied"
      /\ token' = [token EXCEPT ![d] = w.token] /\ answer' = [answer EXCEPT ![d] = NoAnswer]
      /\ UNCHANGED <<time, serverVars, changes, active, eligible, got, withheld, view, base, late>>
  BY DEF SaveToken
<1>2. NoAnswer \in Answer /\ NoAnswer.token = 0 /\ w.token \in Nat
  BY DeviceTypes DEF IInv, NoAnswer, Answer, Lists
<1>3. PICK m \in Loop : /\ loop' = [loop EXCEPT ![d] = m] /\ m.step \in {"idle", "stopped"}
                        /\ m.recovered => m.flushFailed
  <2>1. CASE loop' = [loop EXCEPT ![d] = IdleLoop]
    <3>1. IdleLoop \in Loop /\ IdleLoop.step = "idle" /\ ~IdleLoop.recovered
      BY DEF IdleLoop, Loop, Step
    <3> QED BY <2>1, <3>1
  <2>2. CASE \E step \in {"idle", "stopped"} : loop' = [loop EXCEPT ![d].step = step, ![d].flushFailed = TRUE]
    <3>1. PICK step \in {"idle", "stopped"} : loop' = [loop EXCEPT ![d].step = step, ![d].flushFailed = TRUE]
      BY <2>2
    <3> DEFINE l == [loop[d] EXCEPT !.step = step]
               n == [l EXCEPT !.flushFailed = TRUE]
    <3>2. loop' = [loop EXCEPT ![d] = n]
      BY <3>1 DEF IInv, TypeOK
    <3>3. l \in Loop /\ l.step = step
      BY DeviceTypes DEF IInv, Loop, Step
    <3> HIDE DEF l
    <3>4. n \in Loop /\ n.step = step /\ n.flushFailed
      BY <3>3 DEF Loop
    <3> QED BY <3>2, <3>4
  <2>3. CASE loop' = [loop EXCEPT ![d] = [IdleLoop EXCEPT !.step = "stopped"]]
    <3> DEFINE n == [IdleLoop EXCEPT !.step = "stopped"]
    <3>1. n \in Loop /\ n.step = "stopped" /\ ~n.recovered
      BY DEF IdleLoop, Loop, Step
    <3> QED BY <2>3, <3>1
  <2> QED BY <2>1, <2>2, <2>3 DEF SaveToken
<1>4. faults' \in Nat
  BY DEF SaveToken, IInv, TypeOK
<1>5. /\ loop' \in [Devices -> Loop] /\ loop'[d] = m /\ \A x \in Devices \ {d} : loop'[x] = loop[x]
      /\ token' \in [Devices -> Nat] /\ token'[d] = w.token /\ \A x \in Devices \ {d} : token'[x] = token[x]
      /\ answer' \in [Devices -> Answer] /\ answer'[d] = NoAnswer
      /\ \A x \in Devices \ {d} : answer'[x] = answer[x]
  BY <1>1, <1>2, <1>3 DEF IInv, TypeOK
<1>6. TypeOK'
  BY <1>1, <1>4, <1>5 DEF IInv, TypeOK, serverVars
<1>7. ServerInv' /\ Moves
  BY <1>1, ServerSame
<1>8. Others(d)
  BY <1>1, <1>5 DEF Others
<1>9. nextId' = nextId /\ nextId \in Nat /\ nextId >= 1 /\ w.token < nextId
  BY <1>1 DEF IInv, TypeOK, ServerInv, Positions, ClientInv, TokensInv, serverVars
<1>10. TokensInv(d)'
  BY <1>1, <1>2, <1>3, <1>5, <1>9 DEF TokensInv, IInv, ClientInv
<1>11. UNCHANGED <<events, batches, changes, late>> /\ Seen(d)' = Seen(d)
  BY <1>1 DEF serverVars, Seen
<1>12. DeliveryInv(d)'
  <2>1. Processed(d, batches, events, w.token, Seen(d))
    BY <1>1 DEF IInv, ClientInv, DeliveryInv
  <2>2. \A t \in late[d] : Processed(d, batches, events, t, Seen(d))
    BY DEF IInv, ClientInv, DeliveryInv
  <2>3. \A t \in {token'[d]} \cup late'[d] : Processed(d, batches', events', t, Seen(d)')
    BY <1>5, <1>11, <2>1, <2>2
  <2> QED BY <1>3, <1>5, <2>3 DEF DeliveryInv
<1>13. ListsInv(d)'
  BY <1>1, <1>3, <1>5, <1>11 DEF IInv, ClientInv, ListsInv
<1> QED BY <1>3, <1>5, <1>6, <1>7, <1>8, <1>10, <1>12, <1>13, DeviceStep DEF ClientInv

\* The page dies between any two steps: the invariant is preserved.
LEMMA CrashStep ==
    ASSUME IInv, NEW d \in Devices, Crash(d)
    PROVE  IInv'
<1>1. /\ late' = IF loop[d].step = "waiting" THEN [late EXCEPT ![d] = @ \cup {loop[d].since}] ELSE late
      /\ loop' = [loop EXCEPT ![d] = IdleLoop] /\ answer' = [answer EXCEPT ![d] = NoAnswer]
      /\ faults' = faults + 1
      /\ UNCHANGED <<time, serverVars, changes, active, eligible, token, got, withheld, view, base>>
  BY DEF Crash
<1>2. NoAnswer \in Answer /\ NoAnswer.token = 0 /\ token[d] \in Nat
  BY DeviceTypes DEF IInv, NoAnswer, Answer, Lists
<1>3. IdleLoop \in Loop /\ IdleLoop.step = "idle" /\ ~IdleLoop.recovered
  BY DEF IdleLoop, Loop, Step
<1>4. /\ loop' \in [Devices -> Loop] /\ loop'[d] = IdleLoop /\ \A x \in Devices \ {d} : loop'[x] = loop[x]
      /\ answer' \in [Devices -> Answer] /\ answer'[d] = NoAnswer
      /\ \A x \in Devices \ {d} : answer'[x] = answer[x]
  BY <1>1, <1>2, <1>3 DEF IInv, TypeOK
<1>5. /\ late' \in [Devices -> SUBSET Nat] /\ late'[d] \subseteq late[d] \cup {token[d]}
      /\ \A x \in Devices \ {d} : late'[x] = late[x]
  <2>1. CASE loop[d].step = "waiting"
    <3>1. loop[d].since = token[d]
      BY <2>1 DEF IInv, ClientInv, TokensInv
    <3> QED BY <1>1, <1>2, <2>1, <3>1 DEF IInv, TypeOK
  <2>2. CASE loop[d].step # "waiting"
    BY <1>1, <2>2 DEF IInv, TypeOK
  <2> QED BY <2>1, <2>2
<1>6. TypeOK'
  BY <1>1, <1>4, <1>5 DEF IInv, TypeOK, serverVars
<1>7. ServerInv' /\ Moves
  BY <1>1, ServerSame
<1>8. Others(d)
  BY <1>1, <1>4, <1>5 DEF Others
<1>9. nextId' = nextId /\ nextId \in Nat /\ nextId >= 1
  BY <1>1 DEF IInv, TypeOK, ServerInv, Positions, serverVars
<1>10. TokensInv(d)'
  BY <1>1, <1>2, <1>3, <1>4, <1>5, <1>9 DEF TokensInv, IInv, ClientInv
<1>11. DeliveryInv(d)' /\ ListsInv(d)'
  BY <1>1, <1>3, <1>4, <1>5, <1>6, <1>7, ClientKept
<1> QED BY <1>3, <1>4, <1>6, <1>7, <1>8, <1>10, <1>11, DeviceStep DEF ClientInv

\* Senders, publications, retention and time preserve the invariant.
LEMMA AroundStep ==
    ASSUME IInv,
           \/ \E t \in Txns, wait \in 0..MaxWait : Send(t, wait)
           \/ \E to \in SUBSET Devices, s \in Subjects : Publish(to, s)
           \/ PurgeExpired \/ Tick \/ (\E d \in Devices : EligibilityChanges(d)) \/ UNCHANGED vars
    PROVE  IInv'
<1>1. CASE \E t \in Txns, wait \in 0..MaxWait : Send(t, wait)
  BY <1>1, SendServer, QuietStep DEF Send
<1>2. CASE \E to \in SUBSET Devices, s \in Subjects : Publish(to, s)
  BY <1>2, PublishServer, QuietStep DEF Publish
<1>3. CASE PurgeExpired
  BY <1>3, PurgeServer, QuietStep DEF PurgeExpired
<1>4. CASE Tick
  BY <1>4, TickServer, QuietStep DEF Tick
<1>5. CASE \E d \in Devices : EligibilityChanges(d)
  <2>1. /\ UNCHANGED <<time, faults, serverVars, changes, active, clientVars, late>>
        /\ eligible' \in [Devices -> BOOLEAN]
    BY <1>5 DEF EligibilityChanges, IInv, TypeOK
  <2>2. TypeOK'
    BY <2>1 DEF IInv, TypeOK, serverVars, clientVars
  <2> QED BY <2>1, <2>2, ServerSame, QuietStep
<1>6. CASE UNCHANGED vars
  <2>1. TypeOK'
    BY <1>6 DEF vars, IInv, TypeOK, serverVars, clientVars
  <2> QED BY <1>6, <2>1, ServerSame, QuietStep DEF vars
<1> QED BY <1>1, <1>2, <1>3, <1>4, <1>5, <1>6

\* The revocation of a device preserves the invariant.
LEMMA RevokeStep ==
    ASSUME IInv, NEW d \in Devices, Revoke(d)
    PROVE  IInv'
<1>1. /\ active' = [active EXCEPT ![d] = FALSE]
      /\ UNCHANGED <<time, faults, serverVars, changes, eligible, clientVars, late>>
  BY DEF Revoke
<1>2. TypeOK'
  BY <1>1 DEF IInv, TypeOK, serverVars, clientVars
<1>3. ServerInv' /\ Moves
  BY <1>1, ServerSame
<1>4. UNCHANGED <<token, loop, answer, got, withheld, view, base, late>>
  BY <1>1 DEF clientVars
<1>5. ASSUME NEW x \in Devices PROVE ClientInv(x)'
  BY <1>2, <1>3, <1>4, ClientKept, TokensKept DEF ClientInv, Moves
<1>6. PositionRecovered'
  BY <1>1, <1>4 DEF IInv, PositionRecovered, TypeOK
<1> QED BY <1>2, <1>3, <1>5, <1>6 DEF IInv

\* Empty tables and new browsers satisfy the invariant.
LEMMA SyncInit == Init => IInv
<1> SUFFICES ASSUME Init PROVE IInv
  OBVIOUS
<1>1. NoAnswer \in Answer /\ NoAnswer.token = 0 /\ IdleLoop \in Loop
  BY DEF NoAnswer, Answer, Lists, IdleLoop, Loop, Step
<1>2. changes \in Seq(Change)
  BY DEF Init, Change
<1>3. TypeOK
  BY <1>1, <1>2 DEF Init, TypeOK, Lists
<1>4. ServerInv
  BY DEF Init, ServerInv, Positions, OneSuccessor, OpenInitial, ReplayWindow
<1>5. PositionRecovered
  BY DEF Init, PositionRecovered, IdleLoop
<1>6. ASSUME NEW d \in Devices PROVE ClientInv(d)
  BY <1>1 DEF Init, ClientInv, TokensInv, DeliveryInv, ListsInv, Processed, Told, IdleLoop
<1> QED BY <1>3, <1>4, <1>5, <1>6 DEF IInv

\* The invariant of the sync holds in every reachable state.
THEOREM Invariance == Spec => []IInv
<1>1. IInv /\ [Next]_vars => IInv'
  BY StartSyncStep, ServeSyncStep, LoseAnswerStep, GiveUpStep, LateCallStep, RecoverPositionStep,
     RefuseStep, FailSyncStep, InvalidTokenStep, ReceiveStep, SaveTokenStep, CrashStep, AroundStep, RevokeStep DEF Next
<1> QED BY <1>1, SyncInit, PTL DEF Spec

\* For any devices, transactions, retention and number of faults: asking again
\* with a token gives the same range, no event of a range expires before its
\* batch, no change of a device list falls between two batches, and a
\* position the server no longer knows ends the loop of a browser only when the
\* requests after the first sync that replaced it could not be sent.
THEOREM SyncIsSafe == Spec => []SyncSafe
<1>1. IInv => SyncSafe
  <2> SUFFICES ASSUME IInv PROVE SyncSafe
    OBVIOUS
  <2>1. DeviceListsCurrent
    <3> SUFFICES ASSUME NEW d \in Devices, NEW b \in batches, b.id = token[d], NEW s \in Subjects
                 PROVE  Announced(d, s, base[d], b.dlTo)
      BY DEF DeviceListsCurrent
    <3> QED BY DEF Announced, IInv, ClientInv, ListsInv, Told
  <2> QED BY <2>1 DEF IInv, ServerInv, SyncSafe
<1> QED BY <1>1, Invariance, PTL

\* An event that a step deletes had expired, was processed or was withheld.
LEMMA LostStep ==
    ASSUME IInv, Next, NEW e \in events
    PROVE  \/ \E f \in events' : f.dev = e.dev /\ f.seq = e.seq
           \/ e.left = 0 \/ e.seq \in got[e.dev] \cup withheld[e.dev]
<1>1. CASE e \in events'
  BY <1>1
<1>2. ASSUME NEW d \in Devices, NEW since \in {token[d]} \cup late[d], NEW b, Sync(d, since, b),
             latest' = latest, changes' = changes, tombs' = tombs, e \notin events'
      PROVE  e.left = 0 \/ e.seq \in got[e.dev] \cup withheld[e.dev]
  <2>1. since \in Nat
    BY DeviceTypes DEF IInv
  <2>2. /\ e.dev = d /\ e.seq <= b.from
        /\ \/ since = 0 /\ b.from = 0
           \/ since # 0 /\ \E p \in batches : p.id = since /\ p.dev = d /\ b.from = p.upTo
    BY <1>2, <2>1, SyncServer
  <2>3. e.seq \in Nat /\ e.left \in Nat /\ e.seq >= 1
    BY ConstantsAssumption DEF IInv, TypeOK, Event, ServerInv, Positions
  <2>4. Processed(d, batches, events, since, Seen(d))
    BY DEF IInv, ClientInv, DeliveryInv
  <2> QED BY <2>2, <2>3, <2>4 DEF Processed, Seen
<1>3. ASSUME NEW d \in Devices, ServeSync(d) \/ LoseAnswer(d), e \notin events'
      PROVE  e.left = 0 \/ e.seq \in got[e.dev] \cup withheld[e.dev]
  <2>1. loop[d].since = token[d]
    BY <1>3 DEF ServeSync, LoseAnswer, IInv, ClientInv, TokensInv
  <2> QED BY <1>2, <1>3, <2>1 DEF ServeSync, LoseAnswer
<1>4. ASSUME NEW d \in Devices, LateCall(d), e \notin events'
      PROVE  e.left = 0 \/ e.seq \in got[e.dev] \cup withheld[e.dev]
  BY <1>2, <1>4 DEF LateCall
<1>5. CASE Tick
  <2>1. [e EXCEPT !.left = Less(@)] \in events'
    BY <1>5 DEF Tick
  <2> QED BY <2>1 DEF IInv, TypeOK, Event
<1>6. CASE PurgeExpired
  <2>1. e \in events' \/ ~(e.left > 0)
    BY <1>6 DEF PurgeExpired
  <2>2. e.left \in Nat
    BY ConstantsAssumption DEF IInv, TypeOK, Event
  <2> QED BY <2>1, <2>2
<1>7. CASE events \subseteq events'
  BY <1>7
<1>8. ASSUME NEW t \in Txns, NEW wait \in 0..MaxWait, Send(t, wait) PROVE events \subseteq events'
  BY <1>8 DEF Send
<1> QED BY <1>1, <1>3, <1>4, <1>5, <1>6, <1>7, <1>8
      DEF Next, StartSync, GiveUp, RecoverPosition, Refuse, FailSync, InvalidToken,
          ReceiveSyncChanges, SaveToken, Crash, EligibilityChanges, Revoke, Publish, serverVars

\* A transaction that was seen adds no event again.
LEMMA OnceStep ==
    ASSUME IInv, Next, NEW t \in tombs, NEW e \in events', e.txn = t
    PROVE  \E f \in events : f.txn = t /\ f.dev = e.dev /\ f.seq = e.seq
<1>1. CASE e \in events
  BY <1>1
<1>2. CASE Tick
  <2>1. PICK f \in events : e = [f EXCEPT !.left = Less(@)]
    BY <1>2 DEF Tick
  <2> QED BY <2>1 DEF IInv, TypeOK, Event
<1>3. ASSUME NEW u \in Txns, NEW wait \in 0..MaxWait, Send(u, wait) PROVE e \in events
  BY <1>3 DEF Send
<1>4. ASSUME NEW d, NEW since, NEW b, Sync(d, since, b) PROVE e \in events
  BY <1>4 DEF Sync, Acknowledge
<1>5. ASSUME NEW d \in Devices, ServeSync(d) \/ LoseAnswer(d) \/ LateCall(d) PROVE e \in events
  BY <1>4, <1>5 DEF ServeSync, LoseAnswer, LateCall
<1>6. ASSUME PurgeExpired PROVE e \in events
  BY <1>6 DEF PurgeExpired
<1> QED BY <1>1, <1>2, <1>3, <1>5, <1>6
      DEF Next, StartSync, GiveUp, RecoverPosition, Refuse, FailSync, InvalidToken,
          ReceiveSyncChanges, SaveToken, Crash, EligibilityChanges, Revoke, Publish, serverVars

\* An event leaves the server only when it has expired or its device has
\* processed it or was answered without it, whatever answers get lost and calls
\* come late, and a repeated transaction sends nothing twice.
THEOREM EventsAreKept == Spec => EventsKept
<1> DEFINE Kept == \A e \in events :
                      \/ \E f \in events' : f.dev = e.dev /\ f.seq = e.seq
                      \/ e.left = 0 \/ e.seq \in got[e.dev] \cup withheld[e.dev]
           Once == \A t \in tombs : \A e \in events' : e.txn = t =>
                      \E f \in events : f.txn = t /\ f.dev = e.dev /\ f.seq = e.seq
<1>1. IInv /\ [Next]_vars => [Kept]_vars
  BY LostStep
<1>2. IInv /\ [Next]_vars => [Once]_vars
  BY OnceStep
<1> HIDE DEF Kept, Once
<1>3. Spec => [][Kept]_vars /\ [][Once]_vars
  BY Invariance, <1>1, <1>2, PTL DEF Spec
<1> QED BY <1>3 DEF EventsKept, NoEventLost, SentOnce, Kept, Once
=============================================================================
