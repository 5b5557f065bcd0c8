------------------------- MODULE AssignmentsProofs -------------------------
(***************************************************************************)
(* Theorems about Assignments, for every set of clients and cashiers and   *)
(* every threshold, batch size and back-off.                               *)
(***************************************************************************)
EXTENDS Assignments, FiniteSetTheorems, TLAPS

-----------------------------------------------------------------------------
(* The inductive invariant.                                                *)

\* Where a client is in its life decides whether it has a relationship: a live
\* account has one exactly when it is not under review.
ClientInv ==
    \A k \in Clients :
        /\ lookup[k] # None => account[k] = "NONE"
        /\ account[k] \notin {"ACTIVE", "SUSPENDED"} => ~Served(k)
        /\ account[k] \in {"ACTIVE", "SUSPENDED"} => (Served(k) <=> k \notin reviews)
        /\ account[k] = "NONE" =>
              k \notin reviews /\ \A c \in Cashiers : ~Blocked(k, c)
        /\ Cardinality(CashierBlocks(k)) >= CASHIER_BLOCK_REVIEW_THRESHOLD => k \in reviews

IInv ==
    /\ TypeOK
    /\ OneRelationship
    /\ NobodyLeftBehind
    /\ ListedWhenUsable
    /\ ClientInv

-----------------------------------------------------------------------------
(* What a transaction that places clients does.                            *)

\* Each client of ks, who comes from x[k], is with a new eligible cashier or
\* has a pending request; the others stay where they are.
Moved(ks, x, told) ==
    /\ active' \in SUBSET Pairs /\ pending' \in SUBSET Pairs /\ listed' \in SUBSET Pairs
    /\ attemptCount' \in [Clients -> 0 .. BACKOFF_EXPONENT]
    /\ retryIn' \in [Clients -> 0 .. BACKOFF_MAX]
    /\ \A k \in Clients \ ks, c \in Cashiers :
         /\ <<k, c>> \in active' <=> <<k, c>> \in active
         /\ <<k, c>> \in pending' <=> <<k, c>> \in pending
         /\ <<k, c>> \in listed' <=> <<k, c>> \in told
    /\ \A k \in ks :
         \/ \E c \in Cashiers :
               /\ c \in Eligible(k)' /\ c # x[k]
               /\ \A d \in Cashiers :
                    /\ <<k, d>> \in active' <=> d = c
                    /\ <<k, d>> \notin pending'
                    /\ <<k, d>> \in listed' <=> d = c
         \/ \A d \in Cashiers :
               /\ <<k, d>> \notin active'
               /\ <<k, d>> \in pending' <=> d = x[k]
               /\ <<k, d>> \notin listed'

\* What the same transaction does to the rest, so that those who stay may stay.
Frame(ks) ==
    /\ account' \in [Clients \cup Cashiers -> Status]
    /\ approved' \in SUBSET Cashiers /\ resetRequired' = resetRequired
    /\ subscribed' \in SUBSET Cashiers
    /\ periodLeft' \in [Cashiers -> 0 .. Unlimited]
    /\ lookup' \in [Clients -> Cashiers \cup {None}]
    /\ blocks' \in SUBSET (Clients \X Cashiers \X {"CLIENT", "CASHIER"})
    /\ reviews' = reviews
    /\ \A k \in Clients :
         /\ \/ account'[k] = account[k]
            \/ account[k] = "SUSPENDED" /\ account'[k] = "ACTIVE"
         /\ lookup'[k] \in {lookup[k], None}
         /\ account[k] = "NONE" => \A c \in Cashiers : ~Blocked(k, c)'
         /\ Cardinality(CashierBlocks(k)') >= CASHIER_BLOCK_REVIEW_THRESHOLD => k \in reviews
    /\ \A k \in Clients \ ks, c \in Cashiers : <<k, c>> \in active =>
         account'[c] = "ACTIVE" /\ c \in approved' /\ c \in subscribed'

\* The relationships that stay and can be used are among those told.
Told(ks, told) ==
    \A k \in Clients \ ks, c \in Cashiers :
        /\ <<k, c>> \in told => <<k, c>> \in active
        /\ <<k, c>> \in active /\ account'[k] = "ACTIVE" /\ c \notin resetRequired =>
             <<k, c>> \in told

Move(ks, x, told) ==
    /\ Moved(ks, x, told) /\ Frame(ks) /\ Told(ks, told)
    /\ \A k \in ks : \E c \in Cashiers : c = x[k] /\ <<k, c>> \in active \cup pending

MoveStep ==
    \E ks \in SUBSET Clients : \E x \in [ks -> Cashiers] : \E told \in SUBSET Pairs :
        Move(ks, x, told)

\* The back-off is a delay within its limit.
LEMMA BackoffBounded ==
    ASSUME NEW n \in 0 .. BACKOFF_EXPONENT
    PROVE  Backoff(n) \in 0 .. BACKOFF_MAX
<1>1. BACKOFF_BASE * 2 ^ n \in Nat
  BY ConstantsAssumption
<1>2. (IF n < BACKOFF_EXPONENT THEN n ELSE BACKOFF_EXPONENT) = n
  BY ConstantsAssumption
<1> DEFINE delay == BACKOFF_BASE * 2 ^ n
<1>3. Backoff(n) = IF delay < BACKOFF_MAX THEN delay ELSE BACKOFF_MAX
  BY <1>2 DEF Backoff
<1>4. delay \in Nat
  BY <1>1
<1> HIDE DEF delay
<1> QED
  BY <1>3, <1>4, ConstantsAssumption

\* completePending places each client with an eligible cashier other than the
\* excluded one, or leaves its request pending.
LEMMA PlacedOrPending ==
    ASSUME NEW ks \in SUBSET Clients, NEW x \in [ks -> Cashiers],
           NEW rows \in SUBSET Pairs, NEW open \in SUBSET Pairs, NEW told \in SUBSET Pairs,
           TypeOK, CompletePending(ks, x, rows, open, told)
    PROVE  \E f \in [ks -> Cashiers \cup {None}] :
             /\ \A k \in ks : f[k] # None => f[k] \in Eligible(k)' /\ f[k] # x[k]
             /\ active' = rows \cup {<<k, f[k]>> : k \in {j \in ks : f[j] # None}}
             /\ pending' = open \cup {<<k, x[k]>> : k \in {j \in ks : f[j] = None}}
             /\ listed' = told \cup {<<k, f[k]>> : k \in {j \in ks : f[j] # None}}
             /\ attemptCount' \in [Clients -> 0 .. BACKOFF_EXPONENT]
             /\ retryIn' \in [Clients -> 0 .. BACKOFF_MAX]
<1> DEFINE won(f)   == {k \in ks : f[k] # None}
           tried(f) == {k \in ks \ won(f) : account'[k] = "ACTIVE"}
           count(f, k) == IF k \in tried(f)
                          THEN NextAttempt(IF <<k, x[k]>> \in pending THEN attemptCount[k] ELSE 0)
                          ELSE IF k \in ks THEN 0 ELSE attemptCount[k]
           made(f)  == {<<k, f[k]>> : k \in won(f)}
<1>1. PICK f \in Placements(ks, x, rows, eligible') :
        /\ active' = rows \cup made(f)
        /\ pending' = open \cup StillOpen(ks, won(f), x)
        /\ attemptCount' = [k \in Clients |-> count(f, k)]
        /\ retryIn' = [k \in Clients |->
                          IF k \in tried(f) THEN Backoff(count(f, k))
                          ELSE IF k \in ks THEN 0 ELSE retryIn[k]]
        /\ listed' = told \cup made(f)
  BY DEF CompletePending
<1>2. f \in [ks -> Cashiers \cup {None}]
  BY <1>1 DEF Placements
<1>3. ASSUME NEW k \in ks, f[k] # None
      PROVE  f[k] \in Eligible(k)' /\ f[k] # x[k]
  <2>1. f[k] \in findEligibleCandidates(eligible', k, x[k])
    BY <1>1, <1>3 DEF Placements
  <2>2. (eligible')[k] = Eligible(k)'
    BY DEF eligible
  <2> QED
    BY <2>1, <2>2 DEF findEligibleCandidates
<1>4. \A k \in Clients : count(f, k) \in 0 .. BACKOFF_EXPONENT
  BY ConstantsAssumption DEF TypeOK, NextAttempt
<1>5. \A k \in Clients : Backoff(count(f, k)) \in 0 .. BACKOFF_MAX
  BY <1>4, BackoffBounded
<1>6. attemptCount' \in [Clients -> 0 .. BACKOFF_EXPONENT]
  <2> HIDE DEF count
  <2> QED
    BY <1>1, <1>4
<1>7. retryIn' \in [Clients -> 0 .. BACKOFF_MAX]
  <2> HIDE DEF count, tried
  <2>1. \A k \in Clients : retryIn[k] \in 0 .. BACKOFF_MAX /\ 0 \in 0 .. BACKOFF_MAX
    BY ConstantsAssumption DEF TypeOK
  <2> QED
    BY <1>1, <1>5, <2>1
<1>8. pending' = open \cup {<<k, x[k]>> : k \in {j \in ks : f[j] = None}}
  <2>1. ks \ won(f) = {j \in ks : f[j] = None}
    OBVIOUS
  <2> QED
    BY <1>1, <2>1 DEF StillOpen
<1> QED
  BY <1>1, <1>2, <1>3, <1>6, <1>7, <1>8

\* completePending moves clients whose only relationship is with x[k], once the
\* old assignment and the old request are out of the way.
LEMMA PlacementMoves ==
    ASSUME NEW ks \in SUBSET Clients, NEW x \in [ks -> Cashiers],
           NEW rows \in SUBSET Pairs, NEW open \in SUBSET Pairs, NEW told \in SUBSET Pairs,
           TypeOK, CompletePending(ks, x, rows, open, told),
           \A k \in Clients \ ks, c \in Cashiers :
             /\ <<k, c>> \in rows <=> <<k, c>> \in active
             /\ <<k, c>> \in open <=> <<k, c>> \in pending,
           \A k \in ks, c \in Cashiers : <<k, c>> \notin rows \cup open \cup told
    PROVE  Moved(ks, x, told)
<1>1. PICK f \in [ks -> Cashiers \cup {None}] :
        /\ \A k \in ks : f[k] # None => f[k] \in Eligible(k)' /\ f[k] # x[k]
        /\ active' = rows \cup {<<k, f[k]>> : k \in {j \in ks : f[j] # None}}
        /\ pending' = open \cup {<<k, x[k]>> : k \in {j \in ks : f[j] = None}}
        /\ listed' = told \cup {<<k, f[k]>> : k \in {j \in ks : f[j] # None}}
        /\ attemptCount' \in [Clients -> 0 .. BACKOFF_EXPONENT]
        /\ retryIn' \in [Clients -> 0 .. BACKOFF_MAX]
  BY PlacedOrPending
<1> DEFINE made == {<<k, f[k]>> : k \in {j \in ks : f[j] # None}}
           kept == {<<k, x[k]>> : k \in {j \in ks : f[j] = None}}
<1>2. made \in SUBSET Pairs /\ kept \in SUBSET Pairs
  BY DEF Pairs
<1>3. \A k \in Clients, c \in Cashiers :
        /\ <<k, c>> \in made <=> k \in ks /\ f[k] = c
        /\ <<k, c>> \in kept <=> k \in ks /\ f[k] = None /\ x[k] = c
  BY ConstantsAssumption
<1>4. active' = rows \cup made /\ pending' = open \cup kept /\ listed' = told \cup made
  BY <1>1
<1> HIDE DEF made, kept
<1>5. active' \in SUBSET Pairs /\ pending' \in SUBSET Pairs /\ listed' \in SUBSET Pairs
  BY <1>2, <1>4
<1>6. \A k \in Clients \ ks, c \in Cashiers :
        /\ <<k, c>> \in active' <=> <<k, c>> \in active
        /\ <<k, c>> \in pending' <=> <<k, c>> \in pending
        /\ <<k, c>> \in listed' <=> <<k, c>> \in told
  BY <1>3, <1>4
<1>7. ASSUME NEW k \in ks, f[k] # None
      PROVE  \E c \in Cashiers :
               /\ c \in Eligible(k)' /\ c # x[k]
               /\ \A d \in Cashiers :
                    /\ <<k, d>> \in active' <=> d = c
                    /\ <<k, d>> \notin pending'
                    /\ <<k, d>> \in listed' <=> d = c
  <2>1. f[k] \in Cashiers /\ k \in Clients
    BY <1>7
  <2>2. \A d \in Cashiers :
          /\ <<k, d>> \in active' <=> d = f[k]
          /\ <<k, d>> \notin pending'
          /\ <<k, d>> \in listed' <=> d = f[k]
    BY <1>3, <1>4, <1>7, <2>1
  <2> QED
    BY <1>1, <1>7, <2>1, <2>2
<1>8. ASSUME NEW k \in ks, f[k] = None
      PROVE  \A d \in Cashiers :
               /\ <<k, d>> \notin active'
               /\ <<k, d>> \in pending' <=> d = x[k]
               /\ <<k, d>> \notin listed'
  <2>1. k \in Clients /\ None \notin Cashiers
    BY ConstantsAssumption
  <2> QED
    BY <1>3, <1>4, <1>8, <2>1
<1> QED
  BY <1>1, <1>5, <1>6, <1>7, <1>8 DEF Moved

\* beginReassignment moves the clients ks of c.
LEMMA BeginMoves ==
    ASSUME IInv, NEW c \in Cashiers, NEW ks \in SUBSET ServedBy(c),
           BeginReassignment(ks, c)
    PROVE  /\ Moved(ks, [k \in ks |-> c], listed \ (ks \X {c}))
           /\ \A k \in ks : k \in Clients /\ <<k, c>> \in active
<1> DEFINE ended == ks \X {c}
<1>1. ks \in SUBSET Clients /\ \A k \in ks : k \in Clients /\ <<k, c>> \in active
  BY DEF ServedBy
<1>2. CompletePending(ks, [k \in ks |-> c], active \ ended, pending, listed \ ended)
  BY DEF BeginReassignment
<1>3. /\ active \ ended \in SUBSET Pairs /\ pending \in SUBSET Pairs
      /\ listed \ ended \in SUBSET Pairs
  BY DEF IInv, TypeOK
<1>4. \A k \in Clients \ ks, d \in Cashiers :
        /\ <<k, d>> \in active \ ended <=> <<k, d>> \in active
        /\ <<k, d>> \in pending <=> <<k, d>> \in pending
  OBVIOUS
<1>5. \A k \in ks, d \in Cashiers :
        <<k, d>> \notin (active \ ended) \cup pending \cup (listed \ ended)
  <2> SUFFICES ASSUME NEW k \in ks, NEW d \in Cashiers
               PROVE  <<k, d>> \notin (active \ ended) \cup pending \cup (listed \ ended)
    OBVIOUS
  <2>1. k \in Clients /\ <<k, c>> \in active
    BY <1>1
  <2>2. <<k, d>> \in active \cup pending => d = c /\ <<k, d>> \notin pending
    BY <2>1 DEF IInv, OneRelationship
  <2>3. <<k, d>> \in listed => <<k, d>> \in active
    BY DEF IInv, ListedWhenUsable
  <2> QED
    BY <2>2, <2>3
<1>6. [k \in ks |-> c] \in [ks -> Cashiers]
  OBVIOUS
<1> QED
  <2>1. TypeOK
    BY DEF IInv
  <2> HIDE DEF ended
  <2>2. Moved(ks, [k \in ks |-> c], listed \ ended)
    BY <1>1, <1>2, <1>3, <1>4, <1>5, <1>6, <2>1, PlacementMoves
  <2> QED
    BY <1>1, <2>2 DEF ended

\* retryPending moves clients with a pending request.
LEMMA RetryMoves ==
    ASSUME IInv, NEW ks \in SUBSET Clients, NEW told \in SUBSET Pairs,
           \A k \in ks : RequestsOf({k}) # {},
           \A k \in ks, c \in Cashiers : <<k, c>> \in told => <<k, c>> \in active,
           RetryPending(ks, told)
    PROVE  /\ Moved(ks, [k \in ks |-> Excluded(k)], told)
           /\ \A k \in ks : Excluded(k) \in Cashiers /\ <<k, Excluded(k)>> \in pending
<1>1. ASSUME NEW k \in ks
      PROVE  Excluded(k) \in Cashiers /\ <<k, Excluded(k)>> \in pending
  <2>1. PICK p \in pending : p[1] = k
    BY DEF RequestsOf
  <2>2. PICK j \in Clients, c \in Cashiers : p = <<j, c>>
    BY DEF IInv, TypeOK, Pairs
  <2>3. <<k, c>> \in pending
    BY <2>1, <2>2
  <2> QED
    BY <2>3 DEF Excluded
<1>2. [k \in ks |-> Excluded(k)] \in [ks -> Cashiers]
  BY <1>1
<1>3. CompletePending(ks, [k \in ks |-> Excluded(k)], active, pending \ RequestsOf(ks), told)
  BY DEF RetryPending
<1>4. active \in SUBSET Pairs /\ pending \ RequestsOf(ks) \in SUBSET Pairs
  BY DEF IInv, TypeOK
<1>5. \A k \in Clients \ ks, c \in Cashiers :
        /\ <<k, c>> \in active <=> <<k, c>> \in active
        /\ <<k, c>> \in pending \ RequestsOf(ks) <=> <<k, c>> \in pending
  BY DEF RequestsOf
<1>6. \A k \in ks, c \in Cashiers :
        <<k, c>> \notin active \cup (pending \ RequestsOf(ks)) \cup told
  <2> SUFFICES ASSUME NEW k \in ks, NEW c \in Cashiers
               PROVE  <<k, c>> \notin active \cup (pending \ RequestsOf(ks)) \cup told
    OBVIOUS
  <2>1. <<k, c>> \notin pending \ RequestsOf(ks)
    BY DEF RequestsOf
  <2>2. <<k, c>> \notin active
    BY <1>1 DEF IInv, OneRelationship
  <2> QED
    BY <2>1, <2>2
<1>7. TypeOK
  BY DEF IInv
<1>8. Moved(ks, [k \in ks |-> Excluded(k)], told)
  <2> DEFINE x == [k \in ks |-> Excluded(k)]
             open == pending \ RequestsOf(ks)
  <2>1. x \in [ks -> Cashiers]
    BY <1>2
  <2>2. CompletePending(ks, x, active, open, told)
    BY <1>3
  <2>3. open \in SUBSET Pairs
    BY <1>4
  <2>4. \A k \in Clients \ ks, c \in Cashiers :
          /\ <<k, c>> \in active <=> <<k, c>> \in active
          /\ <<k, c>> \in open <=> <<k, c>> \in pending
    BY <1>5
  <2>5. \A k \in ks, c \in Cashiers : <<k, c>> \notin active \cup open \cup told
    BY <1>6
  <2> HIDE DEF x, open
  <2>6. Moved(ks, x, told)
    BY <1>4, <1>7, <2>1, <2>2, <2>3, <2>4, <2>5, PlacementMoves
  <2> QED
    BY <2>6 DEF x
<1> QED
  BY <1>1, <1>8

\* A transaction that ends assignments of c is a move.
LEMMA BeginMoveStep ==
    ASSUME IInv, NEW c \in Cashiers, NEW ks \in SUBSET ServedBy(c),
           BeginReassignment(ks, c), Frame(ks),
           \A k \in Clients : account'[k] = account[k]
    PROVE  MoveStep
<1> DEFINE x == [k \in ks |-> c]
           told == listed \ (ks \X {c})
<1>1. Moved(ks, x, told) /\ \A k \in ks : k \in Clients /\ <<k, c>> \in active
  BY BeginMoves
<1>2. Told(ks, told)
  BY DEF Told, IInv, ListedWhenUsable, NobodyLeftBehind
<1>3. ks \in SUBSET Clients /\ x \in [ks -> Cashiers] /\ told \in SUBSET Pairs
  BY DEF ServedBy, IInv, TypeOK
<1>4. \A k \in ks : \E d \in Cashiers : d = x[k] /\ <<k, d>> \in active \cup pending
  BY <1>1
<1> HIDE DEF x, told
<1>5. Move(ks, x, told)
  BY <1>1, <1>2, <1>4 DEF Move
<1> QED
  BY <1>3, <1>5 DEF MoveStep

\* A transaction that retries pending requests is a move.
LEMMA RetryMoveStep ==
    ASSUME IInv, NEW ks \in SUBSET Clients, NEW told \in SUBSET Pairs,
           \A k \in ks : RequestsOf({k}) # {},
           \A k \in ks, c \in Cashiers : <<k, c>> \in told => <<k, c>> \in active,
           RetryPending(ks, told), Frame(ks), Told(ks, told)
    PROVE  MoveStep
<1> DEFINE x == [k \in ks |-> Excluded(k)]
<1>1. /\ Moved(ks, x, told)
      /\ \A k \in ks : Excluded(k) \in Cashiers /\ <<k, Excluded(k)>> \in pending
  BY RetryMoves
<1>2. x \in [ks -> Cashiers]
  BY <1>1
<1>3. \A k \in ks : \E d \in Cashiers : d = x[k] /\ <<k, d>> \in active \cup pending
  BY <1>1
<1> HIDE DEF x
<1>4. Move(ks, x, told)
  BY <1>1, <1>3 DEF Move
<1> QED
  BY <1>2, <1>4 DEF MoveStep

\* A move preserves the invariant.
LEMMA MovePreserves ==
    ASSUME IInv, MoveStep
    PROVE  IInv'
<1>0. PICK ks \in SUBSET Clients :
        \E x \in [ks -> Cashiers] : \E told \in SUBSET Pairs : Move(ks, x, told)
  BY DEF MoveStep
<1>1. PICK x \in [ks -> Cashiers], told \in SUBSET Pairs : Move(ks, x, told)
  BY <1>0
<1>2. Moved(ks, x, told) /\ Frame(ks) /\ Told(ks, told)
  BY <1>1 DEF Move
<1>3. \A k \in ks : \E c \in Cashiers : c = x[k] /\ <<k, c>> \in active \cup pending
  BY <1>1 DEF Move
<1>4. TypeOK'
  BY <1>2 DEF IInv, TypeOK, Moved, Frame
<1>5. OneRelationship'
  <2> SUFFICES ASSUME NEW k \in Clients, NEW c \in Cashiers, NEW d \in Cashiers,
                      <<k, c>> \in active' \cup pending', <<k, d>> \in active' \cup pending'
               PROVE  c = d /\ ~(<<k, c>> \in active' /\ <<k, c>> \in pending')
    BY DEF OneRelationship
  <2>1. CASE k \in ks
    BY <1>2, <2>1 DEF Moved
  <2>2. CASE k \notin ks
    BY <1>2, <2>2 DEF Moved, IInv, OneRelationship
  <2> QED
    BY <2>1, <2>2
<1>6. NobodyLeftBehind'
  <2> SUFFICES ASSUME NEW k \in Clients, NEW c \in Cashiers, <<k, c>> \in active'
               PROVE  /\ account'[k] \in {"ACTIVE", "SUSPENDED"}
                      /\ account'[c] = "ACTIVE" /\ c \in approved' /\ c \in subscribed'
    BY DEF NobodyLeftBehind
  <2>1. CASE k \in ks
    <3>1. c \in Eligible(k)'
      BY <1>2, <2>1 DEF Moved
    <3> QED
      BY <3>1 DEF Eligible, Available, Current
  <2>2. CASE k \notin ks
    BY <1>2, <2>2 DEF Moved, Frame, IInv, NobodyLeftBehind
  <2> QED
    BY <2>1, <2>2
<1>7. ListedWhenUsable'
  <2>1. ASSUME NEW k \in Clients, NEW c \in Cashiers
        PROVE  /\ <<k, c>> \in listed' => <<k, c>> \in active'
               /\ /\ <<k, c>> \in active' /\ account'[k] = "ACTIVE"
                  /\ account'[c] = "ACTIVE" /\ c \notin resetRequired'
                  => <<k, c>> \in listed'
    <3>1. CASE k \in ks
      BY <1>2, <3>1 DEF Moved
    <3>2. CASE k \notin ks
      BY <1>2, <3>2 DEF Moved, Frame, Told
    <3> QED
      BY <3>1, <3>2
  <2>2. listed' \subseteq active'
    BY <1>4, <2>1 DEF TypeOK, Pairs
  <2> QED
    BY <2>1, <2>2 DEF ListedWhenUsable
<1>8. ClientInv'
  <2> SUFFICES ASSUME NEW k \in Clients
               PROVE  /\ lookup'[k] # None => account'[k] = "NONE"
                      /\ account'[k] \notin {"ACTIVE", "SUSPENDED"} => ~Served(k)'
                      /\ account'[k] \in {"ACTIVE", "SUSPENDED"} =>
                            (Served(k)' <=> k \notin reviews')
                      /\ account'[k] = "NONE" =>
                            k \notin reviews' /\ \A c \in Cashiers : ~Blocked(k, c)'
                      /\ Cardinality(CashierBlocks(k)') >= CASHIER_BLOCK_REVIEW_THRESHOLD
                            => k \in reviews'
    BY DEF ClientInv
  <2>1. Served(k)' <=> Served(k)
    <3>1. CASE k \in ks
      <4>1. Served(k)
        BY <1>3, <3>1 DEF Served
      <4>2. x[k] \in Cashiers
        BY <3>1
      <4>3. Served(k)'
        BY <1>2, <3>1, <4>2 DEF Moved, Served
      <4> QED
        BY <4>1, <4>3
    <3>2. CASE k \notin ks
      BY <1>2, <3>2 DEF Moved, Served
    <3> QED
      BY <3>1, <3>2
  <2>2. /\ reviews' = reviews
        /\ \/ account'[k] = account[k]
           \/ account[k] = "SUSPENDED" /\ account'[k] = "ACTIVE"
        /\ lookup'[k] \in {lookup[k], None}
        /\ account[k] = "NONE" => \A c \in Cashiers : ~Blocked(k, c)'
        /\ Cardinality(CashierBlocks(k)') >= CASHIER_BLOCK_REVIEW_THRESHOLD => k \in reviews
    BY <1>2 DEF Frame
  <2> QED
    BY <2>1, <2>2 DEF IInv, ClientInv
<1> QED
  BY <1>4, <1>5, <1>6, <1>7, <1>8 DEF IInv

\* A client placed by a move is with an available cashier it has no block with,
\* and not with the one it comes from.
LEMMA MoveIsFresh ==
    ASSUME IInv, MoveStep, NEW k \in Clients, NEW c \in Cashiers,
           <<k, c>> \in active' \ active
    PROVE  /\ Available(c)' /\ ~Blocked(k, c)'
           /\ \A d \in Cashiers : <<k, d>> \in active \cup pending => d # c
<1>0. PICK ks \in SUBSET Clients :
        \E x \in [ks -> Cashiers] : \E told \in SUBSET Pairs : Move(ks, x, told)
  BY DEF MoveStep
<1>1. PICK x \in [ks -> Cashiers], told \in SUBSET Pairs : Move(ks, x, told)
  BY <1>0
<1>2. k \in ks
  BY <1>1 DEF Move, Moved
<1>3. c \in Eligible(k)' /\ c # x[k]
  BY <1>1, <1>2 DEF Move, Moved
<1>4. x[k] \in Cashiers /\ <<k, x[k]>> \in active \cup pending
  BY <1>1, <1>2 DEF Move
<1> QED
  BY <1>3, <1>4 DEF Eligible, IInv, OneRelationship

-----------------------------------------------------------------------------
(* The actions that move clients.                                          *)

\* The blocks that a transaction leaves alone say what they said before.
LEMMA SameBlocks ==
    ASSUME IInv, UNCHANGED <<blocks, reviews>>
    PROVE  \A k \in Clients :
             /\ account[k] = "NONE" => \A c \in Cashiers : ~Blocked(k, c)'
             /\ Cardinality(CashierBlocks(k)') >= CASHIER_BLOCK_REVIEW_THRESHOLD => k \in reviews
BY DEF IInv, ClientInv, Blocked, CashierBlocks

\* Nothing but the relationships and the requests changes.
LEMMA SameUsers ==
    ASSUME IInv, UNCHANGED <<userVars, periodVars, lookup, blocks, reviews>>,
           NEW ks \in SUBSET Clients
    PROVE  Frame(ks) /\ \A k \in Clients : account'[k] = account[k]
BY SameBlocks DEF IInv, TypeOK, NobodyLeftBehind, Frame, userVars, periodVars

\* With the accounts of the clients unchanged, what was listed stays listed.
LEMMA SameListed ==
    ASSUME IInv, \A k \in Clients : account'[k] = account[k],
           NEW ks \in SUBSET Clients
    PROVE  Told(ks, listed) /\ listed \in SUBSET Pairs
           /\ \A k \in ks, c \in Cashiers : <<k, c>> \in listed => <<k, c>> \in active
BY DEF IInv, TypeOK, Told, ListedWhenUsable, NobodyLeftBehind

\* reassignAdministrative moves one client.
LEMMA ReassignMoves ==
    ASSUME IInv, NEW k \in Clients, ReassignAdministrative(k)
    PROVE  MoveStep
<1>1. Frame({k}) /\ \A j \in Clients : account'[j] = account[j]
  BY SameUsers DEF ReassignAdministrative
<1>2. CASE k \in Waiting
  <2>1. RetryPending({k}, listed)
    BY <1>2 DEF ReassignAdministrative
  <2>2. \A j \in {k} : RequestsOf({j}) # {}
    BY <1>2 DEF Waiting
  <2> QED
    BY <1>1, <2>1, <2>2, SameListed, RetryMoveStep
<1>3. CASE k \notin Waiting
  <2>1. PICK c \in Cashiers : <<k, c>> \in active /\ BeginReassignment({k}, c)
    BY <1>3 DEF ReassignAdministrative
  <2>2. {k} \in SUBSET ServedBy(c)
    BY <2>1 DEF ServedBy
  <2> QED
    BY <1>1, <2>1, <2>2, BeginMoveStep
<1> QED
  BY <1>2, <1>3

\* A turn of the expiry worker moves a batch of clients.
LEMMA ReconcileMoves ==
    ASSUME IInv, NEW c \in Cashiers, ReconcileNextExpiredSubscription(c)
    PROVE  MoveStep
<1>1. PICK ks \in SUBSET ServedBy(c) :
        /\ subscribed' = IF Drained(c, ks) THEN subscribed \ {c} ELSE subscribed
        /\ UNCHANGED <<userVars, periodLeft, lookup, blocks, reviews>>
        /\ BeginReassignment(ks, c)
  BY DEF ReconcileNextExpiredSubscription
<1>2. \A k \in Clients \ ks, d \in Cashiers : <<k, d>> \in active =>
        account[d] = "ACTIVE" /\ d \in approved /\ d \in subscribed'
  BY <1>1 DEF Drained, ServedBy, IInv, NobodyLeftBehind
<1>3. subscribed' \in SUBSET Cashiers
  BY <1>1 DEF IInv, TypeOK
<1>4. Frame(ks) /\ \A k \in Clients : account'[k] = account[k]
  BY <1>1, <1>2, <1>3, SameBlocks DEF Frame, IInv, TypeOK, userVars
<1> QED
  BY <1>1, <1>4, BeginMoveStep

\* The worker's retry moves the clients whose back-off is over.
LEMMA RetryWorkerMoves ==
    ASSUME IInv, ReconcilePendingReassignments
    PROVE  MoveStep
<1>1. DueRequests \in SUBSET Clients /\ \A k \in DueRequests : RequestsOf({k}) # {}
  BY DEF DueRequests, Waiting
<1>2. Frame(DueRequests) /\ \A k \in Clients : account'[k] = account[k]
  BY <1>1, SameUsers DEF ReconcilePendingReassignments
<1>3. RetryPending(DueRequests, listed)
  BY DEF ReconcilePendingReassignments
<1> HIDE DEF DueRequests
<1> QED
  BY <1>1, <1>2, <1>3, SameListed, RetryMoveStep

\* A block that does not suspend the client moves it.
LEMMA BlockMoves ==
    ASSUME IInv, NEW k \in Clients, NEW c \in Cashiers, BlockClient(k, c),
           ~(Cardinality(CashierBlocks(k) \cup {c}) >= CASHIER_BLOCK_REVIEW_THRESHOLD)
    PROVE  MoveStep
<1>1. /\ <<k, c>> \in active /\ account[k] = "ACTIVE"
      /\ blocks' = blocks \cup {<<k, c, "CASHIER">>}
      /\ UNCHANGED <<account, approved, resetRequired, periodVars, lookup, reviews>>
      /\ BeginReassignment({k}, c)
  BY DEF BlockClient
<1>2. CashierBlocks(k)' = CashierBlocks(k) \cup {c}
  BY <1>1 DEF CashierBlocks
<1>3. \A j \in Clients : j # k =>
        /\ CashierBlocks(j)' = CashierBlocks(j)
        /\ \A d \in Cashiers : Blocked(j, d)' <=> Blocked(j, d)
  BY <1>1 DEF CashierBlocks, Blocked
<1>4. \A j \in Clients :
        /\ account[j] = "NONE" => \A d \in Cashiers : ~Blocked(j, d)'
        /\ Cardinality(CashierBlocks(j)') >= CASHIER_BLOCK_REVIEW_THRESHOLD => j \in reviews
  BY <1>1, <1>2, <1>3 DEF IInv, ClientInv
<1>5. blocks' \in SUBSET (Clients \X Cashiers \X {"CLIENT", "CASHIER"})
  BY <1>1 DEF IInv, TypeOK
<1>6. Frame({k}) /\ \A j \in Clients : account'[j] = account[j]
  BY <1>1, <1>4, <1>5 DEF Frame, IInv, TypeOK, NobodyLeftBehind, periodVars
<1>7. {k} \in SUBSET ServedBy(c)
  BY <1>1 DEF ServedBy
<1> QED
  BY <1>1, <1>6, <1>7, BeginMoveStep

\* A report moves the client who made it.
LEMMA ReportMoves ==
    ASSUME IInv, NEW k \in Clients, NEW c \in Cashiers, ReportCashier(k, c)
    PROVE  MoveStep
<1>1. /\ <<k, c>> \in active /\ account[k] = "ACTIVE"
      /\ blocks' = blocks \cup {<<k, c, "CLIENT">>}
      /\ UNCHANGED <<userVars, periodVars, lookup, reviews>>
      /\ BeginReassignment({k}, c)
  BY DEF ReportCashier
<1>2. \A j \in Clients : CashierBlocks(j)' = CashierBlocks(j)
  BY <1>1 DEF CashierBlocks
<1>3. \A j \in Clients : j # k => \A d \in Cashiers : Blocked(j, d)' <=> Blocked(j, d)
  BY <1>1 DEF Blocked
<1>4. \A j \in Clients :
        /\ account[j] = "NONE" => \A d \in Cashiers : ~Blocked(j, d)'
        /\ Cardinality(CashierBlocks(j)') >= CASHIER_BLOCK_REVIEW_THRESHOLD => j \in reviews
  BY <1>1, <1>2, <1>3 DEF IInv, ClientInv
<1>5. blocks' \in SUBSET (Clients \X Cashiers \X {"CLIENT", "CASHIER"})
  BY <1>1 DEF IInv, TypeOK
<1>6. Frame({k}) /\ \A j \in Clients : account'[j] = account[j]
  BY <1>1, <1>4, <1>5 DEF Frame, IInv, TypeOK, NobodyLeftBehind, userVars, periodVars
<1>7. {k} \in SUBSET ServedBy(c)
  BY <1>1 DEF ServedBy
<1> QED
  BY <1>1, <1>6, <1>7, BeginMoveStep

\* The account of a client is not that of a cashier.
LEMMA OtherAccounts ==
    ASSUME TypeOK, NEW c \in Cashiers, NEW v \in Status,
           account' = [account EXCEPT ![c] = v]
    PROVE  /\ account' \in [Clients \cup Cashiers -> Status]
           /\ \A k \in Clients : account'[k] = account[k]
           /\ \A d \in Cashiers : d # c => account'[d] = account[d]
           /\ account'[c] = v
BY ConstantsAssumption DEF TypeOK

\* What makes a cashier available retries the requests of the active clients.
LEMMA WaitingMoves ==
    ASSUME IInv, \A k \in Clients : account'[k] = account[k],
           Frame(Waiting), RetryPending(Waiting, listed)
    PROVE  MoveStep
<1>1. Waiting \in SUBSET Clients /\ \A k \in Waiting : RequestsOf({k}) # {}
  BY DEF Waiting
<1> HIDE DEF Waiting
<1> QED
  BY <1>1, SameListed, RetryMoveStep

\* An approval moves the clients who wait.
LEMMA ApproveMoves ==
    ASSUME IInv, NEW c \in Cashiers, ApproveCashier(c)
    PROVE  MoveStep
<1>1. /\ account' = [account EXCEPT ![c] = "ACTIVE"]
      /\ approved' = approved \cup {c}
      /\ UNCHANGED <<resetRequired, periodVars, lookup, blocks, reviews>>
      /\ RetryPending(Waiting, listed)
  BY DEF ApproveCashier
<1>2. /\ account' \in [Clients \cup Cashiers -> Status]
      /\ \A k \in Clients : account'[k] = account[k]
      /\ \A d \in Cashiers : d # c => account'[d] = account[d]
      /\ account'[c] = "ACTIVE"
  BY <1>1, OtherAccounts DEF IInv, Status
<1>3. Frame(Waiting)
  BY <1>1, <1>2, SameBlocks DEF Frame, IInv, TypeOK, NobodyLeftBehind, periodVars
<1> QED
  BY <1>1, <1>2, <1>3, WaitingMoves

\* The reactivation of an approved cashier moves the clients who wait.
LEMMA ReactivateCashierMoves ==
    ASSUME IInv, NEW c \in Cashiers, ReactivateCashier(c)
    PROVE  MoveStep
<1> DEFINE v == IF c \in approved THEN "ACTIVE" ELSE "PENDING"
<1>1. /\ account[c] = "SUSPENDED"
      /\ account' = [account EXCEPT ![c] = v]
      /\ UNCHANGED <<approved, resetRequired, periodVars, lookup, blocks, reviews>>
      /\ RetryPending(IF c \in approved THEN Waiting ELSE {}, listed)
  BY DEF ReactivateCashier
<1>2. /\ account' \in [Clients \cup Cashiers -> Status]
      /\ \A k \in Clients : account'[k] = account[k]
      /\ \A d \in Cashiers : d # c => account'[d] = account[d]
  <2>1. v \in Status
    BY DEF Status
  <2> HIDE DEF v
  <2> QED
    BY <1>1, <2>1, OtherAccounts DEF IInv
<1>3. ASSUME NEW ks \in SUBSET Clients
      PROVE  Frame(ks)
  BY <1>1, <1>2, SameBlocks DEF Frame, IInv, TypeOK, NobodyLeftBehind, periodVars
<1>4. CASE c \in approved
  <2>1. Waiting \in SUBSET Clients
    BY DEF Waiting
  <2> QED
    BY <1>1, <1>2, <1>3, <1>4, <2>1, WaitingMoves
<1>5. CASE c \notin approved
  <2>1. RetryPending({}, listed)
    BY <1>1, <1>5
  <2> QED
    BY <1>2, <1>3, <2>1, SameListed, RetryMoveStep
<1> QED
  BY <1>4, <1>5

\* The reactivation of a client retries its request, or lists its relationship.
LEMMA ReactivateClientMoves ==
    ASSUME IInv, NEW k \in Clients, ReactivateClient(k)
    PROVE  MoveStep
<1> DEFINE ks == {j \in {k} : RequestsOf({j}) # {}}
<1>1. /\ account[k] = "SUSPENDED"
      /\ account' = [account EXCEPT ![k] = "ACTIVE"]
      /\ UNCHANGED <<approved, resetRequired, periodVars, lookup, blocks, reviews>>
      /\ RetryPending(ks, Changed(k))
  BY DEF ReactivateClient
<1>2. ks \in SUBSET Clients /\ \A j \in ks : RequestsOf({j}) # {}
  OBVIOUS
<1>3. /\ account' \in [Clients \cup Cashiers -> Status]
      /\ account'[k] = "ACTIVE"
      /\ \A u \in Clients \cup Cashiers : u # k => account'[u] = account[u]
  BY <1>1 DEF IInv, TypeOK, Status
<1>4. \A c \in Cashiers : account'[c] = account[c]
  BY <1>3, ConstantsAssumption
<1>5. Frame(ks)
  BY <1>1, <1>3, <1>4, SameBlocks DEF Frame, IInv, TypeOK, NobodyLeftBehind, periodVars
<1>6. Changed(k) \in SUBSET Pairs
  BY DEF Changed, RelationshipsOf, IInv, TypeOK
<1>7. \A j \in Clients, c \in Cashiers :
        /\ <<j, c>> \in Changed(k) => <<j, c>> \in active
        /\ <<j, c>> \in listed => <<j, c>> \in Changed(k)
        /\ <<k, c>> \in active => <<k, c>> \in Changed(k)
  BY DEF Changed, RelationshipsOf, IInv, ListedWhenUsable
<1>8. Told(ks, Changed(k))
  BY <1>3, <1>7 DEF Told, IInv, ListedWhenUsable, NobodyLeftBehind
<1> HIDE DEF ks
<1> QED
  BY <1>1, <1>2, <1>5, <1>6, <1>7, <1>8, RetryMoveStep

\* The suspension of a cashier moves all its clients.
LEMMA SuspendCashierMoves ==
    ASSUME IInv, NEW c \in Cashiers, SuspendCashier(c)
    PROVE  MoveStep
<1>1. /\ account' = [account EXCEPT ![c] = "SUSPENDED"]
      /\ UNCHANGED <<approved, resetRequired, periodVars, lookup, blocks, reviews>>
      /\ BeginReassignment(ServedBy(c), c)
  BY DEF SuspendCashier, MoveClients
<1>2. /\ account' \in [Clients \cup Cashiers -> Status]
      /\ \A k \in Clients : account'[k] = account[k]
      /\ \A d \in Cashiers : d # c => account'[d] = account[d]
  BY <1>1, OtherAccounts DEF IInv, Status
<1>3. \A k \in Clients \ ServedBy(c), d \in Cashiers : <<k, d>> \in active => d # c
  BY DEF ServedBy
<1>4. Frame(ServedBy(c))
  BY <1>1, <1>2, <1>3, SameBlocks DEF Frame, IInv, TypeOK, NobodyLeftBehind, periodVars
<1> QED
  BY <1>1, <1>2, <1>4, BeginMoveStep

\* The deletion of a cashier, when it commits, moves all its clients.
LEMMA DeleteCashierMoves ==
    ASSUME IInv, NEW c \in Cashiers, DeleteCashier(c)
    PROVE  MoveStep
<1>1. /\ account' = [account EXCEPT ![c] = "DELETED"]
      /\ approved' = approved \ {c}
      /\ subscribed' = subscribed \ {c}
      /\ periodLeft' = [periodLeft EXCEPT ![c] = 0]
      /\ lookup' = Revoke(c)
      /\ UNCHANGED <<resetRequired, blocks, reviews>>
      /\ BeginReassignment(ServedBy(c), c)
  BY DEF DeleteCashier, MoveClients, Unsubscribe
<1>2. /\ account' \in [Clients \cup Cashiers -> Status]
      /\ \A k \in Clients : account'[k] = account[k]
      /\ \A d \in Cashiers : d # c => account'[d] = account[d]
  BY <1>1, OtherAccounts DEF IInv, Status
<1>3. \A k \in Clients \ ServedBy(c), d \in Cashiers : <<k, d>> \in active => d # c
  BY DEF ServedBy
<1>4. /\ lookup' \in [Clients -> Cashiers \cup {None}]
      /\ \A k \in Clients : lookup'[k] \in {lookup[k], None}
  BY <1>1 DEF Revoke, IInv, TypeOK
<1>5. periodLeft' \in [Cashiers -> 0 .. Unlimited]
  BY <1>1, ConstantsAssumption DEF IInv, TypeOK, Unlimited
<1>6. Frame(ServedBy(c))
  BY <1>1, <1>2, <1>3, <1>4, <1>5, SameBlocks DEF Frame, IInv, TypeOK, NobodyLeftBehind
<1> QED
  BY <1>1, <1>2, <1>6, BeginMoveStep

\* A new subscription moves the clients who wait.
LEMMA ActivateMoves ==
    ASSUME IInv, NEW c \in Cashiers, NEW d \in 1 .. Unlimited, ActivateSubscription(c, d)
    PROVE  MoveStep
<1>1. /\ subscribed' = subscribed \cup {c}
      /\ periodLeft' = [periodLeft EXCEPT ![c] = d]
      /\ UNCHANGED <<userVars, lookup, blocks, reviews>>
      /\ RetryPending(Waiting, listed)
  BY DEF ActivateSubscription
<1>2. periodLeft' \in [Cashiers -> 0 .. Unlimited]
  BY <1>1, ConstantsAssumption DEF IInv, TypeOK, Unlimited
<1>3. Frame(Waiting) /\ \A k \in Clients : account'[k] = account[k]
  BY <1>1, <1>2, SameBlocks DEF Frame, IInv, TypeOK, NobodyLeftBehind, userVars
<1> QED
  BY <1>1, <1>3, WaitingMoves

\* The end of a subscription by an admin moves all the clients.
LEMMA DeactivateMoves ==
    ASSUME IInv, NEW c \in Cashiers, DeactivateSubscription(c)
    PROVE  MoveStep
<1>1. /\ subscribed' = subscribed \ {c}
      /\ periodLeft' = [periodLeft EXCEPT ![c] = 0]
      /\ UNCHANGED <<userVars, lookup, blocks, reviews>>
      /\ BeginReassignment(ServedBy(c), c)
  BY DEF DeactivateSubscription, MoveClients, Unsubscribe
<1>2. periodLeft' \in [Cashiers -> 0 .. Unlimited]
  BY <1>1, ConstantsAssumption DEF IInv, TypeOK, Unlimited
<1>3. \A k \in Clients \ ServedBy(c), d \in Cashiers : <<k, d>> \in active => d # c
  BY DEF ServedBy
<1>4. Frame(ServedBy(c)) /\ \A k \in Clients : account'[k] = account[k]
  BY <1>1, <1>2, <1>3, SameBlocks DEF Frame, IInv, TypeOK, NobodyLeftBehind, userVars
<1> QED
  BY <1>1, <1>4, BeginMoveStep

\* The actions above.
Moving ==
    \/ \E k \in Clients : ReassignAdministrative(k) \/ ReactivateClient(k)
    \/ \E k \in Clients, c \in Cashiers :
         \/ ReportCashier(k, c)
         \/ /\ BlockClient(k, c)
            /\ ~(Cardinality(CashierBlocks(k) \cup {c}) >= CASHIER_BLOCK_REVIEW_THRESHOLD)
    \/ \E c \in Cashiers :
         \/ ApproveCashier(c) \/ SuspendCashier(c) \/ ReactivateCashier(c)
         \/ DeleteCashier(c) \/ DeactivateSubscription(c)
         \/ \E d \in 1 .. Unlimited : ActivateSubscription(c, d)
    \/ WorkerNext

\* Each of them is a move.
LEMMA MovingMoves ==
    ASSUME IInv, Moving
    PROVE  MoveStep
BY ReassignMoves, ReactivateClientMoves, ReportMoves, BlockMoves, ApproveMoves,
   SuspendCashierMoves, ReactivateCashierMoves, DeleteCashierMoves, DeactivateMoves,
   ActivateMoves, ReconcileMoves, RetryWorkerMoves DEF Moving, WorkerNext

-----------------------------------------------------------------------------
(* The other actions.                                                      *)

\* The rest of Next.
Staying ==
    \/ \E k \in Clients : RegisterClient(k) \/ SuspendClient(k) \/ DeleteClient(k)
    \/ \E k \in Clients, c \in Cashiers :
         \/ LookUpInvitation(k, c)
         \/ /\ BlockClient(k, c)
            /\ Cardinality(CashierBlocks(k) \cup {c}) >= CASHIER_BLOCK_REVIEW_THRESHOLD
    \/ \E c \in Cashiers : RegisterCashier(c) \/ Rotate(c) \/ ResetPassword(c)
                           \/ CompleteAdminReset(c)
    \/ Tick

\* Next is a move or one of them.
LEMMA MovingOrStaying ==
    ASSUME Next
    PROVE  Moving \/ Staying
<1>1. CASE ClientNext
  <2>1. PICK k \in Clients :
          \/ ReassignAdministrative(k) \/ RegisterClient(k)
          \/ SuspendClient(k) \/ ReactivateClient(k) \/ DeleteClient(k)
          \/ \E c \in Cashiers :
               LookUpInvitation(k, c) \/ BlockClient(k, c) \/ ReportCashier(k, c)
    BY <1>1 DEF ClientNext
  <2> QED
    BY <2>1 DEF Moving, Staying
<1>2. CASE CashierNext
  BY <1>2 DEF CashierNext, Moving, Staying
<1> QED
  BY <1>1, <1>2 DEF Next, Moving, Staying

\* An action that touches neither the relationships nor what they depend on.
LEMMA StayPreserves ==
    ASSUME IInv, TypeOK', UNCHANGED <<active, pending, blocks, reviews>>,
           \A k \in Clients : account'[k] = account[k] /\ (lookup'[k] # None => account[k] = "NONE"),
           \A k \in Clients, c \in Cashiers : <<k, c>> \in active =>
             /\ account'[c] = account[c] /\ c \in approved' /\ c \in subscribed',
           listed' \subseteq active,
           \A k \in Clients, c \in Cashiers :
             <<k, c>> \in active /\ c \notin resetRequired' /\ account[k] = "ACTIVE" =>
               <<k, c>> \in listed'
    PROVE  IInv'
<1>1. \A k \in Clients : /\ Served(k)' <=> Served(k)
                        /\ CashierBlocks(k)' = CashierBlocks(k)
                        /\ \A c \in Cashiers : Blocked(k, c)' <=> Blocked(k, c)
  BY DEF Served, CashierBlocks, Blocked
<1>2. ClientInv'
  BY <1>1 DEF IInv, ClientInv
<1>3. OneRelationship'
  BY DEF IInv, OneRelationship
<1>4. NobodyLeftBehind'
  BY DEF IInv, NobodyLeftBehind
<1>5. ListedWhenUsable'
  BY DEF IInv, ListedWhenUsable
<1> QED
  BY <1>2, <1>3, <1>4, <1>5 DEF IInv

\* None of them assigns a client but registerClient, which starts with one.
LEMMA StayingIsFresh ==
    ASSUME IInv, Staying, NEW k \in Clients, NEW c \in Cashiers,
           <<k, c>> \in active' \ active
    PROVE  /\ Available(c)' /\ ~Blocked(k, c)'
           /\ \A d \in Cashiers : <<k, d>> \in active \cup pending => d # c
<1>1. PICK j \in Clients : RegisterClient(j)
  BY DEF Staying, SuspendClient, DeleteClient, LookUpInvitation, BlockClient, ReviewClient,
         RegisterCashier, Rotate, ResetPassword, CompleteAdminReset, Tick, placeVars
<1>2. /\ lookup[j] # None /\ j = k /\ lookup[k] = c /\ OriginValid(c)
      /\ account' = [account EXCEPT ![j] = "ACTIVE"]
      /\ UNCHANGED <<approved, resetRequired, periodVars, requestVars, blocks, reviews>>
  BY <1>1 DEF RegisterClient
<1>3. account[k] = "NONE"
  BY <1>2 DEF IInv, ClientInv
<1>4. ~Served(k) /\ ~Blocked(k, c)
  BY <1>3 DEF IInv, ClientInv
<1>5. account'[c] = account[c]
  BY <1>2, ConstantsAssumption DEF IInv, TypeOK
<1>6. Available(c)'
  BY <1>2, <1>5 DEF OriginValid, Available, Current, periodVars
<1>7. ~Blocked(k, c)'
  BY <1>2, <1>4 DEF Blocked
<1> QED
  BY <1>4, <1>6, <1>7 DEF Served

\* They preserve the invariant.
LEMMA StayingPreserves ==
    ASSUME IInv, Staying
    PROVE  IInv'
<1> USE DEF userVars, periodVars, requestVars, placeVars
<1>0. TypeOK /\ \A k \in Clients : k \notin Cashiers
  BY ConstantsAssumption DEF IInv
<1>1. ASSUME NEW k \in Clients, RegisterClient(k) PROVE IInv'
  <2> DEFINE c == lookup[k]
  <2>1. c \in Cashiers /\ account[k] = "NONE" /\ ~Served(k) /\ k \notin reviews
    BY <1>1, <1>0 DEF RegisterClient, TypeOK, IInv, ClientInv
  <2>2. lookup' = [lookup EXCEPT ![k] = None]
    BY <1>1 DEF RegisterClient
  <2>3. CASE ~OriginValid(c)
    <3>1. UNCHANGED <<account, active, listed, approved, resetRequired, periodVars,
                      requestVars, blocks, reviews>>
      BY <1>1, <2>3 DEF RegisterClient
    <3>2. TypeOK'
      BY <1>0, <2>2, <3>1 DEF TypeOK
    <3>3. \A j \in Clients : lookup'[j] # None => account[j] = "NONE"
      BY <1>0, <2>2 DEF TypeOK, IInv, ClientInv
    <3> QED
      BY <1>0, <3>1, <3>2, <3>3, StayPreserves DEF IInv, NobodyLeftBehind, ListedWhenUsable
  <2>4. CASE OriginValid(c)
    <3>1. /\ account' = [account EXCEPT ![k] = "ACTIVE"]
          /\ active' = active \cup {<<k, c>>}
          /\ listed' = listed \cup {<<k, c>>}
          /\ UNCHANGED <<approved, resetRequired, periodVars, requestVars, blocks, reviews>>
      BY <1>1, <2>4 DEF RegisterClient
    <3>2. /\ account'[k] = "ACTIVE"
          /\ \A u \in Clients \cup Cashiers : u # k => account'[u] = account[u]
          /\ account' \in [Clients \cup Cashiers -> Status]
      BY <1>0, <3>1 DEF TypeOK, Status
    <3>3. TypeOK'
      BY <1>0, <2>1, <2>2, <3>1, <3>2 DEF TypeOK, Pairs
    <3>4. OneRelationship'
      BY <2>1, <3>1 DEF IInv, OneRelationship, Served
    <3>5. NobodyLeftBehind'
      <4>1. account[c] = "ACTIVE" /\ c \in approved /\ c \in subscribed
        BY <2>4 DEF OriginValid, Available, Current
      <4> QED
        BY <1>0, <2>1, <3>1, <3>2, <4>1 DEF IInv, NobodyLeftBehind
    <3>6. ListedWhenUsable'
      <4>1. \A j \in Clients, d \in Cashiers : j # k =>
              (<<j, d>> \in active' <=> <<j, d>> \in active)
        BY <3>1
      <4>2. \A d \in Cashiers : <<k, d>> \in active' => d = c
        BY <2>1, <3>1 DEF Served
      <4> QED
        BY <1>0, <2>1, <3>1, <3>2, <4>1, <4>2 DEF IInv, ListedWhenUsable
    <3>7. ClientInv'
      <4>1. ASSUME NEW j \in Clients
            PROVE /\ Served(j)' <=> (j = k \/ Served(j))
                  /\ CashierBlocks(j)' = CashierBlocks(j)
                  /\ \A d \in Cashiers : Blocked(j, d)' <=> Blocked(j, d)
                  /\ lookup'[j] = IF j = k THEN None ELSE lookup[j]
        <5>1. Served(j)' <=> (j = k \/ Served(j))
          BY <2>1, <3>1 DEF Served
        <5> QED
          BY <1>0, <2>2, <3>1, <5>1 DEF CashierBlocks, Blocked, TypeOK
      <4> QED
        BY <2>1, <3>1, <3>2, <4>1 DEF IInv, ClientInv
    <3> QED
      BY <3>3, <3>4, <3>5, <3>6, <3>7 DEF IInv
  <2> QED
    BY <2>3, <2>4
<1>2. ASSUME NEW k \in Clients, SuspendClient(k) PROVE IInv'
  <2>1. /\ account[k] = "ACTIVE" /\ account' = [account EXCEPT ![k] = "SUSPENDED"]
        /\ listed' = listed \ RelationshipsOf(k)
        /\ UNCHANGED <<approved, resetRequired, periodVars, lookup, active, requestVars,
                       blocks, reviews>>
    BY <1>2 DEF SuspendClient
  <2>2. /\ account'[k] = "SUSPENDED"
        /\ \A u \in Clients \cup Cashiers : u # k => account'[u] = account[u]
        /\ account' \in [Clients \cup Cashiers -> Status]
    BY <1>0, <2>1 DEF TypeOK, Status
  <2>3. \A j \in Clients, c \in Cashiers : j # k =>
          (<<j, c>> \in listed' <=> <<j, c>> \in listed)
    BY <1>0, <2>1 DEF RelationshipsOf
  <2>4. TypeOK'
    BY <1>0, <2>1, <2>2 DEF TypeOK
  <2>5. OneRelationship' /\ NobodyLeftBehind'
    BY <1>0, <2>1, <2>2 DEF IInv, OneRelationship, NobodyLeftBehind
  <2>6. ListedWhenUsable'
    BY <1>0, <2>1, <2>2, <2>3 DEF IInv, ListedWhenUsable
  <2>7. ClientInv'
    <3>1. \A j \in Clients : /\ Served(j)' <=> Served(j)
                            /\ CashierBlocks(j)' = CashierBlocks(j)
                            /\ \A c \in Cashiers : Blocked(j, c)' <=> Blocked(j, c)
      BY <2>1 DEF Served, CashierBlocks, Blocked
    <3> QED
      BY <2>1, <2>2, <3>1 DEF IInv, ClientInv
  <2> QED
    BY <2>4, <2>5, <2>6, <2>7 DEF IInv
<1>3. ASSUME NEW k \in Clients, DeleteClient(k) PROVE IInv'
  <2>1. /\ account[k] \in {"ACTIVE", "SUSPENDED"}
        /\ account' = [account EXCEPT ![k] = "DELETED"]
        /\ active' = active \ RelationshipsOf(k)
        /\ pending' = pending \ RequestsOf({k})
        /\ attemptCount' = [attemptCount EXCEPT ![k] = 0]
        /\ retryIn' = [retryIn EXCEPT ![k] = 0]
        /\ listed' = listed \ RelationshipsOf(k)
        /\ UNCHANGED <<approved, resetRequired, periodVars, lookup, blocks, reviews>>
    BY <1>3 DEF DeleteClient
  <2>2. /\ account'[k] = "DELETED"
        /\ \A u \in Clients \cup Cashiers : u # k => account'[u] = account[u]
        /\ account' \in [Clients \cup Cashiers -> Status]
    BY <1>0, <2>1 DEF TypeOK, Status
  <2>3. \A j \in Clients, c \in Cashiers :
          /\ <<j, c>> \in active' <=> j # k /\ <<j, c>> \in active
          /\ <<j, c>> \in pending' <=> j # k /\ <<j, c>> \in pending
          /\ <<j, c>> \in listed' <=> <<j, c>> \in listed \ RelationshipsOf(k)
          /\ j # k => <<j, c>> \notin RelationshipsOf(k)
    BY <1>0, <2>1 DEF RelationshipsOf, RequestsOf
  <2>4. TypeOK'
    BY <1>0, <2>1, <2>2, ConstantsAssumption DEF TypeOK
  <2>5. OneRelationship' /\ NobodyLeftBehind'
    BY <1>0, <2>1, <2>2, <2>3 DEF IInv, OneRelationship, NobodyLeftBehind
  <2>6. ListedWhenUsable'
    <3>1. listed' \subseteq active'
      BY <2>1 DEF IInv, ListedWhenUsable
    <3> QED
      BY <1>0, <2>1, <2>2, <2>3, <3>1 DEF IInv, ListedWhenUsable
  <2>7. ClientInv'
    <3>1. \A j \in Clients : /\ Served(j)' <=> j # k /\ Served(j)
                            /\ CashierBlocks(j)' = CashierBlocks(j)
                            /\ \A c \in Cashiers : Blocked(j, c)' <=> Blocked(j, c)
      BY <2>1, <2>3 DEF Served, CashierBlocks, Blocked
    <3> QED
      BY <2>1, <2>2, <3>1 DEF IInv, ClientInv
  <2> QED
    BY <2>4, <2>5, <2>6, <2>7 DEF IInv
<1>4. ASSUME NEW k \in Clients, NEW c \in Cashiers, LookUpInvitation(k, c) PROVE IInv'
  <2>1. /\ account[k] = "NONE" /\ lookup' = [lookup EXCEPT ![k] = c]
        /\ UNCHANGED <<userVars, periodVars, placeVars, blocks, reviews>>
    BY <1>4 DEF LookUpInvitation
  <2>2. TypeOK'
    BY <1>0, <2>1 DEF TypeOK
  <2>3. \A j \in Clients : lookup'[j] # None => account[j] = "NONE"
    BY <1>0, <2>1 DEF TypeOK, IInv, ClientInv
  <2> QED
    BY <1>0, <2>1, <2>2, <2>3, StayPreserves DEF IInv, NobodyLeftBehind, ListedWhenUsable
<1>5. ASSUME NEW k \in Clients, NEW c \in Cashiers, BlockClient(k, c),
             Cardinality(CashierBlocks(k) \cup {c}) >= CASHIER_BLOCK_REVIEW_THRESHOLD
      PROVE  IInv'
  <2>1. /\ <<k, c>> \in active /\ account[k] = "ACTIVE"
        /\ blocks' = blocks \cup {<<k, c, "CASHIER">>}
        /\ account' = [account EXCEPT ![k] = "SUSPENDED"]
        /\ reviews' = reviews \cup {k}
        /\ active' = active \ {<<k, c>>} /\ listed' = listed \ {<<k, c>>}
        /\ UNCHANGED <<approved, resetRequired, periodVars, lookup, requestVars>>
    BY <1>5 DEF BlockClient, ReviewClient
  <2>2. /\ account'[k] = "SUSPENDED"
        /\ \A u \in Clients \cup Cashiers : u # k => account'[u] = account[u]
        /\ account' \in [Clients \cup Cashiers -> Status]
    BY <1>0, <2>1 DEF TypeOK, Status
  <2>3. /\ \A d \in Cashiers : <<k, d>> \notin active' \cup pending'
        /\ \A j \in Clients, d \in Cashiers : j # k =>
             /\ <<j, d>> \in active' <=> <<j, d>> \in active
             /\ <<j, d>> \in listed' <=> <<j, d>> \in listed
    BY <2>1 DEF IInv, OneRelationship
  <2>4. TypeOK'
    BY <1>0, <2>1, <2>2 DEF TypeOK
  <2>5. OneRelationship' /\ NobodyLeftBehind'
    BY <1>0, <2>1, <2>2, <2>3 DEF IInv, OneRelationship, NobodyLeftBehind
  <2>6. ListedWhenUsable'
    <3>1. listed' \subseteq active'
      BY <2>1 DEF IInv, ListedWhenUsable
    <3> QED
      BY <1>0, <2>1, <2>2, <2>3, <3>1 DEF IInv, ListedWhenUsable
  <2>7. ClientInv'
    <3>1. \A j \in Clients : j # k =>
            /\ Served(j)' <=> Served(j)
            /\ CashierBlocks(j)' = CashierBlocks(j)
            /\ \A d \in Cashiers : Blocked(j, d)' <=> Blocked(j, d)
      BY <2>1, <2>3 DEF Served, CashierBlocks, Blocked
    <3>2. ~Served(k)' /\ lookup[k] = None
      BY <2>1, <2>3 DEF Served, IInv, ClientInv
    <3> QED
      BY <2>1, <2>2, <3>1, <3>2 DEF IInv, ClientInv
  <2> QED
    BY <2>4, <2>5, <2>6, <2>7 DEF IInv
<1>6. ASSUME NEW c \in Cashiers, RegisterCashier(c) PROVE IInv'
  <2>1. /\ account[c] = "NONE" /\ account' = [account EXCEPT ![c] = "PENDING"]
        /\ UNCHANGED <<approved, resetRequired, periodVars, lookup, placeVars, blocks, reviews>>
    BY <1>6 DEF RegisterCashier
  <2>2. /\ account' \in [Clients \cup Cashiers -> Status]
        /\ \A k \in Clients : account'[k] = account[k]
        /\ \A d \in Cashiers : d # c => account'[d] = account[d]
    BY <1>0, <2>1, OtherAccounts DEF Status
  <2>3. TypeOK'
    BY <1>0, <2>1, <2>2 DEF TypeOK
  <2>4. \A k \in Clients, d \in Cashiers : <<k, d>> \in active => d # c
    BY <2>1 DEF IInv, NobodyLeftBehind
  <2>5. \A k \in Clients : lookup'[k] # None => account[k] = "NONE"
    BY <2>1 DEF IInv, ClientInv
  <2> QED
    BY <2>1, <2>2, <2>3, <2>4, <2>5, StayPreserves DEF IInv, NobodyLeftBehind, ListedWhenUsable
<1>7. ASSUME NEW c \in Cashiers, Rotate(c) PROVE IInv'
  <2>1. lookup' = Revoke(c) /\ UNCHANGED <<userVars, periodVars, placeVars, blocks, reviews>>
    BY <1>7 DEF Rotate
  <2>2. TypeOK'
    BY <1>0, <2>1 DEF TypeOK, Revoke
  <2>3. \A j \in Clients : lookup'[j] # None => account[j] = "NONE"
    BY <1>0, <2>1 DEF Revoke, IInv, ClientInv
  <2> QED
    BY <2>1, <2>2, <2>3, StayPreserves DEF IInv, NobodyLeftBehind, ListedWhenUsable
<1>8. ASSUME NEW c \in Cashiers, ResetPassword(c) \/ CompleteAdminReset(c) PROVE IInv'
  <2>1. /\ \/ resetRequired' = resetRequired \cup {c} /\ listed' = listed \ RelationshipsOf(c)
           \/ resetRequired' = resetRequired \ {c} /\ listed' = listed \cup RelationshipsOf(c)
        /\ UNCHANGED <<account, approved, periodVars, lookup, active, requestVars, blocks, reviews>>
    BY <1>8 DEF ResetPassword, CompleteAdminReset, Changed
  <2>2. \A k \in Clients, d \in Cashiers :
          <<k, d>> \in RelationshipsOf(c) <=> <<k, d>> \in active /\ d = c
    BY <1>0 DEF RelationshipsOf
  <2>3. RelationshipsOf(c) \subseteq active
    BY DEF RelationshipsOf
  <2>4. TypeOK' /\ listed' \subseteq active
    BY <1>0, <2>1, <2>3 DEF TypeOK, IInv, ListedWhenUsable
  <2>5. \A k \in Clients, d \in Cashiers :
          <<k, d>> \in active /\ d \notin resetRequired' /\ account[k] = "ACTIVE" =>
            <<k, d>> \in listed'
    BY <2>1, <2>2 DEF IInv, NobodyLeftBehind, ListedWhenUsable
  <2>6. \A k \in Clients : lookup'[k] # None => account[k] = "NONE"
    BY <2>1 DEF IInv, ClientInv
  <2> QED
    BY <2>1, <2>4, <2>5, <2>6, StayPreserves DEF IInv, NobodyLeftBehind
<1>9. CASE Tick
  <2>1. UNCHANGED <<account, approved, resetRequired, subscribed, lookup, active, pending,
                    attemptCount, listed, blocks, reviews>>
    BY <1>9 DEF Tick
  <2>2. periodLeft' \in [Cashiers -> 0 .. Unlimited]
    BY <1>0, <1>9, ConstantsAssumption DEF Tick, TypeOK, Less, Unlimited
  <2>3. retryIn' \in [Clients -> 0 .. BACKOFF_MAX]
    BY <1>0, <1>9, ConstantsAssumption DEF Tick, TypeOK, Less
  <2>4. TypeOK'
    BY <1>0, <2>1, <2>2, <2>3 DEF TypeOK
  <2>5. \A k \in Clients : lookup'[k] # None => account[k] = "NONE"
    BY <2>1 DEF IInv, ClientInv
  <2> QED
    BY <2>1, <2>4, <2>5, StayPreserves DEF IInv, NobodyLeftBehind, ListedWhenUsable
<1> QED
  BY <1>1, <1>2, <1>3, <1>4, <1>5, <1>6, <1>7, <1>8, <1>9 DEF Staying

-----------------------------------------------------------------------------
(* The theorems.                                                           *)

\* The invariant holds in every reachable state.
THEOREM Invariance == Spec => []IInv
<1>1. Init => IInv
  <2> SUFFICES ASSUME Init PROVE IInv
    OBVIOUS
  <2>1. TypeOK
    BY ConstantsAssumption DEF Init, TypeOK, Status, Unlimited
  <2>2. \A k \in Clients : CashierBlocks(k) = {} /\ ~Served(k)
    BY DEF Init, CashierBlocks, Served
  <2>3. \A k \in Clients : ~(Cardinality(CashierBlocks(k)) >= CASHIER_BLOCK_REVIEW_THRESHOLD)
    BY <2>2, FS_EmptySet, ConstantsAssumption
  <2>4. ClientInv
    BY <2>2, <2>3 DEF Init, ClientInv, Blocked
  <2>5. OneRelationship /\ NobodyLeftBehind /\ ListedWhenUsable
    BY DEF Init, OneRelationship, NobodyLeftBehind, ListedWhenUsable
  <2> QED
    BY <2>1, <2>4, <2>5 DEF IInv
<1>2. IInv /\ [Next]_vars => IInv'
  <2> SUFFICES ASSUME IInv, [Next]_vars PROVE IInv'
    OBVIOUS
  <2>1. CASE Next
    BY <2>1, MovingOrStaying, MovingMoves, MovePreserves, StayingPreserves
  <2>2. CASE UNCHANGED vars
    <3>1. TypeOK'
      BY <2>2 DEF IInv, TypeOK, vars, userVars, periodVars, placeVars, requestVars
    <3>2. \A k \in Clients : lookup'[k] # None => account[k] = "NONE"
      BY <2>2 DEF IInv, ClientInv, vars
    <3> QED
      BY <2>2, <3>1, <3>2, StayPreserves
         DEF IInv, NobodyLeftBehind, ListedWhenUsable, vars, userVars, periodVars, placeVars,
             requestVars
  <2> QED
    BY <2>1, <2>2
<1> QED
  BY <1>1, <1>2, PTL DEF Spec

\* Every variable keeps its type, in particular the back-off of a request stays
\* within its limit (assignments.service.ts, reconcilePendingReassignments).
THEOREM TypeCorrect == Spec => []TypeOK
<1>1. IInv => TypeOK
  BY DEF IInv
<1> QED
  BY <1>1, Invariance, PTL

\* A client never has two relationships: neither two assignments, nor two
\* requests, nor one of each (beginReassignment, completePending).
THEOREM SingleRelationship == Spec => []OneRelationship
<1>1. IInv => OneRelationship
  BY DEF IInv
<1> QED
  BY <1>1, Invariance, PTL

\* No client stays assigned to a cashier who was suspended, deleted, or lost the
\* subscription (suspend, deleteUser, deactivateSubscription, the expiry worker).
THEOREM NoClientLeftBehind == Spec => []NobodyLeftBehind
<1>1. IInv => NobodyLeftBehind
  BY DEF IInv
<1> QED
  BY <1>1, Invariance, PTL

\* An active client has a cashier or a pending request, unless it was suspended
\* for review (beginReassignment, blockClient, reactivate).
THEOREM NoClientLost == Spec => []ClientNotLost
<1>1. IInv => ClientNotLost
  BY DEF IInv, ClientInv, ClientNotLost
<1> QED
  BY <1>1, Invariance, PTL

\* A client blocked by as many distinct cashiers as the threshold is under
\* review and has neither a cashier nor a request, whatever happens later
\* (moderation.service.ts, blockClient).
THEOREM ReviewIsFinal == Spec => []ReviewEndsService
<1>1. IInv => ReviewEndsService
  BY DEF IInv, ClientInv, ReviewEndsService
<1> QED
  BY <1>1, Invariance, PTL

\* Only current relationships are announced to the devices of the other party,
\* and every usable one is (matrix-device-list.publisher.ts).
THEOREM DeviceListsFollow == Spec => []ListedWhenUsable
<1>1. IInv => ListedWhenUsable
  BY DEF IInv
<1> QED
  BY <1>1, Invariance, PTL

\* Every new assignment is with an available cashier who has no block with the
\* client and is not the one the client comes from (findEligibleCandidates, the
\* deferred trigger on assignments).
THEOREM NewCashierIsFresh == Spec => FreshCashier
<1> DEFINE Fresh ==
      \A k \in Clients, c \in Cashiers : <<k, c>> \in active' \ active =>
          /\ Available(c)' /\ ~Blocked(k, c)'
          /\ \A d \in Cashiers : <<k, d>> \in active \cup pending => d # c
<1>1. IInv /\ [Next]_vars => [Fresh]_vars
  <2> SUFFICES ASSUME IInv, Next PROVE Fresh
    OBVIOUS
  <2> QED
    BY MovingOrStaying, MovingMoves, MoveIsFresh, StayingIsFresh
<1> QED
  BY <1>1, Invariance, PTL DEF Spec, FreshCashier

\* What the transactions keep of every relationship, for any number of clients and
\* cashiers and every threshold and batch.
THEOREM RelationshipsAreSafe == Spec => []RelationshipsSafe
<1>1. OneRelationship /\ NobodyLeftBehind /\ ReviewEndsService => RelationshipsSafe
  BY DEF RelationshipsSafe
<1> QED
  BY <1>1, SingleRelationship, NoClientLeftBehind, ReviewIsFinal, PTL
=============================================================================
