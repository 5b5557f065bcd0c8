--------------------------- MODULE MessagesProofs ---------------------------
(***************************************************************************)
(* Theorems about Messages, for every set of keys, uploads, devices, calls *)
(* and purges, and every lifetime.                                         *)
(***************************************************************************)
EXTENDS Messages, TLAPS

-----------------------------------------------------------------------------
(* The inductive invariant.                                                *)

\* A photo of a message was issued, is no reservation any more, and its message
\* outlives the grant: no PUT can come after the message has expired.
RowsInv ==
    \A r \in messages :
        /\ 1 <= r.sequence /\ r.sequence < nextSequence
        /\ r.photo # None =>
              /\ r.photo \in issued /\ r.photo \notin reservations
              /\ grantExpiresAt[r.photo] <= r.expiresAt

\* An upload that may still be PUT has a row.
GrantInv ==
    \A u \in issued :
        /\ grantExpiresAt[u] <= now + GrantTTL
        /\ now < grantExpiresAt[u] => u \in reservations \/ Attached(u)

\* One transaction of send holds the locks.
OneHolder ==
    \A b, c \in Calls :
        /\ call[b].step \in {"locked", "inserted"}
        /\ call[c].step \in {"locked", "inserted"}
        => b = c

\* What a call of send has established. A reservation that no purge has claimed
\* keeps the object that was found.
CallOK(c) ==
    /\ call[c].photo # None => call[c].photo \in issued
    /\ call[c].step # "idle" => call[c].id \in Ids
    /\ call[c].step \in {"prepare", "head"} => call[c].photo # None
    /\ /\ call[c].step \in {"lock", "wait", "locked", "inserted"}
       /\ call[c].photo # None /\ call[c].photo \in reservations
       /\ lastPurgeAttemptAt[call[c].photo] = Null
       => call[c].photo \in objects
    /\ call[c].step \in {"locked", "inserted"} => call[c].envelopes = activeDevices

CallInv == \A c \in Calls : CallOK(c)

\* The row inserted is new, its number is past all that is visible, and no purge
\* can take its photo.
NewRow(c) ==
    /\ ~Exists(call[c].id)
    /\ 1 <= call[c].sequence /\ call[c].sequence < nextSequence
    /\ \A r \in messages : r.sequence < call[c].sequence
    /\ \A d \in Readers : cursor[d] < call[c].sequence
    /\ call[c].photo # None =>
          /\ call[c].photo \in reservations
          /\ lastPurgeAttemptAt[call[c].photo] = Null
          /\ grantExpiresAt[call[c].photo] <= call[c].expiresAt

InsertedInv == \A c \in Calls : call[c].step = "inserted" => NewRow(c)

\* What a purge knows of its row. Once it has claimed it, nobody can PUT the
\* object again or make it the photo of a live message.
PurgeOK(p) ==
    /\ purger[p].step # "idle" =>
          /\ purger[p].upload \in issued
          /\ 1 <= purger[p].batchNow /\ purger[p].batchNow <= now
    /\ purger[p].step \in {"delete", "rows", "error"} =>
          /\ grantExpiresAt[purger[p].upload] <= now
          /\ purger[p].upload \in reservations =>
                /\ purger[p].table = "uploads"
                /\ lastPurgeAttemptAt[purger[p].upload] # Null
          /\ \A r \in messages : r.photo = purger[p].upload =>
                purger[p].table = "attachments" /\ r.expiresAt <= now
    /\ purger[p].step = "rows" => purger[p].upload \notin objects

PurgerInv == \A p \in Purgers : PurgeOK(p)

\* No cursor has passed the sequence.
ReaderInv ==
    \A d \in Readers :
        /\ cursor[d] < nextSequence
        /\ d \notin opened => cursor[d] = 0

\* A signed download ends no later than its message.
SignedInv ==
    \A u \in Uploads :
        \/ signedUntil[u] <= now
        \/ \E r \in messages : r.photo = u /\ signedUntil[u] <= r.expiresAt

IInv ==
    /\ TypeOK /\ RowsInv /\ GrantInv /\ OneHolder /\ CallInv /\ InsertedInv
    /\ PurgerInv /\ ReaderInv /\ SignedInv
    /\ PhotoAvailable /\ NoOrphanPhoto /\ StoredOnce /\ NoMessageSkipped

-----------------------------------------------------------------------------
(* Steps preserve it.                                                      *)

\* A call that proceeds changes its step alone; one that is refused is over.
LEMMA ProceedEffect ==
    ASSUME TypeOK, NEW c \in Calls, NEW allowed \in BOOLEAN, NEW s \in CallStep,
           Proceed(c, allowed, s)
    PROVE  /\ \A b \in Calls : b # c => call'[b] = call[b]
           /\ \/ call'[c] = IdleCall
              \/ /\ allowed /\ call'[c].step = s
                 /\ call'[c].id = call[c].id /\ call'[c].photo = call[c].photo
                 /\ call'[c].envelopes = call[c].envelopes
<1>1. CASE allowed
  BY <1>1 DEF TypeOK, Proceed, Goto, Call
<1>2. CASE ~allowed
  BY <1>2 DEF TypeOK, Proceed, Return
<1> QED
  BY <1>1, <1>2

\* requestUpload preserves the invariant: the upload is new to everyone.
LEMMA RequestUploadStep ==
    ASSUME IInv, NEW user \in Users, NEW u \in Uploads, RequestUpload(user, u)
    PROVE  IInv'
<1>1. TypeOK'
  BY ConstantsAssumption DEF IInv, TypeOK, RequestUpload, deviceVars, readerVars
<1>2. RowsInv'
  BY DEF IInv, RowsInv, RequestUpload
<1>3. GrantInv'
  BY ConstantsAssumption DEF IInv, TypeOK, GrantInv, Attached, RequestUpload
<1>4. CallInv'
  BY DEF IInv, CallInv, CallOK, RequestUpload, deviceVars
<1>5. InsertedInv'
  BY DEF IInv, TypeOK, InsertedInv, NewRow, Exists, RequestUpload, readerVars
<1>6. PurgerInv'
  BY DEF IInv, PurgerInv, PurgeOK, RequestUpload
<1>7. NoOrphanPhoto'
  BY DEF IInv, NoOrphanPhoto, Attached, RequestUpload
<1>8. /\ OneHolder' /\ ReaderInv' /\ SignedInv' /\ PhotoAvailable'
      /\ StoredOnce' /\ NoMessageSkipped'
  BY DEF IInv, OneHolder, ReaderInv, SignedInv, PhotoAvailable, StoredOnce,
      NoMessageSkipped, RequestUpload, readerVars
<1> QED
  BY <1>1, <1>2, <1>3, <1>4, <1>5, <1>6, <1>7, <1>8 DEF IInv

\* A PUT preserves it: it comes before the grant expires, when there is a row.
LEMMA PutPhotoStep ==
    ASSUME IInv, NEW u \in Uploads, PutPhoto(u)
    PROVE  IInv'
<1>1. TypeOK'
  BY ConstantsAssumption DEF IInv, TypeOK, PutPhoto, deviceVars, grantVars,
      ledgerVars, readerVars
<1>2. CallInv'
  BY DEF IInv, CallInv, CallOK, PutPhoto, deviceVars, grantVars, ledgerVars
<1>3. PurgerInv'
  BY DEF IInv, TypeOK, PurgerInv, PurgeOK, PutPhoto, grantVars, ledgerVars
<1>4. PhotoAvailable'
  BY DEF IInv, PhotoAvailable, PutPhoto
<1>5. NoOrphanPhoto'
  BY DEF IInv, NoOrphanPhoto, GrantInv, Attached, PutPhoto, ledgerVars
<1>6. /\ RowsInv' /\ GrantInv' /\ OneHolder' /\ InsertedInv' /\ ReaderInv'
      /\ SignedInv' /\ StoredOnce' /\ NoMessageSkipped'
  BY DEF IInv, RowsInv, GrantInv, OneHolder, InsertedInv, ReaderInv, SignedInv,
      StoredOnce, NoMessageSkipped, Attached, NewRow, Exists, PutPhoto, grantVars,
      ledgerVars, readerVars
<1> QED
  BY <1>1, <1>2, <1>3, <1>4, <1>5, <1>6 DEF IInv

\* The first step of send preserves it.
LEMMA SendStep ==
    ASSUME IInv, NEW c \in Calls, NEW m \in Ids, NEW u \in issued \cup {None},
           Send(c, m, u)
    PROVE  IInv'
<1>1. TypeOK'
  <2>1. m \in Ids /\ u \in Uploads \cup {None}
    BY DEF IInv, TypeOK
  <2>2. ASSUME NEW s \in CallStep,
               call' = [call EXCEPT ![c].step = s, ![c].id = m, ![c].photo = u]
        PROVE  call' \in [Calls -> Call]
    <3>1. call[c] \in Call
      BY DEF IInv, TypeOK
    <3>2. [call[c] EXCEPT !.step = s, !.id = m, !.photo = u] \in Call
      BY <2>1, <3>1 DEF Call
    <3>3. call'[c] = [call[c] EXCEPT !.step = s, !.id = m, !.photo = u]
      BY <2>2 DEF IInv, TypeOK
    <3>4. \A b \in Calls : b # c => call'[b] = call[b]
      BY <2>2 DEF IInv, TypeOK
    <3>5. call' = [b \in Calls |-> call'[b]]
      BY <2>2 DEF IInv, TypeOK
    <3>6. \A b \in Calls : call'[b] \in Call
      BY <3>2, <3>3, <3>4 DEF IInv, TypeOK
    <3> QED
      BY <3>5, <3>6
  <2>3. call' \in [Calls -> Call]
    <3>1. CASE u = None
      BY <2>2, <3>1 DEF Send, CallStep
    <3>2. CASE u # None
      BY <2>2, <3>2 DEF Send, CallStep
    <3> QED
      BY <3>1, <3>2
  <2> QED
    BY <2>3 DEF IInv, TypeOK, Send, deviceVars, grantVars, ledgerVars, readerVars,
        OnlyCalls
<1>2. OneHolder'
  BY DEF IInv, TypeOK, OneHolder, Send, OnlyCalls, Call, CallStep
<1>3. CallInv'
  BY DEF IInv, TypeOK, CallInv, CallOK, Send, deviceVars, grantVars, ledgerVars,
      OnlyCalls, Call, CallStep
<1>4. InsertedInv'
  BY DEF IInv, TypeOK, InsertedInv, NewRow, Exists, Send, grantVars, ledgerVars,
      readerVars, OnlyCalls, Call, CallStep
<1>5. /\ RowsInv' /\ GrantInv' /\ PurgerInv' /\ ReaderInv' /\ SignedInv'
      /\ PhotoAvailable' /\ NoOrphanPhoto' /\ StoredOnce' /\ NoMessageSkipped'
  BY DEF IInv, RowsInv, GrantInv, PurgerInv, ReaderInv, SignedInv, PhotoAvailable,
      NoOrphanPhoto, StoredOnce, NoMessageSkipped, Attached, PurgeOK, Send, grantVars,
      ledgerVars, readerVars, OnlyCalls
<1> QED
  BY <1>1, <1>2, <1>3, <1>4, <1>5 DEF IInv

\* A call that goes on or is refused keeps its type.
LEMMA ProceedType ==
    ASSUME call \in [Calls -> Call], NEW c \in Calls, NEW allowed, NEW s \in CallStep, Proceed(c, allowed, s)
    PROVE  call' \in [Calls -> Call]
<1>1. IdleCall \in Call
  BY ConstantsAssumption DEF IdleCall, Call, CallStep
<1>2. CASE allowed
  BY <1>2 DEF Proceed, Goto, Call
<1>3. CASE ~allowed
  BY <1>1, <1>3 DEF Proceed, Return
<1> QED BY <1>2, <1>3

\* So does a purge that goes on, and the count of faults keeps its bound.
LEMMA PurgerGotoType ==
    ASSUME purger \in [Purgers -> Purger], NEW p \in Purgers, NEW s \in PurgerStep, PurgerGoto(p, s)
    PROVE  purger' \in [Purgers -> Purger]
BY DEF PurgerGoto, Purger

\* prepareAttachment preserves it.
LEMMA PrepareAttachmentStep ==
    ASSUME IInv, NEW c \in Calls, PrepareAttachment(c)
    PROVE  IInv'
<1>1. TypeOK'
  <2>1. call \in [Calls -> Call] /\ OnlyCalls
    BY DEF IInv, TypeOK, PrepareAttachment
  <2>2. call' \in [Calls -> Call]
    BY <2>1, ProceedType DEF PrepareAttachment, CallStep
  <2> QED
    BY <2>1, <2>2 DEF IInv, TypeOK, OnlyCalls, deviceVars, grantVars, ledgerVars, readerVars
<1>2. OneHolder'
  BY DEF IInv, TypeOK, OneHolder, PrepareAttachment, OnlyCalls, Proceed, Goto, Return,
      IdleCall, Call, CallStep
<1>3. CallInv'
  BY DEF IInv, TypeOK, CallInv, CallOK, PrepareAttachment, deviceVars, grantVars,
      ledgerVars, OnlyCalls, Proceed, Goto, Return, IdleCall, Call, CallStep
<1>4. InsertedInv'
  BY DEF IInv, TypeOK, InsertedInv, NewRow, Exists, PrepareAttachment, grantVars,
      ledgerVars, readerVars, OnlyCalls, Proceed, Goto, Return, IdleCall, Call,
      CallStep
<1>5. /\ RowsInv' /\ GrantInv' /\ PurgerInv' /\ ReaderInv' /\ SignedInv'
      /\ PhotoAvailable' /\ NoOrphanPhoto' /\ StoredOnce' /\ NoMessageSkipped'
  BY DEF IInv, RowsInv, GrantInv, PurgerInv, ReaderInv, SignedInv, PhotoAvailable,
      NoOrphanPhoto, StoredOnce, NoMessageSkipped, Attached, PurgeOK,
      PrepareAttachment, grantVars, ledgerVars, readerVars, OnlyCalls
<1> QED
  BY <1>1, <1>2, <1>3, <1>4, <1>5 DEF IInv

\* The HEAD request preserves it: the object is there when the call goes on.
LEMMA AssertUploadedStep ==
    ASSUME IInv, NEW c \in Calls, AssertUploaded(c)
    PROVE  IInv'
<1>1. TypeOK'
  <2>1. call \in [Calls -> Call] /\ OnlyCalls
    BY DEF IInv, TypeOK, AssertUploaded
  <2>2. call' \in [Calls -> Call]
    BY <2>1, ProceedType DEF AssertUploaded, CallStep
  <2> QED
    BY <2>1, <2>2 DEF IInv, TypeOK, OnlyCalls, deviceVars, grantVars, ledgerVars, readerVars
<1>2. OneHolder'
  BY DEF IInv, TypeOK, OneHolder, AssertUploaded, OnlyCalls, Proceed, Goto, Return,
      IdleCall, Uploaded, Call, CallStep
<1>3. CallInv'
  <2> DEFINE allowed == Uploaded(call[c].photo)
  <2>1. Proceed(c, allowed, "lock") /\ allowed \in BOOLEAN /\ "lock" \in CallStep /\ TypeOK
    BY DEF AssertUploaded, Uploaded, CallStep, IInv, TypeOK
  <2>2. UNCHANGED <<issued, reservations, lastPurgeAttemptAt, objects, activeDevices>>
    BY DEF AssertUploaded, OnlyCalls, grantVars, ledgerVars, deviceVars
  <2>3. CallInv /\ call[c].step = "head"
    BY DEF AssertUploaded, IInv
  <2> HIDE DEF allowed
  <2>4. /\ \A b \in Calls : b # c => call'[b] = call[b]
        /\ \/ call'[c] = IdleCall
           \/ /\ allowed /\ call'[c].step = "lock"
              /\ call'[c].id = call[c].id /\ call'[c].photo = call[c].photo
              /\ call'[c].envelopes = call[c].envelopes
    BY <2>1, ProceedEffect
  <2> QED
    BY <2>2, <2>3, <2>4 DEF CallInv, CallOK, IdleCall, allowed, Uploaded
<1>4. InsertedInv'
  <2> SUFFICES ASSUME NEW b \in Calls, call'[b].step = "inserted"
               PROVE  b # c /\ call'[b] = call[b]
    BY DEF IInv, InsertedInv, NewRow, Exists, AssertUploaded, OnlyCalls, ledgerVars,
        grantVars, readerVars
  <2> QED
    BY DEF IInv, TypeOK, AssertUploaded, Proceed, Goto, Return, IdleCall, Call
<1>5. /\ RowsInv' /\ GrantInv' /\ PurgerInv' /\ ReaderInv' /\ SignedInv'
      /\ PhotoAvailable' /\ NoOrphanPhoto' /\ StoredOnce' /\ NoMessageSkipped'
  BY DEF IInv, RowsInv, GrantInv, PurgerInv, ReaderInv, SignedInv, PhotoAvailable,
      NoOrphanPhoto, StoredOnce, NoMessageSkipped, Attached, PurgeOK, AssertUploaded,
      grantVars, ledgerVars, readerVars, OnlyCalls
<1> QED
  BY <1>1, <1>2, <1>3, <1>4, <1>5 DEF IInv

\* The read of the eligibility preserves it.
LEMMA LockCurrentStep ==
    ASSUME IInv, NEW c \in Calls, LockCurrent(c)
    PROVE  IInv'
<1>1. TypeOK'
  <2>1. call \in [Calls -> Call] /\ OnlyCalls
    BY DEF IInv, TypeOK, LockCurrent
  <2>2. call' \in [Calls -> Call]
    BY <2>1, ProceedType DEF LockCurrent, CallStep
  <2> QED
    BY <2>1, <2>2 DEF IInv, TypeOK, OnlyCalls, deviceVars, grantVars, ledgerVars, readerVars
<1>2. OneHolder'
  BY DEF IInv, TypeOK, OneHolder, LockCurrent, OnlyCalls, Proceed, Goto, Return,
      IdleCall, Call, CallStep
<1>3. CallInv'
  <2> DEFINE allowed == usable /\ SenderDevice[call[c].id] \in activeDevices
  <2>1. Proceed(c, allowed, "wait") /\ allowed \in BOOLEAN /\ "wait" \in CallStep /\ TypeOK
    BY DEF LockCurrent, CallStep, IInv, TypeOK
  <2>2. UNCHANGED <<issued, reservations, lastPurgeAttemptAt, objects, activeDevices>>
    BY DEF LockCurrent, OnlyCalls, grantVars, ledgerVars, deviceVars
  <2>3. CallInv /\ call[c].step = "lock"
    BY DEF LockCurrent, IInv
  <2> HIDE DEF allowed
  <2>4. /\ \A b \in Calls : b # c => call'[b] = call[b]
        /\ \/ call'[c] = IdleCall
           \/ /\ allowed /\ call'[c].step = "wait"
              /\ call'[c].id = call[c].id /\ call'[c].photo = call[c].photo
              /\ call'[c].envelopes = call[c].envelopes
    BY <2>1, ProceedEffect
  <2> QED
    BY <2>2, <2>3, <2>4 DEF CallInv, CallOK, IdleCall
<1>4. InsertedInv'
  <2> SUFFICES ASSUME NEW b \in Calls, call'[b].step = "inserted"
               PROVE  b # c /\ call'[b] = call[b]
    BY DEF IInv, InsertedInv, NewRow, Exists, LockCurrent, OnlyCalls, ledgerVars,
        grantVars, readerVars
  <2> QED
    BY DEF IInv, TypeOK, LockCurrent, Proceed, Goto, Return, IdleCall, Call
<1>5. /\ RowsInv' /\ GrantInv' /\ PurgerInv' /\ ReaderInv' /\ SignedInv'
      /\ PhotoAvailable' /\ NoOrphanPhoto' /\ StoredOnce' /\ NoMessageSkipped'
  BY DEF IInv, RowsInv, GrantInv, PurgerInv, ReaderInv, SignedInv, PhotoAvailable,
      NoOrphanPhoto, StoredOnce, NoMessageSkipped, Attached, PurgeOK, LockCurrent,
      grantVars, ledgerVars, readerVars, OnlyCalls
<1> QED
  BY <1>1, <1>2, <1>3, <1>4, <1>5 DEF IInv

\* Taking the locks preserves it: nobody else holds them, and the envelopes are
\* those of the active devices.
LEMMA LockDevicesStep ==
    ASSUME IInv, NEW c \in Calls, NEW e \in SUBSET Devices, LockDevices(c, e)
    PROVE  IInv'
<1>1. TypeOK'
  <2>1. call' \in [Calls -> Call]
    <3>1. CASE Return(c)
      BY <3>1 DEF Return, IInv, TypeOK, IdleCall, Call, CallStep
    <3>2. CASE call' = [call EXCEPT ![c].step = "locked", ![c].envelopes = e]
      <4>1. call'[c] = [call[c] EXCEPT !.step = "locked", !.envelopes = e]
        BY <3>2 DEF IInv, TypeOK
      <4>2. call'[c] \in Call
        BY <4>1 DEF IInv, TypeOK, Call, CallStep
      <4>3. call' = [b \in Calls |-> IF b = c THEN call'[c] ELSE call[b]]
        BY <3>2 DEF IInv, TypeOK
      <4> QED
        BY <4>2, <4>3 DEF IInv, TypeOK
    <3> QED
      BY <3>1, <3>2 DEF LockDevices
  <2> QED
    BY <2>1 DEF IInv, TypeOK, LockDevices, OnlyCalls, deviceVars, grantVars,
        ledgerVars, readerVars
<1>2. OneHolder'
  BY DEF IInv, TypeOK, OneHolder, LockDevices, OnlyCalls, Return, IdleCall, LockFree,
      assertCompleteEnvelopes, Call, CallStep
<1>3. CallInv'
  BY DEF IInv, TypeOK, CallInv, CallOK, LockDevices, deviceVars, grantVars,
      ledgerVars, OnlyCalls, Return, IdleCall, LockFree, assertCompleteEnvelopes,
      Call, CallStep
<1>4. InsertedInv'
  <2> SUFFICES ASSUME NEW b \in Calls, call'[b].step = "inserted"
               PROVE  b # c /\ call'[b] = call[b]
    BY DEF IInv, InsertedInv, NewRow, Exists, LockDevices, OnlyCalls, ledgerVars,
        grantVars, readerVars
  <2> QED
    BY DEF IInv, TypeOK, LockDevices, Return, IdleCall, Call
<1>5. /\ RowsInv' /\ GrantInv' /\ PurgerInv' /\ ReaderInv' /\ SignedInv'
      /\ PhotoAvailable' /\ NoOrphanPhoto' /\ StoredOnce' /\ NoMessageSkipped'
  BY DEF IInv, RowsInv, GrantInv, PurgerInv, ReaderInv, SignedInv, PhotoAvailable,
      NoOrphanPhoto, StoredOnce, NoMessageSkipped, Attached, PurgeOK, LockDevices,
      grantVars, ledgerVars, readerVars, OnlyCalls
<1> QED
  BY <1>1, <1>2, <1>3, <1>4, <1>5 DEF IInv

\* The insert preserves it: its number is the largest, and its message outlives
\* the grant of its photo.
LEMMA InsertMessageStep ==
    ASSUME IInv, NEW c \in Calls, InsertMessage(c)
    PROVE  IInv'
<1>1. TypeOK'
  <2>1. /\ call \in [Calls -> Call] /\ nextSequence \in Nat /\ now + MessageTTL \in Nat
        /\ IdleCall \in Call
    BY ConstantsAssumption DEF IInv, TypeOK, IdleCall, Call, CallStep
  <2>2. call' \in [Calls -> Call]
    <3>1. CASE Return(c)
      BY <2>1, <3>1 DEF Return
    <3>2. CASE call' = [call EXCEPT ![c].step = "inserted", ![c].sequence = nextSequence,
                                    ![c].expiresAt = now + MessageTTL]
      <4> DEFINE row == [call[c] EXCEPT !.step = "inserted", !.sequence = nextSequence,
                                        !.expiresAt = now + MessageTTL]
      <4>1. call[c] \in Call
        BY <2>1
      <4>2. row \in Call
        BY <2>1, <4>1 DEF Call, CallStep
      <4>3. call' = [call EXCEPT ![c] = row]
        BY <2>1, <3>2
      <4> HIDE DEF row
      <4> QED
        BY <2>1, <4>2, <4>3
    <3> QED
      BY <3>1, <3>2 DEF InsertMessage
  <2>3. nextSequence' \in Nat \ {0}
    BY DEF IInv, TypeOK, InsertMessage
  <2> QED
    BY <2>2, <2>3 DEF IInv, TypeOK, InsertMessage, deviceVars, grantVars, ledgerVars, readerVars
<1>2. RowsInv'
  BY DEF IInv, TypeOK, RowsInv, Message, InsertMessage, grantVars, ledgerVars,
      Unclaimed
<1>3. OneHolder'
  BY DEF IInv, TypeOK, OneHolder, InsertMessage, Return, IdleCall, Unclaimed, Call,
      CallStep
<1>4. CallInv'
  <2> SUFFICES ASSUME NEW b \in Calls
               PROVE  CallOK(b)'
    BY DEF CallInv
  <2>1. UNCHANGED <<issued, reservations, lastPurgeAttemptAt, objects, activeDevices>>
    BY DEF InsertMessage, grantVars, ledgerVars, deviceVars
  <2>2. CallOK(b) /\ CallOK(c) /\ call[c].step = "locked"
    BY DEF IInv, CallInv, InsertMessage
  <2>3. CASE Return(c)
    <3>1. call'[b] = call[b] \/ call'[b] = IdleCall
      BY <2>3 DEF Return, IInv, TypeOK
    <3> QED
      BY <2>1, <2>2, <3>1 DEF CallOK, IdleCall
  <2>4. CASE call' = [call EXCEPT ![c].step = "inserted", ![c].sequence = nextSequence,
                                  ![c].expiresAt = now + MessageTTL]
    <3>1. /\ b # c => call'[b] = call[b]
          /\ call'[c].photo = call[c].photo /\ call'[c].id = call[c].id
          /\ call'[c].envelopes = call[c].envelopes /\ call'[c].step = "inserted"
      BY <2>4 DEF IInv, TypeOK, Call
    <3> QED
      BY <2>1, <2>2, <3>1 DEF CallOK
  <2> QED
    BY <2>3, <2>4 DEF InsertMessage
<1>5. InsertedInv'
  <2> SUFFICES ASSUME NEW b \in Calls, call'[b].step = "inserted"
               PROVE  NewRow(b)'
    BY DEF InsertedInv
  <2>1. b = c
    BY DEF IInv, TypeOK, OneHolder, InsertMessage, Return, IdleCall, Call
  <2>2. /\ ~Exists(call[c].id)
        /\ call[c].photo = None \/ Unclaimed(call[c].photo)
        /\ nextSequence' = nextSequence + 1
        /\ call'[c] = [call[c] EXCEPT !.step = "inserted", !.sequence = nextSequence,
                                      !.expiresAt = now + MessageTTL]
    <3>1. ~Return(c)
      BY <2>1 DEF IInv, TypeOK, Return, IdleCall
    <3> QED
      BY <3>1 DEF InsertMessage, IInv, TypeOK
  <2>3. /\ call'[c].id = call[c].id /\ call'[c].photo = call[c].photo
        /\ call'[c].sequence = nextSequence /\ call'[c].expiresAt = now + MessageTTL
    BY <2>2 DEF IInv, TypeOK, Call
  <2>4. UNCHANGED <<messages, cursor, reservations, lastPurgeAttemptAt, grantExpiresAt>>
    BY DEF InsertMessage, ledgerVars, grantVars, readerVars
  <2>5. ~Exists(call[c].id)'
    BY <2>2, <2>3, <2>4 DEF Exists
  <2>6. \A u \in Uploads : Unclaimed(u) =>
          /\ u \in reservations /\ lastPurgeAttemptAt[u] = Null
          /\ grantExpiresAt[u] <= now + MessageTTL
    BY ConstantsAssumption DEF IInv, TypeOK, GrantInv, Unclaimed
  <2>7. /\ \A r \in messages : r.sequence < nextSequence
        /\ \A d \in Readers : cursor[d] < nextSequence
        /\ nextSequence \in Nat \ {0}
        /\ call[c].photo \in Uploads \cup {None}
    BY DEF IInv, TypeOK, RowsInv, ReaderInv, Call
  <2> QED
    BY <2>1, <2>2, <2>3, <2>4, <2>5, <2>6, <2>7 DEF NewRow
<1>6. ReaderInv'
  BY DEF IInv, TypeOK, ReaderInv, InsertMessage, readerVars, Unclaimed
<1>7. /\ GrantInv' /\ PurgerInv' /\ SignedInv' /\ PhotoAvailable'
      /\ NoOrphanPhoto' /\ StoredOnce' /\ NoMessageSkipped'
  BY DEF IInv, GrantInv, PurgerInv, SignedInv, PhotoAvailable, NoOrphanPhoto,
      StoredOnce, NoMessageSkipped, Attached, PurgeOK, InsertMessage, grantVars,
      ledgerVars, readerVars
<1> QED
  BY <1>1, <1>2, <1>3, <1>4, <1>5, <1>6, <1>7 DEF IInv

\* The commit preserves it: the row takes the place of its reservation.
LEMMA CommitMessageStep ==
    ASSUME IInv, NEW c \in Calls, CommitMessage(c)
    PROVE  IInv'
<1> DEFINE row == Inserted(c)
<1>1. /\ ~Exists(row.id)
      /\ 1 <= row.sequence /\ row.sequence < nextSequence
      /\ \A r \in messages : r.sequence < row.sequence
      /\ \A d \in Readers : cursor[d] < row.sequence
      /\ row.photo # None =>
            /\ row.photo \in issued /\ row.photo \in reservations /\ row.photo \in objects
            /\ lastPurgeAttemptAt[row.photo] = Null
            /\ grantExpiresAt[row.photo] <= row.expiresAt
  BY DEF IInv, CallInv, CallOK, InsertedInv, NewRow, CommitMessage, Inserted
<1>2. row \in Message
  BY DEF IInv, TypeOK, CallInv, CallOK, CommitMessage, Inserted, Call, Message,
      ReceiptStatus
<1>3. \/ messages' = messages \cup {row} /\ reservations' = reservations \ {row.photo}
      \/ UNCHANGED <<messages, reservations>>
  BY DEF CommitMessage, Inserted
<1>4. UNCHANGED <<now, issued, grantExpiresAt, lastPurgeAttemptAt, objects, nextSequence,
                  opened, first, cursor, seen, signedUntil>>
  BY DEF CommitMessage, grantVars, readerVars
<1>5. \A r \in messages : r.id # row.id
  BY <1>1 DEF Exists
<1> HIDE DEF row
<1>6. TypeOK'
  <2>1. messages' \subseteq Message /\ reservations' \subseteq issued
    BY <1>2, <1>3 DEF IInv, TypeOK
  <2>2. call' \in [Calls -> Call]
    BY DEF IInv, TypeOK, CommitMessage, Return, IdleCall, Call, CallStep
  <2> QED
    BY <2>1, <2>2 DEF IInv, TypeOK, CommitMessage, deviceVars, grantVars, readerVars
<1>7. RowsInv'
  BY <1>1, <1>3, <1>4 DEF IInv, RowsInv
<1>8. GrantInv'
  BY <1>3, <1>4 DEF IInv, GrantInv, Attached
<1>9. OneHolder'
  BY DEF IInv, OneHolder, CommitMessage, Return, IdleCall, Inserted
<1>10. CallInv'
  BY DEF IInv, CallInv, CallOK, CommitMessage, deviceVars, grantVars, ledgerVars,
      Return, IdleCall, Inserted
<1>11. InsertedInv'
  <2> SUFFICES ASSUME NEW b \in Calls
               PROVE  call'[b].step # "inserted"
    BY DEF InsertedInv
  <2> QED
    BY DEF IInv, TypeOK, OneHolder, CommitMessage, Return, IdleCall
<1>12. PurgerInv'
  <2> SUFFICES ASSUME NEW p \in Purgers
               PROVE  PurgeOK(p)'
    BY DEF PurgerInv
  <2>1. PurgeOK(p)
    BY DEF IInv, PurgerInv
  <2>2. purger[p].step \in {"delete", "rows", "error"} /\ row.photo # None =>
          row.photo # purger[p].upload
    BY <1>1, <2>1 DEF PurgeOK
  <2>3. purger[p].step # "idle" => purger[p].upload # None
    BY <2>1, ConstantsAssumption DEF PurgeOK, IInv, TypeOK
  <2>4. UNCHANGED purger
    BY DEF CommitMessage
  <2> QED
    BY <1>3, <1>4, <2>1, <2>2, <2>3, <2>4 DEF PurgeOK
<1>13. SignedInv'
  BY <1>3, <1>4 DEF IInv, SignedInv
<1>14. PhotoAvailable'
  BY <1>1, <1>3, <1>4 DEF IInv, PhotoAvailable
<1>15. NoOrphanPhoto'
  BY <1>3, <1>4 DEF IInv, NoOrphanPhoto, Attached
<1>16. StoredOnce'
  BY <1>1, <1>3, <1>5 DEF IInv, RowsInv, StoredOnce
<1>17. NoMessageSkipped'
  BY <1>1, <1>2, <1>3, <1>4, ConstantsAssumption DEF IInv, TypeOK, NoMessageSkipped,
      Message
<1>18. ReaderInv'
  BY DEF IInv, ReaderInv, CommitMessage, readerVars
<1> QED
  BY <1>6, <1>7, <1>8, <1>9, <1>10, <1>11, <1>12, <1>13, <1>14, <1>15, <1>16, <1>17,
      <1>18 DEF IInv

\* A call that is given up preserves it.
LEMMA AbortCallStep ==
    ASSUME IInv, NEW c \in Calls, AbortCall(c)
    PROVE  IInv'
<1>1. TypeOK'
  BY ConstantsAssumption DEF IInv, TypeOK, AbortCall, deviceVars, grantVars,
      ledgerVars, readerVars, OnlyCalls, Return, IdleCall, Call, CallStep
<1>2. OneHolder'
  BY DEF IInv, OneHolder, AbortCall, OnlyCalls, Return, IdleCall
<1>3. CallInv'
  BY DEF IInv, CallInv, CallOK, AbortCall, deviceVars, grantVars, ledgerVars,
      OnlyCalls, Return, IdleCall
<1>4. InsertedInv'
  BY DEF IInv, InsertedInv, NewRow, Exists, AbortCall, grantVars, ledgerVars,
      readerVars, OnlyCalls, Return, IdleCall
<1>5. /\ RowsInv' /\ GrantInv' /\ PurgerInv' /\ ReaderInv' /\ SignedInv'
      /\ PhotoAvailable' /\ NoOrphanPhoto' /\ StoredOnce' /\ NoMessageSkipped'
  BY DEF IInv, RowsInv, GrantInv, PurgerInv, ReaderInv, SignedInv, PhotoAvailable,
      NoOrphanPhoto, StoredOnce, NoMessageSkipped, Attached, PurgeOK, AbortCall,
      grantVars, ledgerVars, readerVars, OnlyCalls
<1> QED
  BY <1>1, <1>2, <1>3, <1>4, <1>5 DEF IInv

\* listMessages preserves it: a page is without gaps, and its downloads end with
\* their messages.
LEMMA ListMessagesStep ==
    ASSUME IInv, NEW d \in Readers, ListMessages(d)
    PROVE  IInv'
<1>1. PICK page \in SUBSET Listable(d) :
        /\ IsPage(page, Listable(d), d \in opened)
        /\ opened' = opened \cup {d}
        /\ seen' = [seen EXCEPT ![d] = @ \cup {r.sequence : r \in page}]
        /\ \/ page = {} /\ EmptyPage(d)
           \/ \E a, z \in page :
                /\ \A r \in page : a.sequence <= r.sequence /\ r.sequence <= z.sequence
                /\ cursor' = [cursor EXCEPT ![d] = z.sequence]
                /\ first' = IF d \in opened THEN first
                            ELSE [first EXCEPT ![d] = a.sequence]
        /\ signedUntil' = [u \in Uploads |->
             IF attachmentAttemptAt[u] = Null /\ \E r \in page : r.photo = u
             THEN SignedFor(CHOOSE r \in page : r.photo = u) ELSE signedUntil[u]]
  BY DEF ListMessages
<1>2. page \subseteq messages /\ messages \subseteq Message
  BY DEF Listable, IInv, TypeOK
<1>3. UNCHANGED <<now, nextSequence, messages, call>>
  BY DEF ListMessages
<1>4. \/ cursor' = cursor /\ first' = first
      \/ \E a, z \in page :
           /\ cursor' = [cursor EXCEPT ![d] = z.sequence]
           /\ first' = IF d \in opened THEN first ELSE [first EXCEPT ![d] = a.sequence]
  BY <1>1 DEF EmptyPage
<1>5. ASSUME NEW u \in Uploads
      PROVE  \/ signedUntil'[u] = signedUntil[u]
             \/ \E r \in page : r.photo = u /\ signedUntil'[u] = SignedFor(r)
  BY <1>1
<1>6. \A r \in page : SignedFor(r) \in Nat /\ SignedFor(r) <= r.expiresAt
  BY <1>2, ConstantsAssumption DEF SignedFor, Message, IInv, TypeOK
<1>7. TypeOK'
  <2>1. cursor' \in [Readers -> Nat] /\ first' \in [Readers -> Nat]
    BY <1>2, <1>4 DEF IInv, TypeOK, Message
  <2>2. seen' \in [Readers -> SUBSET Nat]
    <3>1. {r.sequence : r \in page} \subseteq Nat
      BY <1>2 DEF Message
    <3> QED
      BY <1>1, <3>1 DEF IInv, TypeOK
  <2>3. signedUntil' \in [Uploads -> Nat]
    <3>1. \A u \in Uploads : signedUntil'[u] \in Nat
      BY <1>5, <1>6 DEF IInv, TypeOK
    <3>2. signedUntil' = [u \in Uploads |-> signedUntil'[u]]
      BY <1>1
    <3> QED
      BY <3>1, <3>2
  <2>4. opened' \subseteq Readers
    BY <1>1 DEF IInv, TypeOK
  <2> QED
    BY <2>1, <2>2, <2>3, <2>4 DEF IInv, TypeOK, ListMessages, deviceVars, grantVars,
        ledgerVars
<1>8. InsertedInv'
  <2>1. \A b \in Calls, e \in Readers : call[b].step = "inserted" =>
          cursor'[e] < call[b].sequence
    BY <1>2, <1>4 DEF IInv, TypeOK, InsertedInv, NewRow
  <2> QED
    BY <1>3, <2>1 DEF IInv, InsertedInv, NewRow, Exists, ListMessages, ledgerVars,
        grantVars
<1>9. ReaderInv'
  BY <1>1, <1>2, <1>3, <1>4 DEF IInv, TypeOK, RowsInv, ReaderInv
<1>10. SignedInv'
  BY <1>2, <1>3, <1>5, <1>6 DEF IInv, SignedInv
<1>11. NoMessageSkipped'
  <2> SUFFICES ASSUME NEW e \in opened', NEW r \in messages', now < r.expiresAt,
                      e \in r.envelopes, first'[e] <= r.sequence, r.sequence <= cursor'[e]
               PROVE  r.sequence \in seen'[e]
    BY <1>3 DEF NoMessageSkipped
  <2>1. e \in Readers /\ r \in messages /\ r \in Message /\ r.sequence >= 1
    BY <1>1, <1>2, <1>3 DEF IInv, TypeOK, RowsInv
  <2>2. CASE e # d
    BY <1>1, <1>4, <2>1, <2>2 DEF IInv, TypeOK, NoMessageSkipped
  <2>3. CASE e = d
    <3>1. seen'[d] = seen[d] \cup {q.sequence : q \in page}
      BY <1>1 DEF IInv, TypeOK
    <3> SUFFICES ASSUME r \notin page, r.sequence \notin seen[d]
                 PROVE  FALSE
      BY <2>3, <3>1
    <3>2. CASE page = {} /\ EmptyPage(d)
      BY <2>1, <2>3, <3>2 DEF IInv, TypeOK, ReaderInv, NoMessageSkipped, EmptyPage,
          Message
    <3>3. CASE page # {}
      <4>1. PICK a, z \in page :
              /\ cursor' = [cursor EXCEPT ![d] = z.sequence]
              /\ first' = IF d \in opened THEN first
                          ELSE [first EXCEPT ![d] = a.sequence]
        BY <1>1, <3>3
      <4>2. /\ cursor'[d] = z.sequence /\ (d \in opened => first'[d] = first[d])
            /\ d \notin opened => first'[d] = a.sequence
        BY <4>1 DEF IInv, TypeOK
      <4>3. r \in Listable(d)
        BY <2>1, <2>3, <4>2 DEF IInv, TypeOK, Listable, NoMessageSkipped, Message
      <4>4. IF d \in opened THEN z.sequence < r.sequence ELSE a.sequence > r.sequence
        BY <1>1, <4>3 DEF IsPage
      <4> QED
        BY <1>2, <2>1, <2>3, <4>2, <4>4 DEF Message
    <3> QED
      BY <1>1, <3>2, <3>3
  <2> QED
    BY <2>2, <2>3
<1>12. /\ RowsInv' /\ GrantInv' /\ OneHolder' /\ CallInv' /\ PurgerInv'
      /\ PhotoAvailable' /\ NoOrphanPhoto' /\ StoredOnce'
  BY DEF IInv, RowsInv, GrantInv, OneHolder, CallInv, PurgerInv, PhotoAvailable,
      NoOrphanPhoto, StoredOnce, Attached, CallOK, PurgeOK, ListMessages, deviceVars,
      grantVars, ledgerVars
<1> QED
  BY <1>7, <1>8, <1>9, <1>10, <1>11, <1>12 DEF IInv

\* updateReceipt preserves it: the row keeps all but its receipt.
LEMMA UpdateReceiptStep ==
    ASSUME IInv, NEW r \in messages, NEW s \in Requested, UpdateReceipt(r, s)
    PROVE  IInv'
<1>1. \A q \in messages : \E n \in messages' :
        n.photo = q.photo /\ n.expiresAt = q.expiresAt
  <2> DEFINE new == [r EXCEPT !.receipt = s]
  <2>1. new \in messages' /\ new.photo = r.photo /\ new.expiresAt = r.expiresAt
    BY DEF UpdateReceipt, IInv, TypeOK, Message
  <2>2. \A q \in messages : q # r => q \in messages'
    BY DEF UpdateReceipt
  <2> HIDE DEF new
  <2> QED
    BY <2>1, <2>2
<1>2. \A n \in messages' : \E q \in messages :
        /\ n.id = q.id /\ n.photo = q.photo /\ n.expiresAt = q.expiresAt
        /\ n.sequence = q.sequence /\ n.envelopes = q.envelopes
  BY DEF UpdateReceipt, IInv, TypeOK, Message
<1>3. TypeOK'
  BY ConstantsAssumption DEF IInv, TypeOK, UpdateReceipt, deviceVars, grantVars,
      ledgerVars, readerVars, Message, ReceiptStatus
<1>4. RowsInv'
  BY <1>2 DEF IInv, RowsInv, UpdateReceipt, grantVars, ledgerVars
<1>5. GrantInv'
  BY <1>1 DEF IInv, GrantInv, Attached, UpdateReceipt, grantVars, ledgerVars
<1>6. InsertedInv'
  BY <1>2 DEF IInv, InsertedInv, NewRow, Exists, UpdateReceipt, grantVars, ledgerVars,
      readerVars
<1>7. PurgerInv'
  BY <1>2 DEF IInv, PurgerInv, PurgeOK, UpdateReceipt, grantVars, ledgerVars
<1>8. SignedInv'
  BY <1>1 DEF IInv, SignedInv, UpdateReceipt, readerVars
<1>9. PhotoAvailable'
  BY <1>2 DEF IInv, PhotoAvailable, UpdateReceipt
<1>10. NoOrphanPhoto'
  BY <1>1 DEF IInv, NoOrphanPhoto, Attached, UpdateReceipt, ledgerVars
<1>11. StoredOnce'
  BY DEF IInv, TypeOK, StoredOnce, UpdateReceipt, Message, ReceiptStatus
<1>12. NoMessageSkipped'
  BY <1>2 DEF IInv, NoMessageSkipped, UpdateReceipt, readerVars
<1>13. /\ OneHolder' /\ CallInv' /\ ReaderInv'
  BY DEF IInv, OneHolder, CallInv, ReaderInv, CallOK, UpdateReceipt, deviceVars,
      grantVars, ledgerVars, readerVars
<1> QED
  BY <1>3, <1>4, <1>5, <1>6, <1>7, <1>8, <1>9, <1>10, <1>11, <1>12, <1>13 DEF IInv

\* A change of the eligibility preserves it.
LEMMA ConversationChangesStep ==
    ASSUME IInv, ConversationChanges
    PROVE  IInv'
<1>1. TypeOK'
  BY ConstantsAssumption DEF IInv, TypeOK, ConversationChanges, deviceVars, grantVars,
      ledgerVars, readerVars
<1>2. /\ RowsInv' /\ GrantInv' /\ OneHolder' /\ CallInv' /\ InsertedInv'
      /\ PurgerInv' /\ ReaderInv' /\ SignedInv' /\ PhotoAvailable'
      /\ NoOrphanPhoto' /\ StoredOnce' /\ NoMessageSkipped'
  BY DEF IInv, RowsInv, GrantInv, OneHolder, CallInv, InsertedInv, PurgerInv,
      ReaderInv, SignedInv, PhotoAvailable, NoOrphanPhoto, StoredOnce,
      NoMessageSkipped, Attached, CallOK, NewRow, Exists, PurgeOK,
      ConversationChanges, deviceVars, grantVars, ledgerVars, readerVars
<1> QED
  BY <1>1, <1>2 DEF IInv

\* A change of the devices preserves it: it waits for the locks.
LEMMA DeviceChangesStep ==
    ASSUME IInv, DeviceChanges
    PROVE  IInv'
<1>1. TypeOK'
  BY ConstantsAssumption DEF IInv, TypeOK, DeviceChanges, grantVars, ledgerVars,
      readerVars, LockFree
<1>2. CallInv'
  BY DEF IInv, CallInv, CallOK, DeviceChanges, grantVars, ledgerVars, LockFree
<1>3. /\ RowsInv' /\ GrantInv' /\ OneHolder' /\ InsertedInv' /\ PurgerInv'
      /\ ReaderInv' /\ SignedInv' /\ PhotoAvailable' /\ NoOrphanPhoto'
      /\ StoredOnce' /\ NoMessageSkipped'
  BY DEF IInv, RowsInv, GrantInv, OneHolder, InsertedInv, PurgerInv, ReaderInv,
      SignedInv, PhotoAvailable, NoOrphanPhoto, StoredOnce, NoMessageSkipped,
      Attached, NewRow, Exists, PurgeOK, DeviceChanges, grantVars, ledgerVars,
      readerVars
<1> QED
  BY <1>1, <1>2, <1>3 DEF IInv

\* The purge of texts preserves it: no photo loses its row.
LEMMA PurgeTextsStep ==
    ASSUME IInv, PurgeTexts
    PROVE  IInv'
<1>1. TypeOK'
  BY ConstantsAssumption DEF IInv, TypeOK, PurgeTexts, deviceVars, grantVars,
      ledgerVars, readerVars, OnlyPurgers, Message, ReceiptStatus
<1>2. RowsInv'
  BY DEF IInv, RowsInv, PurgeTexts, grantVars, ledgerVars, OnlyPurgers
<1>3. GrantInv'
  BY ConstantsAssumption DEF IInv, TypeOK, GrantInv, Attached, PurgeTexts, grantVars,
      ledgerVars, OnlyPurgers, Message, ReceiptStatus
<1>4. InsertedInv'
  BY DEF IInv, InsertedInv, NewRow, Exists, PurgeTexts, grantVars, ledgerVars,
      readerVars, OnlyPurgers
<1>5. PurgerInv'
  BY DEF IInv, PurgerInv, PurgeOK, PurgeTexts, grantVars, ledgerVars, OnlyPurgers
<1>6. SignedInv'
  BY DEF IInv, TypeOK, SignedInv, PurgeTexts, readerVars, OnlyPurgers, Message,
      ReceiptStatus
<1>7. PhotoAvailable'
  BY DEF IInv, PhotoAvailable, PurgeTexts, OnlyPurgers
<1>8. NoOrphanPhoto'
  BY ConstantsAssumption DEF IInv, TypeOK, NoOrphanPhoto, Attached, PurgeTexts,
      ledgerVars, OnlyPurgers, Message, ReceiptStatus
<1>9. StoredOnce'
  BY DEF IInv, StoredOnce, PurgeTexts, OnlyPurgers
<1>10. NoMessageSkipped'
  BY DEF IInv, NoMessageSkipped, PurgeTexts, readerVars, OnlyPurgers
<1>11. /\ OneHolder' /\ CallInv' /\ ReaderInv'
  BY DEF IInv, OneHolder, CallInv, ReaderInv, CallOK, PurgeTexts, deviceVars,
      grantVars, ledgerVars, readerVars, OnlyPurgers
<1> QED
  BY <1>1, <1>2, <1>3, <1>4, <1>5, <1>6, <1>7, <1>8, <1>9, <1>10, <1>11 DEF IInv

\* The listing of what is due preserves it.
LEMMA SelectDueStep ==
    ASSUME IInv, NEW p \in Purgers, NEW u \in Uploads,
           NEW table \in {"uploads", "attachments"}, SelectDue(p, u, table)
    PROVE  IInv'
<1>1. TypeOK'
  BY ConstantsAssumption DEF IInv, TypeOK, SelectDue, deviceVars, grantVars,
      ledgerVars, readerVars, OnlyPurgers, Abandoned, ExpiredPhoto, Purger, PurgerStep
<1>2. PurgerInv'
  <2> SUFFICES ASSUME NEW q \in Purgers
               PROVE  PurgeOK(q)'
    BY DEF PurgerInv
  <2>1. u \in issued
    <3>1. CASE table = "uploads"
      BY <3>1 DEF SelectDue, Abandoned, IInv, TypeOK
    <3>2. CASE table = "attachments"
      <4>1. \E r \in messages : r.photo = u
        BY <3>2 DEF SelectDue, ExpiredPhoto
      <4> QED
        BY <4>1, ConstantsAssumption DEF IInv, RowsInv
    <3> QED
      BY <3>1, <3>2
  <2>2. UNCHANGED <<now, issued, grantExpiresAt, ledgerVars, messages, objects>>
    BY DEF SelectDue, OnlyPurgers, grantVars
  <2>3. purger' = [purger EXCEPT ![p] = [step |-> "claim", table |-> table,
                                         upload |-> u, batchNow |-> now]]
    BY DEF SelectDue
  <2>4. CASE q = p
    BY <2>1, <2>2, <2>3, <2>4 DEF PurgeOK, IInv, TypeOK
  <2>5. CASE q # p
    BY <2>2, <2>3, <2>5 DEF PurgeOK, PurgerInv, IInv, TypeOK, ledgerVars
  <2> QED
    BY <2>4, <2>5
<1>3. /\ RowsInv' /\ GrantInv' /\ OneHolder' /\ CallInv' /\ InsertedInv'
      /\ ReaderInv' /\ SignedInv' /\ PhotoAvailable' /\ NoOrphanPhoto'
      /\ StoredOnce' /\ NoMessageSkipped'
  BY DEF IInv, RowsInv, GrantInv, OneHolder, CallInv, InsertedInv, ReaderInv,
      SignedInv, PhotoAvailable, NoOrphanPhoto, StoredOnce, NoMessageSkipped,
      Attached, CallOK, NewRow, Exists, SelectDue, deviceVars, grantVars, ledgerVars,
      readerVars, OnlyPurgers
<1> QED
  BY <1>1, <1>2, <1>3 DEF IInv

\* The claim of a reservation preserves it: from here on no message can take it.
LEMMA ClaimUploadStep ==
    ASSUME IInv, NEW p \in Purgers, ClaimUpload(p)
    PROVE  IInv'
<1>1. TypeOK'
  BY ConstantsAssumption DEF IInv, TypeOK, ClaimUpload, deviceVars, grantVars,
      readerVars, OnlyPurgers, Abandoned, PurgerGoto, PurgerReturn, IdlePurger,
      RowLocked, Purger, PurgerStep
<1>2. CallInv'
  <2>1. purger[p].batchNow # Null
    BY DEF IInv, PurgerInv, PurgeOK, ClaimUpload, Null, TypeOK, Purger
  <2>2. \A u \in Uploads : lastPurgeAttemptAt'[u] = Null => lastPurgeAttemptAt[u] = Null
    BY <2>1 DEF IInv, TypeOK, ClaimUpload
  <2>3. UNCHANGED <<call, issued, reservations, objects, activeDevices>>
    BY DEF ClaimUpload, OnlyPurgers, grantVars, deviceVars
  <2> QED
    BY <2>2, <2>3 DEF IInv, TypeOK, CallInv, CallOK
<1>3. InsertedInv'
  BY DEF IInv, TypeOK, InsertedInv, NewRow, Exists, ClaimUpload, grantVars,
      readerVars, OnlyPurgers, Abandoned, RowLocked
<1>4. PurgerInv'
  <2> SUFFICES ASSUME NEW q \in Purgers
               PROVE  PurgeOK(q)'
    BY DEF PurgerInv
  <2>1. UNCHANGED <<now, issued, grantExpiresAt, reservations, messages, objects>>
    BY DEF ClaimUpload, OnlyPurgers, grantVars
  <2>2. purger[p].batchNow # Null /\ purger[p].upload \in Uploads
    BY DEF IInv, PurgerInv, PurgeOK, ClaimUpload, Null, TypeOK, Purger
  <2>3. CASE q # p
    <3>1. purger'[q] = purger[q]
      BY <2>3 DEF ClaimUpload, PurgerGoto, PurgerReturn, IInv, TypeOK
    <3>2. \A u \in Uploads : lastPurgeAttemptAt[u] # Null => lastPurgeAttemptAt'[u] # Null
      BY <2>2 DEF ClaimUpload, IInv, TypeOK
    <3> QED
      BY <2>1, <3>1, <3>2 DEF IInv, TypeOK, PurgerInv, PurgeOK
  <2>4. CASE q = p
    <3>1. CASE ~Abandoned(purger[p].upload, purger[p].batchNow)
      <4>1. purger'[p] = IdlePurger
        BY <3>1 DEF ClaimUpload, PurgerReturn, IInv, TypeOK
      <4> QED
        BY <2>4, <4>1 DEF PurgeOK, IdlePurger
    <3>2. CASE Abandoned(purger[p].upload, purger[p].batchNow)
      <4>1. /\ purger'[p] = [purger[p] EXCEPT !.step = "delete"]
            /\ lastPurgeAttemptAt'[purger[p].upload] = purger[p].batchNow
        BY <2>2, <3>2 DEF ClaimUpload, PurgerGoto, IInv, TypeOK
      <4>2. /\ purger'[p].step = "delete" /\ purger'[p].table = "uploads"
            /\ purger'[p].upload = purger[p].upload
            /\ purger'[p].batchNow = purger[p].batchNow
        BY <4>1 DEF ClaimUpload, IInv, TypeOK, Purger
      <4>3. /\ purger[p].upload \in issued
            /\ 1 <= purger[p].batchNow /\ purger[p].batchNow <= now
        BY DEF IInv, PurgerInv, PurgeOK, ClaimUpload
      <4>4. purger[p].upload \in reservations /\ grantExpiresAt[purger[p].upload] <= now
        BY <2>2, <3>2, <4>3 DEF Abandoned, IInv, TypeOK, Purger
      <4>5. \A r \in messages : r.photo # purger[p].upload
        BY <2>2, <4>4, ConstantsAssumption DEF IInv, RowsInv
      <4> QED
        BY <2>1, <2>2, <2>4, <4>1, <4>2, <4>3, <4>4, <4>5 DEF PurgeOK
    <3> QED
      BY <3>1, <3>2
  <2> QED
    BY <2>3, <2>4
<1>5. /\ RowsInv' /\ GrantInv' /\ OneHolder' /\ ReaderInv' /\ SignedInv'
      /\ PhotoAvailable' /\ NoOrphanPhoto' /\ StoredOnce' /\ NoMessageSkipped'
  BY DEF IInv, RowsInv, GrantInv, OneHolder, ReaderInv, SignedInv, PhotoAvailable,
      NoOrphanPhoto, StoredOnce, NoMessageSkipped, Attached, ClaimUpload, grantVars,
      readerVars, OnlyPurgers
<1> QED
  BY <1>1, <1>2, <1>3, <1>4, <1>5 DEF IInv

\* The claim of an attachment preserves it: its one message has expired.
LEMMA ClaimAttachmentStep ==
    ASSUME IInv, NEW p \in Purgers, ClaimAttachment(p)
    PROVE  IInv'
<1>1. TypeOK'
  BY ConstantsAssumption DEF IInv, TypeOK, ClaimAttachment, deviceVars, grantVars,
      ledgerVars, readerVars, OnlyPurgers, ExpiredPhoto, PurgerGoto, PurgerReturn,
      IdlePurger, Purger, PurgerStep
<1>2. PurgerInv'
  <2> SUFFICES ASSUME NEW q \in Purgers
               PROVE  PurgeOK(q)'
    BY DEF PurgerInv
  <2>1. UNCHANGED <<now, issued, grantExpiresAt, reservations, lastPurgeAttemptAt,
                    messages, objects>>
    BY DEF ClaimAttachment, OnlyPurgers, grantVars, ledgerVars
  <2>2. CASE q # p
    BY <2>1, <2>2 DEF ClaimAttachment, PurgerGoto, PurgerReturn, IInv, TypeOK,
        PurgerInv, PurgeOK
  <2>3. CASE q = p
    <3>1. CASE ~ExpiredPhoto(purger[p].upload, purger[p].batchNow)
      <4>1. purger'[p] = IdlePurger
        BY <3>1 DEF ClaimAttachment, PurgerReturn, IInv, TypeOK
      <4> QED
        BY <2>3, <4>1 DEF PurgeOK, IdlePurger
    <3>2. CASE ExpiredPhoto(purger[p].upload, purger[p].batchNow)
      <4>1. purger'[p] = [purger[p] EXCEPT !.step = "delete"]
        BY <3>2 DEF ClaimAttachment, PurgerGoto, IInv, TypeOK
      <4>2. /\ purger'[p].step = "delete" /\ purger'[p].table = "attachments"
            /\ purger'[p].upload = purger[p].upload
            /\ purger'[p].batchNow = purger[p].batchNow
        BY <4>1 DEF ClaimAttachment, IInv, TypeOK, Purger
      <4>3. /\ purger[p].upload \in issued /\ purger[p].upload # None
            /\ purger[p].batchNow \in Nat
            /\ 1 <= purger[p].batchNow /\ purger[p].batchNow <= now
        BY ConstantsAssumption DEF IInv, PurgerInv, PurgeOK, ClaimAttachment, TypeOK,
            Purger
      <4>4. PICK r \in messages :
              r.photo = purger[p].upload /\ r.expiresAt <= purger[p].batchNow
        BY <3>2 DEF ExpiredPhoto
      <4>5. r.expiresAt \in Nat /\ now \in Nat /\ r.expiresAt <= now
        BY <4>3, <4>4 DEF IInv, TypeOK, Message
      <4>6. \A s \in messages : s.photo = purger[p].upload => s = r
        BY <4>3, <4>4 DEF IInv, StoredOnce
      <4>7. /\ purger[p].upload \notin reservations
            /\ grantExpiresAt[purger[p].upload] <= now
        BY <4>3, <4>4, <4>5 DEF IInv, TypeOK, RowsInv
      <4> QED
        BY <2>1, <2>3, <4>2, <4>3, <4>5, <4>6, <4>7 DEF PurgeOK
    <3> QED
      BY <3>1, <3>2
  <2> QED
    BY <2>2, <2>3
<1>3. /\ RowsInv' /\ GrantInv' /\ OneHolder' /\ CallInv' /\ InsertedInv'
      /\ ReaderInv' /\ SignedInv' /\ PhotoAvailable' /\ NoOrphanPhoto'
      /\ StoredOnce' /\ NoMessageSkipped'
  BY DEF IInv, RowsInv, GrantInv, OneHolder, CallInv, InsertedInv, ReaderInv,
      SignedInv, PhotoAvailable, NoOrphanPhoto, StoredOnce, NoMessageSkipped,
      Attached, CallOK, NewRow, Exists, ClaimAttachment, deviceVars, grantVars,
      ledgerVars, readerVars, OnlyPurgers
<1> QED
  BY <1>1, <1>2, <1>3 DEF IInv

\* The deletion of an object preserves it: no live message has it.
LEMMA DeleteObjectStep ==
    ASSUME IInv, NEW p \in Purgers, DeleteObject(p)
    PROVE  IInv'
<1>1. objects \ {purger[p].upload} \subseteq objects' /\ objects' \subseteq objects
  BY DEF DeleteObject
<1>2. PurgeOK(p) /\ purger[p].step = "delete"
  BY DEF IInv, PurgerInv, DeleteObject
<1>3. TypeOK'
  <2>1. purger \in [Purgers -> Purger] /\ PurgerGoto(p, "rows") /\ UNCHANGED faults
    BY DEF IInv, TypeOK, DeleteObject
  <2>2. purger' \in [Purgers -> Purger]
    BY <2>1, PurgerGotoType DEF PurgerStep
  <2> QED
    BY <1>1, <2>1, <2>2 DEF IInv, TypeOK, DeleteObject, OnlyPurgers, deviceVars,
        grantVars, ledgerVars, readerVars
<1>4. CallInv'
  BY <1>1, <1>2 DEF IInv, CallInv, CallOK, PurgeOK, DeleteObject, OnlyPurgers,
      ledgerVars, grantVars, deviceVars
<1>5. PurgerInv'
  BY DEF IInv, PurgerInv, PurgeOK, DeleteObject, grantVars, ledgerVars, OnlyPurgers,
      PurgerGoto
<1>6. PhotoAvailable'
  BY <1>1, <1>2 DEF IInv, TypeOK, Message, PhotoAvailable, PurgeOK, DeleteObject,
      OnlyPurgers
<1>7. NoOrphanPhoto'
  BY DEF IInv, NoOrphanPhoto, Attached, DeleteObject, ledgerVars, OnlyPurgers
<1>8. /\ RowsInv' /\ GrantInv' /\ OneHolder' /\ InsertedInv' /\ ReaderInv'
      /\ SignedInv' /\ StoredOnce' /\ NoMessageSkipped'
  BY DEF IInv, RowsInv, GrantInv, OneHolder, InsertedInv, ReaderInv, SignedInv,
      StoredOnce, NoMessageSkipped, Attached, NewRow, Exists, DeleteObject, grantVars,
      ledgerVars, readerVars, OnlyPurgers
<1> QED
  BY <1>3, <1>4, <1>5, <1>6, <1>7, <1>8 DEF IInv

\* So does one that fails, whether it took effect or not.
LEMMA DeleteObjectFailsStep ==
    ASSUME IInv, NEW p \in Purgers, DeleteObjectFails(p)
    PROVE  IInv'
<1>1. objects \ {purger[p].upload} \subseteq objects' /\ objects' \subseteq objects
  BY DEF DeleteObjectFails
<1>2. PurgeOK(p) /\ purger[p].step = "delete"
  BY DEF IInv, PurgerInv, DeleteObjectFails
<1>3. TypeOK'
  <2>1. faults' \in 0 .. MaxFaults
    BY ConstantsAssumption DEF IInv, TypeOK, DeleteObjectFails, Fault
  <2>2. purger' \in [Purgers -> Purger]
    <3>1. purger \in [Purgers -> Purger] /\ PurgerGoto(p, "error")
      BY DEF IInv, TypeOK, DeleteObjectFails
    <3> QED
      BY <3>1, PurgerGotoType DEF PurgerStep
  <2> QED
    BY <1>1, <2>1, <2>2 DEF IInv, TypeOK, DeleteObjectFails, OnlyPurgers, deviceVars,
        grantVars, ledgerVars, readerVars
<1>4. CallInv'
  BY <1>1, <1>2 DEF IInv, CallInv, CallOK, PurgeOK, DeleteObjectFails, OnlyPurgers,
      ledgerVars, grantVars, deviceVars
<1>5. PurgerInv'
  BY DEF IInv, PurgerInv, PurgeOK, DeleteObjectFails, grantVars, ledgerVars,
      OnlyPurgers, PurgerGoto
<1>6. PhotoAvailable'
  BY <1>1, <1>2 DEF IInv, TypeOK, Message, PhotoAvailable, PurgeOK, DeleteObjectFails,
      OnlyPurgers
<1>7. NoOrphanPhoto'
  BY DEF IInv, NoOrphanPhoto, Attached, DeleteObjectFails, ledgerVars, OnlyPurgers
<1>8. /\ RowsInv' /\ GrantInv' /\ OneHolder' /\ InsertedInv' /\ ReaderInv'
      /\ SignedInv' /\ StoredOnce' /\ NoMessageSkipped'
  BY DEF IInv, RowsInv, GrantInv, OneHolder, InsertedInv, ReaderInv, SignedInv,
      StoredOnce, NoMessageSkipped, Attached, NewRow, Exists, DeleteObjectFails,
      grantVars, ledgerVars, readerVars, OnlyPurgers
<1> QED
  BY <1>3, <1>4, <1>5, <1>6, <1>7, <1>8 DEF IInv

\* The deletion of the rows preserves it: their object is gone for good.
LEMMA DeleteRowsStep ==
    ASSUME IInv, NEW p \in Purgers, DeleteRows(p)
    PROVE  IInv'
<1>1. PurgeOK(p) /\ purger[p].step = "rows" /\ purger[p].upload \in Uploads
  BY DEF IInv, PurgerInv, DeleteRows, PurgeOK, TypeOK
<1>2. messages' \subseteq messages /\ reservations' \subseteq reservations
  BY DEF DeleteRows
<1>3. /\ \A u \in reservations : u # purger[p].upload => u \in reservations'
      /\ purger[p].upload \in reservations => purger[p].table = "uploads"
  BY <1>1 DEF DeleteRows, PurgeOK
<1>4. \A r \in messages : r \notin messages' =>
        r.photo = purger[p].upload /\ r.expiresAt <= now
  BY <1>1 DEF DeleteRows, PurgeOK
<1>5. UNCHANGED <<now, issued, grantExpiresAt, lastPurgeAttemptAt, objects, nextSequence,
                  call, cursor, signedUntil>>
  BY DEF DeleteRows, OnlyPurgers, grantVars, readerVars
<1>6. grantExpiresAt[purger[p].upload] <= now /\ purger[p].upload \notin objects
  BY <1>1 DEF PurgeOK
<1>7. now \in Nat /\ grantExpiresAt[purger[p].upload] \in Nat
  BY <1>1 DEF IInv, TypeOK
<1>8. TypeOK'
  BY ConstantsAssumption DEF IInv, TypeOK, DeleteRows, deviceVars, grantVars,
      readerVars, OnlyPurgers, PurgerReturn, IdlePurger, Message, ReceiptStatus,
      Purger, PurgerStep
<1>9. RowsInv'
  BY DEF IInv, RowsInv, DeleteRows, grantVars, OnlyPurgers
<1>10. GrantInv'
  BY <1>2, <1>3, <1>4, <1>5, <1>6, <1>7 DEF IInv, GrantInv, Attached
<1>11. CallInv'
  BY DEF IInv, CallInv, CallOK, DeleteRows, deviceVars, grantVars, OnlyPurgers
<1>12. InsertedInv'
  <2>1. \A c \in Calls : call[c].step = "inserted" /\ call[c].photo # None =>
          call[c].photo # purger[p].upload
    BY <1>1 DEF IInv, InsertedInv, NewRow, PurgeOK
  <2> QED
    BY <1>2, <1>3, <1>5, <2>1 DEF IInv, InsertedInv, NewRow, Exists
<1>13. PurgerInv'
  BY DEF IInv, PurgerInv, PurgeOK, DeleteRows, grantVars, OnlyPurgers, PurgerReturn,
      IdlePurger
<1>14. SignedInv'
  BY <1>2, <1>4, <1>5, <1>7 DEF IInv, TypeOK, Message, SignedInv
<1>15. PhotoAvailable'
  BY DEF IInv, PhotoAvailable, DeleteRows, OnlyPurgers
<1>16. NoOrphanPhoto'
  BY <1>3, <1>4, <1>5, <1>6 DEF IInv, NoOrphanPhoto, Attached
<1>17. StoredOnce'
  BY DEF IInv, StoredOnce, DeleteRows, OnlyPurgers
<1>18. NoMessageSkipped'
  BY DEF IInv, NoMessageSkipped, DeleteRows, readerVars, OnlyPurgers
<1>19. /\ OneHolder' /\ ReaderInv'
  BY DEF IInv, OneHolder, ReaderInv, DeleteRows, readerVars, OnlyPurgers
<1> QED
  BY <1>8, <1>9, <1>10, <1>11, <1>12, <1>13, <1>14, <1>15, <1>16, <1>17, <1>18, <1>19
      DEF IInv

\* A deletion of rows that fails preserves it.
LEMMA DeleteRowsFailsStep ==
    ASSUME IInv, NEW p \in Purgers, DeleteRowsFails(p)
    PROVE  IInv'
<1>1. TypeOK'
  <2>1. faults' \in 0 .. MaxFaults
    BY ConstantsAssumption DEF IInv, TypeOK, DeleteRowsFails, Fault
  <2>2. purger' \in [Purgers -> Purger]
    <3>1. purger \in [Purgers -> Purger] /\ PurgerGoto(p, "error")
      BY DEF IInv, TypeOK, DeleteRowsFails
    <3> QED
      BY <3>1, PurgerGotoType DEF PurgerStep
  <2> QED
    BY <2>1, <2>2 DEF IInv, TypeOK, DeleteRowsFails, OnlyPurgers, deviceVars,
        grantVars, ledgerVars, readerVars
<1>2. PurgerInv'
  BY DEF IInv, PurgerInv, PurgeOK, DeleteRowsFails, grantVars, ledgerVars,
      OnlyPurgers, PurgerGoto
<1>3. /\ RowsInv' /\ GrantInv' /\ OneHolder' /\ CallInv' /\ InsertedInv'
      /\ ReaderInv' /\ SignedInv' /\ PhotoAvailable' /\ NoOrphanPhoto'
      /\ StoredOnce' /\ NoMessageSkipped'
  BY DEF IInv, RowsInv, GrantInv, OneHolder, CallInv, InsertedInv, ReaderInv,
      SignedInv, PhotoAvailable, NoOrphanPhoto, StoredOnce, NoMessageSkipped,
      Attached, CallOK, NewRow, Exists, DeleteRowsFails, deviceVars, grantVars,
      ledgerVars, readerVars, OnlyPurgers
<1> QED
  BY <1>1, <1>2, <1>3 DEF IInv

\* The catch block preserves it: it only marks rows that are marked already.
LEMMA RecordErrorStep ==
    ASSUME IInv, NEW p \in Purgers, RecordError(p)
    PROVE  IInv'
<1>1. PurgeOK(p) /\ purger[p].step = "error" /\ purger[p].upload \in Uploads
  BY DEF IInv, PurgerInv, RecordError, PurgeOK, TypeOK
<1>2. purger[p].batchNow # Null
  BY <1>1 DEF PurgeOK, Null, IInv, TypeOK, Purger
<1>3. /\ UNCHANGED <<now, issued, grantExpiresAt, reservations, objects, messages, call,
                     nextSequence, cursor, activeDevices>>
      /\ \A q \in Purgers : q # p => purger'[q] = purger[q]
      /\ purger'[p] = IdlePurger
  BY DEF RecordError, OnlyPurgers, PurgerReturn, grantVars, readerVars, deviceVars,
      IInv, TypeOK
<1>4. \A u \in Uploads :
        \/ lastPurgeAttemptAt'[u] = lastPurgeAttemptAt[u]
        \/ u = purger[p].upload /\ u \in reservations /\ lastPurgeAttemptAt'[u] # Null
  BY <1>1, <1>2 DEF RecordError, IInv, TypeOK
<1>5. TypeOK'
  BY ConstantsAssumption DEF IInv, TypeOK, RecordError, deviceVars, grantVars,
      readerVars, OnlyPurgers, PurgerReturn, IdlePurger, Purger, PurgerStep
<1>6. CallInv'
  BY <1>3, <1>4 DEF IInv, TypeOK, CallInv, CallOK
<1>7. InsertedInv'
  <2>1. \A c \in Calls : call[c].step = "inserted" /\ call[c].photo # None =>
          call[c].photo # purger[p].upload /\ call[c].photo \in Uploads
    BY <1>1 DEF IInv, TypeOK, InsertedInv, NewRow, PurgeOK
  <2> QED
    BY <1>3, <1>4, <2>1 DEF IInv, InsertedInv, NewRow, Exists
<1>8. PurgerInv'
  <2> SUFFICES ASSUME NEW q \in Purgers
               PROVE  PurgeOK(q)'
    BY DEF PurgerInv
  <2>1. CASE q = p
    BY <1>3, <2>1 DEF PurgeOK, IdlePurger
  <2>2. CASE q # p
    BY <1>3, <1>4, <2>2 DEF PurgeOK, PurgerInv, IInv, TypeOK
  <2> QED
    BY <2>1, <2>2
<1>9. /\ RowsInv' /\ GrantInv' /\ OneHolder' /\ ReaderInv' /\ SignedInv'
      /\ PhotoAvailable' /\ NoOrphanPhoto' /\ StoredOnce' /\ NoMessageSkipped'
  BY DEF IInv, RowsInv, GrantInv, OneHolder, ReaderInv, SignedInv, PhotoAvailable,
      NoOrphanPhoto, StoredOnce, NoMessageSkipped, Attached, RecordError, grantVars,
      readerVars, OnlyPurgers
<1> QED
  BY <1>5, <1>6, <1>7, <1>8, <1>9 DEF IInv

\* The death of a purge preserves it.
LEMMA CrashPurgerStep ==
    ASSUME IInv, NEW p \in Purgers, CrashPurger(p)
    PROVE  IInv'
<1>1. TypeOK'
  BY ConstantsAssumption DEF IInv, TypeOK, CrashPurger, deviceVars, grantVars,
      ledgerVars, readerVars, OnlyPurgers, PurgerReturn, IdlePurger, Fault, Purger,
      PurgerStep
<1>2. PurgerInv'
  BY DEF IInv, PurgerInv, PurgeOK, CrashPurger, grantVars, ledgerVars, OnlyPurgers,
      PurgerReturn, IdlePurger
<1>3. /\ RowsInv' /\ GrantInv' /\ OneHolder' /\ CallInv' /\ InsertedInv'
      /\ ReaderInv' /\ SignedInv' /\ PhotoAvailable' /\ NoOrphanPhoto'
      /\ StoredOnce' /\ NoMessageSkipped'
  BY DEF IInv, RowsInv, GrantInv, OneHolder, CallInv, InsertedInv, ReaderInv,
      SignedInv, PhotoAvailable, NoOrphanPhoto, StoredOnce, NoMessageSkipped,
      Attached, CallOK, NewRow, Exists, CrashPurger, deviceVars, grantVars,
      ledgerVars, readerVars, OnlyPurgers
<1> QED
  BY <1>1, <1>2, <1>3 DEF IInv

\* The passing of time preserves it.
LEMMA TickStep ==
    ASSUME IInv, Tick
    PROVE  IInv'
<1>1. TypeOK'
  BY ConstantsAssumption DEF IInv, TypeOK, Tick, deviceVars, grantVars, ledgerVars,
      readerVars
<1>2. GrantInv'
  BY ConstantsAssumption DEF IInv, TypeOK, GrantInv, Attached, Tick, grantVars,
      ledgerVars
<1>3. PurgerInv'
  BY DEF IInv, TypeOK, PurgerInv, Message, Purger, PurgeOK, Tick, grantVars,
      ledgerVars
<1>4. SignedInv'
  BY DEF IInv, TypeOK, SignedInv, Tick, readerVars
<1>5. PhotoAvailable'
  BY DEF IInv, TypeOK, PhotoAvailable, Message, Tick
<1>6. NoMessageSkipped'
  BY DEF IInv, TypeOK, NoMessageSkipped, Message, Tick, readerVars
<1>7. /\ RowsInv' /\ OneHolder' /\ CallInv' /\ InsertedInv' /\ ReaderInv'
      /\ NoOrphanPhoto' /\ StoredOnce'
  BY DEF IInv, RowsInv, OneHolder, CallInv, InsertedInv, ReaderInv, NoOrphanPhoto,
      StoredOnce, CallOK, NewRow, Exists, Attached, Tick, deviceVars, grantVars,
      ledgerVars, readerVars
<1> QED
  BY <1>1, <1>2, <1>3, <1>4, <1>5, <1>6, <1>7 DEF IInv

\* Initial states satisfy the invariant.
LEMMA InitInv == Init => IInv
<1> SUFFICES ASSUME Init
             PROVE  IInv
  OBVIOUS
<1>1. TypeOK
  <2>1. IdleCall \in Call /\ IdlePurger \in Purger
    BY DEF Call, CallStep, IdleCall, Purger, PurgerStep, IdlePurger
  <2>2. call \in [Calls -> Call] /\ purger \in [Purgers -> Purger]
    BY <2>1 DEF Init
  <2>3. /\ first \in [Readers -> Nat] /\ cursor \in [Readers -> Nat]
        /\ seen \in [Readers -> SUBSET Nat]
    BY DEF Init
  <2>4. /\ grantUser \in [Uploads -> Users \cup {None}]
        /\ grantExpiresAt \in [Uploads -> Nat] /\ lastPurgeAttemptAt \in [Uploads -> Nat]
        /\ attachmentAttemptAt \in [Uploads -> Nat] /\ signedUntil \in [Uploads -> Nat]
    BY DEF Init, Null
  <2> QED
    BY <2>2, <2>3, <2>4, ConstantsAssumption DEF Init, TypeOK
<1>2. /\ RowsInv /\ GrantInv /\ PhotoAvailable /\ NoOrphanPhoto /\ StoredOnce
      /\ NoMessageSkipped
  BY DEF Init, RowsInv, GrantInv, PhotoAvailable, NoOrphanPhoto, StoredOnce,
      NoMessageSkipped
<1>3. OneHolder /\ CallInv /\ InsertedInv
  BY DEF Init, OneHolder, CallInv, CallOK, InsertedInv, IdleCall
<1>4. PurgerInv
  BY DEF Init, PurgerInv, PurgeOK, IdlePurger
<1>5. ReaderInv /\ SignedInv
  BY DEF Init, ReaderInv, SignedInv
<1> QED
  BY <1>1, <1>2, <1>3, <1>4, <1>5 DEF IInv

\* Every step preserves the invariant.
LEMMA NextInv == IInv /\ [Next]_vars => IInv'
<1> SUFFICES ASSUME IInv, [Next]_vars
             PROVE  IInv'
  OBVIOUS
<1>1. CASE UNCHANGED vars
  BY <1>1 DEF vars, deviceVars, grantVars, ledgerVars, readerVars, IInv, TypeOK,
      RowsInv, GrantInv, OneHolder, CallInv, CallOK, InsertedInv, NewRow, PurgerInv,
      PurgeOK, ReaderInv, SignedInv, PhotoAvailable, NoOrphanPhoto, StoredOnce,
      NoMessageSkipped, Attached, Exists
<1>2. CASE UploadNext
  BY <1>2, RequestUploadStep, PutPhotoStep DEF UploadNext
<1>3. CASE SendNext
  BY <1>3, SendStep, PrepareAttachmentStep, AssertUploadedStep, LockCurrentStep,
      LockDevicesStep, InsertMessageStep, CommitMessageStep, AbortCallStep
      DEF SendNext
<1>4. CASE ReadNext
  BY <1>4, ListMessagesStep, UpdateReceiptStep DEF ReadNext
<1>5. CASE ConversationChanges \/ DeviceChanges \/ Tick
  BY <1>5, ConversationChangesStep, DeviceChangesStep, TickStep
<1>6. CASE RetentionNext
  <2>1. CASE PurgeTexts \/ SomeSelectDue
    BY <2>1, PurgeTextsStep, SelectDueStep DEF SomeSelectDue
  <2>2. ASSUME NEW p \in Purgers, AdvancePurger(p)
        PROVE  IInv'
    BY <2>2, ClaimUploadStep, ClaimAttachmentStep, DeleteObjectStep, DeleteRowsStep,
        RecordErrorStep DEF AdvancePurger
  <2>3. ASSUME NEW p \in Purgers,
               DeleteObjectFails(p) \/ DeleteRowsFails(p) \/ CrashPurger(p)
        PROVE  IInv'
    BY <2>3, DeleteObjectFailsStep, DeleteRowsFailsStep, CrashPurgerStep
  <2> QED
    BY <1>6, <2>1, <2>2, <2>3 DEF RetentionNext
<1> QED
  BY <1>1, <1>2, <1>3, <1>4, <1>5, <1>6 DEF Next

-----------------------------------------------------------------------------
(* Theorems.                                                               *)

\* The invariant holds in every reachable state.
THEOREM Invariance == Spec => []IInv
BY InitInv, NextInv, PTL DEF Spec

\* Every variable keeps its type.
THEOREM TypeCorrect == Spec => []TypeOK
<1>1. IInv => TypeOK
  BY DEF IInv
<1> QED
  BY <1>1, Invariance, PTL

\* A live message with a photo has its object: no interleaving of send, the PUT
\* and the purges of retention.service.ts takes it away.
THEOREM PhotosAvailable == Spec => []PhotoAvailable
<1>1. IInv => PhotoAvailable
  BY DEF IInv
<1> QED
  BY <1>1, Invariance, PTL

\* Every object in the storage has a row that leads the retention worker to it,
\* wherever a purge fails or the process dies.
THEOREM NoOrphans == Spec => []NoOrphanPhoto
<1>1. IInv => NoOrphanPhoto
  BY DEF IInv
<1> QED
  BY <1>1, Invariance, PTL

\* A download signed by listMessages finds its object until it runs out.
THEOREM SignedDownloads == Spec => []SignedDownloadServes
<1>1. IInv => SignedDownloadServes
  <2> SUFFICES ASSUME IInv, NEW u \in Uploads, now < signedUntil[u]
               PROVE  u \in objects
    BY DEF SignedDownloadServes
  <2>1. PICK r \in messages : r.photo = u /\ signedUntil[u] <= r.expiresAt
    BY DEF IInv, TypeOK, SignedInv
  <2>2. now < r.expiresAt
    BY <2>1 DEF IInv, TypeOK, Message
  <2> QED
    BY <2>1, <2>2, ConstantsAssumption DEF IInv, PhotoAvailable
<1> QED
  BY <1>1, Invariance, PTL

\* However often and concurrently send is called for a message, it is stored
\* once, and no photo belongs to two messages.
THEOREM StoredOncePerKey == Spec => []StoredOnce
<1>1. IInv => StoredOnce
  BY DEF IInv
<1> QED
  BY <1>1, Invariance, PTL

\* A reader that pages forward with nextAfterSequence misses no live message,
\* because the advisory locks of send make sequence numbers commit in order.
THEOREM NothingSkipped == Spec => []NoMessageSkipped
<1>1. IInv => NoMessageSkipped
  BY DEF IInv
<1> QED
  BY <1>1, Invariance, PTL

\* The rows of messages change in four actions only.
LEMMA RowsChange ==
    ASSUME [Next]_vars
    PROVE  \/ UNCHANGED messages
           \/ \E c \in Calls : CommitMessage(c)
           \/ \E r \in messages, s \in Requested : UpdateReceipt(r, s)
           \/ PurgeTexts
           \/ \E p \in Purgers : DeleteRows(p)
<1>1. CASE UNCHANGED vars
  BY <1>1 DEF vars
<1>2. CASE UploadNext
  BY <1>2 DEF UploadNext, PutPhoto, RequestUpload
<1>3. CASE SendNext
  BY <1>3 DEF SendNext, Send, PrepareAttachment, AssertUploaded, AbortCall,
      InsertMessage, LockCurrent, LockDevices, OnlyCalls
<1>4. CASE ReadNext
  BY <1>4 DEF ReadNext, ListMessages
<1>5. CASE ConversationChanges \/ DeviceChanges \/ Tick
  BY <1>5 DEF ConversationChanges, DeviceChanges, Tick
<1>6. CASE RetentionNext
  BY <1>6 DEF RetentionNext, SomeSelectDue, AdvancePurger, SelectDue, ClaimUpload,
      ClaimAttachment, DeleteObject, RecordError, DeleteObjectFails, DeleteRowsFails,
      CrashPurger
<1> QED
  BY <1>1, <1>2, <1>3, <1>4, <1>5, <1>6 DEF Next

\* send commits a message with one envelope for each device that is active at
\* that moment, because a change of the devices waits for the same locks.
THEOREM EnvelopesComplete == Spec => EveryDeviceAddressed
<1> DEFINE Addressed ==
      \A r \in messages' :
        (\A s \in messages : s.sequence # r.sequence) => r.envelopes = activeDevices
<1>1. ASSUME IInv, [Next]_vars
      PROVE  Addressed
  <2>1. ASSUME NEW c \in Calls, CommitMessage(c)
        PROVE  Addressed
    <3>1. Inserted(c).envelopes = activeDevices
      BY <1>1, <2>1 DEF IInv, CallInv, CallOK, CommitMessage, Inserted
    <3>2. messages' \subseteq messages \cup {Inserted(c)}
      BY <2>1 DEF CommitMessage
    <3> QED
      BY <3>1, <3>2
  <2>2. ASSUME NEW q \in messages, NEW t \in Requested, UpdateReceipt(q, t)
        PROVE  Addressed
    <3>1. [q EXCEPT !.receipt = t].sequence = q.sequence
      BY <1>1 DEF IInv, TypeOK, Message
    <3>2. messages' = (messages \ {q}) \cup {[q EXCEPT !.receipt = t]}
      BY <2>2 DEF UpdateReceipt
    <3> QED
      BY <3>1, <3>2
  <2>3. CASE messages' \subseteq messages
    BY <2>3
  <2>4. CASE PurgeTexts \/ \E p \in Purgers : DeleteRows(p)
    <3>1. messages' \subseteq messages
      BY <2>4 DEF PurgeTexts, DeleteRows
    <3> QED
      BY <2>3, <3>1
  <2> QED
    BY <1>1, <2>1, <2>2, <2>3, <2>4, RowsChange
<1>2. IInv /\ [Next]_vars => [Addressed]_vars
  BY <1>1
<1> QED
  BY <1>2, Invariance, PTL DEF Spec, EveryDeviceAddressed

\* A message stays, but for a receipt that only advances, until it has expired
\* and its photo is gone: every purge deletes the object before the rows.
THEOREM MessagesKept == Spec => KeptUntilExpiry
<1> DEFINE Kept(r) ==
      \/ \E s \in ReceiptStatus :
           Rank(r.receipt) <= Rank(s) /\ [r EXCEPT !.receipt = s] \in messages'
      \/ r.expiresAt <= now /\ r.photo \notin objects
<1>1. ASSUME IInv, [Next]_vars, NEW r \in messages
      PROVE  Kept(r)
  <2>1. r \in Message /\ r.receipt \in ReceiptStatus
    BY <1>1 DEF IInv, TypeOK, Message
  <2>2. \A s \in ReceiptStatus : Rank(s) \in Nat
    BY DEF ReceiptStatus, Rank
  <2>3. ASSUME r \in messages'
        PROVE  Kept(r)
    <3>1. [r EXCEPT !.receipt = r.receipt] = r
      BY <2>1 DEF Message
    <3>2. Rank(r.receipt) <= Rank(r.receipt)
      BY <2>1, <2>2
    <3> HIDE DEF Rank
    <3> QED
      BY <2>1, <2>3, <3>1, <3>2
  <2>4. ASSUME NEW c \in Calls, CommitMessage(c)
        PROVE  Kept(r)
    <3>1. r \in messages'
      BY <2>4 DEF CommitMessage
    <3> QED
      BY <2>3, <3>1
  <2>5. ASSUME NEW q \in messages, NEW t \in Requested, UpdateReceipt(q, t)
        PROVE  Kept(r)
    <3>1. CASE r # q
      <4>1. r \in messages'
        BY <2>5, <3>1 DEF UpdateReceipt
      <4> QED
        BY <2>3, <4>1
    <3>2. CASE r = q
      <4>1. t \in ReceiptStatus
        BY ConstantsAssumption DEF ReceiptStatus
      <4>2. Rank(r.receipt) < Rank(t) /\ [r EXCEPT !.receipt = t] \in messages'
        BY <2>5, <3>2 DEF UpdateReceipt
      <4>3. Rank(r.receipt) <= Rank(t)
        BY <2>1, <2>2, <4>1, <4>2
      <4> QED
        BY <4>1, <4>2, <4>3
    <3> QED
      BY <3>1, <3>2
  <2>6. CASE PurgeTexts
    <3>1. CASE r.photo # None \/ r.expiresAt > now
      <4>1. r \in messages'
        BY <2>6, <3>1 DEF PurgeTexts
      <4> QED
        BY <2>3, <4>1
    <3>2. CASE r.photo = None /\ ~(r.expiresAt > now)
      BY <1>1, <2>1, <3>2, ConstantsAssumption DEF IInv, TypeOK, Message
    <3> QED
      BY <3>1, <3>2
  <2>7. ASSUME NEW p \in Purgers, DeleteRows(p), r \notin messages'
        PROVE  Kept(r)
    <3>1. PurgeOK(p) /\ purger[p].step = "rows"
      BY <1>1, <2>7 DEF IInv, PurgerInv, DeleteRows
    <3>2. r.photo = purger[p].upload
      BY <2>7 DEF DeleteRows
    <3> QED
      BY <3>1, <3>2 DEF PurgeOK
  <2> QED
    BY <1>1, <2>3, <2>4, <2>5, <2>6, <2>7, RowsChange
<1>2. IInv /\ [Next]_vars => [\A r \in messages : Kept(r)]_vars
  BY <1>1
<1> QED
  BY <1>2, Invariance, PTL DEF Spec, KeptUntilExpiry

\* Photos of live messages and of signed downloads are stored, and none is
\* orphaned, for any number of uploads, calls, purges and faults.
THEOREM PhotosAreSafe == Spec => []PhotosSafe
<1>1. PhotoAvailable /\ NoOrphanPhoto /\ SignedDownloadServes => PhotosSafe
  BY DEF PhotosSafe
<1> QED
  BY <1>1, PhotosAvailable, NoOrphans, SignedDownloads, PTL
=============================================================================
