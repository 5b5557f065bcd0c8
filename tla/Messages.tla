------------------------------ MODULE Messages ------------------------------
(***************************************************************************)
(* The messages of one conversation, for the 48 hours that they live.      *)
(*                                                                         *)
(*   messages/messages.service.ts    requestUpload, send, listMessages,    *)
(*                                   updateReceipt                         *)
(*   retention/retention.service.ts  the purge of text messages, of        *)
(*                                   uploads nobody used and of photos     *)
(*                                                                         *)
(* An element of Ids is the unique key of a message, its sender device and *)
(* clientMessageId; a call of send that is repeated has the same key.  An  *)
(* element of Uploads is a reservation, its object key and the attachment  *)
(* row that may take its place.                                            *)
(*                                                                         *)
(* Messages are sent in READ COMMITTED transactions.  Their wait for the   *)
(* advisory locks of both participants and what they do under them are     *)
(* kept as steps (wait, locked, inserted, committed), so that time may     *)
(* pass and others may run between them.  Every other transaction or       *)
(* statement is one action, and so is every call to the object storage.    *)
(***************************************************************************)
EXTENDS Naturals, FiniteSets

CONSTANTS
    Ids,
    Uploads,
    ClientDevices, CashierDevices,  \* devices of the two participants
    SenderDevice,    \* the device of each key
    Readers,         \* devices that list the conversation
    Requested,       \* receipt states that recipients report
    Calls,           \* calls of send
    Purgers,         \* calls of purgeAbandonedUpload or purgeAttachment
    None,
    MAX_PENDING,     \* MAX_PENDING_ATTACHMENTS_PER_USER
    PageLimit,       \* largest page of a listing
    GrantTTL,        \* lifetime of an upload grant (10 min)
    MessageTTL,      \* lifetime of a message (48 h)
    SignedTTL,       \* longest lifetime of a signed download (60 s)
    RETRY_DELAY,     \* delay before a purge is retried (60 s)
    MaxTime,         \* bound: the clock runs past it only to reach a deadline
    MaxSequence,     \* bound: sequence numbers drawn
    MaxFaults        \* bound: crashes, storage failures and failed writes

Devices == ClientDevices \cup CashierDevices

ASSUME ConstantsAssumption ==
    /\ IsFiniteSet(Ids) /\ IsFiniteSet(Devices)
    /\ ClientDevices \cap CashierDevices = {}
    /\ SenderDevice \in [Ids -> Devices] /\ Readers \subseteq Devices
    /\ Requested \subseteq {"DELIVERED", "READ"}
    /\ None \notin Uploads /\ None \notin Ids
    /\ MAX_PENDING \in Nat \ {0} /\ PageLimit \in Nat \ {0}
    /\ GrantTTL \in Nat \ {0} /\ MessageTTL \in Nat /\ MessageTTL >= GrantTTL
    /\ SignedTTL \in Nat \ {0} /\ RETRY_DELAY \in Nat \ {0}
    /\ MaxTime \in Nat /\ MaxSequence \in Nat /\ MaxFaults \in Nat

VARIABLES
    now,            \* the database clock
    faults,         \* faults so far (bounded by MaxFaults)
    usable,         \* the conversation is active and both accounts eligible
    activeDevices, revokedDevices,  \* devices by status
    issued,         \* reservation ids already minted
    grantUser, grantExpiresAt,  \* what the signed grant says
    reservations,   \* rows of pending_attachment_uploads
    lastPurgeAttemptAt,         \* their column, Null when never tried
    objects,        \* object keys present in the storage
    nextSequence,   \* the sequence of messages.server_sequence
    messages,       \* rows of messages, with attachment, envelopes, receipt
    attachmentAttemptAt,  \* last_purge_attempt_at of the attachment rows
    signedUntil,    \* end of the latest signed download of each object
    opened,         \* devices that have listed the conversation
    first, cursor,  \* start of their first page, and nextAfterSequence
    seen,           \* sequence numbers of the messages they were given
    call,           \* calls of send in flight
    purger          \* purges in flight

deviceVars  == <<activeDevices, revokedDevices>>
grantVars   == <<issued, grantUser, grantExpiresAt>>
ledgerVars  == <<reservations, lastPurgeAttemptAt>>
readerVars  == <<opened, first, cursor, seen, signedUntil>>
vars == <<now, faults, usable, deviceVars, grantVars, ledgerVars, objects,
          nextSequence, messages, attachmentAttemptAt, readerVars, call, purger>>

Null == 0        \* an absent timestamp: the clock starts at 1
Users == {"CLIENT", "CASHIER"}
UserOf(d) == IF d \in ClientDevices THEN "CLIENT" ELSE "CASHIER"
SenderUser(m) == UserOf(SenderDevice[m])

ReceiptStatus == {"SENT", "DELIVERED", "READ"}
Rank(s) == CASE s = "SENT" -> 0 [] s = "DELIVERED" -> 1 [] s = "READ" -> 2

\* A message with its attachment (None for a text), its envelopes, by device,
\* and the receipt of the other participant.
Message == [id : Ids, photo : Uploads \cup {None}, sequence : Nat, expiresAt : Nat,
            envelopes : SUBSET Devices, receipt : ReceiptStatus]

\* The steps of send after the read of the existing row: "prepare" and "head"
\* in prepareAttachment, "lock" before the transaction; inside it "wait" for the
\* advisory locks, "locked" with them, and "inserted" with the row.
CallStep == {"idle", "prepare", "head", "lock", "wait", "locked", "inserted"}
IdleCall == [step |-> "idle", id |-> None, photo |-> None, envelopes |-> {},
             sequence |-> 0, expiresAt |-> 0]

PurgerStep == {"idle", "claim", "delete", "rows", "error"}
IdlePurger == [step |-> "idle", table |-> "uploads", upload |-> None, batchNow |-> 0]

Init ==
    /\ now = 1 /\ faults = 0 /\ usable = TRUE
    /\ activeDevices \in SUBSET Devices /\ revokedDevices = {}
    /\ issued = {} /\ reservations = {} /\ objects = {}
    /\ grantUser = [u \in Uploads |-> None]
    /\ grantExpiresAt = [u \in Uploads |-> 0]
    /\ lastPurgeAttemptAt = [u \in Uploads |-> Null]
    /\ nextSequence = 1
    /\ messages = {}
    /\ attachmentAttemptAt = [u \in Uploads |-> Null]
    /\ signedUntil = [u \in Uploads |-> 0]
    /\ opened = {}
    /\ first = [d \in Readers |-> 0]
    /\ cursor = [d \in Readers |-> 0]
    /\ seen = [d \in Readers |-> {}]
    /\ call = [c \in Calls |-> IdleCall]
    /\ purger = [p \in Purgers |-> IdlePurger]

-----------------------------------------------------------------------------
(* Uploads: requestUpload and the signed PUT                               *)

\* A reservation that a message may still claim.
Unclaimed(u) ==
    /\ u \in reservations
    /\ now < grantExpiresAt[u] /\ lastPurgeAttemptAt[u] = Null

\* The grant runs from a clock read before the transaction, which therefore
\* may leave less than GrantTTL. The advisory lock of the user makes count and
\* insert one step. The conversation is checked again after the signature; a
\* refusal then leaves a reservation whose URL nobody has.
RequestUpload(user, u) ==
    /\ usable /\ u \notin issued
    /\ Cardinality({v \in reservations : grantUser[v] = user /\ Unclaimed(v)}) < MAX_PENDING
    /\ issued' = issued \cup {u}
    /\ grantUser' = [grantUser EXCEPT ![u] = user]
    /\ \E t \in 1 .. GrantTTL : grantExpiresAt' = [grantExpiresAt EXCEPT ![u] = now + t]
    /\ reservations' = reservations \cup {u}
    /\ UNCHANGED <<now, faults, usable, deviceVars, lastPurgeAttemptAt, objects,
                   nextSequence, messages, attachmentAttemptAt, readerVars,
                   call, purger>>

\* The signed PUT may be replayed. If-None-Match makes it fail on a key that
\* exists. Its signature lasts half the grant's lifetime; a transfer begun
\* before that is taken to land before the grant expires.
PutPhoto(u) ==
    /\ u \in issued /\ now < grantExpiresAt[u]
    /\ u \notin objects
    /\ objects' = objects \cup {u}
    /\ UNCHANGED <<now, faults, usable, deviceVars, grantVars, ledgerVars,
                   nextSequence, messages, attachmentAttemptAt, readerVars,
                   call, purger>>

-----------------------------------------------------------------------------
(* Sending: send                                                           *)

Goto(c, s) == call' = [call EXCEPT ![c].step = s]
Return(c) == call' = [call EXCEPT ![c] = IdleCall]

\* The call goes on, or is refused with an exception and changes nothing.
Proceed(c, allowed, s) == IF allowed THEN Goto(c, s) ELSE Return(c)

OnlyCalls == UNCHANGED <<now, faults, usable, deviceVars, grantVars, ledgerVars,
                         objects, nextSequence, messages, attachmentAttemptAt,
                         readerVars, purger>>

\* Mutant: a key is never found again.
ExistsNever(m) == FALSE

\* A row has the key m.
Exists(m) == \E r \in messages : r.id = m

\* A message arrives, for a photo with its upload grant. If a row has its key,
\* acknowledgeExistingMessage compares the two and changes nothing.
Send(c, m, u) ==
    /\ call[c].step = "idle" /\ ~Exists(m)
    /\ call' = [call EXCEPT ![c].step = IF u = None THEN "lock" ELSE "prepare",
                            ![c].id = m, ![c].photo = u]
    /\ OnlyCalls

PrepareAttachment(c) ==
    LET u == call[c].photo
    IN  /\ call[c].step = "prepare"
        /\ Proceed(c, Unclaimed(u) /\ grantUser[u] = SenderUser(call[c].id), "head")
        /\ OnlyCalls

\* Mutant: the object is not looked for.
UploadedUnchecked(u) == TRUE

Uploaded(u) == u \in objects

AssertUploaded(c) ==
    /\ call[c].step = "head"
    /\ Proceed(c, Uploaded(call[c].photo), "lock")
    /\ OnlyCalls

\* Mutant: nobody takes the advisory locks.
LockFreeAlways == TRUE

\* No transaction of send holds the advisory locks of the participants. A
\* change of the devices of either takes that user's lock, too.
LockFree == \A c \in Calls : call[c].step \notin {"locked", "inserted"}

\* Mutant: a device may be missing.
CompleteForKnown(m, e) ==
    /\ SenderDevice[m] \in activeDevices
    /\ \E d \in activeDevices : UserOf(d) # SenderUser(m)
    /\ e # {} /\ e \subseteq activeDevices

\* One envelope for each active device of both participants.
assertCompleteEnvelopes(m, e) ==
    /\ SenderDevice[m] \in activeDevices
    /\ \E d \in activeDevices : UserOf(d) # SenderUser(m)
    /\ e = activeDevices

\* lockConversationAndDevices reads the eligibility before it waits for the
\* advisory locks. The rows it read stay locked, the sender's device among them.
LockCurrent(c) ==
    /\ call[c].step = "lock"
    /\ Proceed(c, usable /\ SenderDevice[call[c].id] \in activeDevices, "wait")
    /\ OnlyCalls

\* The envelopes of the request, those of the devices its sender knew, matter
\* from here on.
LockDevices(c, e) ==
    /\ call[c].step = "wait" /\ LockFree
    /\ IF assertCompleteEnvelopes(call[c].id, e)
       THEN call' = [call EXCEPT ![c].step = "locked", ![c].envelopes = e]
       ELSE Return(c)
    /\ OnlyCalls

\* The claim deletes the reservation, whose row is locked from here on, and the
\* trigger stamps the message with the clock and its expiry. A row with the key
\* aborts the transaction, but not the number drawn, and is acknowledged.
InsertMessage(c) ==
    LET u == call[c].photo
    IN  /\ call[c].step = "locked"
        /\ \/ /\ u # None /\ ~Unclaimed(u)
              /\ Return(c) /\ UNCHANGED nextSequence
           \/ /\ u = None \/ Unclaimed(u)
              /\ nextSequence < MaxSequence /\ nextSequence' = nextSequence + 1
              /\ IF Exists(call[c].id)
                 THEN Return(c)
                 ELSE call' = [call EXCEPT ![c].step = "inserted",
                                           ![c].sequence = nextSequence,
                                           ![c].expiresAt = now + MessageTTL]
        /\ UNCHANGED <<now, faults, usable, deviceVars, grantVars, ledgerVars, objects,
                       messages, attachmentAttemptAt, readerVars, purger>>

Inserted(c) ==
    [id |-> call[c].id, photo |-> call[c].photo, sequence |-> call[c].sequence,
     expiresAt |-> call[c].expiresAt, envelopes |-> call[c].envelopes, receipt |-> "SENT"]

\* The transaction of send commits, unless the conversation stopped to be usable.
CommitMessage(c) ==
    /\ call[c].step = "inserted"
    /\ IF usable
       THEN /\ messages' = messages \cup {Inserted(c)}
            /\ reservations' = reservations \ {call[c].photo}
       ELSE UNCHANGED <<messages, reservations>>
    /\ Return(c)
    /\ UNCHANGED <<now, faults, usable, deviceVars, grantVars, lastPurgeAttemptAt,
                   objects, nextSequence, attachmentAttemptAt, readerVars, purger>>

\* The process dies, or the transaction times out.
AbortCall(c) ==
    /\ call[c].step # "idle"
    /\ Return(c)
    /\ OnlyCalls

-----------------------------------------------------------------------------
(* Reading: listMessages, updateReceipt                                    *)

\* What a device may list: its envelopes of live messages, after the cursor.
Listable(d) ==
    {r \in messages : /\ now < r.expiresAt /\ d \in r.envelopes
                      /\ d \in opened => r.sequence > cursor[d]}

\* The first of rows by sequence number with a cursor, the last without, at most
\* PageLimit of them.
IsPage(page, rows, ascending) ==
    /\ Cardinality(page) = IF Cardinality(rows) < PageLimit THEN Cardinality(rows)
                           ELSE PageLimit
    /\ \A r \in page, s \in rows \ page :
         IF ascending THEN r.sequence < s.sequence ELSE r.sequence > s.sequence

\* Mutant: a download is signed for the full time.
SignedForFull(r) == now + SignedTTL

\* A download is signed for the time the message has left, at most.
SignedFor(r) ==
    IF now + SignedTTL < r.expiresAt THEN now + SignedTTL ELSE r.expiresAt

\* After an empty page the reader asks again with the cursor it had, or 0.
EmptyPage(d) == UNCHANGED <<first, cursor>>

\* A listing, in one transaction whose clock also dates the signatures. The
\* reader asks next for what follows the last message it was given.
ListMessages(d) ==
    /\ usable /\ d \in activeDevices
    /\ \E page \in SUBSET Listable(d) :
         /\ IsPage(page, Listable(d), d \in opened)
         /\ opened' = opened \cup {d}
         /\ seen' = [seen EXCEPT ![d] = @ \cup {r.sequence : r \in page}]
         /\ \/ page = {} /\ EmptyPage(d)
            \/ \E a, z \in page :
                 /\ \A r \in page : a.sequence <= r.sequence /\ r.sequence <= z.sequence
                 /\ cursor' = [cursor EXCEPT ![d] = z.sequence]
                 /\ first' = IF d \in opened THEN first
                             ELSE [first EXCEPT ![d] = a.sequence]
         /\ signedUntil' = [u \in Uploads |->
              IF attachmentAttemptAt[u] = Null /\ \E r \in page : r.photo = u
              THEN SignedFor(CHOOSE r \in page : r.photo = u) ELSE signedUntil[u]]
    /\ UNCHANGED <<now, faults, usable, deviceVars, grantVars, ledgerVars, objects,
                   nextSequence, messages, attachmentAttemptAt, call, purger>>

\* One statement of the recipient.
UpdateReceipt(r, s) ==
    /\ usable /\ now < r.expiresAt /\ Rank(r.receipt) < Rank(s)
    /\ messages' = (messages \ {r}) \cup {[r EXCEPT !.receipt = s]}
    /\ UNCHANGED <<now, faults, usable, deviceVars, grantVars, ledgerVars, objects,
                   nextSequence, attachmentAttemptAt, readerVars, call, purger>>

-----------------------------------------------------------------------------
(* What other parts do meanwhile                                           *)

\* Rows that a transaction has read are locked against updates, but a
\* subscription runs out by itself.
ConversationChanges ==
    /\ usable \/ \A c \in Calls : call[c].step \notin {"wait", "locked", "inserted"}
    /\ usable' = ~usable
    /\ UNCHANGED <<now, faults, deviceVars, grantVars, ledgerVars, objects, nextSequence,
                   messages, attachmentAttemptAt, readerVars, call, purger>>

\* A device is registered or revoked. A revocation that meets a transaction which
\* waits with the row of the device waits for it in turn: PostgreSQL aborts one
\* of the two.
DeviceChanges ==
    /\ LockFree
    /\ \/ \E d \in Devices \ (activeDevices \cup revokedDevices) :
            /\ activeDevices' = activeDevices \cup {d}
            /\ UNCHANGED revokedDevices
       \/ \E d \in activeDevices :
            /\ \A c \in Calls : call[c].step = "wait" => SenderDevice[call[c].id] # d
            /\ activeDevices' = activeDevices \ {d}
            /\ revokedDevices' = revokedDevices \cup {d}
    /\ UNCHANGED <<now, faults, usable, grantVars, ledgerVars, objects, nextSequence,
                   messages, attachmentAttemptAt, readerVars, call, purger>>

-----------------------------------------------------------------------------
(* Retention: retention.service.ts                                         *)

\* The row of the attachment exists; it goes with its message.
Attached(u) == \E r \in messages : r.photo = u

\* Mutant: a purge is not tried again.
DueOnce(column, u, t) == column[u] = Null

\* The purge of u was never tried, or not lately.
Due(column, u, t) == column[u] = Null \/ column[u] + RETRY_DELAY <= t

\* Mutant: uploads still authorized are purged.
AbandonedEarly(u, t) == u \in reservations /\ Due(lastPurgeAttemptAt, u, t)

Abandoned(u, t) ==
    u \in reservations /\ grantExpiresAt[u] <= t /\ Due(lastPurgeAttemptAt, u, t)

ExpiredPhoto(u, t) ==
    /\ \E r \in messages : r.photo = u /\ r.expiresAt <= t
    /\ Due(attachmentAttemptAt, u, t)

OnlyPurgers == UNCHANGED <<now, usable, deviceVars, grantVars, nextSequence, readerVars,
                           call>>
PurgerGoto(p, s) == purger' = [purger EXCEPT ![p].step = s]
PurgerReturn(p) == purger' = [purger EXCEPT ![p] = IdlePurger]
Fault == faults < MaxFaults /\ faults' = faults + 1

\* Mutant: messages are deleted with their attachment rows in cascade.
PurgeTextsCascade ==
    /\ \E r \in messages : r.expiresAt <= now
    /\ messages' = {r \in messages : r.expiresAt > now}
    /\ OnlyPurgers
    /\ UNCHANGED <<faults, ledgerVars, objects, attachmentAttemptAt, purger>>

\* runBatch deletes expired messages without an attachment in one statement.
PurgeTexts ==
    /\ \E r \in messages : r.photo = None /\ r.expiresAt <= now
    /\ messages' = {r \in messages : r.photo # None \/ r.expiresAt > now}
    /\ OnlyPurgers
    /\ UNCHANGED <<faults, ledgerVars, objects, attachmentAttemptAt, purger>>

\* runBatch lists what its clock says is due.
SelectDue(p, u, table) ==
    /\ purger[p].step = "idle"
    /\ IF table = "uploads" THEN Abandoned(u, now) ELSE ExpiredPhoto(u, now)
    /\ purger' = [purger EXCEPT ![p] = [step |-> "claim", table |-> table,
                                        upload |-> u, batchNow |-> now]]
    /\ OnlyPurgers
    /\ UNCHANGED <<faults, ledgerVars, objects, messages, attachmentAttemptAt>>

\* A transaction of send has deleted the reservation and not yet committed.
RowLocked(u) == \E c \in Calls : call[c].step = "inserted" /\ call[c].photo = u

ClaimUpload(p) ==
    LET u == purger[p].upload
        t == purger[p].batchNow
    IN  /\ purger[p].step = "claim" /\ purger[p].table = "uploads" /\ ~RowLocked(u)
        /\ IF Abandoned(u, t)
           THEN /\ lastPurgeAttemptAt' = [lastPurgeAttemptAt EXCEPT ![u] = t]
                /\ PurgerGoto(p, "delete")
           ELSE PurgerReturn(p) /\ UNCHANGED lastPurgeAttemptAt
        /\ OnlyPurgers
        /\ UNCHANGED <<faults, reservations, objects, messages, attachmentAttemptAt>>

ClaimAttachment(p) ==
    LET u == purger[p].upload
        t == purger[p].batchNow
    IN  /\ purger[p].step = "claim" /\ purger[p].table = "attachments"
        /\ IF ExpiredPhoto(u, t)
           THEN /\ attachmentAttemptAt' = [attachmentAttemptAt EXCEPT ![u] = t]
                /\ PurgerGoto(p, "delete")
           ELSE PurgerReturn(p) /\ UNCHANGED attachmentAttemptAt
        /\ OnlyPurgers
        /\ UNCHANGED <<faults, ledgerVars, objects, messages>>

DeleteObject(p) ==
    /\ purger[p].step = "delete"
    /\ objects' = objects \ {purger[p].upload}
    /\ PurgerGoto(p, "rows")
    /\ OnlyPurgers
    /\ UNCHANGED <<faults, ledgerVars, messages, attachmentAttemptAt>>

\* A deletion that fails may have taken effect.
DeleteObjectFails(p) ==
    /\ purger[p].step = "delete" /\ Fault
    /\ objects' \in {objects, objects \ {purger[p].upload}}
    /\ PurgerGoto(p, "error")
    /\ OnlyPurgers
    /\ UNCHANGED <<ledgerVars, messages, attachmentAttemptAt>>

\* The reservation goes; or the attachment and its message, in a transaction.
DeleteRows(p) ==
    LET u == purger[p].upload
        t == purger[p].batchNow
    IN  /\ purger[p].step = "rows"
        /\ IF purger[p].table = "uploads"
           THEN reservations' = reservations \ {u} /\ UNCHANGED messages
           ELSE /\ messages' = {r \in messages : r.photo # u \/ r.expiresAt > t}
                /\ UNCHANGED reservations
        /\ PurgerReturn(p)
        /\ OnlyPurgers
        /\ UNCHANGED <<faults, lastPurgeAttemptAt, objects, attachmentAttemptAt>>

DeleteRowsFails(p) ==
    /\ purger[p].step = "rows" /\ Fault
    /\ PurgerGoto(p, "error")
    /\ OnlyPurgers
    /\ UNCHANGED <<ledgerVars, objects, messages, attachmentAttemptAt>>

\* The catch block stamps the row, if it is still there, with the batch's clock.
RecordError(p) ==
    LET u == purger[p].upload
        t == purger[p].batchNow
    IN  /\ purger[p].step = "error"
        /\ lastPurgeAttemptAt' = IF purger[p].table = "uploads" /\ u \in reservations
                                 THEN [lastPurgeAttemptAt EXCEPT ![u] = t]
                                 ELSE lastPurgeAttemptAt
        /\ attachmentAttemptAt' = IF purger[p].table = "attachments" /\ Attached(u)
                                  THEN [attachmentAttemptAt EXCEPT ![u] = t]
                                  ELSE attachmentAttemptAt
        /\ PurgerReturn(p)
        /\ OnlyPurgers
        /\ UNCHANGED <<faults, reservations, objects, messages>>

CrashPurger(p) ==
    /\ purger[p].step # "idle" /\ Fault
    /\ PurgerReturn(p)
    /\ OnlyPurgers
    /\ UNCHANGED <<ledgerVars, objects, messages, attachmentAttemptAt>>

-----------------------------------------------------------------------------
\* A time somebody waits for.
Deadlines ==
    {grantExpiresAt[u] : u \in reservations} \cup {r.expiresAt : r \in messages}
    \cup {lastPurgeAttemptAt[u] + RETRY_DELAY : u \in reservations}
    \cup {attachmentAttemptAt[u] + RETRY_DELAY : u \in {v \in Uploads : Attached(v)}}

Tick ==
    /\ now < MaxTime \/ \E d \in Deadlines : d > now
    /\ now' = now + 1
    /\ UNCHANGED <<faults, usable, deviceVars, grantVars, ledgerVars, objects, nextSequence,
                   messages, attachmentAttemptAt, readerVars, call, purger>>

UploadNext == \E u \in Uploads : PutPhoto(u) \/ \E user \in Users : RequestUpload(user, u)

SendNext == \E c \in Calls :
    \/ \E m \in Ids, u \in issued \cup {None} : Send(c, m, u)
    \/ PrepareAttachment(c) \/ AssertUploaded(c)
    \/ LockCurrent(c) \/ \E e \in SUBSET Devices : LockDevices(c, e)
    \/ InsertMessage(c) \/ CommitMessage(c) \/ AbortCall(c)

ReadNext ==
    \/ \E d \in Readers : ListMessages(d)
    \/ \E r \in messages, s \in Requested : UpdateReceipt(r, s)

AdvancePurger(p) ==
    \/ ClaimUpload(p) \/ ClaimAttachment(p) \/ DeleteObject(p) \/ DeleteRows(p)
    \/ RecordError(p)

SomeSelectDue == \E p \in Purgers, u \in Uploads, table \in {"uploads", "attachments"} :
    SelectDue(p, u, table)

RetentionNext ==
    \/ PurgeTexts
    \/ SomeSelectDue
    \/ \E p \in Purgers :
         \/ AdvancePurger(p)
         \/ DeleteObjectFails(p) \/ DeleteRowsFails(p) \/ CrashPurger(p)

Next ==
    \/ UploadNext \/ SendNext \/ ReadNext \/ ConversationChanges \/ DeviceChanges
    \/ RetentionNext \/ Tick

Spec == Init /\ [][Next]_vars

\* Time passes, a transaction ends, the interval timer of the retention worker
\* keeps listing what is due, and a purge in flight goes on. Nothing is assumed
\* of users, and faults are finitely many (MaxFaults).
Fairness ==
    /\ WF_vars(Tick)
    /\ \A c \in Calls : WF_vars(CommitMessage(c))
    /\ WF_vars(PurgeTexts) /\ WF_vars(SomeSelectDue)
    /\ \A p \in Purgers : WF_vars(AdvancePurger(p))

FairSpec == Spec /\ Fairness

-----------------------------------------------------------------------------
(* Properties                                                              *)

Call == [step : CallStep, id : Ids \cup {None}, photo : Uploads \cup {None},
         envelopes : SUBSET Devices, sequence : Nat, expiresAt : Nat]
Purger == [step : PurgerStep, table : {"uploads", "attachments"},
           upload : Uploads \cup {None}, batchNow : Nat]

\* Every variable has its type.
TypeOK ==
    /\ now \in Nat \ {0} /\ faults \in 0 .. MaxFaults /\ usable \in BOOLEAN
    /\ activeDevices \subseteq Devices /\ revokedDevices \subseteq Devices
    /\ issued \subseteq Uploads /\ reservations \subseteq issued /\ objects \subseteq issued
    /\ grantUser \in [Uploads -> Users \cup {None}]
    /\ grantExpiresAt \in [Uploads -> Nat]
    /\ lastPurgeAttemptAt \in [Uploads -> Nat]
    /\ nextSequence \in Nat \ {0}
    /\ messages \subseteq Message
    /\ attachmentAttemptAt \in [Uploads -> Nat]
    /\ signedUntil \in [Uploads -> Nat]
    /\ opened \subseteq Readers
    /\ first \in [Readers -> Nat] /\ cursor \in [Readers -> Nat]
    /\ seen \in [Readers -> SUBSET Nat]
    /\ call \in [Calls -> Call] /\ purger \in [Purgers -> Purger]

\* A live message with a photo has its object: send claims a reservation only
\* when the object is there and no purge has begun, and the purge of photos
\* touches only expired messages.
PhotoAvailable ==
    \A r \in messages : now < r.expiresAt /\ r.photo # None => r.photo \in objects

\* Every object in the storage has a row, of a reservation or an attachment,
\* that leads the retention worker to it, although a PUT can be replayed and
\* every step of a purge can fail.
NoOrphanPhoto == \A u \in objects : u \in reservations \/ Attached(u)

\* A download that was signed and has not run out finds its object.
SignedDownloadServes == \A u \in Uploads : now < signedUntil[u] => u \in objects

\* The photo of a live message, or of a download that was signed, is stored, and
\* nothing is stored that no row leads to.
PhotosSafe == PhotoAvailable /\ NoOrphanPhoto /\ SignedDownloadServes

\* However often and concurrently a message is sent, it is stored once, and no
\* photo belongs to two messages.
StoredOnce ==
    \A r, s \in messages :
        r.id = s.id \/ (r.photo = s.photo /\ r.photo # None) => r = s

\* A reader that pages forward with nextAfterSequence misses nothing: between
\* the first message of its first page and its cursor there is no live message
\* for it that it was not given, though numbers are drawn before the commit.
NoMessageSkipped ==
    \A d \in opened, r \in messages :
        /\ now < r.expiresAt /\ d \in r.envelopes
        /\ first[d] <= r.sequence /\ r.sequence <= cursor[d]
        => r.sequence \in seen[d]

\* A message is committed with one envelope for each device that is active at
\* that moment, though devices come and go while it is being sent.
EveryDeviceAddressed ==
    [][\A r \in messages' :
         (\A s \in messages : s.sequence # r.sequence) => r.envelopes = activeDevices]_vars

\* A message stays, unchanged but for a receipt that only advances, until it has
\* expired and its photo is gone from the storage.
KeptUntilExpiry ==
    [][\A r \in messages :
         \/ \E s \in ReceiptStatus :
              Rank(r.receipt) <= Rank(s) /\ [r EXCEPT !.receipt = s] \in messages'
         \/ r.expiresAt <= now /\ r.photo \notin objects]_vars

\* An expired message is deleted.
ExpiredDeleted ==
    \A m \in Ids : (\E r \in messages : r.id = m /\ r.expiresAt <= now)
                   ~> ~ (\E r \in messages : r.id = m /\ r.expiresAt <= now)

\* Every reservation becomes a message or is purged.
ReservationSettled ==
    \A u \in Uploads : u \in reservations ~> u \notin reservations

\* The retention worker gets to every expired message and every reservation.
PurgesEnd == ExpiredDeleted /\ ReservationSettled
=============================================================================
