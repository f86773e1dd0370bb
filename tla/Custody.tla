------------------------------- MODULE Custody -------------------------------
(***************************************************************************)
(* Who holds a message: the rows of `messages` from send to the last copy  *)
(* (hub/src/api/mail.rs, history.rs), the two ways a recipient takes over  *)
(* (ack, and the cursor of a sync), and the receipts a sender is owed.     *)
(*                                                                         *)
(* The hub is at-least-once.  A call may be handled late, twice or never:  *)
(* a send, a receipt or a deletion carries ids only and is handled at any  *)
(* time; acks on their way are kept in `acks`, cursors in `asked`.  Every  *)
(* handler's transaction is one step unless another can come between.  Of  *)
(* an address's change log (ChangeLog) only the entries of mail to it are   *)
(* numbered here.                                                          *)
(*                                                                         *)
(* A row is [n, marks, owed, deletedBy]: messages.n, the rungs reached     *)
(* ("fetched" is state = 'fetched'), NOT receipts_pushed, and the          *)
(* addresses whose copy is deleted.  received_at is set once with n, so n  *)
(* stands for both.                                                        *)
(*                                                                         *)
(* A definition named ...Mutant... is the one after it with a plausible    *)
(* bug; no other definition uses it.                                       *)
(***************************************************************************)
EXTENDS Integers, Sequences, FiniteSets

CONSTANTS
    Address,
    Mail,           \* client-minted message ids
    Poller,         \* v1 clients that poll (hubtool's listener)
    Device,         \* clients that sync
    From, To,       \* the sender and the recipient each id names
    Owner,          \* the address of each client
    PollBatch,      \* POLL_BATCH
    RingSize,       \* ids a listener's ring keeps per hub
    Rung,           \* the rungs receipts report: "delivered", "read"
    MaxN,           \* bound: rows ever inserted
    Late,           \* bound: a device's older calls still on their way
    NoMail          \* no id

ASSUME ConstantsOK ==
    /\ IsFiniteSet(Mail)
    /\ From \in [Mail -> Address]
    /\ To \in [Mail -> Address]
    /\ Owner \in [Poller \cup Device -> Address]
    /\ PollBatch \in Nat \ {0}
    /\ RingSize \in Nat \ {0}
    /\ Rung \subseteq {"delivered", "read"}
    /\ MaxN \in Nat /\ Late \in Nat
    /\ NoMail \notin Mail

NoBase == 0         \* base.unwrap_or(0)

VARIABLES
    row,            \* messages, by id
    lastN,          \* the messages sequence
    seq,            \* the id's entry in its recipient's log, 0 for none
    head,           \* how many entries each address's log got for mail to it
    sending,        \* the send that holds each recipient's identity row
    answered,       \* the n (received_at) its last answered send was given, 0 for none
    acks,           \* acks on their way: sets of ids
    asked,          \* the (cursor, base) of each device's calls on their way
    stage,          \* where each poller's cycle is
    batch,          \* the messages of its poll answer
    receipts,       \* the receipts of its poll answer
    ring,           \* its persisted ring of seen ids
    shown,          \* the messages it ever surfaced
    passed,         \* how many ids its ring took after each one, up to RingSize
    torn,           \* what it surfaced before it died, and has not marked since
    cursor, base,   \* what each device keeps
    answer,         \* the sync answer on its way to each device
    had,            \* the messages a client of the recipient ever had
    left,           \* the messages their recipient ever deleted
    told,           \* the receipts that reached a client of the sender
    missed          \* the receipts whose poll answer was lost

hubVars == <<row, lastN, seq, head, sending, answered>>
ringVars == <<ring, shown, passed, torn>>
pollVars == <<stage, batch, receipts, ringVars>>
syncVars == <<cursor, base, answer, asked>>
history == <<had, left, told, missed>>
vars == <<hubVars, acks, pollVars, syncVars, history>>

NoRow == [n |-> 0, marks |-> {}, owed |-> FALSE, deletedBy |-> {}]
Exists(m) == row[m].n # 0
Fetched(m) == "fetched" \in row[m].marks
Receipt(m) == [id |-> m, n |-> row[m].n, marks |-> row[m].marks]
NoSend == [id |-> NoMail, known |-> FALSE]
NoAnswer == [to |-> 0, base |-> NoBase, mail |-> {}]

Init ==
    /\ row = [m \in Mail |-> NoRow]
    /\ lastN = 0
    /\ seq = [m \in Mail |-> 0]
    /\ head = [a \in Address |-> 0]
    /\ sending = [a \in Address |-> NoSend]
    /\ answered = [m \in Mail |-> 0]
    /\ acks = {}
    /\ asked = [d \in Device |-> {}]
    /\ stage = [p \in Poller |-> "idle"]
    /\ batch = [p \in Poller |-> {}]
    /\ receipts = [p \in Poller |-> {}]
    /\ ring = [p \in Poller |-> << >>]
    /\ shown = [p \in Poller |-> {}]
    /\ passed = [p \in Poller |-> [m \in Mail |-> 0]]
    /\ torn = [p \in Poller |-> {}]
    /\ cursor = [d \in Device |-> 0]
    /\ base = [d \in Device |-> NoBase]
    /\ answer = [d \in Device |-> NoAnswer]
    /\ had = {} /\ left = {} /\ told = {} /\ missed = {}

-----------------------------------------------------------------------------
(* The hub: send, ack, receipts, delete, retention.                        *)

\* log_changes: these messages to address a move to the end of its log, in
\* the order of their n.
Place(ms, m) == Cardinality({k \in ms : row'[k].n <= row'[m].n})
LogChanges(a, ms) ==
    /\ seq' = [m \in Mail |-> IF m \in ms THEN head[a] + Place(ms, m) ELSE seq[m]]
    /\ head' = [head EXCEPT ![a] = @ + Cardinality(ms)]

\* send: the recipient's identity row is locked, then the id is looked up.
SendLookup(m) ==
    /\ sending[To[m]] = NoSend
    /\ sending' = [sending EXCEPT ![To[m]] = [id |-> m, known |-> Exists(m)]]
    /\ UNCHANGED <<row, lastN, seq, head, answered, acks, pollVars, syncVars, history>>

\* A send whose id has no row.
UnstoredMutantUnchecked(a) == sending[a] # NoSend
Unstored(a) == sending[a] # NoSend /\ ~sending[a].known /\ ~Exists(sending[a].id)

\* A new message: the row, its log entry, the commit and the 200.
SendNew(a) ==
    LET m == sending[a].id IN
    /\ Unstored(a)
    /\ lastN < MaxN
    /\ lastN' = lastN + 1
    /\ row' = [row EXCEPT ![m] = [NoRow EXCEPT !.n = lastN + 1]]
    /\ LogChanges(a, {m})
    /\ answered' = [answered EXCEPT ![m] = lastN + 1]
    /\ sending' = [sending EXCEPT ![a] = NoSend]
    /\ UNCHANGED <<acks, pollVars, syncVars, history>>

\* A retry: answered with the row there is.
SendDuplicate(a) ==
    LET m == sending[a].id IN
    /\ sending[a] # NoSend /\ Exists(m)
    /\ answered' = [answered EXCEPT ![m] = row[m].n]
    /\ sending' = [sending EXCEPT ![a] = NoSend]
    /\ UNCHANGED <<row, lastN, seq, head, acks, pollVars, syncVars, history>>

\* The row went between the lookup and the answer (a 500), or the handler
\* failed or was dropped: no answer, nothing stored.
SendFails(a) ==
    /\ sending[a] # NoSend
    /\ sending' = [sending EXCEPT ![a] = NoSend]
    /\ UNCHANGED <<row, lastN, seq, head, answered, acks, pollVars, syncVars, history>>

\* The mail of ms still queued is handed over, and its senders are owed.
HandOverMutantSilent(ms) ==
    row' = [m \in Mail |-> IF m \in ms /\ Exists(m) /\ ~Fetched(m)
                           THEN [row[m] EXCEPT !.marks = @ \cup {"fetched"}]
                           ELSE row[m]]
HandOver(ms) ==
    row' = [m \in Mail |-> IF m \in ms /\ Exists(m) /\ ~Fetched(m)
                           THEN [row[m] EXCEPT !.marks = @ \cup {"fetched"}, !.owed = TRUE]
                           ELSE row[m]]

\* ack: a call that may come again.
Ack(ids) ==
    /\ ids \in acks
    /\ acks' \in {acks, acks \ {ids}}
    /\ HandOver(ids)
    /\ UNCHANGED <<lastN, seq, head, sending, answered, pollVars, syncVars, history>>

AckLost(ids) ==
    /\ ids \in acks
    /\ acks' = acks \ {ids}
    /\ UNCHANGED <<hubVars, pollVars, syncVars, history>>

\* receipts: each rung once, from its reader, for what a client of the reader
\* had; copies the reader deleted stay out of its log.
Receipts(reader, todo) ==
    LET due == {t \in todo : To[t[1]] = reader /\ Exists(t[1]) /\ t[2] \notin row[t[1]].marks}
        changed == {t[1] : t \in due} IN
    /\ due # {}
    /\ row' = [m \in Mail |-> IF m \in changed
                 THEN [row[m] EXCEPT !.marks = @ \cup {t[2] : t \in {x \in due : x[1] = m}}, !.owed = TRUE]
                 ELSE row[m]]
    /\ LogChanges(reader, {m \in changed : reader \notin row[m].deletedBy})
    /\ UNCHANGED <<lastN, sending, answered, acks, pollVars, syncVars, history>>

\* delete_copies, of one message: queued mail its reader deletes counts as
\* handed over; the row goes with its last copy.
DeleteCopy(me, m) ==
    LET mine == me = To[m]
        rest == [row[m] EXCEPT !.deletedBy = @ \cup {me},
                               !.marks = IF mine THEN @ \cup {"fetched"} ELSE @,
                               !.owed = @ \/ (mine /\ ~Fetched(m))]
        last == rest.deletedBy = {From[m], To[m]} IN
    /\ me \in {From[m], To[m]} /\ Exists(m) /\ me \notin row[m].deletedBy
    /\ row' = [row EXCEPT ![m] = IF last THEN NoRow ELSE rest]
    /\ seq' = [seq EXCEPT ![m] = IF mine THEN head[me] + 1 ELSE @]
    /\ head' = [head EXCEPT ![me] = IF mine THEN @ + 1 ELSE @]
    /\ left' = IF mine THEN left \cup {m} ELSE left
    /\ UNCHANGED <<lastN, sending, answered, acks, pollVars, syncVars, had, told, missed>>

\* The retention sweep.  The log entry of a copy its reader deleted stays.
Expire(m) ==
    /\ Exists(m)
    /\ row' = [row EXCEPT ![m] = NoRow]
    /\ seq' = [seq EXCEPT ![m] = IF To[m] \in row[m].deletedBy THEN @ ELSE 0]
    /\ UNCHANGED <<lastN, head, sending, answered, acks, pollVars, syncVars, history>>

-----------------------------------------------------------------------------
(* v1: poll, surface, mark, ack (hub: poll_check; client: hubtool's pump).  *)

\* The oldest PollBatch queued messages of an address.
Queued(a) == {m \in Mail : Exists(m) /\ To[m] = a /\ ~Fetched(m)}
Oldest(a) == {m \in Queued(a) : Cardinality({k \in Queued(a) : row[k].n < row[m].n}) < PollBatch}

\* poll_check, first statement.
PollMail(p) ==
    /\ stage[p] = "idle"
    /\ stage' = [stage EXCEPT ![p] = "polled"]
    /\ batch' = [batch EXCEPT ![p] = Oldest(Owner[p])]
    /\ UNCHANGED <<hubVars, acks, receipts, ringVars, syncVars, history>>

\* Receipts are owed no longer.
ClaimMutantRead(ms) == row' = row
Claim(ms) == row' = [m \in Mail |-> IF m \in ms THEN [row[m] EXCEPT !.owed = FALSE] ELSE row[m]]

\* poll_check, second statement: the owed receipts are claimed and read.
PollReceipts(p) ==
    LET due == {m \in Mail : Exists(m) /\ From[m] = Owner[p] /\ row[m].owed} IN
    /\ stage[p] = "polled"
    /\ stage' = [stage EXCEPT ![p] = "answered"]
    /\ Claim(due)
    /\ receipts' = [receipts EXCEPT ![p] = {Receipt(m) : m \in due}]
    /\ UNCHANGED <<lastN, seq, head, sending, answered, acks, batch, ringVars, syncVars, history>>

Rest(p) ==
    /\ stage' = [stage EXCEPT ![p] = "idle"]
    /\ batch' = [batch EXCEPT ![p] = {}]
    /\ receipts' = [receipts EXCEPT ![p] = {}]

\* Nothing to say: the poll parks and checks again when woken.
PollPark(p) ==
    /\ stage[p] = "answered" /\ batch[p] = {} /\ receipts[p] = {}
    /\ Rest(p)
    /\ UNCHANGED <<hubVars, acks, ringVars, syncVars, history>>

\* peek_fresh: what the ring does not hold.
Fresh(p) == {m \in batch[p] : \A i \in 1..Len(ring[p]) : ring[p][i] # m}

\* The answer arrives: receipts are applied and the fresh messages printed.
Surface(p) ==
    /\ stage[p] = "answered" /\ (batch[p] # {} \/ receipts[p] # {})
    /\ stage' = [stage EXCEPT ![p] = "surfaced"]
    /\ shown' = [shown EXCEPT ![p] = @ \cup Fresh(p)]
    /\ had' = had \cup Fresh(p)
    /\ told' = told \cup receipts[p]
    /\ receipts' = [receipts EXCEPT ![p] = {}]
    /\ UNCHANGED <<hubVars, acks, batch, ring, passed, torn, syncVars, left, missed>>

\* The last RingSize of a ring.
KeepMutantFirst(s) == IF Len(s) <= RingSize THEN s ELSE SubSeq(s, 1, RingSize)
Keep(s) == IF Len(s) <= RingSize THEN s ELSE SubSeq(s, Len(s) - RingSize + 1, Len(s))

\* How many ids a ring took after m, when it takes these.
Behind(p, ids, m) ==
    IF m \in Fresh(p) THEN Len(ids) - CHOOSE i \in DOMAIN ids : ids[i] = m
    ELSE IF passed[p][m] + Len(ids) < RingSize THEN passed[p][m] + Len(ids) ELSE RingSize

\* mark_seen: the fresh ids join the ring, saved in one transaction.  Their
\* order, which decides only what a full ring drops, is left open.
MarkSeen(p) ==
    /\ stage[p] = "surfaced"
    /\ stage' = [stage EXCEPT ![p] = "marked"]
    /\ \E ids \in [1..Cardinality(Fresh(p)) -> Fresh(p)] :
         /\ \A m \in Fresh(p) : \E i \in DOMAIN ids : ids[i] = m
         /\ ring' = [ring EXCEPT ![p] = Keep(@ \o ids)]
         /\ passed' = [passed EXCEPT ![p] = [m \in Mail |-> Behind(p, ids, m)]]
    /\ torn' = [torn EXCEPT ![p] = @ \ Fresh(p)]
    /\ UNCHANGED <<hubVars, acks, batch, receipts, shown, syncVars, history>>

\* The ack, for every id of the answer, seen before or not.
AckedMutantFresh(p) == Fresh(p)
Acked(p) == batch[p]
AskAck(p) ==
    /\ stage[p] = "marked"
    /\ acks' = IF batch[p] = {} THEN acks ELSE acks \cup {Acked(p)}
    /\ Rest(p)
    /\ UNCHANGED <<hubVars, ringVars, syncVars, history>>

\* The answer is lost, or the listener dies: the ring is what it saved.
Crash(p) ==
    /\ stage[p] # "idle"
    /\ missed' = missed \cup receipts[p]
    /\ torn' = IF stage[p] = "surfaced" THEN [torn EXCEPT ![p] = @ \cup Fresh(p)] ELSE torn
    /\ Rest(p)
    /\ UNCHANGED <<hubVars, acks, ring, shown, passed, syncVars, had, left, told>>

-----------------------------------------------------------------------------
(* Sync: the cursor a device calls with says what it holds.                *)

\* The log entries of a device's address in (low, high] that are messages.
BetweenMutantNoBase(a, low, high) == {m \in Mail : Exists(m) /\ To[m] = a /\ seq[m] <= high}
Between(a, low, high) == {m \in Mail : Exists(m) /\ To[m] = a /\ low < seq[m] /\ seq[m] <= high}

\* take_custody, for a call the device made, now or earlier; rows another
\* writer holds are skipped.
TakeCustody(d, call) ==
    /\ call \in asked[d]
    /\ call.cursor <= head[Owner[d]]
    /\ \E locked \in SUBSET Mail :
         HandOver({m \in Between(Owner[d], call.base, call.cursor) : m \notin locked})
    /\ UNCHANGED <<lastN, seq, head, sending, answered, acks, pollVars, syncVars, history>>

\* A call; of the older ones some may still be handled.
Ask(d, c, b) ==
    \E late \in SUBSET asked[d] :
        /\ Cardinality(late) <= Late
        /\ asked' = [asked EXCEPT ![d] = late \cup {[cursor |-> c, base |-> b]}]

\* The cursor a sync is called with: what the device has stored.
CalledMutantAnswered(d) == head[Owner[d]]
Called(d) == cursor[d]

\* A sync answered: everything after the cursor the device called with.
Sync(d) ==
    LET a == Owner[d] IN
    /\ answer[d] = NoAnswer /\ head[a] > cursor[d]
    /\ Ask(d, Called(d), base[d])
    /\ answer' = [answer EXCEPT ![d] =
         [to |-> head[a], base |-> base[d],
          mail |-> {m \in Between(a, cursor[d], head[a]) : a \notin row[m].deletedBy}]]
    /\ UNCHANGED <<hubVars, acks, pollVars, cursor, base, history>>

\* A device's first sync, from now on: no older mail.
NowMutantNoBase(a) == [to |-> head[a], base |-> NoBase, mail |-> {}]
Now(a) == [to |-> head[a], base |-> head[a], mail |-> {}]
SyncFromNow(d) ==
    LET a == Owner[d] IN
    /\ answer[d] = NoAnswer /\ cursor[d] = 0 /\ head[a] > 0
    /\ answer' = [answer EXCEPT ![d] = Now(a)]
    /\ UNCHANGED <<hubVars, acks, pollVars, cursor, base, asked, history>>

\* Nothing new: the call gives custody and parks.
SyncParks(d) ==
    /\ answer[d] = NoAnswer /\ head[Owner[d]] = cursor[d] /\ cursor[d] > 0
    /\ [cursor |-> cursor[d], base |-> base[d]] \notin asked[d]
    /\ Ask(d, Called(d), base[d])
    /\ UNCHANGED <<hubVars, acks, pollVars, cursor, base, answer, history>>

\* The device stores the answer, then its cursor.
SyncArrives(d) ==
    /\ answer[d] # NoAnswer
    /\ had' = had \cup answer[d].mail
    /\ cursor' = [cursor EXCEPT ![d] = answer[d].to]
    /\ base' = [base EXCEPT ![d] = answer[d].base]
    /\ answer' = [answer EXCEPT ![d] = NoAnswer]
    /\ UNCHANGED <<hubVars, acks, pollVars, asked, left, told, missed>>

SyncLost(d) ==
    /\ answer[d] # NoAnswer
    /\ answer' = [answer EXCEPT ![d] = NoAnswer]
    /\ UNCHANGED <<hubVars, acks, pollVars, cursor, base, asked, history>>

\* The device's store is re-created; calls with its old cursor may be on
\* their way.
Reinstall(d) ==
    /\ answer[d] = NoAnswer /\ cursor[d] > 0
    /\ cursor' = [cursor EXCEPT ![d] = 0]
    /\ base' = [base EXCEPT ![d] = NoBase]
    /\ UNCHANGED <<hubVars, acks, pollVars, answer, asked, history>>

-----------------------------------------------------------------------------
Sending ==
    \/ \E m \in Mail : SendLookup(m)
    \/ \E a \in Address : SendNew(a) \/ SendDuplicate(a) \/ SendFails(a)

Reading ==
    \/ \E a \in Address, todo \in SUBSET (had \X Rung) : Receipts(a, todo)
    \/ \E a \in Address, m \in Mail : DeleteCopy(a, m)
    \/ \E m \in Mail : Expire(m)

Acking == \E ids \in SUBSET Mail : Ack(ids) \/ AckLost(ids)

Polling(p) ==
    PollMail(p) \/ PollReceipts(p) \/ PollPark(p) \/ Surface(p) \/ MarkSeen(p) \/ AskAck(p)

Syncing(d) ==
    \/ \E call \in asked[d] : TakeCustody(d, call)
    \/ Sync(d) \/ SyncFromNow(d) \/ SyncParks(d) \/ SyncArrives(d) \/ SyncLost(d) \/ Reinstall(d)

Next ==
    \/ Sending \/ Reading \/ Acking
    \/ \E p \in Poller : Polling(p) \/ Crash(p)
    \/ \E d \in Device : Syncing(d)

Spec == Init /\ [][Next]_vars

\* A listener that keeps running: it polls again and again, and neither every
\* answer nor every ack is lost.
Fairness ==
    /\ \A p \in Poller :
         /\ WF_vars(PollMail(p)) /\ WF_vars(PollPark(p))
         /\ SF_vars(PollReceipts(p)) /\ SF_vars(Surface(p)) /\ SF_vars(MarkSeen(p)) /\ SF_vars(AskAck(p))
    /\ SF_vars(\E ids \in SUBSET Mail : Ack(ids))

FairSpec == Spec /\ Fairness

-----------------------------------------------------------------------------
(* Properties.                                                             *)

Marks == SUBSET {"fetched", "delivered", "read"}
Rows == [n : Nat, marks : Marks, owed : BOOLEAN, deletedBy : SUBSET Address]
ReceiptsSent == [id : Mail, n : Nat, marks : Marks]

(* The variables have their types. *)
TypeOK ==
    /\ row \in [Mail -> Rows]
    /\ lastN \in Nat
    /\ seq \in [Mail -> Nat]
    /\ head \in [Address -> Nat]
    /\ sending \in [Address -> [id : Mail \cup {NoMail}, known : BOOLEAN]]
    /\ answered \in [Mail -> Nat]
    /\ acks \subseteq SUBSET Mail
    /\ asked \in [Device -> SUBSET [cursor : Nat, base : Nat]]
    /\ stage \in [Poller -> {"idle", "polled", "answered", "surfaced", "marked"}]
    /\ batch \in [Poller -> SUBSET Mail]
    /\ receipts \in [Poller -> SUBSET ReceiptsSent]
    /\ ring \in [Poller -> Seq(Mail)]
    /\ shown \in [Poller -> SUBSET Mail]
    /\ passed \in [Poller -> [Mail -> Nat]]
    /\ torn \in [Poller -> SUBSET Mail]
    /\ cursor \in [Device -> Nat]
    /\ base \in [Device -> Nat]
    /\ answer \in [Device -> [to : Nat, base : Nat, mail : SUBSET Mail]]
    /\ had \subseteq Mail /\ left \subseteq Mail
    /\ told \subseteq ReceiptsSent
    /\ missed \subseteq ReceiptsSent

(* Custody moves only to someone: mail leaves the queue when a client of its *)
(* recipient had it or the recipient deleted it, whatever ack or cursor      *)
(* arrives late, twice or from a device since re-created.                    *)
CustodyIsHeld ==
    \A m \in Mail : Fetched(m) => m \in had \/ To[m] \in row[m].deletedBy

(* What a sender hears is true of the message, whatever became of its row:   *)
(* "delivered" and "read" of mail a client of the recipient had, "fetched"   *)
(* of mail it had or the recipient deleted.                                  *)
ToldTheTruth ==
    \A r \in told :
        /\ r.marks \cap {"delivered", "read"} # {} => r.id \in had
        /\ "fetched" \in r.marks => r.id \in had \cup left

(* No rung is forgotten: what a message reached is owed, on its way, told,   *)
(* or went with one lost answer (a poll claims receipts before it answers).  *)
ReceiptsAccounted ==
    \A m \in Mail :
        Exists(m) /\ row[m].marks # {} /\ ~row[m].owed =>
            Receipt(m) \in told \cup missed \cup UNION {receipts[p] : p \in Poller}

(* Two polls of one sender never answer with the same receipt, nor one twice. *)
ReceiptsToldOnce ==
    \A p \in Poller : \A r \in receipts[p] :
        r \notin told \cup missed /\ \A q \in Poller \ {p} : r \notin receipts[q]

(* A retry is answered as the first send was, unless the message it stored   *)
(* is gone by then; an id has one row.                                       *)
AnsweredAsBefore ==
    \A m \in Mail :
        answered'[m] # answered[m] =>
            answered[m] = 0 \/ (answered[m] # row[m].n /\ answered[m] < row'[m].n)
RetryAnswersOriginal == [][AnsweredAsBefore]_vars

(* A listener surfaces a message again only if it died before it marked it,  *)
(* or since then marked RingSize others: a lost ack repeats the delivery,    *)
(* and the ring collapses the repeat (peek_fresh, mark_seen).                *)
Prints(p) == stage'[p] = "surfaced" /\ stage[p] # "surfaced"
SurfacedOnce ==
    [][\A p \in Poller : Prints(p) =>
          \A m \in shown[p] \cap Fresh(p) : m \in torn[p] \/ passed[p][m] >= RingSize]_vars

(* Mail does not stay in the queue of an address whose listener keeps       *)
(* running: repeats the ring hides are acked again.                         *)
QueueDrains ==
    \A m \in Mail : (\E p \in Poller : Owner[p] = To[m] /\ m \in Queued(To[m])) ~> (m \notin Queued(To[m]))

\* Where a message is, what was ever taken and what senders heard.
Standing(m) == IF ~Exists(m) THEN "nowhere" ELSE IF Fetched(m) THEN "handed" ELSE "queued"
Places == [m \in Mail |-> Standing(m)]
Taken == {m \in Mail : answered[m] # 0}
Heard == {t \in Mail \X {"fetched", "delivered", "read"} : \E r \in told : r.id = t[1] /\ t[2] \in r.marks}

(* Every step of hub, listeners and devices is one of the promise a hub      *)
(* makes of each message (MailPromise), or none: what was handed over is not *)
(* queued again, and nobody receives what nobody sent.                       *)
Promise == INSTANCE MailPromise WITH place <- Places, sent <- Taken, have <- had, told <- Heard
KeepsMailPromise == Promise!Spec
=============================================================================
