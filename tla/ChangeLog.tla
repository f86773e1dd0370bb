------------------------------ MODULE ChangeLog ------------------------------
(***************************************************************************)
(* The per-address change log behind /api/sync (hub/src/api/sync.rs).      *)
(*                                                                         *)
(* Every address has a head (mailbox_heads.seq) and at most one log entry  *)
(* per message (mailbox_log), which moves to the end of the log each time  *)
(* that address's copy of the message changes.  Writers are PostgreSQL     *)
(* transactions: they change message rows, then draw sequence numbers      *)
(* under the head rows of the addresses concerned, taken in slug order and *)
(* held until commit.  A device keeps a cursor into its address's log and  *)
(* asks for what lies above it; the hub answers from two statements, each  *)
(* with a snapshot of its own.                                             *)
(*                                                                         *)
(* Slugs are numbers in their sort order; messages are their n.  A copy's  *)
(* contents are abstracted to a version: 1 as sent, one more for each      *)
(* receipt or translation that becomes part of it.                         *)
(*                                                                         *)
(* A definition named ...Mutant... is the one after it with a plausible    *)
(* bug; no other definition uses it.                                       *)
(***************************************************************************)
EXTENDS Integers, FiniteSets

CONSTANTS
    Address,        \* slugs, as their rank in slug order
    Message,        \* messages.n
    Writer,         \* transactions open at the same time
    Device,         \* devices of all addresses
    From, To,       \* messages.from_slug, messages.to_slug
    Owner,          \* the address each device syncs
    SyncBatch,      \* SYNC_BATCH
    MaxVersion,     \* bound: versions of each message's copies (a row has two receipts and one translation)
    NoWriter        \* a head row nobody holds

ASSUME ConstantsOK ==
    /\ Address \subseteq Nat /\ IsFiniteSet(Address)
    /\ Message \subseteq Nat /\ IsFiniteSet(Message)
    /\ From \in [Message -> Address]
    /\ To \in [Message -> Address]
    /\ Owner \in [Device -> Address]
    /\ SyncBatch \in Nat \ {0}
    /\ MaxVersion \in [Message -> Nat]
    /\ NoWriter \notin Writer

Absent == 0         \* a copy that is not there, an entry that is not there
Deleted == -1       \* a copy its owner deleted (the entry's deleted_id is set)
NoBase == -1        \* a cursor without a base

VARIABLES
    heads,          \* mailbox_heads.seq, as committed
    log,            \* mailbox_log: log[a][m] is the seq of a's entry for m
    copy,           \* copy[a][m]: what a sync of a shows of m
    sent,           \* the n that committed sends used
    edits,          \* edits[w]: the copies the open transaction w changes
    erase,          \* erase[w]: w deletes those copies
    headLock,       \* the transaction that holds each address's head row
    pending,        \* pending[a]: the entries its holder wrote
    newHead,        \* newHead[a]: the head its holder wrote
    cursor, base,   \* what each device keeps: its cursor ...
    held,           \* ... and held[d][m], the copies it was sent
    stage,          \* where the device's call is
    at, atBase,     \* the handler's `cur`
    from,           \* the handler's `from`
    reset,          \* the handler's `reset`
    answer          \* the answer on its way: position, base, reset, changes

storeVars == <<heads, log, copy, sent>>
writerVars == <<edits, erase, headLock, pending, newHead>>
clientVars == <<cursor, base, held>>
callVars == <<stage, at, atBase, from, reset, answer>>
vars == <<storeVars, writerVars, clientVars, callVars>>

NoEntries == [m \in Message |-> Absent]
NoAnswer == [to |-> 0, base |-> NoBase, reset |-> FALSE, changes |-> NoEntries]

Init ==
    /\ heads = [a \in Address |-> 0]
    /\ log = [a \in Address |-> NoEntries]
    /\ copy = [a \in Address |-> NoEntries]
    /\ sent = {}
    /\ edits = [w \in Writer |-> {}]
    /\ erase = [w \in Writer |-> FALSE]
    /\ headLock = [a \in Address |-> NoWriter]
    /\ pending = [a \in Address |-> NoEntries]
    /\ newHead = [a \in Address |-> 0]
    /\ cursor = [d \in Device |-> 0]
    /\ base = [d \in Device |-> NoBase]
    /\ held = [d \in Device |-> NoEntries]
    /\ stage = [d \in Device |-> "idle"]
    /\ at = [d \in Device |-> 0]
    /\ atBase = [d \in Device |-> NoBase]
    /\ from = [d \in Device |-> 0]
    /\ reset = [d \in Device |-> FALSE]
    /\ answer = [d \in Device |-> NoAnswer]

-----------------------------------------------------------------------------
(* Writers.                                                                *)

Copies(m) == {From[m], To[m]} \X {m}

Live(m) == \E a \in Address : copy[a][m] > 0

\* No open transaction has this message's row.
RowFree(m) == \A w \in Writer : \A a \in Address : <<a, m>> \notin edits[w]

\* A transaction that locked its message rows and changed them; its log
\* entries come last.
Open(w, changed, deletes) ==
    /\ edits[w] = {}
    /\ changed # {}
    /\ edits' = [edits EXCEPT ![w] = changed]
    /\ erase' = [erase EXCEPT ![w] = deletes]
    /\ UNCHANGED <<storeVars, headLock, pending, newHead, clientVars, callVars>>

\* send: the row of a new message, both copies.
Send(w, m) ==
    /\ m \notin sent /\ RowFree(m)
    /\ Open(w, Copies(m), FALSE)

\* receipts: messages to one reader; a copy its owner deleted stays deleted.
Receipts(w, reader, ms) ==
    /\ \A m \in ms : To[m] = reader /\ Live(m) /\ RowFree(m)
    /\ Open(w, {c \in UNION {Copies(m) : m \in ms} : copy[c[1]][c[2]] > 0}, FALSE)
    /\ \A c \in edits'[w] : copy[c[1]][c[2]] < MaxVersion[c[2]]

\* settle: a translation becomes part of the reader's copy only.
Settle(w, m) ==
    /\ RowFree(m)
    /\ copy[To[m]][m] \in 1..(MaxVersion[m] - 1)
    /\ Open(w, {<<To[m], m>>}, FALSE)

\* delete_copies: some of an address's own copies.
DeleteCopies(w, me, ms) ==
    /\ \A m \in ms : copy[me][m] > 0 /\ RowFree(m)
    /\ Open(w, {me} \X ms, TRUE)

\* The messages w changed at a, and their order among one another.
Changed(w, a) == {m \in Message : <<a, m>> \in edits[w]}
OrdMutantOne(ms, m) == 1
OrdMutantZero(ms, m) == Cardinality({k \in ms : k < m})
Ord(ms, m) == Cardinality({k \in ms : k <= m})

\* The addresses whose head row w still has to take.
Undrawn(w) == {a \in Address : Changed(w, a) # {} /\ headLock[a] # w}

\* The head rows are taken in slug order.
TurnMutantAny(w, a) == TRUE
Turn(w, a) == \A b \in Undrawn(w) : a <= b

\* log_changes, log_deletions: one address, the least first.  The head row
\* stays locked; the entries take the numbers after the head in message order.
Draw(w, a) ==
    /\ a \in Undrawn(w) /\ Turn(w, a)
    /\ headLock[a] = NoWriter
    /\ headLock' = [headLock EXCEPT ![a] = w]
    /\ newHead' = [newHead EXCEPT ![a] = heads[a] + Cardinality(Changed(w, a))]
    /\ pending' = [pending EXCEPT ![a] =
                     [m \in Message |-> IF m \in Changed(w, a)
                                        THEN heads[a] + Ord(Changed(w, a), m)
                                        ELSE Absent]]
    /\ UNCHANGED <<storeVars, edits, erase, clientVars, callVars>>

\* What w's commit leaves of a copy: a deleted one stays deleted (deleted_at).
Written(w, c) == IF erase[w] \/ c = Deleted THEN Deleted ELSE c + 1

Release(w) ==
    /\ edits' = [edits EXCEPT ![w] = {}]
    /\ erase' = [erase EXCEPT ![w] = FALSE]
    /\ headLock' = [a \in Address |-> IF headLock[a] = w THEN NoWriter ELSE headLock[a]]
    /\ pending' = [a \in Address |-> IF headLock[a] = w THEN NoEntries ELSE pending[a]]
    /\ newHead' = [a \in Address |-> IF headLock[a] = w THEN 0 ELSE newHead[a]]

\* tx.commit: rows, entries and heads become visible at once.
Commit(w) ==
    /\ edits[w] # {} /\ Undrawn(w) = {}
    /\ heads' = [a \in Address |-> IF headLock[a] = w THEN newHead[a] ELSE heads[a]]
    /\ log' = [a \in Address |-> [m \in Message |->
                  IF headLock[a] = w /\ m \in Changed(w, a) THEN pending[a][m] ELSE log[a][m]]]
    /\ copy' = [a \in Address |-> [m \in Message |->
                  IF m \in Changed(w, a) THEN Written(w, copy[a][m]) ELSE copy[a][m]]]
    /\ sent' = sent \cup {m \in Message : \E a \in Address : <<a, m>> \in edits[w]}
    /\ Release(w)
    /\ UNCHANGED <<clientVars, callVars>>

\* An error, a dropped handler, a hub that dies: nothing of w is seen.
Rollback(w) ==
    /\ edits[w] # {}
    /\ Release(w)
    /\ UNCHANGED <<storeVars, clientVars, callVars>>

\* The retention sweep: rows go, and with them the entries that are not
\* tombstones; no device is told.
Expire(ms) ==
    /\ ms # {}
    /\ \A m \in ms : Live(m) /\ RowFree(m)
    /\ log' = [a \in Address |-> [m \in Message |->
                 IF m \in ms /\ copy[a][m] # Deleted THEN Absent ELSE log[a][m]]]
    /\ copy' = [a \in Address |-> [m \in Message |->
                 IF m \in ms /\ copy[a][m] # Deleted THEN Absent ELSE copy[a][m]]]
    /\ UNCHANGED <<heads, sent, writerVars, clientVars, callVars>>

Write(w) ==
    \/ \E m \in Message : Send(w, m)
    \/ \E reader \in Address, ms \in SUBSET Message : Receipts(w, reader, ms)
    \/ \E m \in Message : Settle(w, m)
    \/ \E me \in Address, ms \in SUBSET Message : DeleteCopies(w, me, ms)

Finish(w) == (\E a \in Address : Draw(w, a)) \/ Commit(w)

-----------------------------------------------------------------------------
(* Devices.                                                                *)

\* A sync call with the device's cursor.
Call(d) ==
    /\ stage[d] = "idle"
    /\ stage' = [stage EXCEPT ![d] = "called"]
    /\ at' = [at EXCEPT ![d] = cursor[d]]
    /\ atBase' = [atBase EXCEPT ![d] = base[d]]
    /\ UNCHANGED <<storeVars, writerVars, clientVars, from, reset, answer>>

\* A first call with {"start": "now"}: the head as committed is cursor and base.
CallFromNow(d) ==
    /\ stage[d] = "idle"
    /\ cursor[d] = 0 /\ base[d] = NoBase /\ held[d] = NoEntries
    /\ stage' = [stage EXCEPT ![d] = "called"]
    /\ at' = [at EXCEPT ![d] = heads[Owner[d]]]
    /\ atBase' = [atBase EXCEPT ![d] = heads[Owner[d]]]
    /\ UNCHANGED <<storeVars, writerVars, clientVars, from, reset, answer>>

\* Where a device starts over: at the head if it has a base, else from nothing.
StartOverMutantHead(d, head) == head
StartOver(d, head) == IF atBase[d] = NoBase THEN 0 ELSE head

\* sync_check, first statement: a cursor beyond the head starts over.
ReadHeads(d) ==
    LET head == heads[Owner[d]]
        beyond == at[d] > head IN
    /\ stage[d] = "called"
    /\ stage' = [stage EXCEPT ![d] = "checked"]
    /\ reset' = [reset EXCEPT ![d] = beyond]
    /\ from' = [from EXCEPT ![d] = IF beyond THEN StartOver(d, head) ELSE at[d]]
    /\ atBase' = [atBase EXCEPT ![d] = IF beyond /\ @ # NoBase THEN head ELSE @]
    /\ UNCHANGED <<storeVars, writerVars, clientVars, at, answer>>

\* The entries above a position, and the first SyncBatch of them in seq order.
AboveMutantAll(a, p) == {m \in Message : log[a][m] # Absent}
AboveMutantAt(a, p) == {m \in Message : log[a][m] >= p /\ log[a][m] # Absent}
Above(a, p) == {m \in Message : log[a][m] > p}
IsPageMutantUnordered(page, a, p) ==
    Cardinality(page) = IF Cardinality(Above(a, p)) <= SyncBatch
                        THEN Cardinality(Above(a, p)) ELSE SyncBatch
IsPage(page, a, p) ==
    /\ Cardinality(page) = IF Cardinality(Above(a, p)) <= SyncBatch
                           THEN Cardinality(Above(a, p)) ELSE SyncBatch
    /\ \A m \in page, k \in Above(a, p) \ page : log[a][m] <= log[a][k]

\* sync_check, second statement: a page of the log and, joined to it, the
\* rows as they stand in the same snapshot.
ReadLog(d) ==
    LET a == Owner[d] IN
    /\ stage[d] = "checked"
    /\ \E page \in SUBSET Above(a, from[d]) :
         /\ IsPage(page, a, from[d])
         /\ \E to \in {from[d]} \cup {log[a][m] : m \in page} :
              /\ \A m \in page : log[a][m] <= to
              /\ answer' = [answer EXCEPT ![d] =
                   [to |-> to, base |-> atBase[d], reset |-> reset[d],
                    changes |-> [m \in Message |-> IF m \in page THEN copy[a][m] ELSE Absent]]]
    /\ stage' = [stage EXCEPT ![d] = "answered"]
    /\ UNCHANGED <<storeVars, writerVars, clientVars, at, atBase, from, reset>>

\* The call came with {"start": "now"}: the base is not the client's yet.
StartsNow(d) == atBase[d] # NoBase /\ base[d] = NoBase

\* Nothing new and time left: the call parks and, woken, checks again.  A
\* device that starts from now is answered at once.
Park(d) ==
    /\ stage[d] = "answered" /\ ~StartsNow(d)
    /\ answer[d].changes = NoEntries /\ ~reset[d]
    /\ stage' = [stage EXCEPT ![d] = "called"]
    /\ answer' = [answer EXCEPT ![d] = NoAnswer]
    /\ UNCHANGED <<storeVars, writerVars, clientVars, at, atBase, from, reset>>

Hang(d) ==
    /\ stage' = [stage EXCEPT ![d] = "idle"]
    /\ at' = [at EXCEPT ![d] = 0]
    /\ atBase' = [atBase EXCEPT ![d] = NoBase]
    /\ from' = [from EXCEPT ![d] = 0]
    /\ reset' = [reset EXCEPT ![d] = FALSE]
    /\ answer' = [answer EXCEPT ![d] = NoAnswer]

\* The device applies the answer and keeps its cursor; a reset answer
\* replaces what it had.
Deliver(d) ==
    LET ans == answer[d] IN
    /\ stage[d] = "answered"
    /\ cursor' = [cursor EXCEPT ![d] = ans.to]
    /\ base' = [base EXCEPT ![d] = ans.base]
    /\ held' = [held EXCEPT ![d] = [m \in Message |->
                  IF ans.changes[m] # Absent THEN ans.changes[m]
                  ELSE IF ans.reset THEN Absent ELSE held[d][m]]]
    /\ Hang(d)
    /\ UNCHANGED <<storeVars, writerVars>>

\* The call or its answer is lost.
Lose(d) ==
    /\ stage[d] # "idle"
    /\ Hang(d)
    /\ UNCHANGED <<storeVars, writerVars, clientVars>>

\* The device's store is re-created: it asks again from the beginning.
Reinstall(d) ==
    /\ stage[d] = "idle" /\ cursor[d] # 0
    /\ cursor' = [cursor EXCEPT ![d] = 0]
    /\ base' = [base EXCEPT ![d] = NoBase]
    /\ held' = [held EXCEPT ![d] = NoEntries]
    /\ UNCHANGED <<storeVars, writerVars, callVars>>

Storing ==
    \/ \E w \in Writer : Write(w) \/ Finish(w) \/ Rollback(w)
    \/ \E ms \in SUBSET Message : Expire(ms)

Asking(d) == Call(d) \/ CallFromNow(d) \/ ReadHeads(d) \/ ReadLog(d) \/ Park(d) \/ Lose(d)

Next ==
    \/ Storing
    \/ \E d \in Device : Asking(d) \/ Deliver(d) \/ Reinstall(d)

Spec == Init /\ [][Next]_vars

\* The hub's own steps are fair; PostgreSQL hands a head row to its waiters in
\* turn, so a writer that waits for one gets it; and of a device that keeps
\* calling, not every call is lost, at any stage.
Fairness ==
    /\ \A w \in Writer : SF_vars(Finish(w))
    /\ \A d \in Device : WF_vars(Call(d)) /\ SF_vars(ReadHeads(d)) /\ SF_vars(ReadLog(d)) /\ SF_vars(Deliver(d))

FairSpec == Spec /\ Fairness

-----------------------------------------------------------------------------
(* Properties.                                                             *)

Version == Nat \cup {Deleted}
Entries == [Message -> Nat]
Contents == [Message -> Version]
Answers == [to : Nat, base : Nat \cup {NoBase}, reset : BOOLEAN, changes : Contents]

(* The variables have their types. *)
TypeOK ==
    /\ heads \in [Address -> Nat]
    /\ log \in [Address -> Entries]
    /\ copy \in [Address -> Contents]
    /\ sent \in SUBSET Message
    /\ edits \in [Writer -> SUBSET (Address \X Message)]
    /\ erase \in [Writer -> BOOLEAN]
    /\ headLock \in [Address -> Writer \cup {NoWriter}]
    /\ pending \in [Address -> Entries]
    /\ newHead \in [Address -> Nat]
    /\ cursor \in [Device -> Nat]
    /\ base \in [Device -> Nat \cup {NoBase}]
    /\ held \in [Device -> Contents]
    /\ stage \in [Device -> {"idle", "called", "checked", "answered"}]
    /\ at \in [Device -> Nat]
    /\ atBase \in [Device -> Nat \cup {NoBase}]
    /\ from \in [Device -> Nat]
    /\ reset \in [Device -> BOOLEAN]
    /\ answer \in [Device -> Answers]

Mirrors(d, m) ==
    LET a == Owner[d] IN
    log[a][m] # Absent /\ base[d] < log[a][m] /\ log[a][m] <= cursor[d]
        => held[d][m] = copy[a][m]

(* A device has, current, every copy whose latest change lies between where *)
(* it started and its cursor: with transactions that draw their numbers     *)
(* early and commit late, and heads and log read apart, no change is ever   *)
(* passed over (sync_check, log_changes).                                   *)
NothingMissed == \A d \in Device, m \in Message : Mirrors(d, m)

(* No two entries of one address share a number: a page that ends at a      *)
(* number (ORDER BY seq LIMIT) ends between two changes, never inside one.  *)
SeqUnique ==
    \A a \in Address : \A m, k \in Message :
        m # k /\ log[a][m] # Absent => log[a][m] # log[a][k]

(* Every copy that exists, and every one its owner deleted, can be found    *)
(* through its owner's log, and nothing else can: receipts, deletions and   *)
(* the retention sweep keep rows and entries in step.                       *)
EveryCopyLogged ==
    \A a \in Address, m \in Message : (log[a][m] # Absent) <=> (copy[a][m] # Absent)

(* Both at once: a log is an index of its address's copies (log_changes).   *)
LogMatches == SeqUnique /\ EveryCopyLogged

(* What a commit adds to a log lies above every position any device of the  *)
(* address has been given or is about to be given; the numbers a            *)
(* transaction drew do not age while it stays open.                         *)
LandsAhead ==
    \A a \in Address, m \in Message :
        log'[a][m] \notin {log[a][m], Absent} =>
            \A d \in Device : Owner[d] = a =>
                /\ log'[a][m] > cursor[d]
                /\ stage[d] = "answered" => log'[a][m] > answer[d].to
                /\ stage[d] = "called" => log'[a][m] > at[d]
ChangesLandAhead == [][LandsAhead]_vars

(* A device does not go back: its cursor falls only when its store is       *)
(* re-created, and what its owner deleted stays deleted on it.              *)
Forward ==
    \A d \in Device :
        \/ cursor'[d] >= cursor[d] /\ \A m \in Message : held[d][m] = Deleted => held'[d][m] = Deleted
        \/ cursor'[d] = 0 /\ held'[d] = NoEntries
DevicesGoForward == [][Forward]_vars

(* Transactions never wait for one another in a circle: the head rows are    *)
(* taken in slug order and after the message rows (log_changes), whichever   *)
(* of the four writers of the log they come from.                            *)
WaitsFor(w, v) == \E a \in Undrawn(w) : Turn(w, a) /\ headLock[a] = v
NoCircle ==
    \A ws \in (SUBSET Writer) \ {{}} : \E w \in ws : \A v \in ws : ~WaitsFor(w, v)

(* A change a device has not been sent reaches it, or makes way for a later *)
(* one: whatever is lost or parked, a device that keeps calling and keeps   *)
(* its store ends with what its address has.                                *)
EveryChangeArrives ==
    \A d \in Device :
        \/ []<><<Reinstall(d)>>_vars
        \/ \A m \in Message : \A v \in {Deleted} \cup 1..MaxVersion[m] :
              (copy[Owner[d]][m] = v /\ base[d] < log[Owner[d]][m])
                  ~> (held[d][m] = v \/ copy[Owner[d]][m] # v \/ base[d] >= log[Owner[d]][m])
=============================================================================
