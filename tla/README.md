# The mail hub in TLA+

TLA+ models of `orgtree-mailhub`: the Rust hub under `hub/` (an HTTP server over
one PostgreSQL database and a directory of files) and the v1 client `hubtool.py`.
The modules are checked with TLC and, where it is listed below, proved with TLAPS.
Paths are relative to the repository; `PROJECT.json` has the machine-readable
side: components, runs, mutants, the lines every definition models, findings,
hazards and theorems.

## 1. The system

Agents and people register *addresses* (slugs) on a hub and send each other mail.
One hub process serves a database. Every request is a task that may be dropped at
any `await` when its client hangs up; every change of rows is a PostgreSQL
transaction at READ COMMITTED, so each statement reads its own snapshot and
locked rows are waited for. Clients come in two generations: v1 clients poll and
ack, v2 devices sync against a per-address change log.

| Part | State it keeps | Operations | Talks to |
|---|---|---|---|
| Mail (`api/mail.rs`) | `identities`, `messages` | register, unregister, poll, ack, send, receipts, profile | change log (same transaction), presence (after commit), translation and push queues, files |
| Change log and sync (`api/sync.rs`) | `mailbox_heads`, `mailbox_log`, `sync_devices`, roster numbers | log_changes, log_deletions, sync, take_custody, leave | every writer of messages; presence |
| History (`api/history.rs`) | deletion marks of both copies | conversations, history, delete a message or a conversation | change log, files, presence |
| Uploads and files (`api/transfers.rs`, `api/files.rs`, `blobs.rs`) | `uploads`, `attachments`, partial files and blobs, the claims in memory | start, append, status, cancel, upload, download | sends bind files; history and the sweep remove them |
| Retention sweep (`sweep.rs`) | – | hourly: quiet uploads, unbound files, old mail, idle addresses | all tables |
| Presence and typing (`presence.rs`, `typing.rs`, `api/typing.rs`) | slots with listeners, parked calls, marks, typing beats, in memory | park, mark, wake, wake_sync, presence_loop, beat, forget, seed | poll and sync wait on it |
| Device keys (`api/keys.rs`, `auth.rs`) | identity keys, enrolled devices | set_identity, enrol, sign_out | sync, presence |
| Push (`push.rs`) | registrations, the queued generation, leases | register, queue, claim, deliver, finish | queued by sends |
| Translation (`translate.rs`) | jobs with leases, translations, spending | plan, claim, settle, forget | planned by sends, changes the reader's log |
| Link relay (`api/transfers.rs`) | `link_relay`: sealed payloads under one-time codes | put, take, cancel | – |
| hubtool (`hubtool.py`) | the identity file: credentials, cursors, rings of seen ids | listen (poll, print, mark, ack), send, ... | the hub's v1 calls |
| HTTP front, wire formats, database access, import, operations page, pictures, installers | | | |

What is hard, and what makes each part right:

* **Change log.** Numbers are drawn in open transactions that commit in any
  order; the heads and the log are read in two statements; pages end anywhere;
  the sweep removes entries meanwhile; backups are restored. Right when no
  device ever passes over a change, none goes back, and every change arrives.
* **Mail.** Calls are retried, late and lost; custody passes by ack and by
  cursor at once; two polls claim the same receipts. Right when mail leaves the
  queue only to someone who has it, a retry is answered as the send was, and
  receipts are true, told once and not forgotten.
* **Uploads and files.** Bytes and rows are never changed in one step, handlers
  are dropped between any two, and the sweep and cancels come at any time.
  Right when confirmed bytes stay, published files are whole, a message keeps
  its files and nothing is left behind.
* **Wake-ups and presence.** A commit and the wake that follows it, four reads and
  the wait; parked calls, hang-ups, grace periods, heartbeats and a loop that
  compares once a second, in any order. Right when no waiter sleeps through what
  it should hear, and a device shows what its cursor stands for.
* **Roster and locks.** Advisory and row locks taken by many handlers in
  different orders. Right when nothing deadlocks and no roster change is missed.
* **Push, translation.** Leases that run out while the work is done; state that
  changes while a delivery or a paid call is on its way. Right when nothing queued
  is forgotten, sent or paid for twice, and everything ends.
* **Device keys.** Concurrent sign-outs and rotations with syncs parked. Right when
  no remaining device loses the identity key and no signed-out one comes back.
* **hubtool.** A listener that dies between printing, marking and acking; two
  processes that save one file.

`PROJECT.json` lists these one by one under `hazards`, each at its line.

## 2. Modules

| Module | Models | Built on |
|---|---|---|
| `ChangeLog` | log_changes / log_deletions inside the transactions that call them, the sweep of messages, sync_check and a device | – |
| `RestoredHub` | the same with backups and restores of the database | extends `ChangeLog` |
| `MailPromise` | what a hub promises the sender and the recipient of a message (abstract) | – |
| `Custody` | the rows of messages: send, ack, receipts, deletion, sweep; poll with hubtool's listener; the custody of a sync's cursor | refines `MailPromise` |
| `UploadPromise` | what a resumable upload promises its client (abstract) | – |
| `Uploads` | `transfers.rs`: the row, the partial file, the blob and the claim of one upload | refines `UploadPromise` |
| `Files` | attachments rows against blobs: uploads, sends with files and long bodies, deletion, `sweep_files` | – |
| `Push` | `push.rs`: registrations, the queued wake, the worker's leases, requests and results; queueing by sends | – |
| `Translate` | `translate.rs`: the jobs of one reader's mail, the worker's tasks and their transactions; `forget` by deletions | – |
| `DeviceKeys` | `api/keys.rs`, the sign-in of `auth.rs`, the devices of a sync; register and leave of one address | – |
| `Presence` | `presence.rs`, `typing.rs` and the loop of a sync: what wakes it and what it answers | – |
| `MC...` | model values and instances for TLC | the module named |
| `ChangeLogProofs`, `CustodyProofs`, `FilesProofs`, `UploadsProofs`, `PushProofs`, `TranslateProofs`, `DeviceKeysProofs`, `PresenceProofs` | theorems with proofs | the module named (`ChangeLogProofs`: `RestoredHub`) |

Definitions keep the code's names. Each `...Mutant...` operator is the following
definition with a plausible bug; nothing uses it, and `PROJECT.json` names the
property that fails when it takes the definition's place.

### ChangeLog

`heads` and `log` are `mailbox_heads.seq` and `mailbox_log` as committed;
`copy[a][m]` is what a sync of address `a` shows of message `m`, reduced to a
version. A writer (send, receipts, translation settled, deletion) *opens* with the
message rows it changes, *draws* numbers address by address in slug order, keeping
each head row (`headLock`, `pending`, `newHead`), and commits or rolls back. The
sweep removes rows and entries without numbers. A device's call reads heads and
then the log in two actions (`ReadHeads`, `ReadLog`), answers, parks, is lost or
delivered; the device keeps cursor, base and copies, and may be re-created.

Simplified: a row lock is acquired for a statement's rows at once. sync_check's branch for a
log entry whose row is missing (`sync.rs:377-380`) cannot be taken, since the
entries and the rows come from one statement, and is not modelled.

### RestoredHub

Adds `Backup` and `Restore` (the hub stopped, its calls cut off, its tables as
they were). A device is started over when its cursor lies beyond the
head. One that comes back only after the restored hub has grown past its cursor is
not recognised (`sync.rs:348`), and `ResetRebuilds` says nothing of it.

### Custody and MailPromise

A row is `[n, marks, owed, deletedBy]`. A send looks its id up (`SendLookup`, the
recipient's row held), then inserts or answers as a duplicate; `SendFails` is the
conflict of two recipients' sends of one id. `received_at` is set once with `n`,
which stands for both. `Ack`, `Receipts`, `DeleteCopy`, `Expire`, `TakeCustody`
are whole transactions. A poll reads the queue and claims receipts in two
statements (`PollMail`, `PollReceipts`); its answer may be lost. The listener
prints what its ring does not have, marks it, acks, and may die anywhere. Of a log
only entries of mail *to* its address are numbered, the others cannot change a
queue. `had`, `left`, `told`, `missed`, `torn` are history.

`SendLookup` leaves out the refusal of an unknown recipient. A purged id may be
sent again and is then a new message, as `docs/v2-additions.md:217-218` documents.
v1 senders that receive receipts are outside the repository; `told` is what
reached them.

`MailPromise` has of each id a place (nowhere, queued, handed over), and what was
ever sent, had, deleted and told. Mail is taken and queued; an answer brings a client
mail that was sent, and receipts that are so; what clients have may be handed over; a
recipient deletes its copy; a message goes. Nothing is queued again that was handed
over. `Custody!KeepsMailPromise` is the refinement: an id is nowhere without a row,
handed over when the row is fetched, sent once a send stored it; `had`, `left` and
`told` stand for themselves. A hand-over by ack, cursor or receipts is one step of the promise;
polls, claims, lost answers and the listener's ring are stutters.

### Uploads and UploadPromise

One upload; uploads share nothing. `received`, `published`, `quiet` are its rows;
`part`, `blob`, `wrong` the lengths on disk and which bytes are not the announced
ones; `writing` the claim. Each handler is a walk through `pc`, one action per
await that changes something. `HangUp` drops a request anywhere, `Stop` the hub:
rows and files stay, claims go. A handler may also be dropped while a statement is
under way (`CutOff`; `CancelCutOff` for the DELETE of a cancel, which is that of the
sweep too): its claim goes at once, the statement is in `late` and is executed some
time later (`Lands`), whoever has the claim by then. The commit of a finish keeps
the upload's row locked until it is through (`Unlocked`). An operation on the disk
that a dropped handler had begun is taken as done or not done by then. A stop is of
the process, not of the machine (`docs/v2-additions.md:305-307` says so of crash
recovery). The upload of no bytes, which `start` finishes itself, is left out
(`Total > 0`), and so is an INSERT of `start` that outlives its handler: the client
does not know the upload's id, and nothing else touches it for a day.

An offset on its way when its handler is dropped (`transfers.rs:214`) does no harm
while nobody else makes the claim, and `ConfirmedIsKept` says so. If another request
claims first, reads the offset before it and cuts the file back to that, the late
one then confirms bytes that are gone. `Claim` marks such a statement as overtaken,
`crossed` says that one was executed, and `ConfirmedIsKept` excepts it.

`UploadPromise` has a phase and an offset: open at 0, the offset only grows,
complete once with all bytes, or closed; only an upload with a sha256 may start
over, and only a crossing (`Cross`) takes the offset back. `Uploads!KeepsPromise` is
the refinement: complete is a row in `attachments`, the offset is `received`; from
the rename on, an upload that loses its row still completes (`Completing`).

### Files

`att[f]` is a row of `attachments` (absent, unbound, or the message it is bound
to), `blob` the files with bytes. A send writes a long body first or names an
upload, locks the rows it names, binds and commits, then tells its guard to keep
the body. Deletion takes rows with the last copy and removes bytes after the
commit; the sweep selects, removes bytes, and deletes rows. A commit that was
under way when its handler was dropped may stand (`SendDropped`, `UploadDropped`).
Modelled for the default, `HUB_RETENTION_DAYS` unset. Sizes and limits are left
out. The ids of files are used once.

### Push

`row[d]` is a device's `device_push` row: its registration uuid, endpoint, what is
queued (`pending`), and what is left of `next_attempt`, `last_sent + 5 s` and
`last_attempt + 5 s` as ticks. `Register` is the upsert, `QueueAt` and `Hurry` what
sends and translations do in their own transactions; `Claim` leases one due row,
`Takes` and `Fails` are the request with and without an effect, `Finish` writes the
result under the registration that was leased, `FinishFails` and `Stop` lose it.
`heard` and `hurried` are history. Endpoint checks, encryption and the answers of
hosts are one of four results. `docs/v2-additions.md` says failed attempts back off; a
translation that arrives brings such a wake forward again (`Hurry`), and
`AttemptsSpaced` says so.

### Translate

`copy`, `job`, `outcome`, `spend` are the rows; `works` the worker's tasks, each a
walk through stages: claimed, ask, again or settle, taken (the job's row deleted,
not committed: `locks`), written (the outcome inserted: the message's row is
needed, which a delete may hold: `deleting`). Settle and delete lock the job and the
message in opposite orders; PostgreSQL ends the deadlock by failing one
(`WorkFails`, `DeleteFails`). The month's spend is whether it reached the limit. The
wake that waits for a translation is `Push`'s, the reader's log entry `ChangeLog`'s.
The code charges nothing for the paid answer to a job that was deleted meanwhile,
and may go over the month's limit by the tasks that had read it before
(`translate.rs:716`): no property is stated about either.

### DeviceKeys

One address: its identity row, the devices' rows with each device's own
`public_key`, the sealed copies of rotations (`drops`, each sealed `to` such a key),
and what each client knows (`holds`). A sign-out is made from what its device saw
(`Ask`) and arrives later; its checks and its transaction are one action
(`SignOutRotates`, under the identity row's lock), its answer may be lost. `Enrol`
puts a device's new key in the place of the one it had; a copy that was sealed to
that one the device cannot open (`Collect`, `Opens`). A sync is signed in, seen by
the INSERT of `seen_device` (`SyncSeen`), evicts keyless devices if it was new by the
DELETE after it (`SyncEvicts`, a statement of its own), reads, and checks again
whether it was signed out. Of `register` and `leave` only what they do to the address,
its devices and its waiters.

`sign_out` compares the device ids it has copies for with those that are enrolled, and
cannot tell which key a copy was sealed to. A device that enrols another key of its
own (`keys.rs:207`, `docs/v2-additions.md:381`) while a sign-out that seals to the old
one is under way is left with a copy it cannot open. `crossed` names these devices,
until they enrol again, and `NoneLockedOut` excepts them.

Also left open by the code, and by the properties: a device without a key does not
count for the enrolments `DEVICES_MAX` allows, and one with a key is never evicted, so
that an address may come to hold more devices in all, or more enrolled ones when a
keyless one enrols, than the 100 of `docs/v2-additions.md:139` and `:379`. Between the
two statements of `seen_device`, and after a sync that was cut off there, there are
more until the next new device evicts (`fresh` has those that came since;
`KeylessFit`). A signed-out device without a key whose row is evicted is a new device
when it syncs again.

### Presence

One person's sync and one other address. `slot` is the other's slot: calls parked,
its last mark (within the window or the hang-up grace), busy. `last` is what
presence_loop saw and whether it still has to wake for it. `call` is the sync: armed,
checked, decides, compared, waits, ..., each await a step, with the listeners that
rang for it. `owed` is what is committed and not woken for yet; a writer that is cut
off between the two (`mail.rs:720`) keeps it owed, and the sync then hears at its
deadline. `device` is what the client keeps of its answers.

Left out: several addresses (the sets online are one status), the person's own
address (online throughout, its sync is parked), a slot replaced by unregister and
register (`forget`), the start-up seed, who may see whose typing. A change that comes
and goes between two looks of the loop is heard by nobody, and a roster entry that
could not be marked is not tried again: `HearsPresence` speaks of changes the loop
saw. The loop of a v1 poll (`mail.rs:428`) and of a link's `take` have the same shape:
armed, looked, waited.

## 3. Runs

| Run | Instance | Checks |
|---|---|---|
| `change_log` | 2 messages to one reader, 2 transactions, pages of 1, 1 device | `NothingMissed`, `LogMatches`, `NoCircle`, `ChangesLandAhead`, `DevicesGoForward` |
| `change_log_arrives` | 2 messages, 1 transaction, 1 device | `EveryChangeArrives` |
| `restored_hub` | 2 messages, 1 restore | `ResetRebuilds` |
| `custody` | 1 message, 2 polls of its sender, a reading device with one older call on its way | `CustodyIsHeld`, `ReceiptsAccounted`, `ReceiptsToldOnce`, `ToldTheTruth`, `KeepsMailPromise` |
| `custody_listener` | 2 messages, a listener, ring of 1, answers of 2 | `SurfacedOnce`, `RetryAnswersOriginal`, `QueueDrains` |
| `uploads` | 2 requests and the sweep, 2 bytes, 1 late statement | `ConfirmedIsKept`, `PublishedIsWhole`, `ClosedLeavesNothing`, `AloneOnDisk`, `KeepsPromise`, `UploadEnds` |
| `files` | 2 files, 2 messages, 2 sends | `MessageHasItsFiles`, `FilesBelongOnce`, `NothingLeftBehind` |
| `push` | 1 device, 2 endpoints on 2 hosts, 2 registrations, 2 wakes queued | `WakeIsDue`, `OnePerHost`, `AttemptsSpaced`, `WakeArrives` |
| `translate` | 1 message, 2 tasks, 2 tries | `ChargedOnce`, `GoneIsForgotten`, `OutcomeStays`, `JobEnds` |
| `devices` | 2 devices that enrol either of 2 keys, a third with the shared secret, 2 sign-outs on their way, 2 rotations, 1 sync | `NoneLockedOut`, `NothingAfterSignOut`, `ParkedIsWoken`, `SignedOutStaysOut` |
| `devices_return` | 3 devices, the address registers twice | *violated*: `CopiesAreCurrent` |
| `presence` | a sync, an address with up to 2 calls parked, 1 change of the log | `HearsItsOwn`, `HearsTyping`, `HearsPresence`, `ShowsWhatItEchoes` |

Every passing run ends without an error; what each question means is in its `about`
in `PROJECT.json` and in the comment above each property. Types are proved for
every module below.

### Bounds, and why they are enough

* *Change log.* A page of one makes every backlog of two span two answers; two
  transactions give both orders of drawing and committing; the versions (2 and 1)
  give an entry that moves and one that does not. Two addresses are all a message
  touches. The theorems hold without bounds.
* *Restored hub.* One restore to a state any number of steps back; the backup is
  dropped once no restore can use it.
* *Custody.* `MaxN = 2` (`custody_listener`) lets an id be purged and sent again once;
  `Late = 1` (`custody`) keeps one older call; `RingSize = 1` against answers of 2
  is the code's ratio (200 to 500): one answer can push out of the ring what was
  surfaced before it. `Rung = {"read"}` stands for
  both rungs, which the code treats alike.
* *Uploads.* Two bytes are a confirmed one and one past it, which is either cut or the
  last; two requests are a writer and one that waits for its claim or acts on what
  it read before; one late statement meets every step of either. `Total` and
  `MaxLate` are any in the proofs.
* *Files.* Every race is between two parties over one file; the second file is the
  body of one send, the attachment of the other. One file may grow old; every client
  may hang up.
* *Push.* Two registrations let a finish meet a newer one; two wakes let mail come
  during a delivery. The times keep their order (a request ends before the five
  seconds, they before a lease): the proofs need no more.
* *Translate.* Two tasks are what a lease that ran out gives; two tries are a failed
  and a last one.
* *Devices.* Two sign-outs cross each other and a change of key: two keys for each of
  two devices that enrol, while the third signs in with the shared secret, signs
  others out and may be signed out (`Made` bounds who makes which key). The limit of
  devices refuses an enrolment in `devices_return`, where all three enrol; that a
  new device evicts another, and any limit, the proofs cover. Registrations are bounded
  by one in `devices` and two in `devices_return`.
* *Presence.* Two parked calls tell the last from another; one change of the log
  tells what was read from what is there.

Deadlock is checked in every run but those of `Uploads`, `Files`, `Push`, `Translate`
and `DeviceKeys`, which may come to rest: the upload ended, all ids used, nothing
queued or asked, the address gone for good.

### Fairness

* `change_log_arrives`: strong fairness of a writer's finishing. PostgreSQL queues
  lock requests, so a transaction that waits for a row gets it once it is released,
  again and again.
* Devices and listeners that keep calling: strong fairness of the steps an answer
  takes, since not every call, answer and ack is lost; weak fairness of beginning a
  call.
* Uploads: the client keeps asking, the database executes what it was sent (`Lands`),
  and in the end nobody hangs up and the hub is not stopped. Without it no upload
  would have to end.
* Push: time passes, a device is put down some time, the worker, which looks every
  second, claims a row that is due again and again, the endpoint takes a wake
  it is offered again and again, and not every result is lost.
* Translate: waits and leases run out (the clock); the worker claims what is due again and
  again; each step of a task succeeds if it is tried again and again, for
  one count of tries. `JobEnds` assumes in its own words that in the end translation
  is on and no task outlives its lease (`LEASE_SECONDS` is twice `REQUEST_TIMEOUT`):
  while it is off, jobs wait on purpose.

The other runs state no fairness and check no liveness.

### Findings

`devices_return` ends in a counterexample to a statement of the repository:
`leave` deletes an address's rows but not its sealed copies (`sync.rs:122`; the table
has no foreign key), and a new registration counts key versions from 0 again. `GET
/api/identity`, which promises "that device's sealed copy of the current identity
key" (`keys.rs:82-84`), then hands out the copy of the former registration's key.

Five more cases are known and written into the properties or the bounds, which say so:

* the sweep selects unbound files, removes their bytes and deletes rows by id in
  three steps: a send that binds one in between loses it (`sweep.rs:55`;
  `MessageHasItsFiles` excepts `overtaken`);
* the guard of a long body runs although its message was stored, when the client hangs
  up at the commit (`mail.rs:716`; `MessageHasItsFiles` excepts `torn`);
* `status` and a finish act on an offset read before the claim
  (`transfers.rs:339`; `ConfirmedIsKept` excepts such a finish);
* the offset of a dropped append is stored after the next request claimed the upload
  and read the one before it (`transfers.rs:214`; `ConfirmedIsKept` and `UploadPromise`
  except `crossed`, `UploadEnds` an upload that loses its bytes by it);
* a sign-out crosses the enrolment of another key for a device that remains
  (`keys.rs:207`, `:274-282`; `NoneLockedOut` excepts `crossed`).

## 4. Proofs

`ChangeLogProofs` proves, for any addresses, messages, writers, devices and page
size, from `ConstantsOK` alone:

* `TypeCorrect`: `Spec => []TypeOK`;
* `NothingIsMissed`, `LogsFit`: `Spec => []NothingMissed`, `[]LogMatches`;
* `LandingAhead`, `GoingForward`: the two action properties;
* `NobodyWaitsInACircle`: `Spec => []NoCircle`.

`NothingMissed` is not inductive. The strengthening `IInv` says of the writers that
what they drew lies above the committed head and that head rows are held by one
transaction; of the store, that entries lie at or below the head and differ; of
each call, that its position, its answer and the changes in it agree with the log
up to that position. `StoringHub` and `OwnSteps` split the proof: what the hub has (`HubOK`) does not
depend on devices, a writer's step leaves devices alone and moves logs only forward
(`StoreMoves`), a device's step leaves the store and other devices alone; only
`Commit` (new entries land above every position) and `Deliver` / `ReadLog` (a page
is complete up to its last number, `PageComplete`) need real arguments. `NoCircle`
follows from `InOrder`: a transaction has still to draw only beyond the head rows it
holds. Of any set of transactions that each wait for a row another of the set
holds, the one that waits for the greatest of these rows waits for a transaction
that waits for a greater one.

Of a hub restored from a backup (from `ConstantsOK` and `RestoresOK`: any number of
restores) the same module proves `ResetRebuildsDevices` (`RSpec => []ResetRebuilds`)
and `RestoredLogsFit` (`LogMatches`). `IInv` is false there, since a device may hold and
ask from a history that was lost. `RInv` keeps what remains: the store, and every
backup still to be restored, is in order (`StoreFits`); a call the hub answers is in
order whatever the device holds, and one that starts it over goes from nothing, or
from the head it takes as its base (`CallKnown`); a device that was started over has
all of `DeviceOK` and holds only what was sent. `HubOK` and the steps of the devices are
the lemmas of the first proof.

`CustodyProofs` proves `CustodyTypes` and `CustodyHeld` (`Spec => []CustodyIsHeld`)
through `HeldInv`: every cursor that is kept, in an answer or on its way covers, in
the log between its base and itself, only mail its device was sent; `acks` hold
only ids a client had. `ReceiptsInv` adds the receipts: it relates each row to
every receipt ever sent (`Sent`: told, lost or on its way). A receipt of a row's
number has no more marks than the row (`SentBefore`), one that says all the row says
is not owed again (`OwedUnsent`), and what was sent was true (`SentTrue`). `Moves` is
all a step may do to a row, other than `PollReceipts`, which claims. This gives
`NoReceiptForgotten`, `NoReceiptTwice` and `SendersHearTheTruth`.
`RetriesAnswerTheOriginal` needs only that no answer is of a number above the last
drawn or above its row's (`AnswersBehind`). `ListenersSurfaceOnce` (`SurfacedOnce`)
holds for every size of ring and answer. `RingInv` says that what a listener ever
surfaced is in its ring, about to be marked, torn, or had a ring-full of ids marked
after it (`ShownKnown`), and that a ring knows how many ids it took after each one it
holds (`InRing`). `MarkSeenRing` is the lemma both need: what `mark_seen` leaves in the
ring, place by place, when the new ids are appended and the oldest cut off.
`KeepsThePromise` is the refinement (`Spec => KeepsMailPromise`): each action has a
lemma that maps it to a step of the promise or a stutter. It rests on the invariants
above and on `PromiseInv`: what has a row or is in an answer was taken, and a copy its
reader deleted is not queued.

`UploadsProofs` proves, for any number of requests, any size and any number of late
statements, from `UploadsAssumption` alone:

* `TypeCorrect`, `ConfirmedKept`, `PublishedWhole`, `ClosedLeaves`: the invariants;
* `HolderAlone`: `Spec => AloneOnDisk`;
* `Refines`: `Spec => KeepsPromise`, that `Uploads` implements `UploadPromise`.

Its `IInv` says what a handler at each stage can rely on (`Fits`): one that holds
the claim finds the row and the bytes as it left them, because nobody else holds it
(`Claims`), and what changes the row without the claim is only a late statement: a
delete takes it away, an offset is a crossing; one that does not hold it (a start
before its row, a status that has read the row) knows only what no claim holder
undoes. `LateFit` says what a late statement finds: until another makes the claim the
bytes an offset stands for, behind a delete nothing or what is `left`, behind a commit
the whole file. `HolderStep` and `IdleStep` prove once what these two kinds of step
leave to the others; each action then shows only its own part. `HolderAlone` needs
that only the holder and a start before its row change a file, and `Opens`, that the
latter is before any claim. `StepMaps` maps every step to a step of the promise or a
stutter.

`FilesProofs` proves, for any files, messages and sends: `TypeCorrect`, `FilesKept`
(`MessageHasItsFiles`), `OneMessage` (`FilesBelongOnce`), `LeavesNothing`
(`NothingLeftBehind`). `Typed` strengthens the types by what ids stand for (nothing
unminted has a row, the sweep chooses old files, a send names minted files).
`FilesInv` has four parts: `Bound` (a message and its files name each other, unless
the sweep overtook one), `Bodies` (the body a send wrote is unknown to everything else until
its commit), `Rowless` (an upload not yet stored and a deletion not yet done have no
row, and no sweep has chosen them) and `Bytes` (what a row or a message keeps is
there, what has no row has somebody to remove it). Each lemma `...Inv` takes one
handler through the four.

`PushProofs` proves, for any devices, endpoints, hosts and lengths of times in the
order `PushConstants` gives: `TypeCorrect`, `WakeDue`, `OneRequest`, `Spacing`. `IInv`
adds that registrations are drawn once and a wake's registration is its row's
(`Registered`), that an accepted wake was heard (`HeardOK`), and that a row due
sooner than five seconds after its last attempt was hurried (`Spaced`). `2^n` never
has to be computed: `BackoffBounds` needs only the clamp.

`TranslateProofs` proves, for any mail, tasks and tries: `TypeCorrect`, `PaidOnce`,
`Forgets`, `OutcomesStay`. `IInv` adds who holds a job's row and a message's
(`Held`, `RowHeld`) and that a job is of a message that is there, has no outcome and
was never charged (`JobIsOpen`): the two rows settle needs are what makes a second
settle find nothing.

`PresenceProofs` proves, for any number of parked calls and any length of the log:
`TypeCorrect`, `OwnHeard`, `TypingHeard`, `PresenceHeard`, `Echoes`. `Read` says of each
stage of the call that what it has read is what there is, or its listener rang or
will; the invariants of the wait follow at its last stage.

`DeviceKeysProofs` proves, for any devices, any limit of them and any number of
sign-outs under way: `ParkedSyncsWake`, `NoMailAfterSignOut` (by `NotLate`: a read made
after the sign-out of a device with a key is still before the check, and the row
that refuses it does not change), and over one registration of the address
`NoDeviceIsLockedOut` (`NoneLockedOut`) and `NobodyComesBack` (`SignedOutStaysOut`). The
last two need `FirstLife`: nothing is known, kept or asked before the first identity
key (`NoneYet`), no copy, secret or statement is ahead of the present version and a
copy of it is of its key (`UpToVersion`), a statement the hub would accept comes
from a device that knows the present secret (`AskedBy`), and what it has for a device
that enrolled no other key since is sealed to the key that device has (`ToTheirKeys`).
Of a second registration
`UpToVersion` is false, since leave keeps the sealed copies: that is the finding of
`devices_return`. `TypeCorrect` says of `last_seen` that it puts the devices with rows in
a strict order (`OrderMoves`: one is seen and goes to the end; `OrderShrinks`: some are
evicted). From it follows `KeylessBounded` (`KeylessFit`), over all registrations: an
eviction leaves at most `DEVICES_MAX` without a key, since those that stay each have
their own place among the last of the order (`FewAtTheEnd`), and until the next one only
syncs that have just run their INSERT add to them. It is proved and in no run's list.

Every invariant and action property of a passing run is proved here. Model-checked
only: all liveness (`EveryChangeArrives`, `QueueDrains`, `UploadEnds`, `WakeArrives`,
`JobEnds`), since fairness and ENABLED are out of the prover's reach. `CopiesAreCurrent`
is the finding of `devices_return`, and false.

## 5. Plan

Done: the modules of section 2, the runs and the proofs above. What could follow:

1. A composition of `Presence` and `Push` with sends, for a send's wake-ups as a whole.
2. The roster half of a sync, if the advisory lock should ever go.

## 6. Not modelled

* The roster: register, unregister, profile and pruning of whole addresses, and the
  roster numbers a sync reads. All its writers hold one advisory lock to their
  commit, so that they are a sequence; what their order could break the lock
  excludes. Lock orders between handlers whose deadlocks PostgreSQL ends and clients
  retry (`mail.rs:855`).
* The link relay: one statement on one row per operation.
* hubtool's identity file as a document that two processes save; its other commands.
* The limits on sizes and counts, except where named; the upload of no bytes;
  `delete_conversation`'s retries (`history.rs:305`).
* Pictures (one statement per operation on one row), the HTTP front and start-up
  (one sequence), wire formats (no state), database access (pool and migrations),
  the offline import of v1 data, the operations page (reads), installers and hooks.

`PROJECT.json` gives the reason for each component, and for each hazard that no
property covers.
