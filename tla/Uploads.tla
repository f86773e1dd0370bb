-------------------------------- MODULE Uploads --------------------------------
(***************************************************************************)
(* One resumable upload (hub/src/api/transfers.rs): a row of `uploads`, a   *)
(* partial file, and in the end a row of `attachments` and a blob.          *)
(* Requests for it, and the sweep, come at any time; a set in memory        *)
(* (Writing) lets one of them write at a time.  A request is dropped when   *)
(* its client hangs up, at any await, and the hub may stop: rows and files  *)
(* stay as they are and the claim goes at once.  A statement that a dropped *)
(* handler had sent is still executed (late), whoever has the claim by      *)
(* then.  Uploads do not touch one another.                                 *)
(*                                                                         *)
(* Bytes are counted, and of what was written only which bytes are not the  *)
(* announced file's is kept.  An upload of no bytes, which start finishes   *)
(* itself, is left out: Total > 0.                                         *)
(*                                                                         *)
(* A definition named ...Mutant... is the one after it with a plausible    *)
(* bug; no other definition uses it.                                       *)
(***************************************************************************)
EXTENDS Integers, FiniteSets

CONSTANTS
    Request,        \* requests of the upload's client
    Sweeper,        \* the hub's sweep
    NoOne,          \* nobody holds the claim
    Total,          \* the upload's size
    MaxLate         \* bound: statements of dropped handlers under way

ASSUME UploadsAssumption ==
    /\ Sweeper \notin Request /\ NoOne \notin Request \cup {Sweeper}
    /\ Total \in Nat \ {0}
    /\ MaxLate \in Nat

Gone == -1          \* no such file, no such row
Process == Request \cup {Sweeper}

VARIABLES
    hashed,         \* the client gave a sha256
    received,       \* uploads.received, or Gone
    quiet,          \* updated_at is more than a day ago
    part, blob,     \* the lengths of the partial file and of the blob, or Gone
    wrong,          \* the bytes on disk that are not the file's
    published,      \* the attachments row
    writing,        \* who holds the claim
    pc,             \* where each process is: its stage, and the offset it writes at
    late,           \* statements of dropped handlers that are still to be executed
    born,           \* the upload was opened
    astray,         \* finish found other bytes than the announced file's, or began
                    \* on an offset that no longer held
    crossed,        \* a late offset was stored after another made the claim
    left            \* a process stopped before it removed the bytes

disk == <<part, blob, wrong>>
rows == <<hashed, received, quiet, published>>
history == <<born, astray, crossed, left>>
claims == <<writing, late>>
vars == <<rows, disk, claims, pc, history>>

Idle == [stage |-> "idle", at |-> 0]

Init ==
    /\ hashed \in BOOLEAN
    /\ received = Gone /\ quiet = FALSE /\ published = FALSE
    /\ part = Gone /\ blob = Gone /\ wrong = {}
    /\ writing = NoOne
    /\ pc = [p \in Process |-> Idle]
    /\ late = {}
    /\ born = FALSE /\ astray = FALSE /\ crossed = FALSE /\ left = FALSE

IsAt(p, stage) == pc[p].stage = stage
Go(p, stage) == pc' = [pc EXCEPT ![p].stage = stage]

\* Writing::claim, and the end of the handler that holds it.
MayClaimMutantAlways == TRUE
MayClaim == writing = NoOne
Overtaken(l) == [kind |-> l.kind, at |-> l.at, overtaken |-> TRUE]
ClaimMutantLooks(p) == MayClaim /\ UNCHANGED claims
Claim(p) ==
    /\ MayClaim
    /\ writing' = p
    /\ late' = {Overtaken(l) : l \in late}
ReleasedMutantKept(p) == writing
Released(p) == IF writing = p THEN NoOne ELSE writing
End(p) ==
    /\ pc' = [pc EXCEPT ![p] = Idle]
    /\ writing' = Released(p)

\* set_len: bytes beyond the length go, missing ones are zeros.
SetLen(n) ==
    /\ part' = n
    /\ wrong' = {i \in 1..n : i \in wrong \/ i > part}

\* A transaction whose commit is under way still locks the upload's row.
Unlocked == \A l \in late : l.kind # "commit"

\* What an UPDATE stores, if the row is there.
Stored(n) == IF received = Gone THEN Gone ELSE n

-----------------------------------------------------------------------------
(* start, append, confirm.                                                 *)

\* start: an empty partial file, then the row.
Start(r) ==
    /\ ~born /\ part = Gone /\ IsAt(r, "idle")
    /\ part' = 0
    /\ Go(r, "opening")
    /\ UNCHANGED <<rows, blob, wrong, claims, history>>

StartRow(r) ==
    /\ IsAt(r, "opening")
    /\ received' = 0 /\ quiet' = FALSE /\ born' = TRUE
    /\ Go(r, "idle")
    /\ UNCHANGED <<hashed, published, disk, claims, astray, crossed, left>>

\* append, at the offset the upload is at: what a cut write left is dropped.
\* Without a partial file it is refused.
Append(r) ==
    /\ IsAt(r, "idle") /\ received # Gone /\ part # Gone
    /\ Claim(r)
    /\ SetLen(received)
    /\ pc' = [pc EXCEPT ![r] = [stage |-> "writing", at |-> received]]
    /\ UNCHANGED <<rows, blob, history>>

\* The next byte, which may be wrong.
Write(r) ==
    LET n == pc[r].at + 1 IN
    /\ IsAt(r, "writing") /\ n <= Total
    /\ part' = IF part < n THEN n ELSE part
    /\ wrong' \in {wrong \ {n}, wrong \cup {n}}
    /\ pc' = [pc EXCEPT ![r].at = n]
    /\ UNCHANGED <<rows, blob, claims, history>>

\* confirm: what is on disk becomes the upload's offset.
ConfirmedMutantBehind(r) == IF pc[r].at > 0 THEN pc[r].at - 1 ELSE 0
Confirmed(r) == pc[r].at
Confirm(r) ==
    /\ IsAt(r, "writing") /\ Unlocked
    /\ received' = Stored(Confirmed(r))
    /\ quiet' = FALSE

\* A checkpoint on the way.
Checkpoint(r) ==
    /\ Confirm(r)
    /\ UNCHANGED <<hashed, published, disk, claims, pc, history>>

\* The end of the body: a complete upload is finished.
WroteAll(r) ==
    /\ pc[r].at = Total
    /\ Confirm(r)
    /\ Go(r, "look")
    /\ UNCHANGED <<hashed, published, disk, claims, history>>

\* The end of a piece, a body cut short, or one too long: confirmed, and no more.
WroteSome(r) ==
    /\ Confirm(r)
    /\ End(r)
    /\ UNCHANGED <<hashed, published, disk, late, history>>

\* status of an upload with every byte: the hub had stopped before closing it.
\* The row is read before the claim is made.
Status(r) ==
    /\ IsAt(r, "idle") /\ received = Total
    /\ Go(r, "asked")
    /\ UNCHANGED <<rows, disk, claims, history>>

StatusClaims(r) ==
    /\ IsAt(r, "asked")
    /\ Claim(r)
    /\ Go(r, "look")
    /\ astray' = (astray \/ received # Total)
    /\ UNCHANGED <<rows, disk, born, crossed, left>>

-----------------------------------------------------------------------------
(* finish.                                                                 *)

MatchesMutantUnread == TRUE
Matches == ~hashed \/ wrong = {}

\* The bytes, in the partial file or, when a stop came after the rename,
\* already in place.
Moved == part = Gone /\ blob = Total
Whole == part = Total
Look(r) ==
    /\ IsAt(r, "look") /\ received # Gone
    /\ \/ Whole /\ Matches /\ Go(r, "rename")
       \/ Moved /\ Matches /\ Go(r, "commit")
       \/ Whole /\ ~Matches /\ Go(r, "truncate")
       \/ ~Whole /\ ~(Moved /\ Matches) /\ Go(r, "damaged")
    /\ UNCHANGED <<rows, disk, claims, history>>

Rename(r) ==
    /\ IsAt(r, "rename")
    /\ part' = Gone /\ blob' = part
    /\ Go(r, "commit")
    /\ UNCHANGED <<rows, wrong, claims, history>>

\* The attachments row, unless it is there, and the upload's row goes.
Commit(r) ==
    /\ IsAt(r, "commit") /\ Unlocked
    /\ published' = TRUE
    /\ received' = Gone
    /\ End(r)
    /\ UNCHANGED <<hashed, quiet, disk, late, history>>

\* Not the announced file: emptied, then to be sent again from 0.
Truncate(r) ==
    /\ IsAt(r, "truncate")
    /\ SetLen(0)
    /\ astray' = TRUE
    /\ Go(r, "again")
    /\ UNCHANGED <<rows, blob, claims, born, crossed, left>>

SendAgain(r) ==
    /\ IsAt(r, "again") /\ Unlocked
    /\ received' = Stored(0) /\ quiet' = FALSE
    /\ astray' = FALSE
    /\ End(r)
    /\ UNCHANGED <<hashed, published, disk, late, born, crossed, left>>

-----------------------------------------------------------------------------
(* Giving up: damaged removes the bytes and then the row, cancel and the    *)
(* sweep the row and then the bytes (remove_upload_bytes).                 *)

RemovePart(p) ==
    /\ part' = Gone
    /\ wrong' = IF blob = Gone THEN {} ELSE wrong
    /\ UNCHANGED <<rows, blob, claims, born, crossed, left>>

\* The blob of a published attachment is kept.
DropsBlobMutantNever == FALSE
DropsBlob == ~published
RemoveBlob(p) ==
    /\ blob' = IF DropsBlob THEN Gone ELSE blob
    /\ wrong' = IF DropsBlob THEN {} ELSE wrong
    /\ UNCHANGED <<rows, part, late, history>>

Damaged(r) ==
    \/ IsAt(r, "damaged") /\ RemovePart(r) /\ astray' = TRUE /\ Go(r, "damaged blob")
    \/ IsAt(r, "damaged blob") /\ RemoveBlob(r) /\ Go(r, "damaged row") /\ UNCHANGED writing
    \/ /\ IsAt(r, "damaged row") /\ Unlocked
       /\ received' = Gone
       /\ End(r)
       /\ UNCHANGED <<hashed, quiet, published, disk, late, history>>

Cancel(r) ==
    /\ IsAt(r, "idle") /\ received # Gone
    /\ Claim(r) /\ Unlocked
    /\ received' = Gone
    /\ Go(r, "remove")
    /\ UNCHANGED <<hashed, quiet, published, disk, history>>

Remove(p) ==
    \/ IsAt(p, "remove") /\ RemovePart(p) /\ UNCHANGED astray /\ Go(p, "remove blob")
    \/ IsAt(p, "remove blob") /\ RemoveBlob(p) /\ End(p)

\* sweep: the rows a day old are selected; each is claimed and looked at again.
SweepSelect ==
    /\ IsAt(Sweeper, "idle") /\ received # Gone /\ quiet
    /\ Go(Sweeper, "selected")
    /\ UNCHANGED <<rows, disk, claims, history>>

StillQuiet == received # Gone /\ quiet

SweepTake ==
    /\ IsAt(Sweeper, "selected") /\ Unlocked
    /\ IF MayClaim /\ StillQuiet
       THEN /\ Claim(Sweeper)
            /\ received' = Gone
            /\ Go(Sweeper, "remove")
       ELSE /\ Go(Sweeper, "idle")
            /\ UNCHANGED <<received, claims>>
    /\ UNCHANGED <<hashed, quiet, published, disk, history>>

DayPasses ==
    /\ received # Gone /\ ~quiet
    /\ quiet' = TRUE
    /\ UNCHANGED <<hashed, received, published, disk, claims, pc, history>>

-----------------------------------------------------------------------------
(* Failures.                                                               *)

\* What a process leaves when it goes: bytes that no row names.
Leaves(p) == pc[p].stage \in {"opening", "remove", "remove blob"}

\* The client hangs up, or a step fails: the claim is another's, the row of a
\* finish is gone, the disk or the database has an error.
HangUp(r) ==
    /\ ~IsAt(r, "idle")
    /\ left' = (left \/ Leaves(r))
    /\ End(r)
    /\ UNCHANGED <<rows, disk, late, born, astray, crossed>>

\* The client hangs up while a statement is under way: a confirmed offset, the
\* offset 0 of a mismatch, the DELETE of damaged, the COMMIT of finish.  (The
\* INSERT of start is StartRow: nobody knows the upload before it.)
Sends(kind, n) ==
    /\ Cardinality(late) < MaxLate
    /\ late' = late \cup {[kind |-> kind, at |-> n, overtaken |-> FALSE]}

CutOff(r) ==
    /\ \/ IsAt(r, "writing") /\ Sends("offset", Confirmed(r))
       \/ IsAt(r, "again") /\ Sends("offset", 0)
       \/ IsAt(r, "damaged row") /\ Sends("delete", 0)
       \/ IsAt(r, "commit") /\ Unlocked /\ Sends("commit", 0)
    /\ End(r)
    /\ UNCHANGED <<rows, disk, history>>

\* ... or the DELETE of cancel: the bytes then stay.
CancelCutOff(r) ==
    /\ IsAt(r, "idle") /\ received # Gone /\ MayClaim
    /\ Sends("delete", 0)
    /\ left' = TRUE
    /\ UNCHANGED <<rows, disk, writing, pc, born, astray, crossed>>

\* The statement takes effect, after whatever another request did meanwhile.
Lands(l) ==
    /\ late' = late \ {l}
    /\ \/ /\ l.kind = "offset" /\ Unlocked
          /\ received' = Stored(l.at) /\ quiet' = FALSE
          /\ crossed' = (crossed \/ (l.overtaken /\ received # Gone))
          /\ astray' = (astray /\ l.overtaken)
          /\ UNCHANGED published
       \/ /\ l.kind = "delete" /\ Unlocked
          /\ received' = Gone
          /\ UNCHANGED <<quiet, published, astray, crossed>>
       \/ /\ l.kind = "commit"
          /\ published' = TRUE /\ received' = Gone
          /\ UNCHANGED <<quiet, astray, crossed>>
    /\ UNCHANGED <<hashed, disk, writing, pc, born, left>>

\* The hub stops and starts again.
Stop ==
    /\ \E p \in Process : ~IsAt(p, "idle")
    /\ left' = (left \/ \E p \in Process : Leaves(p))
    /\ pc' = [p \in Process |-> Idle]
    /\ writing' = NoOne
    /\ UNCHANGED <<rows, disk, late, born, astray, crossed>>

-----------------------------------------------------------------------------
Appending(r) ==
    \/ Start(r) \/ StartRow(r) \/ Append(r) \/ Write(r)
    \/ Checkpoint(r) \/ WroteAll(r) \/ WroteSome(r)

Finishing(r) ==
    Status(r) \/ StatusClaims(r) \/ Look(r) \/ Rename(r) \/ Commit(r) \/ Truncate(r) \/ SendAgain(r)

Next ==
    \/ \E r \in Request : Appending(r) \/ Finishing(r) \/ Damaged(r) \/ Cancel(r)
    \/ \E r \in Request : HangUp(r) \/ CutOff(r) \/ CancelCutOff(r)
    \/ \E l \in late : Lands(l)
    \/ \E p \in Process : Remove(p)
    \/ SweepSelect \/ SweepTake
    \/ DayPasses \/ Stop

Spec == Init /\ [][Next]_vars

\* A client that keeps asking and sending: not every piece is cut before its
\* first byte, handlers go on, and in the end nobody hangs up or stops the hub.
Fairness ==
    /\ \A r \in Request :
         /\ SF_vars(Append(r)) /\ SF_vars(Write(r)) /\ SF_vars(WroteAll(r)) /\ SF_vars(StatusClaims(r))
         /\ WF_vars(Status(r))
         /\ WF_vars(StartRow(r)) /\ WF_vars(WroteSome(r)) /\ WF_vars(Look(r)) /\ WF_vars(Rename(r))
         /\ WF_vars(Commit(r)) /\ WF_vars(Truncate(r)) /\ WF_vars(SendAgain(r)) /\ WF_vars(Damaged(r))
    /\ \A p \in Process : WF_vars(Remove(p))
    /\ WF_vars(\E l \in late : Lands(l))
    /\ <>[][~Stop /\ \A r \in Request : ~HangUp(r) /\ ~CutOff(r) /\ ~CancelCutOff(r)]_vars

FairSpec == Spec /\ Fairness

-----------------------------------------------------------------------------
(* Properties.                                                             *)

Stages == {"idle", "opening", "writing", "asked", "look", "rename", "commit", "truncate", "again",
           "damaged", "damaged blob", "damaged row", "remove", "remove blob", "selected"}
Lengths == 0..Total \cup {Gone}
Statements == [kind : {"offset", "delete", "commit"}, at : 0..Total, overtaken : BOOLEAN]

\* The stages of a handler that holds the claim.
Held == {"writing", "look", "rename", "commit", "truncate", "again", "damaged",
         "damaged blob", "damaged row", "remove", "remove blob"}

(* The variables have their types. *)
TypeOK ==
    /\ hashed \in BOOLEAN
    /\ received \in Lengths /\ part \in Lengths /\ blob \in {Gone, Total}
    /\ quiet \in BOOLEAN /\ published \in BOOLEAN
    /\ wrong \subseteq 1..Total
    /\ writing \in Process \cup {NoOne}
    /\ pc \in [Process -> [stage : Stages, at : 0..Total]]
    /\ late \subseteq Statements
    /\ born \in BOOLEAN /\ astray \in BOOLEAN /\ crossed \in BOOLEAN /\ left \in BOOLEAN

(* What the hub confirmed is on disk: a client can always go on from the     *)
(* offset it is told, or is finished, whoever was cut off where, also when   *)
(* the offset it had reached is stored after it is gone; unless finish found *)
(* other bytes than the announced file's, or began on an offset that a       *)
(* mismatch had meanwhile set back, or a late offset was stored after        *)
(* another request had begun on the one before it (confirm, the guard of     *)
(* Writing).                                                                 *)
Kept == part >= received \/ (received = Total /\ part = Gone /\ blob = Total)
ConfirmedIsKept == received # Gone /\ ~astray /\ ~crossed => Kept

(* A published file is whole, is the one announced, and keeps its bytes      *)
(* through every late cancel and sweep.                                      *)
PublishedIsWhole ==
    published => blob = Total /\ part = Gone /\ (hashed => wrong = {})

(* Without a row an upload leaves no bytes, unless the one removing them was *)
(* stopped.                                                                  *)
ClosedLeavesNothing ==
    received = Gone /\ ~published /\ ~left /\ (\A p \in Process : ~Leaves(p)) => part = Gone /\ blob = Gone

(* A handler that holds the claim is alone with the bytes: no sweep, cancel,  *)
(* finish or other append, nor what a handler before it left behind, changes *)
(* a file between two of its steps (Writing; sweep: "Claim before deleting   *)
(* either row or bytes").                                                    *)
AloneOnDisk ==
    [][\A p \in Process : pc[p].stage \in Held /\ pc'[p] = pc[p] => UNCHANGED disk]_vars

(* An upload comes to its end while its client keeps on: no claim is kept by *)
(* a handler that is gone.  With a sha256 the client may send the wrong      *)
(* bytes for ever; and one whose bytes are gone while a late offset crossed  *)
(* its finish answers 410 until the sweep.                                   *)
UploadEnds == ~hashed => (received # Gone ~> received = Gone \/ crossed)

\* A finish past its checks publishes the file, whatever becomes of the row.
Completing == (\E p \in Process : pc[p].stage \in {"rename", "commit"}) \/ ~Unlocked

(* The code keeps the promise of resumable uploads.                          *)
Promise == INSTANCE UploadPromise WITH
    phase <- IF published THEN "complete" ELSE IF received # Gone \/ Completing THEN "open"
             ELSE IF born THEN "closed" ELSE "new",
    offset <- IF published THEN Total ELSE IF received # Gone THEN received ELSE IF Completing THEN Total ELSE 0
KeepsPromise == Promise!Spec
=============================================================================
