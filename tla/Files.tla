--------------------------------- MODULE Files ---------------------------------
(***************************************************************************)
(* A file of the hub is two things kept in two places: a row of            *)
(* `attachments` and the bytes under blobs/ (hub/src/api/files.rs,         *)
(* blobs.rs).  An upload makes both; a send binds files to its message and *)
(* writes a long body into one of its own (mail.rs); deleting the last     *)
(* copy of a message removes them (history.rs); the sweep removes what no  *)
(* send bound (sweep.rs).  Modelled with HUB_RETENTION_DAYS unset, as it   *)
(* is by default.                                                          *)
(*                                                                         *)
(* Rows and bytes are never written in one step.  A handler is dropped     *)
(* when its client hangs up, at any await: rows roll back unless their     *)
(* commit was already on its way, and a guard (UploadFiles) removes the    *)
(* bytes it still holds.  When the hub stops, no guard runs.               *)
(*                                                                         *)
(* A definition named ...Mutant... is the one after it with a plausible    *)
(* bug; no other definition uses it.                                       *)
(***************************************************************************)
EXTENDS Naturals, FiniteSets

CONSTANTS
    File,           \* attachment ids, minted by the hub, never twice
    Message,        \* message ids
    Sender,         \* sends under way
    NoFile, NoMessage, NoSender,
    Unbound,        \* the row's message_id is NULL
    Absent,         \* no row
    MayAge,         \* bound: the files that may be left for a week
    MayHangUp       \* bound: the sends and uploads whose client may hang up

ASSUME FilesAssumption ==
    /\ NoFile \notin File /\ NoMessage \notin Message /\ NoSender \notin Sender
    /\ Unbound \notin Message /\ Absent \notin Message /\ Unbound # Absent
    /\ IsFiniteSet(File)
    /\ MayAge \subseteq File

VARIABLES
    minted,         \* the ids in use
    att,            \* each file's row: Absent, Unbound, or its message
    blob,           \* the files whose bytes are under blobs/
    aged,           \* rows created over UNBOUND_UPLOAD_DAYS ago
    copies,         \* how many sides keep a copy of each message; 0: no row
    parts,          \* the files a message names: its attachments and its body
    moved,          \* uploads whose bytes are in place and whose row is not
    send,           \* each send under way
    lock,           \* which send's transaction holds each file's row
    removing,       \* files whose rows a deletion took, their bytes to follow
    chosen,         \* the rows the sweep selected
    cut,            \* of those, the files it has removed
    uploaded,       \* files an upload was answered for
    torn,           \* files whose guard ran although their row was stored
    left,           \* files whose rows went and whose bytes the hub forgot
    swept,          \* files whose bytes the sweep removed
    overtaken       \* files bound after the sweep chose them

tables == <<att, copies, parts, lock>>
history == <<uploaded, torn, left, swept, overtaken>>
sweep == <<chosen, cut>>
vars == <<minted, tables, blob, aged, moved, send, removing, sweep, history>>

Idle == [stage |-> "idle", msg |-> NoMessage, files |-> {}, body |-> NoFile, own |-> FALSE]

Init ==
    /\ minted = {}
    /\ att = [f \in File |-> Absent]
    /\ blob = {}
    /\ aged = {}
    /\ copies = [m \in Message |-> 0]
    /\ parts = [m \in Message |-> {}]
    /\ moved = {}
    /\ send = [s \in Sender |-> Idle]
    /\ lock = [f \in File |-> NoSender]
    /\ removing = {} /\ chosen = {} /\ cut = {}
    /\ uploaded = {} /\ torn = {} /\ left = {} /\ swept = {} /\ overtaken = {}

-----------------------------------------------------------------------------
(* Uploads.  A resumable upload ends in the same two steps, its bytes       *)
(* kept when it is interrupted (module Uploads).                            *)

\* The bytes arrive in a partial file and are renamed into place.
UploadMove(f) ==
    /\ f \notin minted
    /\ minted' = minted \cup {f}
    /\ blob' = blob \cup {f}
    /\ moved' = moved \cup {f}
    /\ UNCHANGED <<tables, aged, send, removing, sweep, history>>

UploadInsert(f) ==
    /\ f \in moved
    /\ att' = [att EXCEPT ![f] = Unbound]
    /\ moved' = moved \ {f}
    /\ uploaded' = uploaded \cup {f}
    /\ UNCHANGED <<minted, copies, parts, lock, blob, aged, send, removing, sweep, torn, left, swept, overtaken>>

\* The client hangs up during the insert: the guard removes the bytes, and
\* the row may be there all the same.  Nobody was told its id.
UploadDropped(f) ==
    /\ f \in moved
    /\ moved' = moved \ {f}
    /\ blob' = blob \ {f}
    /\ \/ att' = [att EXCEPT ![f] = Unbound] /\ torn' = torn \cup {f}
       \/ UNCHANGED <<att, torn>>
    /\ UNCHANGED <<minted, copies, parts, lock, aged, send, removing, sweep, uploaded, left, swept, overtaken>>

-----------------------------------------------------------------------------
(* A send.                                                                 *)

Begin(s, m, fs, f, own) ==
    send' = [send EXCEPT ![s] =
        [stage |-> "ready", msg |-> m, files |-> fs, body |-> f, own |-> own]]

\* A send of message m with the attachments fs, its body in the row.
SendShort(s, m, fs) ==
    /\ send[s].stage = "idle"
    /\ Begin(s, m, fs, NoFile, FALSE)
    /\ UNCHANGED <<minted, tables, blob, aged, moved, removing, sweep, history>>

\* LongBody::write: the body goes to a file first.
SendLong(s, m, fs, f) ==
    /\ send[s].stage = "idle" /\ f \notin minted
    /\ Begin(s, m, fs, f, TRUE)
    /\ minted' = minted \cup {f}
    /\ blob' = blob \cup {f}
    /\ UNCHANGED <<tables, aged, moved, removing, sweep, history>>

\* LongBody::uploaded: the body is an upload whose row and bytes are there.
SendUploaded(s, m, fs, f) ==
    /\ send[s].stage = "idle" /\ f \notin fs
    /\ att[f] # Absent /\ f \in blob
    /\ Begin(s, m, fs, f, FALSE)
    /\ UNCHANGED <<minted, tables, blob, aged, moved, removing, sweep, history>>

Named(s) == send[s].files \cup (IF send[s].body = NoFile THEN {} ELSE {send[s].body})
Wanted(s) == send[s].files \cup (IF send[s].own THEN {} ELSE {send[s].body} \ {NoFile})

\* Rows a transaction holds make the others wait.
FreeFor(s, f) == lock[f] \in {s, NoSender}

\* The rows the send names, locked in order of their ids.
SendLock(s) ==
    /\ send[s].stage = "ready"
    /\ \A f \in Wanted(s) : FreeFor(s, f)
    /\ lock' = [f \in File |-> IF f \in Wanted(s) /\ att[f] # Absent THEN s ELSE lock[f]]
    /\ send' = [send EXCEPT ![s].stage = "locked"]
    /\ UNCHANGED <<minted, att, copies, parts, blob, aged, moved, removing, sweep, history>>

Unlock(s) == [f \in File |-> IF lock[f] = s THEN NoSender ELSE lock[f]]

\* What an attachment row must say for message m to name it.
BindableMutantAny(f, m) == att[f] # Absent
Bindable(f, m) == att[f] \in {Unbound, m}

\* Every file named exists and is bound to no other message.
Accepted(s) == \A f \in Wanted(s) : lock[f] = s /\ Bindable(f, send[s].msg)

\* A new message: it and its files, in one transaction; mail to oneself has
\* one copy.
SendCommit(s) ==
    LET m == send[s].msg IN
    /\ send[s].stage = "locked" /\ copies[m] = 0
    /\ Accepted(s)
    /\ att' = [f \in File |-> IF f \in Named(s) THEN m ELSE att[f]]
    /\ \E sides \in {1, 2} : copies' = [copies EXCEPT ![m] = sides]
    /\ parts' = [parts EXCEPT ![m] = Named(s)]
    /\ lock' = Unlock(s)
    /\ send' = [send EXCEPT ![s].stage = "committed"]
    /\ overtaken' = overtaken \cup (Named(s) \cap (chosen \cup swept))
    /\ UNCHANGED <<minted, blob, aged, moved, removing, sweep, uploaded, torn, left, swept>>

\* keep(): the body's guard is told that the message came to exist.
SendKeep(s) ==
    /\ send[s].stage = "committed"
    /\ send' = [send EXCEPT ![s] = Idle]
    /\ UNCHANGED <<minted, tables, blob, aged, moved, removing, sweep, history>>

\* The guard of a body this send wrote.
OwnBodyMutantNone(s) == {}
OwnBody(s) == IF send[s].own THEN {send[s].body} ELSE {}

\* A retry, a refusal, a failure or a client that hung up: nothing is stored,
\* and the body's guard runs.
SendEnds(s) ==
    /\ send[s].stage \in {"ready", "locked"}
    /\ blob' = blob \ OwnBody(s)
    /\ lock' = Unlock(s)
    /\ send' = [send EXCEPT ![s] = Idle]
    /\ UNCHANGED <<minted, att, copies, parts, aged, moved, removing, sweep, history>>

\* The client hangs up while the hub waits for its commit.
SendDropped(s) ==
    /\ send[s].stage = "committed"
    /\ blob' = blob \ OwnBody(s)
    /\ torn' = torn \cup OwnBody(s)
    /\ send' = [send EXCEPT ![s] = Idle]
    /\ UNCHANGED <<minted, tables, aged, moved, removing, sweep, uploaded, left, swept, overtaken>>

-----------------------------------------------------------------------------
(* Deletion.                                                               *)

OfMessage(m) == {f \in File : att[f] = m}

\* The files whose rows go with a copy of m.
GoneMutantFirst(m) == OfMessage(m)
Gone(m) == IF copies[m] = 1 THEN OfMessage(m) ELSE {}

\* One side deletes its copy; with the last one the row and its files' rows go.
DeleteCopy(m) ==
    /\ copies[m] > 0
    /\ \A f \in Gone(m) : lock[f] = NoSender
    /\ copies' = [copies EXCEPT ![m] = @ - 1]
    /\ parts' = IF copies[m] = 1 THEN [parts EXCEPT ![m] = {}] ELSE parts
    /\ att' = [f \in File |-> IF f \in Gone(m) THEN Absent ELSE att[f]]
    /\ removing' = removing \cup Gone(m)
    /\ UNCHANGED <<minted, lock, blob, aged, moved, send, sweep, history>>

\* remove_files, after the commit.
RemoveFile(f) ==
    /\ f \in removing
    /\ removing' = removing \ {f}
    /\ blob' = blob \ {f}
    /\ UNCHANGED <<minted, tables, aged, moved, send, sweep, history>>

\* The client hangs up before the files are removed.
DeleteDropped ==
    /\ removing # {}
    /\ left' = left \cup removing
    /\ removing' = {}
    /\ UNCHANGED <<minted, tables, blob, aged, moved, send, sweep, uploaded, torn, swept, overtaken>>

-----------------------------------------------------------------------------
(* The sweep of uploads no send bound: rows selected, files removed one by  *)
(* one, rows deleted.                                                       *)

\* A week passes over a file.
Age(f) ==
    /\ f \in MayAge \ aged /\ att[f] # Absent
    /\ aged' = aged \cup {f}
    /\ UNCHANGED <<minted, tables, blob, moved, send, removing, sweep, history>>

ForSweep(f) == att[f] = Unbound /\ f \in aged

SweepChoose ==
    /\ chosen = {}
    /\ chosen' = {f \in File : ForSweep(f)}
    /\ chosen' # {}
    /\ UNCHANGED <<minted, tables, blob, aged, moved, send, removing, cut, history>>

SweepRemove(f) ==
    /\ f \in chosen \ cut
    /\ cut' = cut \cup {f}
    /\ blob' = blob \ {f}
    /\ swept' = swept \cup {f}
    /\ UNCHANGED <<minted, tables, aged, moved, send, removing, chosen, uploaded, torn, left, overtaken>>

SweepDelete ==
    /\ chosen # {} /\ cut = chosen
    /\ \A f \in chosen : lock[f] = NoSender
    /\ att' = [f \in File |-> IF f \in chosen THEN Absent ELSE att[f]]
    /\ chosen' = {} /\ cut' = {}
    /\ UNCHANGED <<minted, copies, parts, lock, blob, aged, moved, send, removing, history>>

\* The hub stops and starts again: what was under way is gone, and what bytes
\* it held stay where they are.
Stop ==
    /\ moved' = {} /\ removing' = {} /\ chosen' = {} /\ cut' = {}
    /\ send' = [s \in Sender |-> Idle]
    /\ lock' = [f \in File |-> NoSender]
    /\ left' = left \cup moved \cup removing
               \cup {f \in File : \E s \in Sender : f \in OwnBody(s) /\ send[s].stage \in {"ready", "locked"}}
    /\ UNCHANGED <<minted, att, copies, parts, blob, aged, uploaded, torn, swept, overtaken>>

-----------------------------------------------------------------------------
Uploading ==
    \/ \E f \in File : UploadMove(f) \/ UploadInsert(f)
    \/ \E f \in File \cap MayHangUp : UploadDropped(f)

Sending(s) ==
    \/ \E m \in Message, fs \in SUBSET uploaded :
         \/ SendShort(s, m, fs)
         \/ \E f \in File : SendLong(s, m, fs, f) \/ SendUploaded(s, m, fs, f)
    \/ SendLock(s) \/ SendCommit(s) \/ SendKeep(s) \/ SendEnds(s)
    \/ s \in MayHangUp /\ SendDropped(s)

Deleting ==
    \/ \E m \in Message : DeleteCopy(m)
    \/ \E f \in File : RemoveFile(f)
    \/ DeleteDropped

Sweeping == SweepChoose \/ (\E f \in File : SweepRemove(f)) \/ SweepDelete

Next ==
    \/ Uploading
    \/ \E s \in Sender : Sending(s)
    \/ Deleting
    \/ \E f \in File : Age(f)
    \/ Sweeping
    \/ Stop

Spec == Init /\ [][Next]_vars

-----------------------------------------------------------------------------
(* Properties.                                                             *)

Stages == {"idle", "ready", "locked", "committed"}

(* The variables have their types. *)
TypeOK ==
    /\ minted \subseteq File /\ blob \subseteq minted /\ aged \subseteq minted
    /\ att \in [File -> Message \cup {Absent, Unbound}]
    /\ copies \in [Message -> 0..2]
    /\ parts \in [Message -> SUBSET File]
    /\ send \in [Sender -> [stage : Stages, msg : Message \cup {NoMessage}, files : SUBSET File,
                           body : File \cup {NoFile}, own : BOOLEAN]]
    /\ lock \in [File -> Sender \cup {NoSender}]
    /\ moved \subseteq minted /\ removing \subseteq minted
    /\ cut \subseteq chosen /\ chosen \subseteq minted
    /\ uploaded \subseteq minted /\ torn \subseteq minted /\ left \subseteq minted
    /\ swept \subseteq aged /\ overtaken \subseteq aged

(* A message has every file it names, bound to it and whole, as long as one  *)
(* side keeps a copy: but for a body whose send was dropped during its       *)
(* commit, and for files the sweep had chosen before the send bound them.    *)
MessageHasItsFiles ==
    \A m \in Message : copies[m] > 0 =>
        \A f \in parts[m] \ (torn \cup overtaken) : att[f] = m /\ f \in blob

(* A file belongs to one message, and its row goes with that message's.      *)
FilesBelongOnce ==
    /\ \A m, k \in Message : m # k => parts[m] \cap parts[k] \subseteq overtaken
    /\ \A f \in File, m \in Message : att[f] = m => copies[m] > 0 /\ f \in parts[m]

(* No bytes stay behind without a row, unless the hub stopped or a client    *)
(* hung up between a commit and the removal that follows it.                 *)
Underway == moved \cup removing \cup UNION {OwnBody(s) : s \in {t \in Sender : send[t].stage \in {"ready", "locked"}}}
NothingLeftBehind ==
    \A f \in blob : att[f] = Absent => f \in Underway \cup left
=============================================================================
