------------------------------ MODULE Presence ------------------------------
(***************************************************************************)
(* Presence, typing notices and the parked sync (hub/src/presence.rs,      *)
(* typing.rs, and the loop of sync in api/sync.rs).                        *)
(*                                                                         *)
(* A person's device syncs: the call arms its listeners, reads the         *)
(* database and what is in memory, and answers or waits for a wake-up.     *)
(* Another address comes and goes, says that it is busy, and beats while   *)
(* its user types.  presence_loop looks once a second whether what is      *)
(* shown changed.  Each of them runs between any two steps of the others.  *)
(*                                                                         *)
(* The person's own address counts as online throughout (its sync is       *)
(* parked whenever what is shown is compared), on one status.              *)
(*                                                                         *)
(* A definition named ...Mutant... is the one after it with a plausible    *)
(* bug; no other definition uses it.                                       *)
(***************************************************************************)
EXTENDS Naturals, FiniteSets

CONSTANTS
    MaxParked,      \* bound: calls of the other address that are parked
    MaxLog,         \* bound: changes of the person's log
    None

ASSUME PresenceConstants == MaxParked \in Nat /\ MaxLog \in Nat

VARIABLES
    slot,           \* Slot of the other address
    last,           \* presence_loop's `last`, and whether it still has to wake for it
    log,            \* the person's change log and the roster's, as one count
    used,           \* devices.active_until of the device has not come
    owed,           \* what is committed or stored and not woken for yet
    beat,           \* a heartbeat is FRESH that the device was not told
    device,         \* what the device keeps of its answers: cursor, print, set online
    call,           \* its sync
    looked          \* (history) presence_loop saw a change since the sync last compared

vars == <<slot, last, log, used, owed, beat, device, call, looked>>

-----------------------------------------------------------------------------
(* What is shown.                                                          *)

\* online_at: a call is parked; one was marked within the window; or the
\* last one hung up within the grace.
Online == slot.parked > 0 \/ slot.seen # "gone"

Shown == IF ~Online THEN "offline" ELSE IF slot.busy THEN "busy" ELSE "online"

\* now_sets also ends the busy of an address it sees offline.
Looked == [slot EXCEPT !.busy = @ /\ Online]

Init ==
    /\ slot = [parked |-> 0, seen |-> "gone", busy |-> FALSE]
    /\ last = [sets |-> Shown, wakes |-> FALSE]
    /\ log = 0
    /\ used = FALSE
    /\ owed = {}
    /\ beat = FALSE
    /\ device = [cursor |-> 0, print |-> None, shows |-> None]
    /\ call = [at |-> "none", found |-> 0, used |-> FALSE, late |-> FALSE, rung |-> {}]
    /\ looked = FALSE

\* notify_waiters, where the call still has use for it.
Listening == {"armed", "checked", "decides", "compared", "waits", "noticed"}
RingMutantWaiting(listener) ==
    call' = [call EXCEPT !.rung = IF call.at # "waits" THEN @ ELSE @ \cup {listener}]
Ring(listener) ==
    call' = [call EXCEPT !.rung = IF call.at \notin Listening THEN @ ELSE @ \cup {listener}]

-----------------------------------------------------------------------------
(* The other address.                                                      *)

\* mark_seen, at the end of each of its calls and the start of most.
Mark ==
    /\ slot' = [slot EXCEPT !.seen = "seen"]
    /\ UNCHANGED <<last, log, used, owed, beat, device, call, looked>>

Park ==
    /\ slot.parked < MaxParked
    /\ slot' = [slot EXCEPT !.parked = @ + 1]
    /\ UNCHANGED <<last, log, used, owed, beat, device, call, looked>>

\* A parked call answers, marked first, or fails.
Finish ==
    /\ slot.parked > 0
    /\ slot' \in {[slot EXCEPT !.parked = @ - 1], [slot EXCEPT !.parked = @ - 1, !.seen = "seen"]}
    /\ UNCHANGED <<last, log, used, owed, beat, device, call, looked>>

\* Parked dropped unfinished: its client hung up.
HangUp ==
    /\ slot.parked > 0
    /\ slot' = [slot EXCEPT !.parked = @ - 1, !.seen = IF slot.parked = 1 THEN "hung" ELSE @]
    /\ UNCHANGED <<last, log, used, owed, beat, device, call, looked>>

\* PRESENCE_WINDOW or HANG_UP_GRACE runs out.
Lapse ==
    /\ slot.seen # "gone"
    /\ slot' = [slot EXCEPT !.seen = "gone"]
    /\ UNCHANGED <<last, log, used, owed, beat, device, call, looked>>

\* POST /api/presence: marked, then declared.
Declare(busy) ==
    /\ slot' = [slot EXCEPT !.seen = "seen", !.busy = busy]
    /\ UNCHANGED <<last, log, used, owed, beat, device, call, looked>>

\* POST /api/typing, unless absorbed within MIN_GAP of the one before.
Beat ==
    /\ beat' = TRUE
    /\ owed' = owed \cup {"typing"}
    /\ UNCHANGED <<slot, last, log, used, device, call, looked>>

\* FRESH passes: it is news to nobody.
BeatAges ==
    /\ beat
    /\ beat' = FALSE
    /\ UNCHANGED <<slot, last, log, used, owed, device, call, looked>>

-----------------------------------------------------------------------------
(* The person's other calls, and mail for them.                            *)

\* A change of the person's log, or of the roster, is committed.
Commit ==
    /\ log < MaxLog
    /\ log' = log + 1
    /\ owed' = owed \cup {"mine"}
    /\ UNCHANGED <<slot, last, used, beat, device, call, looked>>

\* POST /api/devices/active: the device is taken up or put down.
Active(on) ==
    /\ used' = on
    /\ owed' = owed \cup {"mine"}
    /\ UNCHANGED <<slot, last, log, beat, device, call, looked>>

\* ACTIVE_FOR runs out.
ActiveLapses ==
    /\ used
    /\ used' = FALSE
    /\ UNCHANGED <<slot, last, log, owed, beat, device, call, looked>>

\* wake_sync, typing_changed: after the commit or the store.
Wake(listener) ==
    /\ listener \in owed
    /\ owed' = owed \ {listener}
    /\ Ring(listener)
    /\ UNCHANGED <<slot, last, log, used, beat, device, looked>>

-----------------------------------------------------------------------------
(* presence_loop.                                                          *)

\* now_sets differs from the last time: addresses gone have their roster
\* entries marked (a transaction, or it fails) ...
LookMutantGivesUp ==
    /\ ~last.wakes /\ last.sets # Shown
    /\ last' \in [sets : {Shown}, wakes : IF Shown = "offline" THEN BOOLEAN ELSE {TRUE}]
    /\ slot' = Looked
    /\ looked' = (call.at # "none")
    /\ UNCHANGED <<log, used, owed, beat, device, call>>
Look ==
    /\ ~last.wakes /\ last.sets # Shown
    /\ last' = [sets |-> Shown, wakes |-> TRUE]
    /\ slot' = Looked
    /\ looked' = (call.at # "none")
    /\ UNCHANGED <<log, used, owed, beat, device, call>>

\* ... then online_changed.
LookWakes ==
    /\ last.wakes
    /\ last' = [last EXCEPT !.wakes = FALSE]
    /\ Ring("online")
    /\ UNCHANGED <<slot, log, used, owed, beat, device, looked>>

-----------------------------------------------------------------------------
(* The sync.                                                               *)

\* Parked, sync_listener enabled: what rang for an earlier one is dropped.
Arm ==
    /\ call.at \in {"none", "again"}
    /\ call' = [call EXCEPT !.at = "armed"]
    /\ UNCHANGED <<slot, last, log, used, owed, beat, device, looked>>

\* sync_check.
Check ==
    /\ call.at = "armed"
    /\ call' = [call EXCEPT !.at = "checked", !.found = log]
    /\ UNCHANGED <<slot, last, log, used, owed, beat, device, looked>>

\* device_in_use.
ReadsUse ==
    /\ call.at = "checked"
    /\ call' = [call EXCEPT !.at = "decides", !.used = used]
    /\ UNCHANGED <<slot, last, log, used, owed, beat, device, looked>>

OnlineNews == call.used /\ device.print # None /\ device.print # Shown
TypingNews == call.used /\ beat
Answers == call.found > device.cursor \/ call.late \/ OnlineNews

Over == [at |-> "none", found |-> 0, used |-> FALSE, late |-> FALSE, rung |-> {}]

\* sync_answer: the set online goes with it if its print is another.
SyncAnswered ==
    [cursor |-> call.found, print |-> Shown,
     shows |-> IF device.print # Shown THEN Shown ELSE device.shows]

\* typing_answer: from memory, with the cursor that came.
TypingAnsweredMutantPrints ==
    [device EXCEPT !.print = Shown, !.shows = IF device.print = None THEN Shown ELSE @]
TypingAnswered ==
    [device EXCEPT !.print = IF @ = None THEN Shown ELSE @,
                   !.shows = IF device.print = None THEN Shown ELSE @]

Leaves(at) == [Over EXCEPT !.at = at, !.found = call.found]
Again(late) == [Over EXCEPT !.at = "again", !.late = late]

\* What the batch and the set online give to answer for.
DecidesMutantWaits ==
    /\ call.at = "decides"
    /\ call' = IF Answers THEN Leaves("answers") ELSE [call EXCEPT !.at = "waits", !.found = 0]
    /\ looked' = FALSE
    /\ UNCHANGED <<slot, last, log, used, owed, beat, device>>
Decides ==
    /\ call.at = "decides"
    /\ call' = IF Answers THEN Leaves("answers") ELSE [call EXCEPT !.at = "compared", !.found = 0]
    /\ looked' = FALSE
    /\ UNCHANGED <<slot, last, log, used, owed, beat, device>>

\* Then what heartbeats give; with nothing to tell, the call waits.
AsksTyping ==
    /\ call.at = "compared"
    /\ call' = IF TypingNews THEN Leaves("relays") ELSE [call EXCEPT !.at = "waits"]
    /\ UNCHANGED <<slot, last, log, used, owed, beat, device, looked>>

\* An answer reaches the device, with the heartbeats it relays, or is lost.
Answered(kept) ==
    /\ call' = Over
    /\ slot' = Looked
    /\ \/ device' = kept /\ beat' = FALSE
       \/ UNCHANGED <<device, beat>>
    /\ looked' = FALSE
    /\ UNCHANGED <<last, log, used, owed>>

Answer == call.at = "answers" /\ Answered(SyncAnswered)
TypingAnswer == call.at = "relays" /\ Answered(TypingAnswered)

\* The listener's wait: its own address, or the roster ...
WakesChanged ==
    /\ call.at = "waits" /\ "mine" \in call.rung
    /\ call' = Again(FALSE)
    /\ UNCHANGED <<slot, last, log, used, owed, beat, device, looked>>

\* ... or a presence wake, enabled anew before anything is looked at.
WakesNoticed(listener) ==
    /\ call.at = "waits" /\ listener \in call.rung
    /\ call' = [call EXCEPT !.at = "noticed", !.rung = @ \ {listener}]
    /\ UNCHANGED <<slot, last, log, used, owed, beat, device, looked>>

Notices ==
    /\ call.at = "noticed"
    /\ call' = IF OnlineNews THEN Again(FALSE) ELSE [call EXCEPT !.at = "compared"]
    /\ looked' = FALSE
    /\ UNCHANGED <<slot, last, log, used, owed, beat, device>>

\* The deadline, or the hub stops.
Deadline ==
    /\ call.at = "waits"
    /\ call' = Again(TRUE)
    /\ UNCHANGED <<slot, last, log, used, owed, beat, device, looked>>

\* The device hangs up.
Quits ==
    /\ call.at # "none"
    /\ call' = Over
    /\ looked' = FALSE
    /\ UNCHANGED <<slot, last, log, used, owed, beat, device>>

Next ==
    \/ Mark \/ Park \/ Finish \/ HangUp \/ Lapse \/ Beat \/ BeatAges
    \/ \E on \in BOOLEAN : Declare(on) \/ Active(on)
    \/ Commit \/ ActiveLapses \/ Look \/ LookWakes
    \/ \E listener \in {"mine", "typing"} : Wake(listener)
    \/ Arm \/ Check \/ ReadsUse \/ Decides \/ AsksTyping \/ Answer \/ TypingAnswer
    \/ WakesChanged \/ Notices \/ Deadline \/ Quits
    \/ \E listener \in {"online", "typing"} : WakesNoticed(listener)

Spec == Init /\ [][Next]_vars

-----------------------------------------------------------------------------
(* Properties.                                                             *)

Shows == {"offline", "online", "busy"}

(* The variables have their types. *)
TypeOK ==
    /\ slot \in [parked : 0..MaxParked, seen : {"gone", "seen", "hung"}, busy : BOOLEAN]
    /\ last \in [sets : Shows, wakes : BOOLEAN]
    /\ log \in 0..MaxLog
    /\ used \in BOOLEAN
    /\ owed \subseteq {"mine", "typing"}
    /\ beat \in BOOLEAN
    /\ device \in [cursor : 0..MaxLog, print : Shows \cup {None}, shows : Shows \cup {None}]
    /\ call \in [at : {"none", "armed", "checked", "decides", "answers", "compared", "relays",
                       "waits", "noticed", "again"},
                found : 0..MaxLog, used : BOOLEAN, late : BOOLEAN, rung : SUBSET {"mine", "online", "typing"}]
    /\ looked \in BOOLEAN

Asleep == call.at = "waits" /\ call.rung = {}

(* A sync sleeps through no change of its log and no taking up of its       *)
(* device, whichever of its reads that came after: the listener is enabled  *)
(* before them, and who commits wakes it (sync, active).                    *)
HearsItsOwn ==
    Asleep /\ "mine" \notin owed => log = device.cursor /\ (used => call.used)

(* Nor, with its device in use, through a fresh heartbeat it was not told:  *)
(* not one that came while another presence wake was looked at (wait,       *)
(* typing_news).                                                            *)
HearsTyping == Asleep /\ TypingNews => "typing" \in owed

(* Nor through a change of what is shown that presence_loop saw since the   *)
(* sync last compared.  (One that came and went between two looks of the    *)
(* loop is seen by neither.)                                                *)
HearsPresence == Asleep /\ OnlineNews /\ looked => last.wakes

(* A device shows the set online that the print in its cursor stands for,   *)
(* through lost answers and answers from memory: an answer that leaves the  *)
(* set out never leaves it stale (sync_answer, typing_answer).              *)
ShowsWhatItEchoes == device.shows = device.print
=============================================================================
