--------------------------- MODULE PresenceProofs ---------------------------
(***************************************************************************)
(* Theorems about Presence, for any number of parked calls and of changes. *)
(***************************************************************************)
EXTENDS Presence, TLAPS

Calls == [at : {"none", "armed", "checked", "decides", "answers", "compared", "relays",
                "waits", "noticed", "again"},
          found : 0..MaxLog, used : BOOLEAN, late : BOOLEAN, rung : SUBSET {"mine", "online", "typing"}]
Slots == [parked : 0..MaxParked, seen : {"gone", "seen", "hung"}, busy : BOOLEAN]
Devices == [cursor : 0..MaxLog, print : Shows \cup {None}, shows : Shows \cup {None}]

LEMMA Zero == 0 \in 0..MaxLog /\ 0 \in 0..MaxParked
BY PresenceConstants

LEMMA IsShown == Shown \in Shows
BY DEF Shown, Shows

LEMMA CallFields ==
    ASSUME NEW c \in Calls
    PROVE  /\ \A x \in {"none", "armed", "checked", "decides", "answers", "compared", "relays",
                         "waits", "noticed", "again"} : [c EXCEPT !.at = x] \in Calls
           /\ \A x \in 0..MaxLog : [c EXCEPT !.found = x] \in Calls
           /\ \A x \in BOOLEAN : [c EXCEPT !.used = x] \in Calls
           /\ \A x \in BOOLEAN : [c EXCEPT !.late = x] \in Calls
           /\ \A x \in SUBSET {"mine", "online", "typing"} : [c EXCEPT !.rung = x] \in Calls
BY DEF Calls

LEMMA OverCall == Over \in Calls
BY Zero DEF Over, Calls

LEMMA RingCall ==
    ASSUME call \in Calls, NEW listener \in {"mine", "online", "typing"}, Ring(listener)
    PROVE  call' \in Calls
<1>1. call.rung \in SUBSET {"mine", "online", "typing"}
  BY DEF Calls
<1> DEFINE rung == IF call.at \notin Listening THEN call.rung ELSE call.rung \cup {listener}
<1>2. rung \in SUBSET {"mine", "online", "typing"}
  BY <1>1
<1>3. call' = [call EXCEPT !.rung = rung]
  BY DEF Ring
<1> HIDE DEF rung
<1> QED
  BY <1>2, <1>3, CallFields

\* What a step of the sync does to its call.
LEMMA CallSteps ==
    ASSUME call \in Calls, log \in 0..MaxLog, used \in BOOLEAN,
           \/ Arm \/ Check \/ ReadsUse \/ Decides \/ AsksTyping \/ Answer \/ TypingAnswer
           \/ WakesChanged \/ Notices \/ Deadline \/ Quits
           \/ \E listener \in {"online", "typing"} : WakesNoticed(listener)
    PROVE  call' \in Calls
<1> DEFINE Stages == {"none", "armed", "checked", "decides", "answers", "compared", "relays",
                      "waits", "noticed", "again"}
<1>1. \A x \in Stages : [call EXCEPT !.at = x] \in Calls
  BY CallFields
<1>2. ASSUME NEW x \in Stages, NEW f \in 0..MaxLog
      PROVE  [call EXCEPT !.at = x, !.found = f] \in Calls
  <2> DEFINE c == [call EXCEPT !.at = x]
  <2>1. c \in Calls
    BY <1>1
  <2> HIDE DEF c
  <2>2. [c EXCEPT !.found = f] \in Calls
    BY <2>1, CallFields
  <2> QED
    BY <2>2 DEF c
<1>3. ASSUME NEW x \in Stages, NEW u \in BOOLEAN
      PROVE  [call EXCEPT !.at = x, !.used = u] \in Calls
  <2> DEFINE c == [call EXCEPT !.at = x]
  <2>1. c \in Calls
    BY <1>1
  <2> HIDE DEF c
  <2>2. [c EXCEPT !.used = u] \in Calls
    BY <2>1, CallFields
  <2> QED
    BY <2>2 DEF c
<1>4. ASSUME NEW listener \in {"online", "typing"}
      PROVE  [call EXCEPT !.at = "noticed", !.rung = @ \ {listener}] \in Calls
  <2> DEFINE c == [call EXCEPT !.at = "noticed"]
  <2>1. c \in Calls /\ call.rung \ {listener} \in SUBSET {"mine", "online", "typing"}
    BY <1>1 DEF Calls
  <2> HIDE DEF c
  <2>2. [c EXCEPT !.rung = call.rung \ {listener}] \in Calls
    BY <2>1, CallFields
  <2> QED
    BY <2>2 DEF c
<1>5. ASSUME NEW x \in Stages PROVE Leaves(x) \in Calls
  <2> DEFINE c == [Over EXCEPT !.at = x]
             f == call.found
  <2>1. c \in Calls
    BY OverCall, CallFields
  <2>2. f \in 0..MaxLog
    BY DEF Calls
  <2>3. Leaves(x) = [c EXCEPT !.found = f]
    BY DEF Leaves
  <2> HIDE DEF c, f
  <2>4. [c EXCEPT !.found = f] \in Calls
    BY <2>1, <2>2, CallFields
  <2> QED
    BY <2>3, <2>4
<1>6. Again(TRUE) \in Calls /\ Again(FALSE) \in Calls
  BY Zero DEF Again, Over, Calls
<1>7. CASE Arm \/ AsksTyping \/ Notices
  BY <1>1, <1>5, <1>6, <1>7 DEF Arm, AsksTyping, Notices
<1>8. CASE Check \/ Decides
  BY <1>2, <1>5, <1>8, Zero DEF Check, Decides
<1>9. CASE ReadsUse
  BY <1>3, <1>9 DEF ReadsUse
<1>10. CASE Answer \/ TypingAnswer \/ Quits
  BY <1>10, OverCall DEF Answer, TypingAnswer, Answered, Quits
<1>11. CASE WakesChanged \/ Deadline
  BY <1>6, <1>11 DEF WakesChanged, Deadline
<1>12. CASE \E listener \in {"online", "typing"} : WakesNoticed(listener)
  BY <1>4, <1>12 DEF WakesNoticed
<1> QED
  BY <1>7, <1>8, <1>9, <1>10, <1>11, <1>12

LEMMA SlotFields ==
    ASSUME NEW s \in Slots
    PROVE  /\ \A x \in 0..MaxParked : [s EXCEPT !.parked = x] \in Slots
           /\ \A x \in {"gone", "seen", "hung"} : [s EXCEPT !.seen = x] \in Slots
           /\ \A x \in BOOLEAN : [s EXCEPT !.busy = x] \in Slots
BY DEF Slots

LEMMA SlotSteps ==
    ASSUME slot \in Slots,
           \/ Mark \/ Park \/ Finish \/ HangUp \/ Lapse \/ slot' = Looked
           \/ \E on \in BOOLEAN : Declare(on)
    PROVE  slot' \in Slots
<1>1. slot.parked \in 0..MaxParked /\ MaxParked \in Nat /\ slot.busy \in BOOLEAN
  BY PresenceConstants DEF Slots
<1>2. ASSUME NEW n \in 0..MaxParked, NEW s \in {"gone", "seen", "hung"}
      PROVE  [slot EXCEPT !.parked = n, !.seen = s] \in Slots
  <2> DEFINE t == [slot EXCEPT !.parked = n]
  <2>1. t \in Slots
    BY SlotFields
  <2> HIDE DEF t
  <2>2. [t EXCEPT !.seen = s] \in Slots
    BY <2>1, SlotFields
  <2> QED
    BY <2>2 DEF t
<1>3. ASSUME NEW s \in {"gone", "seen", "hung"}, NEW on \in BOOLEAN
      PROVE  [slot EXCEPT !.seen = s, !.busy = on] \in Slots
  <2> DEFINE t == [slot EXCEPT !.seen = s]
  <2>1. t \in Slots
    BY SlotFields
  <2> HIDE DEF t
  <2>2. [t EXCEPT !.busy = on] \in Slots
    BY <2>1, SlotFields
  <2> QED
    BY <2>2 DEF t
<1>4. CASE Mark \/ Lapse
  BY <1>4, SlotFields DEF Mark, Lapse
<1>5. CASE Park
  <2>1. slot.parked + 1 \in 0..MaxParked
    BY <1>1, <1>5 DEF Park
  <2> QED
    BY <1>5, <2>1, SlotFields DEF Park
<1>6. CASE Finish
  <2>1. slot.parked - 1 \in 0..MaxParked
    BY <1>1, <1>6 DEF Finish
  <2> QED
    BY <1>2, <1>6, <2>1, SlotFields DEF Finish
<1>7. CASE HangUp
  <2>1. slot.parked - 1 \in 0..MaxParked /\ slot.seen \in {"gone", "seen", "hung"}
    BY <1>1, <1>7 DEF HangUp, Slots
  <2>2. slot' = [slot EXCEPT !.parked = slot.parked - 1, !.seen = IF slot.parked = 1 THEN "hung" ELSE slot.seen]
    BY <1>7 DEF HangUp
  <2> QED
    BY <1>2, <2>1, <2>2
<1>8. CASE slot' = Looked
  BY <1>1, <1>8, SlotFields DEF Looked
<1>9. CASE \E on \in BOOLEAN : Declare(on)
  BY <1>3, <1>9 DEF Declare
<1> QED
  BY <1>4, <1>5, <1>6, <1>7, <1>8, <1>9
LEMMA DeviceSteps ==
    ASSUME device \in Devices, call \in Calls, Answer \/ TypingAnswer
    PROVE  device' \in Devices
<1>1. SyncAnswered \in Devices
  BY IsShown DEF SyncAnswered, Devices, Calls
<1>2. TypingAnswered \in Devices
  <2> DEFINE print == IF device.print = None THEN Shown ELSE device.print
             shows == IF device.print = None THEN Shown ELSE device.shows
             d == [device EXCEPT !.print = print]
  <2>1. print \in Shows \cup {None} /\ shows \in Shows \cup {None}
    BY IsShown DEF Devices
  <2>2. TypingAnswered = [d EXCEPT !.shows = shows]
    BY DEF TypingAnswered
  <2> HIDE DEF print, shows
  <2>3. d \in Devices
    BY <2>1 DEF Devices
  <2> HIDE DEF d
  <2> QED
    BY <2>1, <2>2, <2>3 DEF Devices
<1> QED
  BY <1>1, <1>2 DEF Answer, TypingAnswer, Answered

LEMMA TypeStep ==
    ASSUME TypeOK, Next
    PROVE  TypeOK'
<1>0. /\ slot \in Slots /\ last \in [sets : Shows, wakes : BOOLEAN] /\ log \in 0..MaxLog /\ used \in BOOLEAN
      /\ owed \subseteq {"mine", "typing"} /\ beat \in BOOLEAN /\ device \in Devices /\ call \in Calls
      /\ looked \in BOOLEAN /\ MaxLog \in Nat
  BY PresenceConstants DEF TypeOK, Slots, Calls, Devices
<1> SUFFICES /\ slot' \in Slots /\ last' \in [sets : Shows, wakes : BOOLEAN] /\ log' \in 0..MaxLog /\ used' \in BOOLEAN
             /\ owed' \subseteq {"mine", "typing"} /\ beat' \in BOOLEAN /\ device' \in Devices /\ call' \in Calls
             /\ looked' \in BOOLEAN
  BY DEF TypeOK, Slots, Calls, Devices
<1>1. CASE Mark \/ Park \/ Finish \/ HangUp \/ Lapse \/ \E on \in BOOLEAN : Declare(on)
  <2>1. slot' \in Slots
    BY <1>0, <1>1, SlotSteps
  <2>2. UNCHANGED <<last, log, used, owed, beat, device, call, looked>>
    BY <1>1 DEF Mark, Park, Finish, HangUp, Lapse, Declare
  <2> QED
    BY <1>0, <2>1, <2>2
<1>2. CASE Beat \/ BeatAges
  BY <1>0, <1>2 DEF Beat, BeatAges
<1>3. CASE Commit
  BY <1>0, <1>3 DEF Commit
<1>4. CASE ActiveLapses \/ \E on \in BOOLEAN : Active(on)
  BY <1>0, <1>4 DEF ActiveLapses, Active
<1>5. ASSUME NEW listener \in {"mine", "typing"}, Wake(listener)
      PROVE  call' \in Calls /\ owed' \subseteq owed
             /\ UNCHANGED <<slot, last, log, used, beat, device, looked>>
  BY <1>0, <1>5, RingCall DEF Wake
<1>6. CASE Look
  <2>1. slot' \in Slots
    BY <1>0, <1>6, SlotSteps DEF Look
  <2>2. last' \in [sets : Shows, wakes : BOOLEAN]
    BY <1>6, IsShown DEF Look
  <2> QED
    BY <1>0, <1>6, <2>1, <2>2 DEF Look
<1>7. CASE LookWakes
  <2>1. call' \in Calls
    BY <1>0, <1>7, RingCall DEF LookWakes
  <2> QED
    BY <1>0, <1>7, <2>1 DEF LookWakes
<1>8. CASE Answer \/ TypingAnswer
  <2>1. call' \in Calls /\ device' \in Devices
    BY <1>0, <1>8, CallSteps, DeviceSteps
  <2>2. slot' \in Slots
    BY <1>0, <1>8, SlotSteps DEF Answer, TypingAnswer, Answered
  <2> QED
    BY <1>0, <1>8, <2>1, <2>2 DEF Answer, TypingAnswer, Answered
<1>9. CASE \/ Arm \/ Check \/ ReadsUse \/ Decides \/ AsksTyping \/ WakesChanged \/ Notices \/ Deadline \/ Quits
          \/ \E listener \in {"online", "typing"} : WakesNoticed(listener)
  <2>1. call' \in Calls
    BY <1>0, <1>9, CallSteps
  <2>2. UNCHANGED <<slot, last, log, used, owed, beat, device>> /\ looked' \in {looked, FALSE}
    BY <1>9 DEF Arm, Check, ReadsUse, Decides, AsksTyping, WakesChanged, Notices, Deadline, Quits, WakesNoticed
  <2> QED
    BY <1>0, <2>1, <2>2
<1> QED
  BY <1>0, <1>1, <1>2, <1>3, <1>4, <1>5, <1>6, <1>7, <1>8, <1>9 DEF Next

(* The variables keep their types: calls are parked and unparked in pairs,  *)
(* whichever ends first (Parked).                                           *)
THEOREM TypeCorrect == Spec => []TypeOK
<1>1. Init => TypeOK
  <2> SUFFICES ASSUME Init PROVE TypeOK
    OBVIOUS
  <2>1. slot \in Slots /\ call \in Calls /\ device \in Devices
    BY Zero DEF Init, Slots, Calls, Devices
  <2>2. last \in [sets : Shows, wakes : BOOLEAN] /\ log \in 0..MaxLog
    BY Zero, IsShown DEF Init
  <2>3. used \in BOOLEAN /\ beat \in BOOLEAN /\ looked \in BOOLEAN
    BY DEF Init
  <2> QED
    BY <2>1, <2>2, <2>3 DEF Init, TypeOK, Slots, Calls, Devices
<1>2. TypeOK /\ UNCHANGED vars => TypeOK'
  BY DEF TypeOK, vars
<1> QED
  BY <1>1, <1>2, TypeStep, PTL DEF Spec
-----------------------------------------------------------------------------
(* What a call has read is what there is, or its listener rang or will.    *)

Read ==
    /\ call.found <= log /\ device.cursor <= log
    /\ "mine" \notin owed /\ "mine" \notin call.rung =>
         /\ call.at = "checked" => call.found = log
         /\ call.at = "decides" => call.found = log /\ (used => call.used)
         /\ call.at \in {"compared", "waits", "noticed"} => log = device.cursor /\ (used => call.used)

HeardTyping == call.at = "waits" /\ TypingNews /\ "typing" \notin call.rung => "typing" \in owed

HeardPresence == call.at \in {"compared", "waits"} /\ looked /\ "online" \notin call.rung => last.wakes

\* A wake-up that rings, rings where it is listened to.
LEMMA Rings ==
    ASSUME TypeOK, NEW listener \in {"mine", "online", "typing"}, Ring(listener)
    PROVE  /\ call'.at = call.at /\ call'.found = call.found /\ call'.used = call.used /\ call'.late = call.late
           /\ call'.rung = IF call.at \notin Listening THEN call.rung ELSE call.rung \cup {listener}
BY DEF Ring, TypeOK

LEMMA OverFields ==
    /\ Over.at = "none" /\ Over.found = 0
    /\ \A x : Leaves(x).at = x /\ Leaves(x).found = call.found
    /\ \A x : Again(x).at = "again" /\ Again(x).found = 0
BY DEF Over, Leaves, Again

LEMMA ReadStep ==
    ASSUME TypeOK, Read, Next
    PROVE  Read'
<1>0. log \in Nat /\ call.found \in Nat /\ device.cursor \in Nat /\ used \in BOOLEAN /\ call.used \in BOOLEAN
      /\ call.at \in {"none", "armed", "checked", "decides", "answers", "compared", "relays",
                     "waits", "noticed", "again"}
  BY DEF TypeOK
<1>1. CASE UNCHANGED <<log, used, owed, device, call>>
  BY <1>1 DEF Read
<1>2. CASE Mark \/ Park \/ Finish \/ HangUp \/ Lapse \/ BeatAges \/ Look \/ \E on \in BOOLEAN : Declare(on)
  BY <1>1, <1>2 DEF Mark, Park, Finish, HangUp, Lapse, Declare, BeatAges, Look
<1>3. CASE Beat
  BY <1>3 DEF Beat, Read
<1>4. CASE Commit \/ \E on \in BOOLEAN : Active(on)
  <2>1. "mine" \in owed' /\ call' = call /\ device' = device /\ log' >= log /\ log' \in Nat
    BY <1>0, <1>4 DEF Commit, Active
  <2> QED
    BY <1>0, <2>1 DEF Read
<1>5. CASE ActiveLapses
  BY <1>5 DEF ActiveLapses, Read
<1>6. ASSUME NEW listener \in {"mine", "typing"}, Wake(listener) PROVE Read'
  <2>1. UNCHANGED <<log, used, device>> /\ owed' = owed \ {listener}
    BY <1>6 DEF Wake
  <2>2. /\ call'.at = call.at /\ call'.found = call.found /\ call'.used = call.used
        /\ call'.rung = IF call.at \notin Listening THEN call.rung ELSE call.rung \cup {listener}
    BY <1>6, Rings DEF Wake
  <2>3. CASE listener = "mine" /\ call.at \in Listening
    BY <2>1, <2>2, <2>3 DEF Read
  <2>4. CASE call.at \notin Listening
    BY <2>1, <2>2, <2>4 DEF Read, Listening
  <2>5. CASE listener = "typing"
    BY <2>1, <2>2, <2>5 DEF Read
  <2> QED
    BY <1>6, <2>3, <2>4, <2>5
<1>7. CASE LookWakes
  <2>1. UNCHANGED <<log, used, device, owed>>
    BY <1>7 DEF LookWakes
  <2>2. /\ call'.at = call.at /\ call'.found = call.found /\ call'.used = call.used
        /\ call'.rung \in {call.rung, call.rung \cup {"online"}}
    BY <1>7, Rings DEF LookWakes
  <2> QED
    BY <2>1, <2>2 DEF Read
<1>8. CASE Arm \/ Check \/ ReadsUse
  <2>1. UNCHANGED <<log, used, owed, device>>
    BY <1>8 DEF Arm, Check, ReadsUse
  <2>2. CASE Arm
    <3>1. call'.at = "armed" /\ call'.found = call.found
      BY <2>2 DEF Arm, TypeOK
    <3> QED
      BY <2>1, <3>1 DEF Read
  <2>3. CASE Check
    <3>1. call'.at = "checked" /\ call'.found = log /\ call'.rung = call.rung
      BY <2>3 DEF Check, TypeOK
    <3> QED
      BY <1>0, <2>1, <3>1 DEF Read
  <2>4. CASE ReadsUse
    <3>1. call.at = "checked" /\ call'.at = "decides" /\ call'.found = call.found /\ call'.used = used /\ call'.rung = call.rung
      BY <2>4 DEF ReadsUse, TypeOK
    <3> QED
      BY <1>0, <2>1, <3>1 DEF Read
  <2> QED
    BY <1>8, <2>2, <2>3, <2>4
<1>9. CASE Decides
  <2>1. CASE Answers
    <3>1. call'.at = "answers" /\ call'.found = call.found
      BY <1>9, <2>1 DEF Decides, Leaves, Over
    <3> QED
      BY <1>9, <3>1 DEF Decides, Read
  <2>2. CASE ~Answers
    <3>1. call'.at = "compared" /\ call'.found = 0 /\ call'.used = call.used /\ call'.rung = call.rung
      BY <1>9, <2>2 DEF Decides, TypeOK
    <3>2. call.found <= device.cursor
      BY <1>0, <2>2 DEF Answers
    <3> QED
      BY <1>0, <1>9, <3>1, <3>2 DEF Decides, Read
  <2> QED
    BY <2>1, <2>2
<1>10. CASE AsksTyping \/ Notices
  <2>1. UNCHANGED <<log, used, owed, device>>
    BY <1>10 DEF AsksTyping, Notices
  <2>2. \/ /\ call'.at \in {"waits", "compared"} /\ call'.found = call.found /\ call'.used = call.used
           /\ call'.rung = call.rung /\ call.at \in {"compared", "noticed"}
        \/ call'.at \in {"relays", "again"} /\ call'.found \in {call.found, 0}
    <3>1. CASE call' = Leaves("relays") \/ call' = Again(FALSE)
      BY <3>1, OverFields
    <3>2. CASE call' = [call EXCEPT !.at = "waits"] /\ call.at = "compared"
      BY <3>2 DEF TypeOK
    <3>3. CASE call' = [call EXCEPT !.at = "compared"] /\ call.at = "noticed"
      BY <3>3 DEF TypeOK
    <3> QED
      BY <1>10, <3>1, <3>2, <3>3 DEF AsksTyping, Notices
  <2> QED
    BY <1>0, <2>1, <2>2 DEF Read
<1>11. CASE Answer \/ TypingAnswer
  <2>1. call' = Over /\ log' = log /\ device' \in {device, SyncAnswered, TypingAnswered}
    BY <1>11 DEF Answer, TypingAnswer, Answered
  <2>2. device'.cursor \in {device.cursor, call.found}
    <3>1. SyncAnswered.cursor = call.found
      BY DEF SyncAnswered
    <3>2. TypingAnswered.cursor = device.cursor
      BY DEF TypingAnswered, TypeOK
    <3> QED
      BY <2>1, <3>1, <3>2
  <2> QED
    BY <1>0, <2>1, <2>2 DEF Read, Over
<1>12. CASE WakesChanged \/ Deadline \/ Quits
  <2>1. UNCHANGED <<log, device>> /\ call'.at \in {"again", "none"} /\ call'.found = 0
    BY <1>12, OverFields DEF WakesChanged, Deadline, Quits
  <2> QED
    BY <1>0, <2>1 DEF Read
<1>13. ASSUME NEW listener \in {"online", "typing"}, WakesNoticed(listener) PROVE Read'
  <2>1. UNCHANGED <<log, used, owed, device>> /\ call.at = "waits"
    BY <1>13 DEF WakesNoticed
  <2>2. call'.at = "noticed" /\ call'.found = call.found /\ call'.used = call.used
        /\ call'.rung = call.rung \ {listener}
    BY <1>13 DEF WakesNoticed, TypeOK
  <2> QED
    BY <2>1, <2>2 DEF Read
<1> QED
  BY <1>2, <1>3, <1>4, <1>5, <1>6, <1>7, <1>8, <1>9, <1>10, <1>11, <1>12, <1>13 DEF Next
LEMMA HeardTypingStep ==
    ASSUME TypeOK, HeardTyping, Next
    PROVE  HeardTyping'
<1> SUFFICES ASSUME call'.at = "waits", call'.used /\ beat', "typing" \notin call'.rung, "typing" \notin owed'
             PROVE  FALSE
  BY DEF HeardTyping, TypingNews
<1>1. CASE UNCHANGED <<call, beat, owed>>
  BY <1>1 DEF HeardTyping, TypingNews
<1>2. CASE Mark \/ Park \/ Finish \/ HangUp \/ Lapse \/ Look \/ ActiveLapses \/ \E on \in BOOLEAN : Declare(on)
  BY <1>1, <1>2 DEF Mark, Park, Finish, HangUp, Lapse, Declare, Look, ActiveLapses
<1>3. CASE Beat \/ BeatAges
  BY <1>3 DEF Beat, BeatAges
<1>4. CASE Commit \/ \E on \in BOOLEAN : Active(on)
  BY <1>4 DEF Commit, Active, HeardTyping, TypingNews
<1>5. ASSUME NEW listener \in {"mine", "typing"}, Wake(listener) PROVE FALSE
  <2>1. beat' = beat /\ owed' = owed \ {listener}
    BY <1>5 DEF Wake
  <2>2. call.at = "waits" /\ call.used /\ call'.rung = call.rung \cup {listener}
    BY <1>5, Rings DEF Wake, Listening
  <2> QED
    BY <2>1, <2>2 DEF HeardTyping, TypingNews
<1>6. CASE LookWakes
  <2>1. beat' = beat /\ owed' = owed
    BY <1>6 DEF LookWakes
  <2>2. call.at = "waits" /\ call.used /\ call'.rung = call.rung \cup {"online"}
    BY <1>6, Rings DEF LookWakes, Listening
  <2> QED
    BY <2>1, <2>2 DEF HeardTyping, TypingNews
<1>7. CASE AsksTyping
  <2>1. ~TypingNews
    BY <1>7, OverFields DEF AsksTyping
  <2>2. call'.used = call.used /\ beat' = beat
    BY <1>7, <2>1 DEF AsksTyping, TypeOK
  <2> QED
    BY <2>1, <2>2 DEF TypingNews
<1>8. CASE Arm \/ Check \/ ReadsUse
  <2>1. Arm => call'.at = "armed"
    BY DEF Arm, TypeOK
  <2>2. Check => call'.at = "checked"
    BY DEF Check, TypeOK
  <2>3. ReadsUse => call'.at = "decides"
    BY DEF ReadsUse, TypeOK
  <2> QED
    BY <1>8, <2>1, <2>2, <2>3
<1>9. CASE Decides
  <2>1. call' = Leaves("answers") \/ call' = [call EXCEPT !.at = "compared", !.found = 0]
    BY <1>9 DEF Decides
  <2>2. CASE call' = Leaves("answers")
    BY <2>2, OverFields
  <2>3. CASE call' = [call EXCEPT !.at = "compared", !.found = 0]
    BY <2>3 DEF TypeOK
  <2> QED
    BY <2>1, <2>2, <2>3
<1>10. CASE Notices
  <2>1. call' = Again(FALSE) \/ call' = [call EXCEPT !.at = "compared"]
    BY <1>10 DEF Notices
  <2> QED
    BY <2>1, OverFields DEF TypeOK
<1>11. CASE Answer \/ TypingAnswer \/ WakesChanged \/ Deadline \/ Quits
  BY <1>11, OverFields DEF Answer, TypingAnswer, Answered, WakesChanged, Deadline, Quits
<1>12. ASSUME NEW listener \in {"online", "typing"}, WakesNoticed(listener) PROVE FALSE
  BY <1>12 DEF WakesNoticed, TypeOK
<1> QED
  BY <1>2, <1>3, <1>4, <1>5, <1>6, <1>7, <1>8, <1>9, <1>10, <1>11, <1>12 DEF Next

LEMMA HeardPresenceStep ==
    ASSUME TypeOK, HeardPresence, Next
    PROVE  HeardPresence'
<1> SUFFICES ASSUME call'.at \in {"compared", "waits"}, looked', "online" \notin call'.rung, ~last'.wakes
             PROVE  FALSE
  BY DEF HeardPresence
<1>1. CASE UNCHANGED <<call, looked, last>>
  BY <1>1 DEF HeardPresence
<1>2. CASE Mark \/ Park \/ Finish \/ HangUp \/ Lapse \/ Beat \/ BeatAges \/ Commit \/ ActiveLapses
           \/ \E on \in BOOLEAN : Declare(on) \/ Active(on)
  BY <1>1, <1>2 DEF Mark, Park, Finish, HangUp, Lapse, Declare, Beat, BeatAges, Commit, ActiveLapses, Active
<1>3. CASE Look
  BY <1>3 DEF Look
<1>4. ASSUME NEW listener \in {"mine", "typing"}, Wake(listener) PROVE FALSE
  <2>1. UNCHANGED <<last, looked>>
    BY <1>4 DEF Wake
  <2>2. call'.at = call.at /\ call'.rung = call.rung \cup {listener}
    BY <1>4, Rings DEF Wake, Listening
  <2> QED
    BY <2>1, <2>2 DEF HeardPresence
<1>5. CASE LookWakes
  BY <1>5, Rings DEF LookWakes, Listening
<1>6. CASE AsksTyping
  <2>1. call.at = "compared" /\ UNCHANGED <<last, looked>>
    BY <1>6 DEF AsksTyping
  <2>2. call' = [call EXCEPT !.at = "waits"]
    BY <1>6, OverFields DEF AsksTyping
  <2>3. call'.rung = call.rung
    BY <2>2 DEF TypeOK
  <2> QED
    BY <2>1, <2>3 DEF HeardPresence
<1>7. CASE Arm \/ Check \/ ReadsUse
  <2>1. Arm => call'.at = "armed"
    BY DEF Arm, TypeOK
  <2>2. Check => call'.at = "checked"
    BY DEF Check, TypeOK
  <2>3. ReadsUse => call'.at = "decides"
    BY DEF ReadsUse, TypeOK
  <2> QED
    BY <1>7, <2>1, <2>2, <2>3
<1>8. CASE Decides \/ Notices \/ Quits \/ Answer \/ TypingAnswer
  BY <1>8 DEF Decides, Notices, Quits, Answer, TypingAnswer, Answered
<1>9. CASE WakesChanged \/ Deadline
  BY <1>9, OverFields DEF WakesChanged, Deadline
<1>10. ASSUME NEW listener \in {"online", "typing"}, WakesNoticed(listener) PROVE FALSE
  BY <1>10 DEF WakesNoticed, TypeOK
<1> QED
  BY <1>2, <1>3, <1>4, <1>5, <1>6, <1>7, <1>8, <1>9, <1>10 DEF Next

LEMMA EchoStep ==
    ASSUME TypeOK, ShowsWhatItEchoes, Next
    PROVE  ShowsWhatItEchoes'
<1>1. CASE device' = device
  BY <1>1 DEF ShowsWhatItEchoes
<1>2. SyncAnswered.shows = SyncAnswered.print
  BY DEF SyncAnswered, ShowsWhatItEchoes
<1>3. TypingAnswered.shows = TypingAnswered.print
  BY DEF TypingAnswered, ShowsWhatItEchoes, TypeOK
<1>4. CASE Answer \/ TypingAnswer
  BY <1>1, <1>2, <1>3, <1>4 DEF Answer, TypingAnswer, Answered, ShowsWhatItEchoes
<1> QED
  BY <1>1, <1>4 DEF Next, Mark, Park, Finish, HangUp, Lapse, Beat, BeatAges, Declare, Active, Commit,
     ActiveLapses, Look, LookWakes, Wake, Arm, Check, ReadsUse, Decides, AsksTyping, WakesChanged,
     Notices, Deadline, Quits, WakesNoticed

-----------------------------------------------------------------------------
(* The theorems.                                                           *)

Inv == Read /\ HeardTyping /\ HeardPresence /\ ShowsWhatItEchoes

LEMMA Invariant == Spec => [](TypeOK /\ Inv)
<1>1. Init => Inv
  <2> SUFFICES ASSUME Init PROVE Inv
    OBVIOUS
  <2>1. call.at = "none" /\ call.found = 0 /\ log = 0 /\ device.cursor = 0 /\ device.shows = device.print
    BY DEF Init
  <2> QED
    BY <2>1 DEF Inv, Read, HeardTyping, HeardPresence, ShowsWhatItEchoes
<1>2. TypeOK /\ Inv /\ [Next]_vars => Inv'
  <2>1. ASSUME TypeOK, Inv, Next PROVE Inv'
    BY <2>1, ReadStep, HeardTypingStep, HeardPresenceStep, EchoStep DEF Inv
  <2>2. ASSUME TypeOK, Inv, UNCHANGED vars PROVE Inv'
    BY <2>2 DEF vars, Inv, Read, HeardTyping, HeardPresence, ShowsWhatItEchoes, TypingNews
  <2> QED
    BY <2>1, <2>2
<1> QED
  BY <1>1, <1>2, TypeCorrect, PTL DEF Spec

(* A sync never sleeps through a change of its log, nor through its         *)
(* device's being taken up: it listens before it reads (sync).              *)
THEOREM OwnHeard == Spec => []HearsItsOwn
<1>1. TypeOK /\ Inv => HearsItsOwn
  BY DEF Inv, Read, HearsItsOwn, Asleep
<1> QED
  BY <1>1, Invariant, PTL

(* Nor through a fresh heartbeat, though one came while it compared what    *)
(* another presence wake brought (wait).                                    *)
THEOREM TypingHeard == Spec => []HearsTyping
<1>1. TypeOK /\ Inv => HearsTyping
  BY DEF Inv, HeardTyping, HearsTyping, Asleep
<1> QED
  BY <1>1, Invariant, PTL

(* Nor through a change that presence_loop saw since it last compared.      *)
THEOREM PresenceHeard == Spec => []HearsPresence
<1>1. TypeOK /\ Inv => HearsPresence
  BY DEF Inv, HeardPresence, HearsPresence, Asleep
<1> QED
  BY <1>1, Invariant, PTL

(* What a device shows online is what the print it echoes stands for.       *)
THEOREM Echoes == Spec => []ShowsWhatItEchoes
<1>1. TypeOK /\ Inv => ShowsWhatItEchoes
  BY DEF Inv
<1> QED
  BY <1>1, Invariant, PTL
=============================================================================
