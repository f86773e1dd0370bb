----------------------------- MODULE UploadPromise -----------------------------
(***************************************************************************)
(* What a resumable upload promises its client (docs/v2-additions.md,       *)
(* "Resumable uploads"): the offset the hub confirmed stands, however the   *)
(* connection or the hub fails, until the whole file turns out not to be    *)
(* what the client announced, or the offset of a request that was cut off   *)
(* is stored under the request after it (crossed); an upload completes      *)
(* once, with every byte, and a complete or closed one is never open again. *)
(***************************************************************************)
EXTENDS Naturals

CONSTANT Total          \* the upload's size

VARIABLES
    hashed,             \* the client said what the file's sha256 is
    phase, offset,
    crossed             \* two requests' offsets were stored in the wrong order

vars == <<hashed, phase, offset, crossed>>

Init == hashed \in BOOLEAN /\ phase = "new" /\ offset = 0 /\ crossed = FALSE

Open == phase = "new" /\ phase' = "open" /\ offset' = 0 /\ UNCHANGED crossed

Confirm ==
    /\ phase = "open" /\ phase' = "open"
    /\ offset' \in (IF crossed THEN 0 ELSE offset)..Total
    /\ UNCHANGED crossed

Cross ==
    /\ phase = "open" /\ phase' = "open"
    /\ offset' \in 0..Total
    /\ crossed' = TRUE

\* Not the announced file: from nothing again.  A finish that began before
\* that may still look at what came after.
StartOver ==
    /\ hashed
    /\ phase = "open" /\ phase' = "open"
    /\ offset' = 0
    /\ UNCHANGED crossed

Complete ==
    /\ phase = "open" /\ phase' = "complete"
    /\ hashed \/ crossed \/ offset = Total
    /\ offset' = Total
    /\ UNCHANGED crossed

Close == phase = "open" /\ phase' = "closed" /\ offset' = 0 /\ UNCHANGED crossed

Next ==
    /\ Open \/ Confirm \/ Cross \/ StartOver \/ Complete \/ Close
    /\ UNCHANGED hashed

Spec == Init /\ [][Next]_vars
=============================================================================
