----------------------------- MODULE MailPromise -----------------------------
(***************************************************************************)
(* What a hub promises the sender and the recipient of a message            *)
(* (hub/src/lib.rs: "a message stays queued until the recipient acks        *)
(* custody"; docs/mailserver-spec.md, "Delivery must be at-least-once with  *)
(* acks"; docs/v2-additions.md, "Custody" and receipts).  It keeps what it  *)
(* took until a client of the recipient has it, the recipient deletes it or *)
(* it goes altogether, and never queues again what was handed over; an id   *)
(* names one message while it is there; nobody receives what nobody sent;   *)
(* and what a sender hears of a message is so.                              *)
(***************************************************************************)
CONSTANT Mail

VARIABLES
    place,              \* of each id: "nowhere", "queued", "handed" over
    sent,               \* the ids ever taken
    have,               \* those a client of the recipient ever had
    left,               \* those their recipient ever deleted
    told                \* what senders heard: <<id, rung>>

vars == <<place, sent, have, left, told>>

Init ==
    /\ place = [m \in Mail |-> "nowhere"]
    /\ sent = {} /\ have = {} /\ left = {} /\ told = {}

Take(m) ==
    /\ place[m] = "nowhere"
    /\ place' = [place EXCEPT ![m] = "queued"]
    /\ sent' = sent \cup {m}
    /\ UNCHANGED <<have, left, told>>

\* What may be said of the messages now.
So == {t \in Mail \X {"fetched", "delivered", "read"} : t[1] \in have \/ (t[2] = "fetched" /\ t[1] \in left)}

\* An answer reaches a client: mail, once or again, and receipts.
Deliver ==
    /\ have \subseteq have' /\ have' \subseteq have \cup sent
    /\ told \subseteq told' /\ told' \subseteq told \cup So
    /\ UNCHANGED <<place, sent, left>>

\* Custody: what is no longer queued, a client has.
HandOver ==
    /\ \E ms \in SUBSET have :
         place' = [m \in Mail |-> IF m \in ms /\ place[m] = "queued" THEN "handed" ELSE place[m]]
    /\ UNCHANGED <<sent, have, left, told>>

\* The recipient deletes its copy, the last one or not.
Leave(m) ==
    /\ place[m] # "nowhere"
    /\ \E p \in {"handed", "nowhere"} : place' = [place EXCEPT ![m] = p]
    /\ left' = left \cup {m}
    /\ UNCHANGED <<sent, have, told>>

\* The last copy is deleted, or retention ends.
Drop(m) ==
    /\ place[m] # "nowhere"
    /\ place' = [place EXCEPT ![m] = "nowhere"]
    /\ UNCHANGED <<sent, have, left, told>>

Next ==
    \/ \E m \in Mail : Take(m) \/ Leave(m) \/ Drop(m)
    \/ Deliver \/ HandOver

Spec == Init /\ [][Next]_vars
=============================================================================
