------------------------------ MODULE Translate ------------------------------
(***************************************************************************)
(* Translation of a reader's mail (hub/src/translate.rs).                   *)
(*                                                                         *)
(* A send whose reader wants another language queues a job in its          *)
(* transaction.  A worker leases due jobs, asks the provider without a     *)
(* connection, and settles each in a transaction that ends the job, keeps  *)
(* the outcome and charges the month.  The reader may delete the copy, the *)
(* owner turn translation off, a lease run out and the hub stop at any     *)
(* point of that.  The wake that waits for a translation is Push's         *)
(* QueueAt(Hold) and Hurry, and the reader's log entry ChangeLog's Settle. *)
(*                                                                         *)
(* A definition named ...Mutant... is the one after it with a plausible    *)
(* bug; no other definition uses it.                                       *)
(***************************************************************************)
EXTENDS Integers, FiniteSets

CONSTANTS
    Mail,           \* messages of the reader that need a translation
    Workers,        \* CONCURRENCY of the translation worker
    Tries,          \* failed tries before a job is given up: BACKOFF_SECONDS and one
    NoJob, NoOutcome, Free

Status == {"translated", "untranslated"}
Jobs == [tries : 0..Tries, due : BOOLEAN]
Works == [m : Mail, tries : 0..Tries, stage : {"claimed", "ask", "again", "settle", "taken", "written"},
          status : Status \cup {NoOutcome}, cost : 0..1]

ASSUME TranslateConstants ==
    /\ {Workers, Tries} \subseteq Nat \ {0}
    /\ NoJob \notin Jobs /\ NoOutcome \notin Status /\ Free \notin Works

VARIABLES
    copy,           \* the reader's copy: "unsent", "there", "gone"
    job,            \* translate_jobs: failed tries, and whether it is due
    outcome,        \* message_translations: translated, or why not
    spend,          \* translation_spend of the month: whether it reached the limit
    works,          \* the worker's tasks: job leased, stage, what they are to write
    slow,           \* the provider asked to slow down
    enabled,        \* the owner's switch, read at each use
    locks,          \* the task that holds each job's row, 0 for none
    deleting,       \* copies whose message row a delete holds
    charged         \* (history) what each message was charged

vars == <<copy, job, outcome, spend, works, slow, enabled, locks, deleting, charged>>

Init ==
    /\ copy = [m \in Mail |-> "unsent"]
    /\ job = [m \in Mail |-> NoJob]
    /\ outcome = [m \in Mail |-> NoOutcome]
    /\ spend = FALSE
    /\ works = [i \in 1..Workers |-> Free]
    /\ slow = FALSE
    /\ enabled = TRUE
    /\ locks = [m \in Mail |-> 0]
    /\ deleting = {}
    /\ charged = [m \in Mail |-> 0]

Busied == {i \in 1..Workers : works[i] # Free}

-----------------------------------------------------------------------------
(* The send and the delete.                                                *)

\* plan and what the send does with it: no translation and its reason, or a
\* job and a wake that waits for it.
Send(m) ==
    /\ copy[m] = "unsent"
    /\ copy' = [copy EXCEPT ![m] = "there"]
    /\ \/ /\ enabled /\ ~spend
          /\ job' = [job EXCEPT ![m] = [tries |-> 0, due |-> TRUE]]
          /\ UNCHANGED outcome
       \/ /\ enabled           \* too long, or in a file, or past the month's limit
          /\ outcome' = [outcome EXCEPT ![m] = "untranslated"]
          /\ UNCHANGED job
       \/ /\ ~enabled
          /\ UNCHANGED <<job, outcome>>
    /\ UNCHANGED <<spend, works, slow, enabled, locks, deleting, charged>>

\* delete_copies (and the sweep): the message row, locked first ...
DeleteLocks(m) ==
    /\ copy[m] = "there" /\ m \notin deleting
    /\ \A i \in Busied : ~(works[i].m = m /\ works[i].stage = "written")
    /\ deleting' = deleting \cup {m}
    /\ UNCHANGED <<copy, job, outcome, spend, works, slow, enabled, locks, charged>>

\* ... then forget: its translation and its job, waited for, and the commit.
ForgottenMutantKeepsJob(m) ==
    /\ outcome' = [outcome EXCEPT ![m] = NoOutcome]
    /\ UNCHANGED job
Forgotten(m) ==
    /\ outcome' = [outcome EXCEPT ![m] = NoOutcome]
    /\ job' = [job EXCEPT ![m] = NoJob]
DeleteForgets(m) ==
    /\ m \in deleting /\ locks[m] = 0
    /\ Forgotten(m)
    /\ copy' = [copy EXCEPT ![m] = "gone"]
    /\ deleting' = deleting \ {m}
    /\ UNCHANGED <<spend, works, slow, enabled, locks, charged>>

\* The delete fails: its client hung up, or PostgreSQL ended a deadlock.
DeleteFails(m) ==
    /\ m \in deleting
    /\ deleting' = deleting \ {m}
    /\ UNCHANGED <<copy, job, outcome, spend, works, slow, enabled, locks, charged>>

\* The owner's switch.
Switch ==
    /\ enabled' = ~enabled
    /\ UNCHANGED <<copy, job, outcome, spend, works, slow, locks, deleting, charged>>

\* Mail of other readers is charged; another month begins.
ChargedElsewhere ==
    /\ spend' = ~spend
    /\ UNCHANGED <<copy, job, outcome, works, slow, enabled, locks, deleting, charged>>

-----------------------------------------------------------------------------
(* The worker.                                                             *)

Room == IF slow THEN 1 ELSE Workers

\* claim: a due job is leased, and not due for that long.
ClaimJob(m, i) ==
    /\ works[i] = Free /\ Cardinality(Busied) < Room
    /\ job[m] # NoJob /\ job[m].due /\ locks[m] = 0
    /\ job' = [job EXCEPT ![m].due = FALSE]
    /\ works' = [works EXCEPT ![i] = [m |-> m, tries |-> job[m].tries, stage |-> "claimed",
                                      status |-> NoOutcome, cost |-> 0]]
    /\ UNCHANGED <<copy, outcome, spend, slow, enabled, locks, deleting, charged>>

At(i, stage) == works[i] # Free /\ works[i].stage = stage
Goes(i, stage) == works' = [works EXCEPT ![i].stage = stage]
TriedMutantUncounted(tries) == tries
Tried(tries) == tries + 1

\* BACKOFF_SECONDS has a wait for this try.
MayRetry(tries) == Tried(tries) < Tries

PutsBack(i, tries) == works' = [works EXCEPT ![i].stage = "again", ![i].tries = tries]
Settles(i, status, cost) ==
    works' = [works EXCEPT ![i].stage = "settle", ![i].status = status, ![i].cost = cost]
Ends(i) == works' = [works EXCEPT ![i] = Free]

\* Turned off meanwhile: the wake goes, the job waits.
FindsOff(i) ==
    /\ At(i, "claimed") /\ ~enabled
    /\ PutsBack(i, works[i].tries)
    /\ UNCHANGED <<copy, job, outcome, spend, slow, enabled, locks, deleting, charged>>

\* The month's spend, read before the call.
ReadsSpend(i) ==
    /\ At(i, "claimed") /\ enabled
    /\ IF spend THEN Settles(i, "untranslated", 0) ELSE Goes(i, "ask")
    /\ UNCHANGED <<copy, job, outcome, spend, slow, enabled, locks, deleting, charged>>

\* The provider answered: a translation, nothing to translate, or a text that
\* cannot be shown.  Each is paid for.
Answered(i) ==
    /\ At(i, "ask")
    /\ \E status \in {"translated", "untranslated"} :
         /\ Settles(i, status, 1)
         /\ slow' = (slow /\ status # "translated")
    /\ UNCHANGED <<copy, job, outcome, spend, enabled, locks, deleting, charged>>

\* It refused the request for good, or the tries are used up.
GivenUp(i) ==
    /\ At(i, "ask")
    /\ Settles(i, "untranslated", 0)
    /\ UNCHANGED <<copy, job, outcome, spend, slow, enabled, locks, deleting, charged>>

\* It could not be asked: the wake goes and the job is tried again.
Unreachable(i) ==
    /\ At(i, "ask") /\ MayRetry(works[i].tries)
    /\ PutsBack(i, Tried(works[i].tries))
    /\ UNCHANGED <<copy, job, outcome, spend, slow, enabled, locks, deleting, charged>>

\* It refuses the key, or asks to slow down (the wake waits on).
NotNow(i) ==
    /\ At(i, "ask")
    /\ PutsBack(i, works[i].tries)
    /\ slow' \in {slow, TRUE}
    /\ UNCHANGED <<copy, job, outcome, spend, enabled, locks, deleting, charged>>

\* again: the job, if it is still there, with its tries.
PutBackMutantInserts(old, tries) == [tries |-> tries, due |-> FALSE]
PutBack(old, tries) == IF old = NoJob THEN NoJob ELSE [tries |-> tries, due |-> FALSE]
Again(i) ==
    /\ At(i, "again") /\ locks[works[i].m] = 0
    /\ Ends(i)
    /\ job' = [job EXCEPT ![works[i].m] = PutBack(@, works[i].tries)]
    /\ UNCHANGED <<copy, outcome, spend, slow, enabled, locks, deleting, charged>>

\* settle: the job's row is deleted first; without one there is nothing to do.
NoLongerMutantAsked(m) == FALSE
NoLonger(m) == job[m] = NoJob
SettleTakes(i) ==
    /\ At(i, "settle") /\ locks[works[i].m] = 0
    /\ IF NoLonger(works[i].m)
       THEN Ends(i) /\ UNCHANGED locks
       ELSE Goes(i, "taken") /\ locks' = [locks EXCEPT ![works[i].m] = i]
    /\ UNCHANGED <<copy, job, outcome, spend, slow, enabled, deleting, charged>>

\* The outcome refers to the message's row: a delete that holds it is waited for.
SettleWrites(i) ==
    /\ At(i, "taken") /\ works[i].m \notin deleting
    /\ Goes(i, "written")
    /\ UNCHANGED <<copy, job, outcome, spend, slow, enabled, locks, deleting, charged>>

\* The charge, the wake, the reader's change log, the commit.
Kept(m, status) == IF outcome[m] = NoOutcome THEN status ELSE outcome[m]
SettleCommits(i) ==
    /\ At(i, "written")
    /\ job' = [job EXCEPT ![works[i].m] = NoJob]
    /\ outcome' = [outcome EXCEPT ![works[i].m] = Kept(works[i].m, works[i].status)]
    /\ spend' \in IF works[i].cost = 0 THEN {spend} ELSE {spend, TRUE}
    /\ charged' = [charged EXCEPT ![works[i].m] = @ + works[i].cost]
    /\ Ends(i)
    /\ locks' = [locks EXCEPT ![works[i].m] = 0]
    /\ UNCHANGED <<copy, slow, enabled, deleting>>

\* A statement fails, or PostgreSQL ends a deadlock: the transaction is gone.
WorkFails(i) ==
    /\ Ends(i)
    /\ locks' = [m \in Mail |-> IF locks[m] = i THEN 0 ELSE locks[m]]
    /\ UNCHANGED <<copy, job, outcome, spend, slow, enabled, deleting, charged>>

\* A wait or a lease runs out, whether or not its task is still there.
JobDue(m) ==
    /\ job[m] # NoJob /\ ~job[m].due /\ locks[m] = 0
    /\ job' = [job EXCEPT ![m].due = TRUE]
    /\ UNCHANGED <<copy, outcome, spend, works, slow, enabled, locks, deleting, charged>>

\* The hub stops and starts.
Restart ==
    /\ Busied # {} \/ deleting # {}
    /\ works' = [i \in 1..Workers |-> Free]
    /\ locks' = [m \in Mail |-> 0]
    /\ deleting' = {}
    /\ slow' = FALSE
    /\ UNCHANGED <<copy, job, outcome, spend, enabled, charged>>

Work(i) ==
    \/ FindsOff(i) \/ ReadsSpend(i) \/ Answered(i) \/ GivenUp(i) \/ Unreachable(i) \/ NotNow(i)
    \/ Again(i) \/ SettleTakes(i) \/ SettleWrites(i) \/ SettleCommits(i)

Next ==
    \/ \E m \in Mail : Send(m) \/ DeleteLocks(m) \/ DeleteForgets(m) \/ DeleteFails(m)
                       \/ JobDue(m) \/ \E i \in 1..Workers : ClaimJob(m, i)
    \/ \E i \in Busied : Work(i) \/ WorkFails(i)
    \/ Switch \/ ChargedElsewhere \/ Restart

Spec == Init /\ [][Next]_vars

\* The worker looks every second and ends what it starts; the provider does
\* not put off every single call for later, nor does every task fail.
Fairness ==
    /\ \A m \in Mail :
         /\ WF_vars(JobDue(m))
         /\ SF_vars(DeleteForgets(m))
         /\ WF_vars(DeleteFails(m))
         /\ SF_vars(\E i \in 1..Workers : ClaimJob(m, i))
         /\ SF_vars(\E i \in Busied : works[i].m = m /\ ReadsSpend(i))
         /\ SF_vars(\E i \in Busied : works[i].m = m /\ (Answered(i) \/ GivenUp(i) \/ Unreachable(i)))
         /\ \A n \in 0..(Tries - 1) : SF_vars(\E i \in Busied : works[i].m = m /\ works[i].tries = n /\ Again(i))
         /\ SF_vars(\E i \in Busied : works[i].m = m /\ SettleTakes(i))
         /\ SF_vars(\E i \in Busied : works[i].m = m /\ SettleWrites(i))
         /\ SF_vars(\E i \in Busied : works[i].m = m /\ SettleCommits(i))

FairSpec == Spec /\ Fairness

-----------------------------------------------------------------------------
(* Properties.                                                             *)

(* The variables have their types. *)
TypeOK ==
    /\ copy \in [Mail -> {"unsent", "there", "gone"}]
    /\ job \in [Mail -> Jobs \cup {NoJob}]
    /\ outcome \in [Mail -> Status \cup {NoOutcome}]
    /\ spend \in BOOLEAN
    /\ works \in [1..Workers -> Works \cup {Free}]
    /\ slow \in BOOLEAN
    /\ enabled \in BOOLEAN
    /\ locks \in [Mail -> 0..Workers]
    /\ deleting \subseteq Mail
    /\ charged \in [Mail -> Nat]

(* A message is charged at most once, though a lease may run out under a    *)
(* slow task and two tasks then settle the same job (settle).               *)
ChargedOnce == \A m \in Mail : charged[m] <= 1

(* Of a copy its reader deleted neither the translation nor a job is left,  *)
(* whichever of delete and settle came first (forget).                      *)
GoneIsForgotten == \A m \in Mail : copy[m] = "gone" => job[m] = NoJob /\ outcome[m] = NoOutcome

(* What the reader is shown of a message does not change again: after an    *)
(* outcome there is no other and no "pending" until the copy goes.          *)
OutcomeStays ==
    [][\A m \in Mail : outcome[m] # NoOutcome =>
          \/ outcome'[m] = outcome[m] /\ job'[m] = NoJob
          \/ copy'[m] = "gone"]_vars

\* No task outlives its lease: LEASE_SECONDS is twice REQUEST_TIMEOUT.
LeasesHold == \A i, j \in Busied : works[i].m = works[j].m => i = j

(* A job ends, though the provider never answers and the hub restarts       *)
(* between any two steps, unless the owner turns translation off again and  *)
(* again or its tasks keep outliving their leases: the reader is not left   *)
(* with "pending".                                                          *)
JobEnds ==
    <>[](enabled /\ LeasesHold) => \A m \in Mail : job[m] # NoJob ~> job[m] = NoJob
=============================================================================
