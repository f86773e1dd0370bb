-------------------------------- MODULE Push --------------------------------
(***************************************************************************)
(* Wakes for devices through UnifiedPush (hub/src/push.rs).                *)
(*                                                                         *)
(* A device_push row holds a device's subscription, how much mail it was   *)
(* queued for (pending) and when it is due (next_attempt, NULL when there  *)
(* is nothing to tell).  One worker leases due rows, sends each a request  *)
(* and writes the result under the registration it leased: mail, another   *)
(* registration, a sign-out or a stop of the hub can come at any point in  *)
(* between.                                                                *)
(*                                                                         *)
(* Times are kept as what is left of them: `due`, `sent` and `tried` are   *)
(* the ticks until next_attempt, last_sent + 5 s and last_attempt + 5 s.   *)
(*                                                                         *)
(* A definition named ...Mutant... is the one after it with a plausible    *)
(* bug; no other definition uses it.                                       *)
(***************************************************************************)
EXTENDS Integers, FiniteSets

CONSTANTS
    Device,             \* the devices of one address
    Endpoint,           \* subscriptions: an endpoint with its two keys
    Host,               \* the destination of each
    Hold,               \* HOLD of translate.rs: how long mail waits for its translation
    Cooldown,           \* ticks in the five seconds between attempts
    RequestTimeout,     \* REQUEST_TIMEOUT
    Lease,              \* the 60 s a claimed wake is leased for
    BackoffCap,         \* 3600 s
    MaxAttempts,        \* the 10 that attempts stop at
    Concurrency,        \* CONCURRENCY
    MaxRegistrations,   \* bound: registration uuids drawn
    MaxPending,         \* bound: what pending counts up to
    NoRow

ASSUME PushConstants ==
    /\ DOMAIN Host = Endpoint
    /\ {Cooldown, RequestTimeout, Lease, BackoffCap, MaxAttempts, Concurrency} \subseteq Nat \ {0}
    /\ RequestTimeout < Cooldown /\ Cooldown < Lease /\ Cooldown <= BackoffCap
    /\ {Hold, MaxRegistrations, MaxPending} \subseteq Nat

VARIABLES
    row,            \* device_push: each device's row
    revoked,        \* devices with revoked_at
    inUse,          \* devices whose active_until has not come
    wakes,          \* the worker's tasks: what each leased, and its result
    drawn,          \* registration uuids drawn
    heard,          \* (history) the pending of the last wake the current subscription took
    hurried         \* (history) devices whose wake was brought forward since its last attempt

vars == <<row, revoked, inUse, wakes, drawn, heard, hurried>>

Never == -1         \* next_attempt is NULL

Least(i, j) == IF i <= j THEN i ELSE j
Greatest(i, j) == IF i >= j THEN i ELSE j

Init ==
    /\ row = [d \in Device |-> NoRow]
    /\ revoked = {}
    /\ inUse = {}
    /\ wakes = {}
    /\ drawn = 0
    /\ heard = [d \in Device |-> 0]
    /\ hurried = {}

-----------------------------------------------------------------------------
(* Registration.                                                           *)

\* The upsert: a new subscription is a new registration with a wake due.
UpsertedMutantNow(old, e, uuid) ==
    IF old = NoRow
    THEN [reg |-> uuid, endpoint |-> e, pending |-> 1, due |-> 0, attempts |-> 0, sent |-> 0, tried |-> 0]
    ELSE [old EXCEPT !.reg = IF old.endpoint = e THEN @ ELSE uuid,
                     !.endpoint = e, !.attempts = 0,
                     !.due = IF @ # Never \/ old.endpoint # e THEN 0 ELSE Never]
Upserted(old, e, uuid) ==
    IF old = NoRow
    THEN [reg |-> uuid, endpoint |-> e, pending |-> 1, due |-> 0, attempts |-> 0, sent |-> 0, tried |-> 0]
    ELSE [old EXCEPT !.reg = IF old.endpoint = e THEN @ ELSE uuid,
                     !.endpoint = e, !.attempts = 0,
                     !.due = IF @ # Never \/ old.endpoint # e THEN old.tried ELSE Never]

\* POST /api/push, its transaction: the device is there and not signed out
\* (what the call looked up before, without a connection, it checks again).
Register(d, e) ==
    /\ d \notin revoked /\ drawn < MaxRegistrations
    /\ row' = [row EXCEPT ![d] = Upserted(@, e, drawn + 1)]
    /\ IF row[d] # NoRow /\ row[d].reg = row'[d].reg
       THEN UNCHANGED <<drawn, heard>>
       ELSE drawn' = drawn + 1 /\ heard' = [heard EXCEPT ![d] = 0]
    /\ UNCHANGED <<revoked, inUse, wakes, hurried>>

Dropped(ds) ==
    /\ row' = [d \in Device |-> IF d \in ds THEN NoRow ELSE row[d]]
    /\ heard' = [d \in Device |-> IF d \in ds THEN 0 ELSE heard[d]]
    /\ hurried' = hurried \ ds

\* DELETE /api/push, or the device's row goes.
Unregister(d) ==
    /\ row[d] # NoRow
    /\ Dropped({d})
    /\ UNCHANGED <<revoked, inUse, wakes, drawn>>

\* Signing the device out deletes the row in the same transaction.
SignOut(d) ==
    /\ d \notin revoked
    /\ revoked' = revoked \cup {d}
    /\ Dropped({d})
    /\ UNCHANGED <<inUse, wakes, drawn>>

\* POST /api/devices/active, and its lapse.
TakeUp(d) ==
    /\ d \notin inUse /\ d \notin revoked
    /\ inUse' = inUse \cup {d}
    /\ UNCHANGED <<row, revoked, wakes, drawn, heard, hurried>>
PutDown(d) ==
    /\ d \in inUse
    /\ inUse' = inUse \ {d}
    /\ UNCHANGED <<row, revoked, wakes, drawn, heard, hurried>>

-----------------------------------------------------------------------------
(* Queueing, in other components' transactions.                            *)

\* queue_at: one more, due after `at` unless it is already waiting.
Queued(r, at) ==
    IF r = NoRow THEN NoRow
    ELSE [r EXCEPT !.pending = @ + 1,
                   !.due = IF @ = Never THEN Greatest(at, r.sent) ELSE @,
                   !.attempts = IF r.due = Never THEN 0 ELSE @]

QueueAt(at) ==
    /\ \A d \in Device : row[d] # NoRow => row[d].pending < MaxPending
    /\ row' = [d \in Device |-> Queued(row[d], at)]
    /\ UNCHANGED <<revoked, inUse, wakes, drawn, heard, hurried>>

\* hurry: a wake that waits is due as soon as the spacing after the last one
\* that was sent allows.
Hurry ==
    /\ row' = [d \in Device |-> IF row[d] = NoRow \/ row[d].due = Never THEN row[d]
                               ELSE [row[d] EXCEPT !.due = Least(@, row[d].sent)]]
    /\ hurried' = hurried \cup {d \in Device : row'[d] # row[d]}
    /\ UNCHANGED <<revoked, inUse, wakes, drawn, heard>>

-----------------------------------------------------------------------------
(* The worker.                                                             *)

BusyMutantNone == {}
Busy == {Host[w.endpoint] : w \in wakes}

\* claim, one of its rows: due, nobody looking at the device, its
\* destination not being written to.
Claim(d) ==
    /\ Cardinality(wakes) < Concurrency
    /\ row[d] # NoRow /\ row[d].due = 0
    /\ d \notin revoked /\ d \notin inUse
    /\ Host[row[d].endpoint] \notin Busy
    /\ row' = [row EXCEPT ![d].due = Lease, ![d].tried = Cooldown]
    /\ wakes' = wakes \cup {[device |-> d, reg |-> row[d].reg, endpoint |-> row[d].endpoint,
                             pending |-> row[d].pending, attempts |-> row[d].attempts,
                             age |-> 0, result |-> "none"]}
    /\ hurried' = hurried \ {d}
    /\ UNCHANGED <<revoked, inUse, drawn, heard>>

Becomes(w, result) == wakes' = (wakes \ {w}) \cup {[w EXCEPT !.result = result]}

\* deliver: the endpoint took the wake; its answer arrives, or does not.
Takes(w) ==
    /\ w.result = "none"
    /\ heard' = [heard EXCEPT ![w.device] =
                    IF row[w.device] # NoRow /\ row[w.device].reg = w.reg
                    THEN Greatest(@, w.pending) ELSE @]
    /\ \E result \in {"accepted", "retry"} : Becomes(w, result)
    /\ UNCHANGED <<row, revoked, inUse, drawn, hurried>>

\* It did not: 404 or 410, another status or the deadline, a busy resolver.
Fails(w) ==
    /\ w.result = "none"
    /\ \E result \in {"gone", "retry", "deferred"} : Becomes(w, result)
    /\ UNCHANGED <<row, revoked, inUse, drawn, heard, hurried>>

\* 5 << attempts, at most an hour.
Backoff(attempts) ==
    LET shifted == Cooldown * 2^attempts IN
    IF shifted \in Cooldown..BackoffCap THEN shifted ELSE BackoffCap

\* finish: what the row becomes, if it still is the registration leased.
FinishedMutantForgets(r, w) ==
    CASE w.result = "deferred" -> [r EXCEPT !.due = Cooldown]
      [] w.result = "gone"     -> NoRow
      [] w.result = "accepted" -> [r EXCEPT !.sent = Cooldown, !.attempts = 0, !.due = Never]
      [] w.result = "retry"    ->
           LET attempts == Least(w.attempts + 1, MaxAttempts) IN
           [r EXCEPT !.attempts = attempts, !.due = Backoff(attempts)]
Finished(r, w) ==
    CASE w.result = "deferred" -> [r EXCEPT !.due = Cooldown]
      [] w.result = "gone"     -> NoRow
      [] w.result = "accepted" -> [r EXCEPT !.sent = Cooldown, !.attempts = 0,
                                            !.due = IF r.pending = w.pending THEN Never ELSE Cooldown]
      [] w.result = "retry"    ->
           LET attempts == Least(w.attempts + 1, MaxAttempts) IN
           [r EXCEPT !.attempts = attempts, !.due = Backoff(attempts)]

IsLeasedMutantAny(r, w) == r # NoRow
IsLeased(r, w) == r # NoRow /\ r.reg = w.reg

Finish(w) ==
    /\ w.result # "none"
    /\ wakes' = wakes \ {w}
    /\ row' = [row EXCEPT ![w.device] = IF IsLeased(@, w) THEN Finished(@, w) ELSE @]
    /\ heard' = [heard EXCEPT ![w.device] = IF row'[w.device] = NoRow THEN 0 ELSE @]
    /\ hurried' = hurried \ {d \in Device : row'[d] # row[d]}
    /\ UNCHANGED <<revoked, inUse, drawn>>

\* The task ends without writing: the database failed it.
FinishFails(w) ==
    /\ w.result # "none"
    /\ wakes' = wakes \ {w}
    /\ UNCHANGED <<row, revoked, inUse, drawn, heard, hurried>>

\* The hub stops and starts: its requests are cut off.
Stop ==
    /\ wakes # {}
    /\ wakes' = {}
    /\ UNCHANGED <<row, revoked, inUse, drawn, heard, hurried>>

Sooner(t) == IF t > 0 THEN t - 1 ELSE t

\* Time passes; a request ends within its deadline.
Tick ==
    /\ \A w \in wakes : w.result = "none" => w.age < RequestTimeout
    /\ row' = [d \in Device |-> IF row[d] = NoRow THEN NoRow
                 ELSE [row[d] EXCEPT !.due = Sooner(@), !.sent = Sooner(@), !.tried = Sooner(@)]]
    /\ wakes' = {[w EXCEPT !.age = IF w.result = "none" THEN @ + 1 ELSE @] : w \in wakes}
    /\ <<row, wakes>>' # <<row, wakes>>
    /\ UNCHANGED <<revoked, inUse, drawn, heard, hurried>>

Of(d) == {w \in wakes : w.device = d}

Next ==
    \/ \E d \in Device :
         \/ \E e \in Endpoint : Register(d, e)
         \/ Unregister(d) \/ SignOut(d) \/ TakeUp(d) \/ PutDown(d) \/ Claim(d)
    \/ \E w \in wakes : Takes(w) \/ Fails(w) \/ Finish(w) \/ FinishFails(w)
    \/ QueueAt(0) \/ QueueAt(Hold) \/ Hurry
    \/ Stop \/ Tick

Spec == Init /\ [][Next]_vars

\* The worker looks every second and finishes what it started; no device is
\* in use for ever, and neither an endpoint nor the database fails at every
\* single attempt.
Fairness ==
    /\ WF_vars(Tick)
    /\ \A d \in Device :
         /\ WF_vars(PutDown(d))
         /\ SF_vars(Claim(d))
         /\ WF_vars(\E w \in Of(d) : Takes(w) \/ Fails(w))
         /\ SF_vars(\E w \in Of(d) : Takes(w))
         /\ SF_vars(\E w \in Of(d) : Finish(w))

FairSpec == Spec /\ Fairness

-----------------------------------------------------------------------------
(* Properties.                                                             *)

Rows == [reg : Nat, endpoint : Endpoint, pending : Nat, due : Nat \cup {Never},
         attempts : 0..MaxAttempts, sent : 0..Cooldown, tried : 0..Cooldown]
Wakes == [device : Device, reg : Nat, endpoint : Endpoint, pending : Nat, attempts : 0..MaxAttempts,
          age : 0..RequestTimeout, result : {"none", "accepted", "gone", "retry", "deferred"}]

(* The variables have their types. *)
TypeOK ==
    /\ row \in [Device -> Rows \cup {NoRow}]
    /\ revoked \subseteq Device
    /\ inUse \subseteq Device
    /\ wakes \subseteq Wakes
    /\ drawn \in Nat
    /\ heard \in [Device -> Nat]
    /\ hurried \subseteq Device

(* A subscription that has not taken a wake since mail was last queued for  *)
(* it has one waiting: no late finish, no re-registration, no stop of the   *)
(* hub and no failed write makes the hub forget it (finish, the upsert).    *)
WakeIsDue ==
    \A d \in Device : row[d] # NoRow /\ heard[d] < row[d].pending => row[d].due # Never

(* One request at a time to a destination, and a registration is never in   *)
(* two requests, whatever brings its lease forward (claim, busy).           *)
OnePerHost ==
    \A v, w \in wakes : v # w => Host[v.endpoint] # Host[w.endpoint] /\ v.reg # w.reg

(* Attempts for one row are five seconds apart, through endpoint changes,   *)
(* mail, failures and restarts, unless a translation hurried the wake.      *)
Attempted(d) == \E w \in wakes' \ wakes : w.device = d /\ w.age = 0 /\ w.result = "none" /\ row'[d] # row[d]
AttemptsSpaced ==
    [][\A d \in Device : Attempted(d) => row[d].tried = 0 \/ d \in hurried]_vars

(* Mail queued for a subscription reaches it, as long as it stays.          *)
WakeArrives ==
    \A d \in Device : \A k \in 1..MaxPending : \A r \in 1..MaxRegistrations :
        (row[d] # NoRow /\ row[d].reg = r /\ row[d].pending >= k)
            ~> (row[d] = NoRow \/ row[d].reg # r \/ heard[d] >= k)
=============================================================================
