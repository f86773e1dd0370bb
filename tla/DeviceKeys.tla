----------------------------- MODULE DeviceKeys -----------------------------
(***************************************************************************)
(* The devices of one address, their keys and the address's identity key   *)
(* (hub/src/api/keys.rs, auth.rs; seen_device and the sign-out checks of   *)
(* api/sync.rs; leave).                                                    *)
(*                                                                         *)
(* The hub keeps the public halves and, after a rotation, a copy of the    *)
(* new secret sealed to each device that remained.  What a device knows    *)
(* (holds) is the clients' state: it is what the hub's checks are for.     *)
(* A sign-out is made from what its device saw and arrives later, maybe    *)
(* after another one, or after a device it was sealed to has enrolled      *)
(* another key of its own; syncs are parked meanwhile.  Identity keys are  *)
(* never made twice: one is named by the registration, the version and the *)
(* device it was made in.                                                  *)
(*                                                                         *)
(* A definition named ...Mutant... is the one after it with a plausible    *)
(* bug; no other definition uses it.                                       *)
(***************************************************************************)
EXTENDS Integers, FiniteSets

CONSTANTS
    Device,         \* device ids
    PublicKey,      \* devices' own keys
    Made,           \* bound: who makes which of them, <<device, key>>
    Syncing,        \* bound: those of them that sync
    MaxAsked,       \* bound: sign-outs under way
    DevicesMax,     \* DEVICES_MAX
    MaxVersion,     \* bound: key_version
    MaxLives,       \* bound: registrations of the address
    NoKey, NoIdentity, NoRow

Keys == [life : Nat, version : Nat, by : Device]
Identities == [key : Keys \cup {NoKey}, version : Nat, shared : BOOLEAN]
Rows == [public_key : PublicKey \cup {NoKey}, revoked : BOOLEAN]

ASSUME DeviceKeysConstants ==
    /\ NoKey \notin Keys \cup PublicKey /\ NoIdentity \notin Identities /\ NoRow \notin Rows
    /\ DevicesMax \in Nat \ {0}
    /\ Syncing \subseteq Device /\ Made \subseteq Device \X PublicKey
    /\ {MaxAsked, MaxVersion, MaxLives} \subseteq Nat

VARIABLES
    life,           \* registrations of the address so far
    identity,       \* its row: identity_key, key_version, shared_key_enabled
    row,            \* devices: its own public_key, whether it was signed out
    seen,           \* last_seen: <<d, e>> for devices with rows, d seen before e
    drops,          \* identity_key_drops
    holds,          \* (clients) the identity secret each device knows
    asked,          \* sign-outs authenticated, waiting for the identity's row
    sync,           \* each device's sync
    fresh,          \* (history) devices new since a new one last evicted
    crossed         \* (history) devices that enrolled another key of their own
                    \* while the sign-out that brought the identity key was asked

vars == <<life, identity, row, seen, drops, holds, asked, sync, fresh, crossed>>

Key(by, version) == [life |-> life, version |-> version, by |-> by]
Idle == [stage |-> "idle", woken |-> "no", late |-> 0]

Init ==
    /\ life = 0
    /\ identity = NoIdentity
    /\ row = [d \in Device |-> NoRow]
    /\ seen = {}
    /\ drops = {}
    /\ holds = [d \in Device |-> NoKey]
    /\ asked = {}
    /\ sync = [d \in Device |-> Idle]
    /\ fresh = {}
    /\ crossed = {}

Here == identity # NoIdentity
Listed == {d \in Device : row[d] # NoRow}
HasKey(d) == row[d] # NoRow /\ row[d].public_key # NoKey
Enrolled == {d \in Device : HasKey(d) /\ ~row[d].revoked}
Revoked(d) == row[d] # NoRow /\ row[d].revoked

\* The registration in which d, with a key of its own, is signed out.
LateAt(d) == IF Revoked(d) /\ HasKey(d) THEN life ELSE 0

\* authenticate_callers: the shared secret while it is on, or the device's
\* own signature.
SignsIn(d) == Here /\ (identity.shared \/ d \in Enrolled)

\* wake_sync, or the address's slot goes: each parked sync looks again.
Wake(d, how) == IF sync[d].stage \in {"read", "parked"} THEN [sync[d] EXCEPT !.woken = how] ELSE sync[d]
Woken == [d \in Device |-> Wake(d, "yes")]

-----------------------------------------------------------------------------
(* The address.                                                            *)

Register ==
    /\ ~Here /\ life < MaxLives
    /\ life' = life + 1
    /\ identity' = [key |-> NoKey, version |-> 0, shared |-> TRUE]
    /\ UNCHANGED <<row, seen, drops, holds, asked, sync, fresh, crossed>>

\* leave: its row and its devices go.
Leave ==
    /\ Here
    /\ identity' = NoIdentity
    /\ row' = [d \in Device |-> NoRow]
    /\ seen' = {}
    /\ sync' = Woken
    /\ fresh' = {} /\ crossed' = {}
    /\ UNCHANGED <<life, drops, holds, asked>>

\* POST /api/identity: the first identity key, once ...
SetKey(d) ==
    /\ SignsIn(d) /\ identity.key = NoKey
    /\ identity' = [identity EXCEPT !.key = Key(d, 0)]
    /\ holds' = [holds EXCEPT ![d] = Key(d, 0)]
    /\ UNCHANGED <<life, row, seen, drops, asked, sync, fresh, crossed>>

\* ... and the shared secret off.
SharedOff(d) ==
    /\ SignsIn(d) /\ identity.shared /\ Enrolled # {}
    /\ identity' = [identity EXCEPT !.shared = FALSE]
    /\ UNCHANGED <<life, row, seen, drops, holds, asked, sync, fresh, crossed>>

\* POST /api/devices: a certificate for d and its own key k by a device that
\* knows a secret.  Another key takes the place of the one d had.
Certified(by) == holds[by] = identity.key
RoomFor(d) == row[d] # NoRow \/ Cardinality(Enrolled) < DevicesMax
Seen(d) == {p \in seen : d \notin {p[1], p[2]}} \cup (Listed \ {d}) \X {d}
NotSignedOut(d) == ~Revoked(d)
Cross(q, d, k) ==
    IF \E c \in q.sealed : c[1] = d /\ c[2] # k THEN [q EXCEPT !.crossed = @ \cup {d}] ELSE q
Enrol(d, k, by) ==
    /\ Here /\ identity.key # NoKey
    /\ Certified(by)
    /\ NotSignedOut(d) /\ RoomFor(d)
    /\ row' = [row EXCEPT ![d] = [public_key |-> k, revoked |-> FALSE]]
    /\ seen' = Seen(d)
    /\ holds' = [holds EXCEPT ![d] = holds[by]]
    /\ asked' = {Cross(q, d, k) : q \in asked}
    /\ crossed' = crossed \ {d}
    /\ UNCHANGED <<life, identity, drops, sync, fresh>>

\* GET /api/identity: the device's sealed copy at the present version, of use
\* to it when it was sealed to the key it has.
SealedFor(d) == {s \in drops : s.device = d /\ s.version = identity.version}
Collect(d) ==
    /\ Here /\ d \in Enrolled
    /\ \E s \in SealedFor(d) : s.to = row[d].public_key /\ holds' = [holds EXCEPT ![d] = s.key]
    /\ UNCHANGED <<life, identity, row, seen, drops, asked, sync, fresh, crossed>>

-----------------------------------------------------------------------------
(* DELETE /api/devices/{device_id}.                                        *)

\* The statement a device makes from what it sees now: the secret it knows
\* signs it, the new one is sealed to the key of every device it takes to
\* remain.
Ask(by, d) ==
    /\ SignsIn(by) /\ row[d] # NoRow /\ ~Revoked(d)
    /\ identity.key # NoKey => holds[by] # NoKey
    /\ Cardinality(asked) < MaxAsked /\ \A q \in asked : q.by # by
    /\ asked' = asked \cup {[by |-> by, device |-> d, signed |-> holds[by], next |-> identity.version + 1,
                             key |-> Key(by, identity.version + 1),
                             sealed |-> {<<e, row[e].public_key>> : e \in Enrolled \ {d}}, crossed |-> {}]}
    /\ UNCHANGED <<life, identity, row, seen, drops, holds, sync, fresh, crossed>>

\* The device is revoked, and once that is committed the parked syncs are
\* woken, unless the call is cut off in between.
Revokes(d) ==
    /\ row' = [row EXCEPT ![d].revoked = TRUE]
    /\ \/ sync' = Woken
       \/ sync' = [sync EXCEPT ![d] = Wake(d, "cut")]

\* No identity key yet: the device leaves the list.
SignOutPlain(q) ==
    /\ Here /\ identity.key = NoKey
    /\ row[q.device] # NoRow /\ ~Revoked(q.device)
    /\ Revokes(q.device)
    /\ asked' = asked \ {q}
    /\ UNCHANGED <<life, identity, seen, drops, holds, fresh, crossed>>

\* With one: what the statement must be, by the rows as they are now.  A copy
\* is for a device id; which key it was sealed to the hub cannot tell.
SealedIds(q) == {c[1] : c \in q.sealed}
OneForEachMutantSome(q) == SealedIds(q) \subseteq Enrolled \ {q.device}
OneForEach(q) == SealedIds(q) = Enrolled \ {q.device}
SignedByCurrentMutantVersion(q) == q.next = identity.version + 1
SignedByCurrent(q) == q.signed = identity.key /\ q.next = identity.version + 1
Acceptable(q) ==
    /\ Here /\ identity.key # NoKey
    /\ row[q.device] # NoRow /\ ~Revoked(q.device)
    /\ q.key # identity.key
    /\ SignedByCurrent(q)
    /\ OneForEach(q)

Copies(q) == {[device |-> c[1], version |-> q.next, key |-> q.key, to |-> c[2]] : c \in q.sealed}

\* A copy of that device and version that an earlier registration left.
Collides(q) == \E s \in drops : \E c \in Copies(q) : s.device = c.device /\ s.version = c.version

SignOutRotates(q) ==
    /\ Acceptable(q) /\ ~Collides(q)
    /\ Revokes(q.device)
    /\ identity' = [key |-> q.key, version |-> q.next, shared |-> FALSE]
    /\ drops' = {s \in drops : s.version >= q.next} \cup Copies(q)
    /\ asked' = asked \ {q}
    /\ crossed' = q.crossed
    \* its answer may be lost: its device then collects as the others do
    /\ \/ holds' = [holds EXCEPT ![q.by] = q.key]
       \/ UNCHANGED holds
    /\ UNCHANGED <<life, seen, fresh>>

\* Refused, failed on its copies, or given up by its client.
SignOutEnds(q) ==
    /\ asked' = asked \ {q}
    /\ UNCHANGED <<life, identity, row, seen, drops, holds, sync, fresh, crossed>>

-----------------------------------------------------------------------------
(* Sync.                                                                   *)

Goes(d, stage) == sync' = [sync EXCEPT ![d].stage = stage]

\* Signed in, and not signed out ...
SyncStarts(d) ==
    /\ sync[d].stage = "idle" /\ SignsIn(d) /\ ~Revoked(d)
    /\ Goes(d, "checked")
    /\ UNCHANGED <<life, identity, row, seen, drops, holds, asked, fresh, crossed>>

\* ... then seen_device: its row is added or seen again, and when it was
\* added ...
SyncSeen(d) ==
    /\ sync[d].stage = "checked"
    /\ seen' = Seen(d)
    /\ IF row[d] = NoRow
       THEN /\ row' = [row EXCEPT ![d] = [public_key |-> NoKey, revoked |-> FALSE]]
            /\ fresh' = fresh \cup {d}
            /\ Goes(d, "evicts")
       ELSE /\ Goes(d, "seen")
            /\ UNCHANGED <<row, fresh>>
    /\ UNCHANGED <<life, identity, drops, holds, asked, crossed>>

\* ... a statement of its own: of the other devices, by then, those beyond
\* DEVICES_MAX - 1 that were seen longest ago go, unless they have a key.
Surplus(d) ==
    {e \in Listed \ {d} : Cardinality({f \in Listed \ {d} : <<e, f>> \in seen}) >= DevicesMax - 1}
Evicted(d) == {e \in Surplus(d) : ~HasKey(e)}
SyncEvicts(d) ==
    /\ sync[d].stage = "evicts"
    /\ row' = [e \in Device |-> IF e \in Evicted(d) THEN NoRow ELSE row[e]]
    /\ seen' = {p \in seen : {p[1], p[2]} \cap Evicted(d) = {}}
    /\ fresh' = {}
    /\ Goes(d, "seen")
    /\ UNCHANGED <<life, identity, drops, holds, asked, crossed>>

\* The listener is armed, then sync_check, on its own connection.
SyncReads(d) ==
    /\ sync[d].stage = "seen"
    /\ sync' = [sync EXCEPT ![d].stage = "read", ![d].late = LateAt(d)]
    /\ UNCHANGED <<life, identity, row, seen, drops, holds, asked, fresh, crossed>>

\* The check after it: refused, answered, or parked.
RefusedMutantNever(d) == FALSE
Refused(d) == Revoked(d)
SyncChecks(d) ==
    /\ sync[d].stage = "read"
    /\ IF Refused(d) THEN sync' = [sync EXCEPT ![d] = Idle]
       ELSE \/ Goes(d, "parked")
            \/ sync' = [sync EXCEPT ![d].stage = "answers", ![d].woken = "no"]
    /\ UNCHANGED <<life, identity, row, seen, drops, holds, asked, fresh, crossed>>

\* Woken (by its deadline too), it arms again and looks again.
LooksAgainMutantAnswers(d) == [sync[d] EXCEPT !.stage = "answers", !.late = LateAt(d)]
LooksAgain(d) == [Idle EXCEPT !.stage = "seen"]
SyncWakes(d) ==
    /\ sync[d].stage = "parked"
    /\ sync' = [sync EXCEPT ![d] = LooksAgain(d)]
    /\ UNCHANGED <<life, identity, row, seen, drops, holds, asked, fresh, crossed>>

\* It answers, or its client hung up.
SyncEnds(d) ==
    /\ sync[d].stage # "idle"
    /\ sync' = [sync EXCEPT ![d] = Idle]
    /\ UNCHANGED <<life, identity, row, seen, drops, holds, asked, fresh, crossed>>

Next ==
    \/ Register \/ Leave
    \/ \E d \in Device :
         \/ SetKey(d) \/ SharedOff(d) \/ Collect(d)
         \/ \E by \in Device : Here /\ identity.version < MaxVersion /\ Ask(by, d)
    \/ \E c \in Made, by \in Device : Enrol(c[1], c[2], by)
    \/ \E d \in Syncing :
         \/ SyncStarts(d) \/ SyncSeen(d) \/ SyncEvicts(d) \/ SyncReads(d)
         \/ SyncChecks(d) \/ SyncWakes(d) \/ SyncEnds(d)
    \/ \E q \in asked : SignOutPlain(q) \/ SignOutRotates(q) \/ SignOutEnds(q)

Spec == Init /\ [][Next]_vars

-----------------------------------------------------------------------------
(* Properties.                                                             *)

Drops == [device : Device, version : Nat, key : Keys, to : PublicKey]
Asks == [by : Device, device : Device, signed : Keys \cup {NoKey}, next : Nat, key : Keys,
         sealed : SUBSET (Device \X PublicKey), crossed : SUBSET Device]
Syncs == [stage : {"idle", "checked", "evicts", "seen", "read", "parked", "answers"}, woken : {"no", "yes", "cut"}, late : Nat]

\* An order of devices one after another.
Orders(r, ds) ==
    /\ r \subseteq ds \X ds
    /\ \A d \in ds : <<d, d>> \notin r
    /\ \A d, e \in ds : d = e \/ <<d, e>> \in r \/ <<e, d>> \in r
    /\ \A d, e, f \in ds : <<d, e>> \in r /\ <<e, f>> \in r => <<d, f>> \in r

(* The variables have their types, and last_seen orders the devices with rows. *)
TypeOK ==
    /\ life \in Nat
    /\ identity \in Identities \cup {NoIdentity}
    /\ row \in [Device -> Rows \cup {NoRow}]
    /\ Orders(seen, Listed)
    /\ drops \subseteq Drops
    /\ holds \in [Device -> Keys \cup {NoKey}]
    /\ asked \subseteq Asks
    /\ sync \in [Device -> Syncs]
    /\ fresh \subseteq Device
    /\ crossed \subseteq Device

(* Of the devices without a key that were there when a new one last evicted, *)
(* an address never holds more than DEVICES_MAX: whoever came since, by      *)
(* syncs whose INSERT ran and whose DELETE did not yet or was cut off, the   *)
(* next eviction brings it back to the limit (seen_device).                  *)
Keyless == {d \in Listed : ~HasKey(d)}
KeylessFit == Cardinality(Keyless \ fresh) <= DevicesMax

(* Whatever sign-outs and enrolments cross, and whichever answers are lost, *)
(* every enrolled device knows the identity secret or has a copy waiting    *)
(* that its own key opens: none is locked out of enrolling and rotating     *)
(* (sign_out, sealed).  Except one: a device that enrolled another key of   *)
(* its own while the sign-out was under way, since sign_out compares device *)
(* ids and the copy was sealed to the key it replaced.  For one             *)
(* registration of the address: what leave forgets is CopiesAreCurrent's.   *)
Opens(d) == \E s \in SealedFor(d) : s.key = identity.key /\ s.to = row[d].public_key
NoneLockedOut ==
    \A d \in Enrolled \ crossed : holds[d] = identity.key \/ Opens(d)

(* What the hub hands a device as its copy is the present identity secret   *)
(* (get_identity: "that device's sealed copy of the current identity key"). *)
CopiesAreCurrent ==
    Here => \A d \in Enrolled : \A s \in SealedFor(d) : s.key = identity.key

(* A device that had a key and was signed out gets no mail read after that, *)
(* though its sync was parked, and is not enrolled again (sync's check      *)
(* after sync_check; enrol).                                                *)
NothingAfterSignOut ==
    \A d \in Device : sync[d].stage = "answers" /\ row[d] # NoRow => sync[d].late # life

(* A parked sync of a signed-out device has been woken to be refused,       *)
(* unless the call that signed it out was cut off at its commit (wake_sync, *)
(* the listener made before sync_check).                                    *)
ParkedIsWoken ==
    \A d \in Device : sync[d].stage = "parked" /\ Revoked(d) => sync[d].woken # "no"

(* Within one registration the identity key changes only forward, by a      *)
(* device that was enrolled or shared the secret at the present version,    *)
(* and once it was rotated neither the shared secret nor a device that was  *)
(* signed out comes back.                                                   *)
SignedOutStaysOut ==
    [][Here /\ identity' # NoIdentity /\ life' = life =>
          /\ identity.version > 0 => ~identity'.shared
          /\ identity'.version # identity.version =>
                /\ identity'.version = identity.version + 1
                /\ \E d \in Device : holds[d] = identity.key
          /\ \A d \in Device : HasKey(d) /\ row[d].revoked => row'[d] = row[d]]_vars
=============================================================================
