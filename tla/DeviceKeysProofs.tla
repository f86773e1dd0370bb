--------------------------- MODULE DeviceKeysProofs ---------------------------
(***************************************************************************)
(* Theorems about DeviceKeys, for any devices, any limit of them and any   *)
(* number of sign-outs under way; the last two for an address's first      *)
(* registration, since leave forgets less than it should.                  *)
(***************************************************************************)
EXTENDS DeviceKeys, FiniteSetTheorems, TLAPS

\* TypeOK without the order in which devices were seen.
Kinds ==
    /\ life \in Nat
    /\ identity \in Identities \cup {NoIdentity}
    /\ row \in [Device -> Rows \cup {NoRow}]
    /\ drops \subseteq Drops
    /\ holds \in [Device -> Keys \cup {NoKey}]
    /\ asked \subseteq Asks
    /\ sync \in [Device -> Syncs]
    /\ fresh \subseteq Device
    /\ crossed \subseteq Device

\* The steps there are, with who takes them.
LEMMA NextSteps ==
    Next => \/ Register \/ Leave
            \/ \E d \in Device : SetKey(d) \/ SharedOff(d) \/ Collect(d)
            \/ \E d, by \in Device : Ask(by, d)
            \/ \E d \in Device, k \in PublicKey, by \in Device : Enrol(d, k, by)
            \/ \E d \in Device : \/ SyncStarts(d) \/ SyncSeen(d) \/ SyncEvicts(d) \/ SyncReads(d)
                                \/ SyncChecks(d) \/ SyncWakes(d) \/ SyncEnds(d)
            \/ \E q \in asked : SignOutPlain(q) \/ SignOutRotates(q) \/ SignOutEnds(q)
<1>1. Syncing \subseteq Device /\ \A c \in Made : c[1] \in Device /\ c[2] \in PublicKey
  BY DeviceKeysConstants
<1> QED
  BY <1>1 DEF Next

LEMMA Distinct == NoKey \notin Keys /\ NoKey \notin PublicKey /\ NoIdentity \notin Identities /\ NoRow \notin Rows
BY DeviceKeysConstants

LEMMA SyncFields ==
    ASSUME NEW c \in Syncs
    PROVE  /\ \A x \in {"idle", "checked", "evicts", "seen", "read", "parked", "answers"} :
                /\ [c EXCEPT !.stage = x] \in Syncs /\ [c EXCEPT !.stage = x].stage = x
                /\ [c EXCEPT !.stage = x].woken = c.woken /\ [c EXCEPT !.stage = x].late = c.late
           /\ \A x \in {"no", "yes", "cut"} :
                /\ [c EXCEPT !.woken = x] \in Syncs /\ [c EXCEPT !.woken = x].woken = x
                /\ [c EXCEPT !.woken = x].stage = c.stage /\ [c EXCEPT !.woken = x].late = c.late
           /\ \A x \in Nat :
                /\ [c EXCEPT !.late = x] \in Syncs /\ [c EXCEPT !.late = x].late = x
                /\ [c EXCEPT !.late = x].stage = c.stage /\ [c EXCEPT !.late = x].woken = c.woken
BY DEF Syncs

LEMMA IdleSync == Idle \in Syncs /\ Idle.stage = "idle" /\ Idle.late = 0
BY DEF Idle, Syncs

LEMMA LookingSync ==
    ASSUME NEW d \in Device
    PROVE  LooksAgain(d) \in Syncs /\ LooksAgain(d).stage = "seen" /\ LooksAgain(d).late = 0
BY IdleSync, SyncFields DEF LooksAgain

LEMMA WakeSync ==
    ASSUME sync \in [Device -> Syncs], NEW d \in Device, NEW how \in {"yes", "cut"}
    PROVE  /\ Wake(d, how) \in Syncs
           /\ Wake(d, how).stage = sync[d].stage /\ Wake(d, how).late = sync[d].late
           /\ sync[d].stage = "parked" => Wake(d, how).woken # "no"
<1>1. sync[d] \in Syncs /\ how \in {"no", "yes", "cut"} /\ how # "no"
  OBVIOUS
<1>2. /\ [sync[d] EXCEPT !.woken = how] \in Syncs /\ [sync[d] EXCEPT !.woken = how].woken = how
      /\ [sync[d] EXCEPT !.woken = how].stage = sync[d].stage /\ [sync[d] EXCEPT !.woken = how].late = sync[d].late
  BY <1>1 DEF Syncs
<1>3. CASE sync[d].stage \in {"read", "parked"}
  <2>1. Wake(d, how) = [sync[d] EXCEPT !.woken = how]
    BY <1>3 DEF Wake
  <2> QED
    BY <1>1, <1>2, <2>1
<1>4. CASE sync[d].stage \notin {"read", "parked"}
  <2>1. Wake(d, how) = sync[d]
    BY <1>4 DEF Wake
  <2> QED
    BY <1>1, <1>4, <2>1
<1> QED
  BY <1>3, <1>4

LEMMA RowFields ==
    ASSUME NEW r \in Rows
    PROVE  /\ [r EXCEPT !.revoked = TRUE] \in Rows /\ [r EXCEPT !.revoked = TRUE].revoked
           /\ [r EXCEPT !.revoked = TRUE].public_key = r.public_key
BY DEF Rows

LEMMA IdentityFields ==
    ASSUME NEW i \in Identities
    PROVE  /\ \A k \in Keys \cup {NoKey} :
                /\ [i EXCEPT !.key = k] \in Identities /\ [i EXCEPT !.key = k].key = k
                /\ [i EXCEPT !.key = k].version = i.version /\ [i EXCEPT !.key = k].shared = i.shared
           /\ /\ [i EXCEPT !.shared = FALSE] \in Identities /\ ~[i EXCEPT !.shared = FALSE].shared
              /\ [i EXCEPT !.shared = FALSE].key = i.key /\ [i EXCEPT !.shared = FALSE].version = i.version
BY DEF Identities

\* Another key for d marks the sign-outs it crosses, and nothing else of them.
LEMMA CrossFields ==
    ASSUME NEW q \in Asks, NEW d \in Device, NEW k
    PROVE  /\ Cross(q, d, k) \in Asks
           /\ Cross(q, d, k).by = q.by /\ Cross(q, d, k).device = q.device /\ Cross(q, d, k).signed = q.signed
           /\ Cross(q, d, k).next = q.next /\ Cross(q, d, k).key = q.key /\ Cross(q, d, k).sealed = q.sealed
           /\ q.crossed \subseteq Cross(q, d, k).crossed
           /\ \A c \in q.sealed : c[1] = d /\ c[2] # k => d \in Cross(q, d, k).crossed
<1>1. CASE \E c \in q.sealed : c[1] = d /\ c[2] # k
  <2>1. Cross(q, d, k) = [q EXCEPT !.crossed = q.crossed \cup {d}]
    BY <1>1 DEF Cross
  <2> QED
    BY <2>1 DEF Asks
<1>2. CASE ~\E c \in q.sealed : c[1] = d /\ c[2] # k
  <2>1. Cross(q, d, k) = q
    BY <1>2 DEF Cross
  <2> QED
    BY <1>2, <2>1
<1> QED
  BY <1>1, <1>2

\* What a revocation does to rows and syncs.
LEMMA RevokesSteps ==
    ASSUME Kinds, NEW d \in Device, row[d] # NoRow, Revokes(d)
    PROVE  /\ row' \in [Device -> Rows \cup {NoRow}] /\ row'[d] # NoRow
           /\ row'[d].revoked /\ row'[d].public_key = row[d].public_key
           /\ \A e \in Device \ {d} : row'[e] = row[e]
           /\ sync' \in [Device -> Syncs]
           /\ \A e \in Device : sync'[e].stage = sync[e].stage /\ sync'[e].late = sync[e].late
           /\ sync'[d].stage = "parked" => sync'[d].woken # "no"
           /\ \A e \in Device \ {d} : sync'[e].stage = "parked" => sync'[e].woken # "no" \/ sync'[e].woken = sync[e].woken
<1>1. row[d] \in Rows /\ sync \in [Device -> Syncs] /\ row \in [Device -> Rows \cup {NoRow}]
  BY DEF Kinds
<1>2. row' = [row EXCEPT ![d] = [row[d] EXCEPT !.revoked = TRUE]]
  BY DEF Revokes
<1>3. row' \in [Device -> Rows \cup {NoRow}] /\ row'[d] = [row[d] EXCEPT !.revoked = TRUE]
      /\ \A e \in Device \ {d} : row'[e] = row[e]
  BY <1>1, <1>2, RowFields
<1>4. sync' = Woken \/ sync' = [sync EXCEPT ![d] = Wake(d, "cut")]
  BY DEF Revokes
<1>5. CASE sync' = Woken
  <2>1. sync' = [e \in Device |-> Wake(e, "yes")]
    BY <1>5 DEF Woken
  <2>2. \A e \in Device : sync'[e] = Wake(e, "yes")
    BY <2>1
  <2> QED
    BY <1>1, <1>3, <2>1, <2>2, RowFields, WakeSync, Distinct
<1>6. CASE sync' = [sync EXCEPT ![d] = Wake(d, "cut")]
  <2>1. Wake(d, "cut") \in Syncs /\ Wake(d, "cut").stage = sync[d].stage /\ Wake(d, "cut").late = sync[d].late
        /\ (sync[d].stage = "parked" => Wake(d, "cut").woken # "no")
    BY <1>1, WakeSync
  <2>2. sync'[d] = Wake(d, "cut") /\ \A e \in Device \ {d} : sync'[e] = sync[e]
    BY <1>1, <1>6
  <2> QED
    BY <1>1, <1>3, <1>6, <2>1, <2>2, RowFields, Distinct
<1> QED
  BY <1>4, <1>5, <1>6

\* What a step of a sync does to its stage.
LEMMA GoesSteps ==
    ASSUME sync \in [Device -> Syncs], NEW d \in Device,
           NEW x \in {"idle", "checked", "evicts", "seen", "read", "parked", "answers"}, Goes(d, x)
    PROVE  /\ sync' \in [Device -> Syncs] /\ sync'[d].stage = x /\ sync'[d].late = sync[d].late
           /\ sync'[d].woken = sync[d].woken
           /\ \A e \in Device \ {d} : sync'[e] = sync[e]
<1>1. sync[d] \in Syncs
  OBVIOUS
<1>2. /\ [sync[d] EXCEPT !.stage = x] \in Syncs /\ [sync[d] EXCEPT !.stage = x].stage = x
      /\ [sync[d] EXCEPT !.stage = x].woken = sync[d].woken /\ [sync[d] EXCEPT !.stage = x].late = sync[d].late
  BY <1>1 DEF Syncs
<1>3. sync' = [sync EXCEPT ![d] = [sync[d] EXCEPT !.stage = x]]
  BY DEF Goes
<1> QED
  BY <1>2, <1>3

LEMMA KindsInit == Init => Kinds
BY IdleSync DEF Init, Kinds

LEMMA AddressKinds ==
    ASSUME Kinds, \/ Register \/ Leave
                  \/ \E d \in Device : \/ SetKey(d) \/ SharedOff(d) \/ Collect(d)
                                       \/ \E k \in PublicKey, by \in Device : Enrol(d, k, by)
    PROVE  Kinds'
<1> USE DEF Kinds
<1>1. CASE Register
  <2>1. [key |-> NoKey, version |-> 0, shared |-> TRUE] \in Identities
    BY DEF Identities
  <2> QED
    BY <1>1, <2>1 DEF Register
<1>2. CASE Leave
  <2>1. \A e \in Device : Wake(e, "yes") \in Syncs
    BY WakeSync
  <2> QED
    BY <1>2, <2>1 DEF Leave, Woken
<1>3. ASSUME NEW d \in Device, SetKey(d) PROVE Kinds'
  <2>1. identity \in Identities /\ Key(d, 0) \in Keys
    BY <1>3 DEF SetKey, SignsIn, Here, Key, Keys
  <2>2. [identity EXCEPT !.key = Key(d, 0)] \in Identities
    BY <2>1, IdentityFields
  <2> QED
    BY <1>3, <2>1, <2>2 DEF SetKey
<1>4. ASSUME NEW d \in Device, SharedOff(d) PROVE Kinds'
  <2>1. identity \in Identities
    BY <1>4 DEF SharedOff, SignsIn, Here
  <2>2. [identity EXCEPT !.shared = FALSE] \in Identities
    BY <2>1, IdentityFields
  <2> QED
    BY <1>4, <2>2 DEF SharedOff
<1>5. ASSUME NEW d \in Device, Collect(d) PROVE Kinds'
  <2>1. PICK s \in SealedFor(d) : holds' = [holds EXCEPT ![d] = s.key]
    BY <1>5 DEF Collect
  <2>2. s.key \in Keys
    BY <2>1 DEF SealedFor, Drops
  <2> QED
    BY <1>5, <2>1, <2>2 DEF Collect
<1>6. ASSUME NEW d \in Device, NEW k \in PublicKey, NEW by \in Device, Enrol(d, k, by) PROVE Kinds'
  <2>1. [public_key |-> k, revoked |-> FALSE] \in Rows
    BY DEF Rows
  <2>2. asked' \subseteq Asks
    BY <1>6, CrossFields DEF Enrol
  <2>3. row' \in [Device -> Rows \cup {NoRow}] /\ holds' \in [Device -> Keys \cup {NoKey}]
    BY <1>6, <2>1 DEF Enrol
  <2> QED
    BY <1>6, <2>2, <2>3 DEF Enrol
<1> QED
  BY <1>1, <1>2, <1>3, <1>4, <1>5, <1>6

\* Enrolled devices have rows with their keys.
LEMMA EnrolledRows ==
    ASSUME Kinds
    PROVE  \A e \in Enrolled : e \in Device /\ row[e] # NoRow /\ row[e].public_key \in PublicKey /\ ~row[e].revoked
BY DEF Enrolled, HasKey, Kinds, Rows

LEMMA SignOutKinds ==
    ASSUME Kinds, \/ \E d, by \in Device : Ask(by, d)
                  \/ \E q \in asked : SignOutPlain(q) \/ SignOutRotates(q) \/ SignOutEnds(q)
    PROVE  Kinds'
<1>1. ASSUME NEW d \in Device, NEW by \in Device, Ask(by, d) PROVE Kinds'
  <2>1. identity \in Identities /\ identity.version + 1 \in Nat
    BY <1>1 DEF Ask, SignsIn, Here, Kinds, Identities
  <2>2. Key(by, identity.version + 1) \in Keys
    BY <2>1 DEF Key, Keys, Kinds
  <2>3. {<<e, row[e].public_key>> : e \in Enrolled \ {d}} \subseteq Device \X PublicKey
    BY EnrolledRows
  <2>4. [by |-> by, device |-> d, signed |-> holds[by], next |-> identity.version + 1,
         key |-> Key(by, identity.version + 1), sealed |-> {<<e, row[e].public_key>> : e \in Enrolled \ {d}},
         crossed |-> {}] \in Asks
    BY <2>1, <2>2, <2>3 DEF Asks, Kinds
  <2> QED
    BY <1>1, <2>4 DEF Ask, Kinds
<1>2. ASSUME NEW q \in asked, SignOutEnds(q) PROVE Kinds'
  BY <1>2 DEF SignOutEnds, Kinds
<1>3. ASSUME NEW q \in asked, SignOutPlain(q) PROVE Kinds'
  <2>1. q.device \in Device /\ row[q.device] # NoRow /\ Revokes(q.device)
    BY <1>3 DEF SignOutPlain, Kinds, Asks
  <2>2. row' \in [Device -> Rows \cup {NoRow}] /\ sync' \in [Device -> Syncs]
    BY <2>1, RevokesSteps
  <2> QED
    BY <1>3, <2>2 DEF SignOutPlain, Kinds
<1>4. ASSUME NEW q \in asked, SignOutRotates(q) PROVE Kinds'
  <2>1. q.device \in Device /\ row[q.device] # NoRow /\ Revokes(q.device)
    BY <1>4 DEF SignOutRotates, Acceptable, Kinds, Asks
  <2>2. row' \in [Device -> Rows \cup {NoRow}] /\ sync' \in [Device -> Syncs]
    BY <2>1, RevokesSteps
  <2>3. q.key \in Keys /\ q.next \in Nat /\ q.sealed \subseteq Device \X PublicKey /\ q.crossed \subseteq Device
    BY DEF Kinds, Asks
  <2>4. identity' \in Identities
    BY <1>4, <2>3 DEF SignOutRotates, Identities
  <2>5. Copies(q) \subseteq Drops
    BY <2>3 DEF Copies, Drops
  <2>6. drops' \subseteq Drops
    BY <1>4, <2>5 DEF SignOutRotates, Kinds
  <2>7. holds' \in [Device -> Keys \cup {NoKey}]
    BY <1>4, <2>3 DEF SignOutRotates, Kinds
  <2> QED
    BY <1>4, <2>2, <2>3, <2>4, <2>6, <2>7 DEF SignOutRotates, Kinds
<1> QED
  BY <1>1, <1>2, <1>3, <1>4

LEMMA SyncKinds ==
    ASSUME Kinds, NEW d \in Device,
           \/ SyncStarts(d) \/ SyncSeen(d) \/ SyncEvicts(d) \/ SyncReads(d)
           \/ SyncChecks(d) \/ SyncWakes(d) \/ SyncEnds(d)
    PROVE  Kinds'
<1>1. CASE SyncStarts(d)
  <2>1. sync' \in [Device -> Syncs]
    BY <1>1, GoesSteps DEF SyncStarts, Kinds
  <2> QED
    BY <1>1, <2>1 DEF SyncStarts, Kinds
<1>2. CASE SyncSeen(d)
  <2>1. sync' \in [Device -> Syncs]
    BY <1>2, GoesSteps DEF SyncSeen, Kinds
  <2>2. [public_key |-> NoKey, revoked |-> FALSE] \in Rows
    BY DEF Rows
  <2>3. row' \in [Device -> Rows \cup {NoRow}] /\ fresh' \subseteq Device
    BY <1>2, <2>2 DEF SyncSeen, Kinds
  <2> QED
    BY <1>2, <2>1, <2>3 DEF SyncSeen, Kinds
<1>7. CASE SyncEvicts(d)
  <2>1. sync' \in [Device -> Syncs]
    BY <1>7, GoesSteps DEF SyncEvicts, Kinds
  <2> QED
    BY <1>7, <2>1 DEF SyncEvicts, Kinds
<1>3. CASE SyncReads(d)
  <2> DEFINE c == [sync[d] EXCEPT !.stage = "read"]
  <2>1. c \in Syncs /\ LateAt(d) \in Nat
    BY SyncFields DEF Kinds, LateAt
  <2>2. sync' = [sync EXCEPT ![d] = [c EXCEPT !.late = LateAt(d)]]
    BY <1>3 DEF SyncReads
  <2> HIDE DEF c
  <2>3. sync' \in [Device -> Syncs]
    BY <2>1, <2>2, SyncFields DEF Kinds
  <2> QED
    BY <1>3, <2>3 DEF SyncReads, Kinds
<1>4. CASE SyncChecks(d)
  <2>1. CASE sync' = [sync EXCEPT ![d].stage = "answers", ![d].woken = "no"]
    <3> DEFINE c == [sync[d] EXCEPT !.stage = "answers"]
    <3>1. c \in Syncs
      BY SyncFields DEF Kinds
    <3>2. sync' = [sync EXCEPT ![d] = [c EXCEPT !.woken = "no"]]
      BY <2>1
    <3> HIDE DEF c
    <3>3. sync' \in [Device -> Syncs]
      BY <3>1, <3>2, SyncFields DEF Kinds
    <3> QED
      BY <1>4, <3>3 DEF SyncChecks, Kinds
  <2>2. CASE Goes(d, "parked") \/ sync' = [sync EXCEPT ![d] = Idle]
    <3>1. sync' \in [Device -> Syncs]
      BY <2>2, GoesSteps, IdleSync DEF Kinds
    <3> QED
      BY <1>4, <3>1 DEF SyncChecks, Kinds
  <2> QED
    BY <1>4, <2>1, <2>2 DEF SyncChecks
<1>5. CASE SyncWakes(d)
  BY <1>5, LookingSync DEF SyncWakes, Kinds
<1>6. CASE SyncEnds(d)
  BY <1>6, IdleSync DEF SyncEnds, Kinds
<1> QED
  BY <1>1, <1>2, <1>3, <1>4, <1>5, <1>6, <1>7

LEMMA KindsStep ==
    ASSUME Kinds, [Next]_vars
    PROVE  Kinds'
<1>2. CASE Next
  BY <1>2, NextSteps, AddressKinds, SignOutKinds, SyncKinds
<1>3. CASE UNCHANGED vars
  BY <1>3 DEF vars, Kinds
<1> QED
  BY <1>2, <1>3

\* Every state of the specification has its variables in their kinds.
LEMMA KindsAlways == Spec => []Kinds
<1>1. Init => Kinds
  BY KindsInit
<1>2. Kinds /\ [Next]_vars => Kinds'
  BY KindsStep
<1> QED
  BY <1>1, <1>2, PTL DEF Spec

-----------------------------------------------------------------------------
(* The order in which devices were last seen.                              *)

\* A device seen now comes after all others.
LEMMA OrderMoves ==
    ASSUME NEW r, NEW ds, Orders(r, ds), NEW d
    PROVE  Orders({p \in r : d \notin {p[1], p[2]}} \cup (ds \ {d}) \X {d}, ds \cup {d})
<1> DEFINE s == {p \in r : d \notin {p[1], p[2]}} \cup (ds \ {d}) \X {d}
           es == ds \cup {d}
<1>1. r \subseteq ds \X ds
  BY DEF Orders
<1>2. \A e, f \in es : <<e, f>> \in s <=> \/ e # d /\ f # d /\ <<e, f>> \in r
                                          \/ e # d /\ f = d
  <2> SUFFICES ASSUME NEW e \in es, NEW f \in es
               PROVE  <<e, f>> \in s <=> \/ e # d /\ f # d /\ <<e, f>> \in r
                                         \/ e # d /\ f = d
    OBVIOUS
  <2>1. <<e, f>> \in {p \in r : d \notin {p[1], p[2]}} <=> e # d /\ f # d /\ <<e, f>> \in r
    OBVIOUS
  <2>2. <<e, f>> \in (ds \ {d}) \X {d} <=> e # d /\ f = d
    OBVIOUS
  <2> QED
    BY <2>1, <2>2
<1>3. s \subseteq es \X es
  BY <1>1
<1> HIDE DEF s
<1>4. \A e \in es : <<e, e>> \notin s
  BY <1>2 DEF Orders
<1>5. \A e, f \in es : e = f \/ <<e, f>> \in s \/ <<f, e>> \in s
  BY <1>2 DEF Orders
<1>6. \A e, f, g \in es : <<e, f>> \in s /\ <<f, g>> \in s => <<e, g>> \in s
  BY <1>2 DEF Orders
<1>7. Orders(s, es)
  BY <1>3, <1>4, <1>5, <1>6 DEF Orders
<1> QED
  BY <1>7 DEF s

\* Devices that go leave the others in their order.
LEMMA OrderShrinks ==
    ASSUME NEW r, NEW ds, Orders(r, ds), NEW gone
    PROVE  Orders({p \in r : {p[1], p[2]} \cap gone = {}}, ds \ gone)
<1> DEFINE s == {p \in r : {p[1], p[2]} \cap gone = {}}
<1>1. \A e, f \in ds \ gone : <<e, f>> \in s <=> <<e, f>> \in r
  OBVIOUS
<1>2. s \subseteq (ds \ gone) \X (ds \ gone)
  BY DEF Orders
<1> HIDE DEF s
<1>3. Orders(s, ds \ gone)
  BY <1>1, <1>2 DEF Orders
<1> QED
  BY <1>3 DEF s

LEMMA OrderStep ==
    ASSUME Kinds, Orders(seen, Listed), [Next]_vars
    PROVE  Orders(seen, Listed)'
<1>1. ASSUME row' = row, seen' = seen PROVE Orders(seen, Listed)'
  BY <1>1 DEF Listed
<1>2. CASE Leave
  <2>1. seen' = {} /\ Listed' = {}
    BY <1>2 DEF Leave, Listed
  <2> QED
    BY <2>1 DEF Orders
<1>3. ASSUME NEW d \in Device, NEW k \in PublicKey, NEW by \in Device, Enrol(d, k, by) PROVE Orders(seen, Listed)'
  <2>1. [public_key |-> k, revoked |-> FALSE] # NoRow
    <3>1. [public_key |-> k, revoked |-> FALSE] \in Rows
      BY DEF Rows
    <3> QED
      BY <3>1, Distinct
  <2>2. Listed' = Listed \cup {d} /\ seen' = Seen(d)
    BY <1>3, <2>1 DEF Enrol, Listed, Kinds
  <2> QED
    BY <2>2, OrderMoves DEF Seen
<1>4. ASSUME NEW d \in Device, SyncSeen(d) PROVE Orders(seen, Listed)'
  <2>1. [public_key |-> NoKey, revoked |-> FALSE] # NoRow
    <3>1. [public_key |-> NoKey, revoked |-> FALSE] \in Rows
      BY DEF Rows
    <3> QED
      BY <3>1, Distinct
  <2>2. Listed' = Listed \cup {d}
    BY <1>4, <2>1 DEF SyncSeen, Listed, Kinds
  <2>3. seen' = Seen(d)
    BY <1>4 DEF SyncSeen
  <2> QED
    BY <2>2, <2>3, OrderMoves DEF Seen
<1>10. ASSUME NEW d \in Device, SyncEvicts(d) PROVE Orders(seen, Listed)'
  <2>1. \A e \in Device : row'[e] = IF e \in Evicted(d) THEN NoRow ELSE row[e]
    BY <1>10 DEF SyncEvicts
  <2>2. Listed' = Listed \ Evicted(d)
    BY <2>1 DEF Listed
  <2>3. seen' = {p \in seen : {p[1], p[2]} \cap Evicted(d) = {}}
    BY <1>10 DEF SyncEvicts
  <2> QED
    BY <2>2, <2>3, OrderShrinks
<1>5. ASSUME NEW q \in asked, SignOutPlain(q) \/ SignOutRotates(q) PROVE Orders(seen, Listed)'
  <2>1. q.device \in Device /\ row[q.device] # NoRow /\ Revokes(q.device) /\ seen' = seen
    BY <1>5 DEF SignOutPlain, SignOutRotates, Acceptable, Kinds, Asks
  <2>2. [row[q.device] EXCEPT !.revoked = TRUE] # NoRow
    BY <2>1, Distinct DEF Kinds, Rows
  <2>3. Listed' = Listed
    BY <2>1, <2>2 DEF Revokes, Listed, Kinds
  <2> QED
    BY <2>1, <2>3
<1>6. CASE Register \/ UNCHANGED vars
  BY <1>1, <1>6 DEF Register, vars
<1>7. ASSUME NEW d \in Device, SetKey(d) \/ SharedOff(d) \/ Collect(d) \/ \E by \in Device : Ask(by, d)
      PROVE  Orders(seen, Listed)'
  BY <1>1, <1>7 DEF SetKey, SharedOff, Collect, Ask
<1>8. ASSUME NEW d \in Device, SyncStarts(d) \/ SyncReads(d) \/ SyncChecks(d) \/ SyncWakes(d) \/ SyncEnds(d)
      PROVE  Orders(seen, Listed)'
  BY <1>1, <1>8 DEF SyncStarts, SyncReads, SyncChecks, SyncWakes, SyncEnds
<1>9. ASSUME NEW q \in asked, SignOutEnds(q) PROVE Orders(seen, Listed)'
  BY <1>1, <1>9 DEF SignOutEnds
<1> QED
  BY <1>2, <1>3, <1>4, <1>5, <1>6, <1>7, <1>8, <1>9, <1>10, NextSteps

(* Every variable keeps its type, and last_seen orders the devices with     *)
(* rows, whatever is enrolled, seen again, evicted or signed out.           *)
THEOREM TypeCorrect == Spec => []TypeOK
<1>1. Init => Kinds /\ Orders(seen, Listed)
  BY KindsInit DEF Init, Orders, Listed
<1>2. Kinds /\ Orders(seen, Listed) /\ [Next]_vars => Kinds' /\ Orders(seen, Listed)'
  BY KindsStep, OrderStep
<1>3. Kinds /\ Orders(seen, Listed) => TypeOK
  BY DEF Kinds, TypeOK
<1> QED
  BY <1>1, <1>2, <1>3, PTL DEF Spec

-----------------------------------------------------------------------------
(* How many devices an address holds without a key.                        *)

\* Of devices in an order, at most k have fewer than k after them: each has
\* a number of its own after it.
LEMMA FewAtTheEnd ==
    ASSUME NEW r, NEW ds, Orders(r, ds), IsFiniteSet(ds), NEW k \in Nat,
           NEW ts \in SUBSET ds, \A e \in ts : Cardinality({f \in ds : <<e, f>> \in r}) < k
    PROVE  IsFiniteSet(ts) /\ Cardinality(ts) <= k
<1> DEFINE After(e) == {f \in ds : <<e, f>> \in r}
           rank == [e \in ts |-> Cardinality(After(e))]
<1>1. \A e \in ds : IsFiniteSet(After(e)) /\ Cardinality(After(e)) \in Nat
  <2> TAKE e \in ds
  <2>1. After(e) \in SUBSET ds
    OBVIOUS
  <2>2. IsFiniteSet(After(e))
    BY <2>1, FS_Subset
  <2> QED
    BY <2>2, FS_CardinalityType
<1>2. ASSUME NEW e \in ts, NEW f \in ts, <<e, f>> \in r
      PROVE  Cardinality(After(e)) # Cardinality(After(f))
  <2>1. After(f) \in SUBSET After(e) /\ f \in After(e) /\ f \notin After(f)
    BY <1>2 DEF Orders
  <2>2. After(e) # After(f)
    BY <2>1
  <2> HIDE DEF After
  <2> QED
    BY <1>1, <2>1, <2>2, FS_Subset
<1>3. rank \in [ts -> 0..(k - 1)]
  <2>1. \A e \in ts : Cardinality(After(e)) \in Nat /\ Cardinality(After(e)) < k
    BY <1>1
  <2> HIDE DEF After
  <2>2. \A e \in ts : Cardinality(After(e)) \in 0..(k - 1)
    BY <2>1
  <2> QED
    BY <2>2
<1>4. \A e, f \in ts : rank[e] = rank[f] => e = f
  <2> SUFFICES ASSUME NEW e \in ts, NEW f \in ts, Cardinality(After(e)) = Cardinality(After(f)) PROVE e = f
    OBVIOUS
  <2>1. e = f \/ <<e, f>> \in r \/ <<f, e>> \in r
    BY DEF Orders
  <2> QED
    BY <1>2, <2>1
<1> HIDE DEF rank
<1>5. rank \in Injection(ts, 0..(k - 1))
  BY <1>3, <1>4 DEF Injection, IsInjective
<1>6. IsFiniteSet(0..(k - 1)) /\ Cardinality(0..(k - 1)) = k
  BY FS_Interval
<1> QED
  BY <1>5, <1>6, FS_Injection

\* Devices without a key that the last eviction saw.
Known == Keyless \ fresh
KeylessInv == IsFiniteSet(Listed) /\ KeylessFit

LEMMA KeylessFinite ==
    ASSUME IsFiniteSet(Listed)
    PROVE  IsFiniteSet(Known) /\ Cardinality(Known) \in Nat
<1>1. Known \in SUBSET Listed
  BY DEF Keyless, Known
<1>2. IsFiniteSet(Known)
  BY <1>1, FS_Subset
<1> QED
  BY <1>2, FS_CardinalityType

\* No device more of them, among as many rows and one.
LEMMA KeylessFewer ==
    ASSUME KeylessInv, NEW d, Listed' \subseteq Listed \cup {d}, Known' \subseteq Known
    PROVE  KeylessInv'
<1>1. IsFiniteSet(Listed \cup {d})
  BY FS_AddElement DEF KeylessInv
<1>2. IsFiniteSet(Listed')
  BY <1>1, FS_Subset
<1>3. Known' \in SUBSET Known /\ IsFiniteSet(Known) /\ Cardinality(Known) \in Nat
  BY KeylessFinite DEF KeylessInv
<1>4. IsFiniteSet(Known') /\ Cardinality(Known') <= Cardinality(Known)
  BY <1>3, FS_Subset
<1>5. Cardinality(Known') \in Nat
  BY <1>4, FS_CardinalityType
<1>6. Cardinality(Known) <= DevicesMax
  BY DEF KeylessInv, KeylessFit, Known
<1>7. Cardinality(Known') <= DevicesMax
  BY <1>3, <1>4, <1>5, <1>6, DeviceKeysConstants
<1> QED
  BY <1>2, <1>7 DEF KeylessInv, KeylessFit, Known

\* An eviction leaves, of those without a key, fewer than DEVICES_MAX others,
\* however many came before it.
LEMMA NewDeviceFits ==
    ASSUME Kinds, Orders(seen, Listed), KeylessInv, NEW d \in Device
    PROVE  /\ IsFiniteSet((Keyless \ Evicted(d)) \ {d})
           /\ Cardinality((Keyless \ Evicted(d)) \ {d}) <= DevicesMax - 1
<1> DEFINE ds == Listed \ {d}
           ts == (Keyless \ Evicted(d)) \ {d}
           others == {p \in seen : {p[1], p[2]} \cap {d} = {}}
<1>1. ts \in SUBSET ds
  BY DEF Keyless
<1>2. DevicesMax - 1 \in Nat /\ DevicesMax \in Nat
  BY DeviceKeysConstants
<1>3. IsFiniteSet(ds)
  BY FS_Subset DEF KeylessInv
<1>4. Orders(others, ds)
  BY OrderShrinks
<1>5. ASSUME NEW e \in ts PROVE Cardinality({f \in ds : <<e, f>> \in others}) < DevicesMax - 1
  <2>1. {f \in ds : <<e, f>> \in others} = {f \in ds : <<e, f>> \in seen}
    BY <1>1, <1>5
  <2>2. {f \in ds : <<e, f>> \in seen} \in SUBSET ds
    OBVIOUS
  <2>3. Cardinality({f \in ds : <<e, f>> \in seen}) \in Nat
    BY <1>3, <2>2, FS_Subset, FS_CardinalityType
  <2>4. ~(Cardinality({f \in ds : <<e, f>> \in seen}) >= DevicesMax - 1)
    BY <1>1, <1>5 DEF Evicted, Surplus, Keyless
  <2> HIDE DEF ds
  <2> QED
    BY <1>2, <2>1, <2>3, <2>4
<1> HIDE DEF ts, ds, others
<1>6. IsFiniteSet(ts) /\ Cardinality(ts) <= DevicesMax - 1
  BY <1>1, <1>2, <1>3, <1>4, <1>5, FewAtTheEnd
<1> QED
  BY <1>6 DEF ts

LEMMA KeylessStep ==
    ASSUME Kinds, Orders(seen, Listed), KeylessInv, [Next]_vars
    PROVE  KeylessInv'
<1>1. ASSUME row' = row, fresh' = fresh PROVE KeylessInv'
  BY <1>1 DEF KeylessInv, KeylessFit, Keyless, Listed, HasKey
<1>2. CASE Leave
  <2>1. Listed' = {} /\ Known' = {}
    BY <1>2 DEF Leave, Listed, Keyless, Known
  <2> QED
    BY <2>1, KeylessFewer
<1>3. ASSUME NEW d \in Device, NEW k \in PublicKey, NEW by \in Device, Enrol(d, k, by) PROVE KeylessInv'
  <2>1. row' = [row EXCEPT ![d] = [public_key |-> k, revoked |-> FALSE]] /\ fresh' = fresh
    BY <1>3 DEF Enrol
  <2>2. row'[d].public_key # NoKey /\ \A e \in Device \ {d} : row'[e] = row[e]
    BY <2>1, Distinct DEF Kinds
  <2>3. [public_key |-> k, revoked |-> FALSE] # NoRow
    <3>1. [public_key |-> k, revoked |-> FALSE] \in Rows
      BY DEF Rows
    <3> QED
      BY <3>1, Distinct
  <2>4. Listed' \subseteq Listed \cup {d} /\ Known' \subseteq Known
    BY <2>1, <2>2 DEF Listed, Keyless, Known, HasKey
  <2> QED
    BY <2>4, KeylessFewer
<1>4. ASSUME NEW d \in Device, SyncSeen(d) PROVE KeylessInv'
  <2>1. CASE row[d] # NoRow
    BY <1>1, <1>4, <2>1 DEF SyncSeen
  <2>2. CASE row[d] = NoRow
    <3>1. fresh' = fresh \cup {d} /\ \A e \in Device \ {d} : row'[e] = row[e]
      BY <1>4, <2>2 DEF SyncSeen, Kinds
    <3>2. Listed' \subseteq Listed \cup {d} /\ Known' \subseteq Known
      BY <3>1 DEF Listed, Keyless, Known, HasKey
    <3> QED
      BY <3>2, KeylessFewer
  <2> QED
    BY <2>1, <2>2
<1>10. ASSUME NEW d \in Device, SyncEvicts(d) PROVE KeylessInv'
  <2> DEFINE ts == (Keyless \ Evicted(d)) \ {d}
  <2>1. \A e \in Device : row'[e] = IF e \in Evicted(d) THEN NoRow ELSE row[e]
    BY <1>10 DEF SyncEvicts
  <2>2. Listed' \subseteq Listed /\ Keyless' \subseteq ts \cup {d}
    BY <2>1 DEF Listed, Keyless, HasKey
  <2>3. IsFiniteSet(ts) /\ Cardinality(ts) <= DevicesMax - 1
    BY NewDeviceFits
  <2> HIDE DEF ts
  <2>4. Cardinality(ts) \in Nat /\ DevicesMax \in Nat
    BY <2>3, FS_CardinalityType, DeviceKeysConstants
  <2>5. /\ IsFiniteSet(ts \cup {d}) /\ Cardinality(ts \cup {d}) \in Nat
        /\ Cardinality(ts \cup {d}) <= DevicesMax
    BY <2>3, <2>4, FS_AddElement
  <2>6. Known' \in SUBSET (ts \cup {d})
    BY <2>2 DEF Known
  <2>7. IsFiniteSet(Known') /\ Cardinality(Known') <= Cardinality(ts \cup {d})
    BY <2>5, <2>6, FS_Subset
  <2>8. Cardinality(Known') \in Nat
    BY <2>7, FS_CardinalityType
  <2>9. Cardinality(Known') <= DevicesMax
    BY <2>4, <2>5, <2>7, <2>8
  <2>10. IsFiniteSet(Listed')
    BY <2>2, FS_Subset DEF KeylessInv
  <2> QED
    BY <2>9, <2>10 DEF KeylessInv, KeylessFit, Known
<1>5. ASSUME NEW q \in asked, SignOutPlain(q) \/ SignOutRotates(q) PROVE KeylessInv'
  <2>1. q.device \in Device /\ row[q.device] # NoRow /\ Revokes(q.device) /\ fresh' = fresh
    BY <1>5 DEF SignOutPlain, SignOutRotates, Acceptable, Kinds, Asks
  <2>2. row'[q.device].public_key = row[q.device].public_key /\ \A e \in Device \ {q.device} : row'[e] = row[e]
    BY <2>1, RevokesSteps
  <2>3. Listed' \subseteq Listed \cup {q.device} /\ Known' \subseteq Known
    BY <2>1, <2>2 DEF Listed, Keyless, Known, HasKey
  <2> QED
    BY <2>3, KeylessFewer
<1>6. CASE Register \/ UNCHANGED vars
  BY <1>1, <1>6 DEF Register, vars
<1>7. ASSUME NEW d \in Device, SetKey(d) \/ SharedOff(d) \/ Collect(d) \/ \E by \in Device : Ask(by, d)
      PROVE  KeylessInv'
  BY <1>1, <1>7 DEF SetKey, SharedOff, Collect, Ask
<1>8. ASSUME NEW d \in Device, SyncStarts(d) \/ SyncReads(d) \/ SyncChecks(d) \/ SyncWakes(d) \/ SyncEnds(d)
      PROVE  KeylessInv'
  BY <1>1, <1>8 DEF SyncStarts, SyncReads, SyncChecks, SyncWakes, SyncEnds
<1>9. ASSUME NEW q \in asked, SignOutEnds(q) PROVE KeylessInv'
  BY <1>1, <1>9 DEF SignOutEnds
<1> QED
  BY <1>2, <1>3, <1>4, <1>5, <1>6, <1>7, <1>8, <1>9, <1>10, NextSteps

(* Of the devices without a key that were there when a new one last         *)
(* evicted, an address never holds more than DEVICES_MAX: each eviction     *)
(* keeps those seen last by then, fewer than that, and what came since has  *)
(* only its INSERT (DeviceKeys' KeylessFit).                                *)
THEOREM KeylessBounded == Spec => []KeylessFit
<1>1. Init => KeylessInv
  <2> SUFFICES ASSUME Init PROVE KeylessInv
    OBVIOUS
  <2>1. Listed = {} /\ Keyless \ fresh = {}
    BY DEF Init, Listed, Keyless
  <2> QED
    BY <2>1, FS_EmptySet, DeviceKeysConstants DEF KeylessInv, KeylessFit
<1>2. Init => Orders(seen, Listed)
  BY DEF Init, Orders, Listed
<1>3. Kinds /\ Orders(seen, Listed) /\ KeylessInv /\ [Next]_vars => Orders(seen, Listed)' /\ KeylessInv'
  BY OrderStep, KeylessStep
<1>4. KeylessInv => KeylessFit
  BY DEF KeylessInv
<1> QED
  BY <1>1, <1>2, <1>3, <1>4, KindsAlways, PTL DEF Spec

-----------------------------------------------------------------------------
(* What each action does to rows and syncs, for the invariants below.      *)

\* seen_device gives d a row and takes only those without a key.
LEMMA SeenRows ==
    ASSUME Kinds, NEW d \in Device, SyncSeen(d) \/ SyncEvicts(d), NEW e \in Device
    PROVE  \/ row'[e] = row[e]
           \/ row[e] # NoRow /\ row[e].public_key = NoKey /\ row'[e] = NoRow
           \/ e = d /\ row[e] = NoRow /\ row'[e] = [public_key |-> NoKey, revoked |-> FALSE]
<1>1. CASE SyncSeen(d)
  BY <1>1 DEF SyncSeen, Kinds
<1>2. CASE SyncEvicts(d)
  <2>1. row'[e] = IF e \in Evicted(d) THEN NoRow ELSE row[e]
    BY <1>2 DEF SyncEvicts
  <2>2. e \in Evicted(d) => row[e] # NoRow /\ row[e].public_key = NoKey
    BY DEF Evicted, Surplus, Listed, HasKey
  <2> QED
    BY <2>1, <2>2
<1> QED
  BY <1>1, <1>2

LEMMA ReadsSync ==
    ASSUME Kinds, NEW d \in Device, SyncReads(d)
    PROVE  /\ sync'[d].stage = "read" /\ sync'[d].late = LateAt(d)
           /\ \A e \in Device \ {d} : sync'[e] = sync[e]
<1> DEFINE c == [sync[d] EXCEPT !.stage = "read"]
<1>1. c \in Syncs /\ c.stage = "read" /\ LateAt(d) \in Nat
  <2>1. sync[d] \in Syncs /\ LateAt(d) \in Nat
    BY DEF Kinds, LateAt
  <2> QED
    BY <2>1 DEF Syncs
<1>2. sync' = [sync EXCEPT ![d] = [c EXCEPT !.late = LateAt(d)]]
  BY DEF SyncReads
<1> HIDE DEF c
<1>3. [c EXCEPT !.late = LateAt(d)].stage = "read" /\ [c EXCEPT !.late = LateAt(d)].late = LateAt(d)
  BY <1>1 DEF Syncs
<1> QED
  BY <1>2, <1>3 DEF Kinds

\* The check after sync_check: only a device that is not signed out goes on.
LEMMA ChecksSync ==
    ASSUME Kinds, NEW d \in Device, SyncChecks(d)
    PROVE  /\ sync[d].stage = "read"
           /\ \/ sync'[d].stage = "idle" /\ sync'[d].late = 0
              \/ ~Revoked(d) /\ sync'[d].stage \in {"parked", "answers"} /\ sync'[d].late = sync[d].late
           /\ \A e \in Device \ {d} : sync'[e] = sync[e]
<1>1. CASE Revoked(d)
  BY <1>1, IdleSync DEF SyncChecks, Refused, Kinds
<1>2. CASE ~Revoked(d)
  <2>1. CASE Goes(d, "parked")
    <3>1. sync \in [Device -> Syncs]
      BY DEF Kinds
    <3>2. sync'[d].stage = "parked" /\ sync'[d].late = sync[d].late /\ \A e \in Device \ {d} : sync'[e] = sync[e]
      BY <2>1, <3>1, GoesSteps
    <3> QED
      BY <1>2, <3>2 DEF SyncChecks
  <2>2. CASE sync' = [sync EXCEPT ![d].stage = "answers", ![d].woken = "no"]
    <3> DEFINE c == [sync[d] EXCEPT !.stage = "answers"]
    <3>1. c \in Syncs /\ c.stage = "answers" /\ c.late = sync[d].late
      <4>1. sync[d] \in Syncs
        BY DEF Kinds
      <4> QED
        BY <4>1 DEF Syncs
    <3>2. sync' = [sync EXCEPT ![d] = [c EXCEPT !.woken = "no"]]
      BY <2>2
    <3> HIDE DEF c
    <3>3. [c EXCEPT !.woken = "no"].stage = "answers" /\ [c EXCEPT !.woken = "no"].late = sync[d].late
      BY <3>1 DEF Syncs
    <3>4. sync'[d] = [c EXCEPT !.woken = "no"] /\ \A e \in Device \ {d} : sync'[e] = sync[e]
      BY <3>2 DEF Kinds
    <3> QED
      BY <1>2, <3>3, <3>4 DEF SyncChecks
  <2> QED
    BY <1>2, <2>1, <2>2 DEF SyncChecks, Refused
<1> QED
  BY <1>1, <1>2

\* The other steps of a sync leave it before its read.
LEMMA StepsSync ==
    ASSUME Kinds, NEW d \in Device, SyncStarts(d) \/ SyncSeen(d) \/ SyncEvicts(d) \/ SyncWakes(d) \/ SyncEnds(d)
    PROVE  /\ sync'[d].stage \in {"idle", "checked", "evicts", "seen"}
           /\ sync'[d].late = sync[d].late \/ sync'[d].late = 0
           /\ \A e \in Device \ {d} : sync'[e] = sync[e]
<1>1. sync \in [Device -> Syncs]
  BY DEF Kinds
<1>2. CASE Goes(d, "checked") \/ Goes(d, "evicts") \/ Goes(d, "seen")
  BY <1>1, <1>2, GoesSteps
<1>3. CASE sync' = [sync EXCEPT ![d] = LooksAgain(d)] \/ sync' = [sync EXCEPT ![d] = Idle]
  BY <1>1, <1>3, IdleSync, LookingSync
<1> QED
  BY <1>2, <1>3 DEF SyncStarts, SyncSeen, SyncEvicts, SyncWakes, SyncEnds

\* leave: no rows, and each sync as far as it was.
LEMMA LeaveSteps ==
    ASSUME Kinds, Leave
    PROVE  \A e \in Device : row'[e] = NoRow /\ sync'[e].stage = sync[e].stage /\ sync'[e].late = sync[e].late
<1>1. sync' = [e \in Device |-> Wake(e, "yes")] /\ row' = [e \in Device |-> NoRow] /\ sync \in [Device -> Syncs]
  BY DEF Leave, Woken, Kinds
<1> QED
  BY <1>1, WakeSync

LEMMA EnrolSteps ==
    ASSUME Kinds, NEW d \in Device, NEW k \in PublicKey, NEW by \in Device, Enrol(d, k, by)
    PROVE  /\ Here /\ identity.key # NoKey /\ holds[by] = identity.key
           /\ row[d] # NoRow => ~row[d].revoked
           /\ row'[d] # NoRow /\ row'[d].public_key = k /\ k # NoKey /\ ~row'[d].revoked
           /\ holds'[d] = identity.key
           /\ \A e \in Device \ {d} : row'[e] = row[e] /\ holds'[e] = holds[e]
<1>1. [public_key |-> k, revoked |-> FALSE] \in Rows
  BY DEF Rows
<1>2. row'[d] = [public_key |-> k, revoked |-> FALSE] /\ holds'[d] = holds[by]
  BY DEF Enrol, Kinds
<1> QED
  BY <1>1, <1>2, Distinct DEF Enrol, Certified, NotSignedOut, Revoked, Kinds

\* A sign-out that is done had a device that was not signed out.
LEMMA SignOutDevice ==
    ASSUME Kinds, NEW q \in asked, SignOutPlain(q) \/ SignOutRotates(q)
    PROVE  /\ q.device \in Device /\ row[q.device] # NoRow /\ ~row[q.device].revoked /\ Revokes(q.device)
           /\ Here /\ (identity.key = NoKey => SignOutPlain(q)) /\ (identity.key # NoKey => SignOutRotates(q))
BY DEF SignOutPlain, SignOutRotates, Acceptable, Revoked, Kinds, Asks

-----------------------------------------------------------------------------
(* Parked syncs.                                                           *)

LEMMA ParkedStep ==
    ASSUME Kinds, ParkedIsWoken, [Next]_vars
    PROVE  ParkedIsWoken'
<1> DEFINE Woke(e) == sync[e].stage = "parked" /\ row[e] # NoRow /\ row[e].revoked => sync[e].woken # "no"
<1>1. \A e \in Device : Woke(e)
  BY DEF ParkedIsWoken, Revoked
<1>2. SUFFICES ASSUME NEW e \in Device PROVE Woke(e)'
  BY DEF ParkedIsWoken, Revoked
<1>3. CASE UNCHANGED <<row, sync>>
  BY <1>1, <1>3
<1>4. CASE Leave
  BY <1>4, LeaveSteps
<1>5. ASSUME NEW d \in Device, NEW k \in PublicKey, NEW by \in Device, Enrol(d, k, by) PROVE Woke(e)'
  <2>1. sync' = sync
    BY <1>5 DEF Enrol
  <2> QED
    BY <1>1, <1>5, <2>1, EnrolSteps
<1>6. ASSUME NEW q \in asked, SignOutPlain(q) \/ SignOutRotates(q) PROVE Woke(e)'
  <2>1. q.device \in Device /\ row[q.device] # NoRow /\ Revokes(q.device)
    BY <1>6, SignOutDevice
  <2>2. CASE e = q.device
    BY <2>1, <2>2, RevokesSteps
  <2>3. CASE e # q.device
    BY <1>1, <2>1, <2>3, RevokesSteps
  <2> QED
    BY <2>2, <2>3
<1>7. ASSUME NEW d \in Device, SyncStarts(d) \/ SyncWakes(d) \/ SyncEnds(d) PROVE Woke(e)'
  <2>1. row' = row
    BY <1>7 DEF SyncStarts, SyncWakes, SyncEnds
  <2> QED
    BY <1>1, <1>7, <2>1, StepsSync
<1>8. ASSUME NEW d \in Device, SyncSeen(d) \/ SyncEvicts(d) PROVE Woke(e)'
  <2>1. \/ row'[e] = row[e] \/ row'[e] = NoRow
        \/ row'[e] = [public_key |-> NoKey, revoked |-> FALSE]
    BY <1>8, SeenRows
  <2> QED
    BY <1>1, <1>8, <2>1, StepsSync
<1>9. ASSUME NEW d \in Device, SyncReads(d) PROVE Woke(e)'
  <2>1. row' = row
    BY <1>9 DEF SyncReads
  <2> QED
    BY <1>1, <1>9, <2>1, ReadsSync
<1>10. ASSUME NEW d \in Device, SyncChecks(d) PROVE Woke(e)'
  <2>1. row' = row
    BY <1>10 DEF SyncChecks
  <2> QED
    BY <1>1, <1>10, <2>1, ChecksSync DEF Revoked
<1> HIDE DEF Woke
<1>11. CASE UNCHANGED vars
  BY <1>3, <1>11 DEF vars
<1>12. ASSUME NEW d \in Device, NEW by \in Device,
              Register \/ SetKey(d) \/ SharedOff(d) \/ Collect(d) \/ Ask(by, d)
       PROVE  Woke(e)'
  BY <1>3, <1>12 DEF Register, SetKey, SharedOff, Collect, Ask
<1>13. ASSUME NEW q \in asked, SignOutEnds(q) PROVE Woke(e)'
  BY <1>3, <1>13 DEF SignOutEnds
<1> QED
  BY <1>4, <1>5, <1>6, <1>7, <1>8, <1>9, <1>10, <1>11, <1>12, <1>13, NextSteps, e \in Device

(* A parked sync of a signed-out device has been woken to be refused,       *)
(* unless the call that signed it out was cut off at its commit: a sync     *)
(* parks only after the check, and a sign-out wakes whatever is parked.     *)
THEOREM ParkedSyncsWake == Spec => []ParkedIsWoken
<1>1. Init => ParkedIsWoken
  BY IdleSync DEF Init, ParkedIsWoken, Idle
<1>2. Kinds /\ ParkedIsWoken /\ [Next]_vars => ParkedIsWoken'
  BY ParkedStep
<1> QED
  BY <1>1, <1>2, KindsAlways, PTL DEF Spec

-----------------------------------------------------------------------------
(* No mail after a sign-out.                                               *)

\* Before the first registration there is nothing.
Begun ==
    life = 0 =>
        /\ ~Here /\ \A d \in Device : row[d] = NoRow /\ sync[d].stage = "idle"
        /\ asked = {} /\ drops = {} /\ \A d \in Device : holds[d] = NoKey

\* A read made in this registration after the device was signed out is not
\* past the check, and the row that refuses it stays as it is.
NotLate ==
    \A d \in Device :
        /\ sync[d].late <= life
        /\ sync[d].stage \in {"read", "parked", "answers"} /\ sync[d].late = life =>
              \/ row[d] = NoRow /\ ~Here
              \/ row[d] # NoRow /\ row[d].public_key # NoKey /\ row[d].revoked /\ sync[d].stage = "read"

\* Nothing can happen to an address before it is registered.
LEMMA RegisterFirst ==
    ASSUME Kinds, Begun, Next, life = 0
    PROVE  Register
<1>1. ~Here /\ (\A d \in Device : sync[d].stage = "idle") /\ asked = {}
  BY DEF Begun
<1>2. \A d \in Device : ~SetKey(d) /\ ~SharedOff(d) /\ ~Collect(d) /\ \A k \in PublicKey, by \in Device : ~Enrol(d, k, by)
  BY <1>1 DEF SetKey, SharedOff, Collect, Enrol, SignsIn
<1>3. \A d \in Device : /\ ~SyncStarts(d) /\ ~SyncSeen(d) /\ ~SyncEvicts(d) /\ ~SyncReads(d)
                        /\ ~SyncChecks(d) /\ ~SyncWakes(d) /\ ~SyncEnds(d)
  BY <1>1 DEF SyncStarts, SyncSeen, SyncEvicts, SyncReads, SyncChecks, SyncWakes, SyncEnds, SignsIn
<1>4. \A d, by \in Device : ~Ask(by, d)
  BY <1>1 DEF Ask, SignsIn
<1> QED
  BY <1>1, <1>2, <1>3, <1>4, NextSteps DEF Leave

LEMMA BegunStep ==
    ASSUME Kinds, Begun, [Next]_vars
    PROVE  Begun'
<1>1. CASE life = 0 /\ Next
  BY <1>1, RegisterFirst DEF Register, Begun
<1>2. CASE life # 0
  <2>1. life' = life \/ life' = life + 1
    BY DEF Next, vars, Register, Leave, SetKey, SharedOff, Collect, Enrol, Ask, SignOutPlain, SignOutRotates,
           SignOutEnds, SyncStarts, SyncSeen, SyncEvicts, SyncReads, SyncChecks, SyncWakes, SyncEnds
  <2> QED
    BY <1>2, <2>1 DEF Begun, Kinds
<1>3. CASE UNCHANGED vars
  BY <1>3 DEF vars, Begun, Here
<1> QED
  BY <1>1, <1>2, <1>3

LEMMA NotLateStep ==
    ASSUME Kinds, Begun, NotLate, [Next]_vars
    PROVE  NotLate'
<1> DEFINE Early(e) ==
        /\ sync[e].late <= life
        /\ sync[e].stage \in {"read", "parked", "answers"} /\ sync[e].late = life =>
              \/ row[e] = NoRow /\ ~Here
              \/ row[e] # NoRow /\ row[e].public_key # NoKey /\ row[e].revoked /\ sync[e].stage = "read"
<1>1. \A e \in Device : Early(e)
  BY DEF NotLate
<1>2. SUFFICES ASSUME NEW e \in Device PROVE Early(e)'
  BY DEF NotLate
<1>k. life \in Nat /\ sync[e].late \in Nat
  BY DEF Kinds, Syncs
<1>3. CASE UNCHANGED <<row, sync, life>> /\ (Here' <=> Here)
  BY <1>1, <1>3
<1>4. CASE Leave
  <2>1. ~Here' /\ life' = life
    BY <1>4 DEF Leave, Here
  <2> QED
    BY <1>1, <1>4, <2>1, LeaveSteps
<1>5. ASSUME NEW d \in Device, NEW k \in PublicKey, NEW by \in Device, Enrol(d, k, by) PROVE Early(e)'
  <2>1. sync' = sync /\ life' = life /\ (Here' <=> Here)
    BY <1>5 DEF Enrol, Here
  <2> QED
    BY <1>1, <1>5, <2>1, EnrolSteps
<1>6. ASSUME NEW q \in asked, SignOutPlain(q) \/ SignOutRotates(q) PROVE Early(e)'
  <2>1. q.device \in Device /\ row[q.device] # NoRow /\ ~row[q.device].revoked /\ Revokes(q.device) /\ Here
    BY <1>6, SignOutDevice
  <2>2. life' = life
    BY <1>6 DEF SignOutPlain, SignOutRotates
  <2>3. sync'[e].stage = sync[e].stage /\ sync'[e].late = sync[e].late
    BY <2>1, RevokesSteps
  <2>4. CASE e = q.device
    BY <1>1, <2>1, <2>2, <2>3, <2>4
  <2>5. CASE e # q.device
    <3>1. row'[e] = row[e]
      BY <2>1, <2>5, RevokesSteps
    <3> QED
      BY <1>1, <2>1, <2>2, <2>3, <3>1
  <2> QED
    BY <2>4, <2>5
<1>7. ASSUME NEW d \in Device, SyncStarts(d) \/ SyncWakes(d) \/ SyncEnds(d) PROVE Early(e)'
  <2>1. row' = row /\ life' = life /\ (Here' <=> Here)
    BY <1>7 DEF SyncStarts, SyncWakes, SyncEnds, Here
  <2> QED
    BY <1>1, <1>7, <1>k, <2>1, StepsSync
<1>8. ASSUME NEW d \in Device, SyncSeen(d) \/ SyncEvicts(d) PROVE Early(e)'
  <2>1. life' = life /\ (Here' <=> Here)
    BY <1>8 DEF SyncSeen, SyncEvicts, Here
  <2>2. CASE e = d
    BY <1>1, <1>8, <1>k, <2>1, <2>2, StepsSync
  <2>3. CASE e # d
    BY <1>1, <1>8, <2>1, <2>3, StepsSync, SeenRows
  <2> QED
    BY <2>2, <2>3
<1>9. ASSUME NEW d \in Device, SyncReads(d) PROVE Early(e)'
  <2>1. row' = row /\ life' = life /\ (Here' <=> Here) /\ sync[d].stage = "seen"
    BY <1>9 DEF SyncReads, Here
  <2>2. life # 0
    BY <2>1 DEF Begun
  <2>3. \/ LateAt(d) = 0
        \/ LateAt(d) = life /\ row[d] # NoRow /\ row[d].public_key # NoKey /\ row[d].revoked
    BY DEF LateAt, Revoked, HasKey
  <2> QED
    BY <1>1, <1>9, <1>k, <2>1, <2>2, <2>3, ReadsSync
<1>10. ASSUME NEW d \in Device, SyncChecks(d) PROVE Early(e)'
  <2>1. row' = row /\ life' = life /\ (Here' <=> Here)
    BY <1>10 DEF SyncChecks, Here
  <2> QED
    BY <1>1, <1>10, <1>k, <2>1, ChecksSync DEF Revoked
<1>11. CASE Register
  BY <1>1, <1>11, <1>k DEF Register
<1> HIDE DEF Early
<1>12. CASE UNCHANGED vars
  BY <1>3, <1>12 DEF vars, Here
<1>13. ASSUME NEW d \in Device, NEW by \in Device,
              SetKey(d) \/ SharedOff(d) \/ Collect(d) \/ Ask(by, d)
       PROVE  Early(e)'
  <2>1. UNCHANGED <<row, sync, life>> /\ Here
    BY <1>13 DEF SetKey, SharedOff, Collect, Ask, SignsIn
  <2>2. identity \in Identities /\ Key(d, 0) \in Keys
    BY <2>1 DEF Here, Kinds, Key, Keys
  <2>3. [identity EXCEPT !.key = Key(d, 0)] \in Identities /\ [identity EXCEPT !.shared = FALSE] \in Identities
    BY <2>2, IdentityFields
  <2>4. identity' \in Identities
    BY <1>13, <2>2, <2>3 DEF SetKey, SharedOff, Collect, Ask
  <2>5. Here'
    BY <2>4, Distinct DEF Here
  <2> QED
    BY <1>3, <2>1, <2>5
<1>14. ASSUME NEW q \in asked, SignOutEnds(q) PROVE Early(e)'
  BY <1>3, <1>14 DEF SignOutEnds, Here
<1> QED
  BY <1>4, <1>5, <1>6, <1>7, <1>8, <1>9, <1>10, <1>11, <1>12, <1>13, <1>14, NextSteps, e \in Device

(* A device that had a key and was signed out gets no mail read after that: *)
(* what sync_check read too late does not pass the check after it.          *)
THEOREM NoMailAfterSignOut == Spec => []NothingAfterSignOut
<1>1. Init => Begun /\ NotLate
  BY IdleSync DEF Init, Begun, NotLate, Here
<1>2. Kinds /\ Begun /\ NotLate /\ [Next]_vars => (Begun /\ NotLate)'
  BY BegunStep, NotLateStep
<1>3. NotLate => NothingAfterSignOut
  BY DEF NotLate, NothingAfterSignOut
<1> QED
  BY <1>1, <1>2, <1>3, KindsAlways, PTL DEF Spec

-----------------------------------------------------------------------------
(* The identity key, over one registration.                                *)

\* Only an address with an identity key has devices with keys.
Keyed == \A d \in Device : row[d] # NoRow /\ row[d].public_key # NoKey => Here /\ identity.key # NoKey

\* A rotation takes the shared secret off for good.
SharedIsOff == Here /\ identity.version > 0 => ~identity.shared

\* What is known, kept or asked before the first identity key: nothing.
NoneYet ==
    Here /\ identity.key = NoKey =>
        drops = {} /\ (\A d \in Device : holds[d] = NoKey) /\ \A q \in asked : q.signed = NoKey

\* Nothing is ahead of the present version, and what is of it is its key.
UpToVersion ==
    Here => /\ \A s \in drops : s.version <= identity.version /\ (s.version = identity.version => s.key = identity.key)
            /\ identity.key # NoKey => identity.key.version <= identity.version
            /\ \A d \in Device : holds[d] # NoKey => holds[d].version <= identity.version
            /\ \A q \in asked : q.next <= identity.version + 1

\* A statement signed with the present secret comes from a device that
\* still knows it, and its new key is its version's.
AskedBy ==
    /\ Here => \A q \in asked :
          identity.key # NoKey /\ q.signed = identity.key /\ q.next = identity.version + 1 => holds[q.by] = identity.key
    /\ \A q \in asked : q.key.version = q.next

\* A copy under way is sealed to the key its device has, unless they crossed.
ToTheirKeys ==
    Here => \A q \in asked : \A c \in q.sealed :
        c[1] \in q.crossed \/ (row[c[1]] # NoRow /\ row[c[1]].public_key = c[2])

FirstLife == life = 1 => NoneYet /\ UpToVersion /\ AskedBy /\ ToTheirKeys /\ NoneLockedOut

LEMMA KeyedStep ==
    ASSUME Kinds, Keyed, [Next]_vars
    PROVE  Keyed'
<1> DEFINE Has(e) == row[e] # NoRow /\ row[e].public_key # NoKey => Here /\ identity.key # NoKey
<1>1. \A e \in Device : Has(e)
  BY DEF Keyed
<1>2. SUFFICES ASSUME NEW e \in Device PROVE Has(e)'
  BY DEF Keyed
<1>3. CASE UNCHANGED <<row, identity>>
  BY <1>1, <1>3 DEF Here
<1>4. CASE Leave
  BY <1>4, LeaveSteps
<1>5. CASE Register
  <2>1. row' = row /\ ~Here
    BY <1>5 DEF Register
  <2> QED
    BY <1>1, <2>1
<1>6. ASSUME NEW d \in Device, SetKey(d) PROVE Has(e)'
  <2>1. row' = row /\ identity.key = NoKey
    BY <1>6 DEF SetKey
  <2> QED
    BY <1>1, <2>1
<1>7. ASSUME NEW d \in Device, SharedOff(d) PROVE Has(e)'
  <2>1. row' = row /\ identity \in Identities /\ identity' = [identity EXCEPT !.shared = FALSE]
    BY <1>7 DEF SharedOff, SignsIn, Here, Kinds
  <2>2. identity' \in Identities /\ identity'.key = identity.key
    BY <2>1, IdentityFields
  <2> QED
    BY <1>1, <2>1, <2>2, Distinct DEF Here
<1>8. ASSUME NEW d \in Device, NEW k \in PublicKey, NEW by \in Device, Enrol(d, k, by) PROVE Has(e)'
  <2>1. identity' = identity
    BY <1>8 DEF Enrol
  <2> QED
    BY <1>8, <2>1, EnrolSteps DEF Here
<1>9. ASSUME NEW q \in asked, SignOutPlain(q) \/ SignOutRotates(q) PROVE Has(e)'
  <2>1. q.device \in Device /\ row[q.device] # NoRow /\ Revokes(q.device)
    BY <1>9, SignOutDevice
  <2>2. row'[e] # NoRow /\ row'[e].public_key # NoKey => row[e] # NoRow /\ row[e].public_key # NoKey
    BY <2>1, RevokesSteps
  <2>3. CASE SignOutPlain(q)
    BY <1>1, <2>2, <2>3 DEF SignOutPlain, Here
  <2>4. CASE SignOutRotates(q)
    <3>1. q.key \in Keys /\ q.next \in Nat
      BY DEF Kinds, Asks
    <3>2. identity' = [key |-> q.key, version |-> q.next, shared |-> FALSE]
      BY <2>4 DEF SignOutRotates
    <3>3. identity' \in Identities /\ identity'.key = q.key
      BY <3>1, <3>2 DEF Identities
    <3> QED
      BY <3>1, <3>3, Distinct DEF Here
  <2> QED
    BY <1>9, <2>3, <2>4
<1>10. ASSUME NEW d \in Device, SyncSeen(d) \/ SyncEvicts(d) PROVE Has(e)'
  <2>1. identity' = identity
    BY <1>10 DEF SyncSeen, SyncEvicts
  <2> QED
    BY <1>1, <1>10, <2>1, SeenRows DEF Here
<1> HIDE DEF Has
<1>11. CASE UNCHANGED vars
  BY <1>3, <1>11 DEF vars
<1>12. ASSUME NEW d \in Device, NEW by \in Device,
              \/ Collect(d) \/ Ask(by, d)
              \/ SyncStarts(d) \/ SyncReads(d) \/ SyncChecks(d) \/ SyncWakes(d) \/ SyncEnds(d)
       PROVE  Has(e)'
  BY <1>3, <1>12 DEF Collect, Ask, SyncStarts, SyncReads, SyncChecks, SyncWakes, SyncEnds
<1>13. ASSUME NEW q \in asked, SignOutEnds(q) PROVE Has(e)'
  BY <1>3, <1>13 DEF SignOutEnds
<1> QED
  BY <1>4, <1>5, <1>6, <1>7, <1>8, <1>9, <1>10, <1>11, <1>12, <1>13, NextSteps, e \in Device

LEMMA SharedStep ==
    ASSUME Kinds, SharedIsOff, [Next]_vars
    PROVE  SharedIsOff'
<1>1. CASE UNCHANGED identity
  BY <1>1 DEF SharedIsOff, Here
<1>2. CASE Register
  BY <1>2 DEF Register, SharedIsOff
<1>3. CASE Leave
  BY <1>3 DEF Leave, SharedIsOff, Here
<1>4. ASSUME NEW d \in Device, SetKey(d) PROVE SharedIsOff'
  <2>1. Here /\ identity \in Identities /\ Key(d, 0) \in Keys /\ identity' = [identity EXCEPT !.key = Key(d, 0)]
    BY <1>4 DEF SetKey, SignsIn, Here, Kinds, Key, Keys
  <2>2. identity'.version = identity.version /\ identity'.shared = identity.shared
    BY <2>1, IdentityFields
  <2> QED
    BY <2>1, <2>2 DEF SharedIsOff
<1>5. ASSUME NEW d \in Device, SharedOff(d) PROVE SharedIsOff'
  <2>1. identity \in Identities /\ identity' = [identity EXCEPT !.shared = FALSE]
    BY <1>5 DEF SharedOff, SignsIn, Here, Kinds
  <2>2. ~identity'.shared
    BY <2>1, IdentityFields
  <2> QED
    BY <2>2 DEF SharedIsOff
<1>6. ASSUME NEW q \in asked, SignOutRotates(q) PROVE SharedIsOff'
  BY <1>6 DEF SignOutRotates, SharedIsOff
<1>7. CASE UNCHANGED vars
  BY <1>1, <1>7 DEF vars
<1>8. ASSUME NEW d \in Device, NEW by \in Device,
             \/ Collect(d) \/ Ask(by, d) \/ \E k \in PublicKey : Enrol(d, k, by)
             \/ SyncStarts(d) \/ SyncSeen(d) \/ SyncEvicts(d) \/ SyncReads(d) \/ SyncChecks(d) \/ SyncWakes(d) \/ SyncEnds(d)
      PROVE  SharedIsOff'
  BY <1>1, <1>8 DEF Collect, Ask, Enrol, SyncStarts, SyncSeen, SyncEvicts, SyncReads, SyncChecks, SyncWakes, SyncEnds
<1>9. ASSUME NEW q \in asked, SignOutEnds(q) \/ SignOutPlain(q) PROVE SharedIsOff'
  BY <1>1, <1>9 DEF SignOutEnds, SignOutPlain
<1> QED
  BY <1>2, <1>3, <1>4, <1>5, <1>6, <1>7, <1>8, <1>9, NextSteps

\* The parts that say nothing of rows hold while what they speak of does.
LEMMA SameKeys ==
    ASSUME NoneYet, UpToVersion, AskedBy, UNCHANGED <<identity, drops, holds>>, asked' \subseteq asked
    PROVE  NoneYet' /\ UpToVersion' /\ AskedBy'
<1>1. NoneYet'
  BY DEF NoneYet, Here
<1>2. UpToVersion'
  BY DEF UpToVersion, Here
<1>3. AskedBy'
  BY DEF AskedBy, Here
<1> QED
  BY <1>1, <1>2, <1>3

\* No key goes, and no sign-out comes.
LEMMA SameSealed ==
    ASSUME Kinds, ToTheirKeys, Here' => Here, asked' \subseteq asked,
           \A e \in Device : row[e] # NoRow /\ row[e].public_key # NoKey =>
                                row'[e] # NoRow /\ row'[e].public_key = row[e].public_key
    PROVE  ToTheirKeys'
<1>1. \A q \in asked : q.sealed \subseteq Device \X PublicKey
  BY DEF Kinds, Asks
<1>2. \A q \in asked : \A c \in q.sealed : c[1] \in Device /\ c[2] # NoKey
  BY <1>1, Distinct
<1> QED
  BY <1>2 DEF ToTheirKeys

\* With the secret and its copies as they are, an enrolled device that does
\* not come to know the secret has its row and what it knew.
LEMMA SameAccess ==
    ASSUME NoneLockedOut, UNCHANGED drops, identity'.key = identity.key, identity'.version = identity.version,
           \A e \in Device : row'[e] # NoRow /\ row'[e].public_key # NoKey /\ ~row'[e].revoked =>
               holds'[e] = identity.key \/ (row'[e] = row[e] /\ holds'[e] = holds[e] /\ (e \in crossed => e \in crossed'))
    PROVE  NoneLockedOut'
BY DEF NoneLockedOut, Enrolled, HasKey, Opens, SealedFor

\* A device that comes to know the present secret changes nothing else.
LEMMA OneMoreKnows ==
    ASSUME Kinds, NoneYet, UpToVersion, AskedBy, Here, identity.key # NoKey, NEW d \in Device,
           holds'[d] = identity.key, \A e \in Device \ {d} : holds'[e] = holds[e], UNCHANGED <<identity, drops>>,
           \A p \in asked' : \E q \in asked : p.by = q.by /\ p.signed = q.signed /\ p.next = q.next /\ p.key = q.key
    PROVE  NoneYet' /\ UpToVersion' /\ AskedBy'
<1>1. NoneYet'
  BY DEF NoneYet, Here
<1>2. UpToVersion'
  BY DEF UpToVersion, Here
<1>3. AskedBy'
  <2>1. ASSUME NEW q \in asked, q.signed = identity.key, q.next = identity.version + 1 PROVE holds'[q.by] = identity.key
    <3>1. q.by \in Device /\ holds[q.by] = identity.key
      BY <2>1 DEF AskedBy, Kinds, Asks
    <3> QED
      BY <3>1
  <2>2. \A q \in asked : q.key.version = q.next
    BY DEF AskedBy
  <2> QED
    BY <2>1, <2>2 DEF AskedBy, Here
<1> QED
  BY <1>1, <1>2, <1>3

LEMMA FirstRegister ==
    ASSUME Begun, Register, life = 0
    PROVE  (NoneYet /\ UpToVersion /\ AskedBy /\ ToTheirKeys /\ NoneLockedOut)'
<1>1. /\ asked' = {} /\ drops' = {} /\ \A d \in Device : holds'[d] = NoKey /\ row'[d] = NoRow
      /\ identity'.key = NoKey
  BY DEF Register, Begun
<1>2. NoneYet'
  BY <1>1 DEF NoneYet
<1>3. UpToVersion'
  BY <1>1 DEF UpToVersion
<1>4. AskedBy'
  BY <1>1 DEF AskedBy
<1>5. NoneLockedOut'
  BY <1>1 DEF NoneLockedOut, Enrolled, HasKey
<1>6. ToTheirKeys'
  BY <1>1 DEF ToTheirKeys
<1> QED
  BY <1>2, <1>3, <1>4, <1>5, <1>6

LEMMA FirstLeave ==
    ASSUME Kinds, AskedBy, Leave
    PROVE  (NoneYet /\ UpToVersion /\ AskedBy /\ ToTheirKeys /\ NoneLockedOut)'
<1>1. ~Here' /\ asked' = asked /\ \A d \in Device : row'[d] = NoRow
  BY LeaveSteps DEF Leave, Here
<1> QED
  BY <1>1 DEF NoneYet, UpToVersion, AskedBy, ToTheirKeys, NoneLockedOut, Enrolled, HasKey

LEMMA FirstSetKey ==
    ASSUME Kinds, Keyed, NoneYet, UpToVersion, AskedBy, ToTheirKeys, NEW d \in Device, SetKey(d)
    PROVE  (NoneYet /\ UpToVersion /\ AskedBy /\ ToTheirKeys /\ NoneLockedOut)'
<1>1. Here /\ identity.key = NoKey /\ UNCHANGED <<row, drops, asked>>
  BY DEF SetKey, SignsIn
<1>2. identity \in Identities /\ Key(d, 0) \in Keys /\ Key(d, 0).version = 0 /\ identity' = [identity EXCEPT !.key = Key(d, 0)]
  BY <1>1 DEF SetKey, Here, Kinds, Key, Keys
<1>3. identity'.key = Key(d, 0) /\ identity'.version = identity.version /\ identity.version \in Nat
  BY <1>2, IdentityFields DEF Identities
<1>4. drops = {} /\ (\A e \in Device : holds[e] = NoKey) /\ \A q \in asked : q.signed = NoKey
  BY <1>1 DEF NoneYet
<1>5. \A e \in Device : holds'[e] # NoKey => holds'[e] = Key(d, 0)
  BY <1>4 DEF SetKey, Kinds
<1>6. NoneYet'
  BY <1>2, <1>3, Distinct DEF NoneYet
<1>7. UpToVersion'
  BY <1>1, <1>2, <1>3, <1>4, <1>5 DEF UpToVersion
<1>8. AskedBy'
  BY <1>1, <1>2, <1>3, <1>4, Distinct DEF AskedBy
<1>9. NoneLockedOut'
  BY <1>1 DEF NoneLockedOut, Enrolled, HasKey, Keyed
<1>10. ToTheirKeys'
  BY <1>1, SameSealed
<1> QED
  BY <1>6, <1>7, <1>8, <1>9, <1>10

LEMMA FirstSharedOff ==
    ASSUME Kinds, NoneYet, UpToVersion, AskedBy, ToTheirKeys, NoneLockedOut, NEW d \in Device, SharedOff(d)
    PROVE  (NoneYet /\ UpToVersion /\ AskedBy /\ ToTheirKeys /\ NoneLockedOut)'
<1>1. Here /\ UNCHANGED <<row, drops, holds, asked, crossed>>
  BY DEF SharedOff, SignsIn
<1>2. identity \in Identities /\ identity' = [identity EXCEPT !.shared = FALSE]
  BY <1>1 DEF SharedOff, Here, Kinds
<1>3. identity'.key = identity.key /\ identity'.version = identity.version
  BY <1>2, IdentityFields
<1>4. NoneYet'
  BY <1>1, <1>3 DEF NoneYet
<1>5. UpToVersion'
  BY <1>1, <1>3 DEF UpToVersion
<1>6. AskedBy'
  BY <1>1, <1>3 DEF AskedBy
<1>7. NoneLockedOut'
  BY <1>1, <1>3, SameAccess
<1>8. ToTheirKeys'
  BY <1>1, SameSealed
<1> QED
  BY <1>4, <1>5, <1>6, <1>7, <1>8

LEMMA FirstEnrol ==
    ASSUME Kinds, NoneYet, UpToVersion, AskedBy, ToTheirKeys, NoneLockedOut, NEW d \in Device, NEW k \in PublicKey, NEW by \in Device, Enrol(d, k, by)
    PROVE  (NoneYet /\ UpToVersion /\ AskedBy /\ ToTheirKeys /\ NoneLockedOut)'
<1>1. UNCHANGED <<identity, drops>> /\ crossed' = crossed \ {d} /\ asked' = {Cross(q, d, k) : q \in asked}
  BY DEF Enrol
<1>2. \A p \in asked' : \E q \in asked :
        /\ p.by = q.by /\ p.signed = q.signed /\ p.next = q.next /\ p.key = q.key
        /\ p.sealed = q.sealed /\ q.crossed \subseteq p.crossed
        /\ \A c \in q.sealed : c[1] = d /\ c[2] # k => d \in p.crossed
  BY <1>1, CrossFields DEF Kinds
<1>3. NoneYet' /\ UpToVersion' /\ AskedBy'
  BY <1>1, <1>2, EnrolSteps, OneMoreKnows
<1>4. NoneLockedOut'
  BY <1>1, EnrolSteps, SameAccess
<1>5. ToTheirKeys'
  <2> SUFFICES ASSUME NEW p \in asked', NEW c \in p.sealed
               PROVE  c[1] \in p.crossed \/ (row'[c[1]] # NoRow /\ row'[c[1]].public_key = c[2])
    BY DEF ToTheirKeys
  <2>1. PICK q \in asked : /\ p.sealed = q.sealed /\ q.crossed \subseteq p.crossed
                           /\ \A b \in q.sealed : b[1] = d /\ b[2] # k => d \in p.crossed
    BY <1>2
  <2>2. c \in q.sealed /\ c[1] \in Device
    BY <2>1 DEF Kinds, Asks
  <2>3. c[1] \in q.crossed \/ (row[c[1]] # NoRow /\ row[c[1]].public_key = c[2])
    BY <2>2, EnrolSteps DEF ToTheirKeys
  <2>4. CASE c[1] = d
    BY <2>1, <2>2, <2>4, EnrolSteps
  <2>5. CASE c[1] # d
    BY <2>1, <2>2, <2>3, <2>5, EnrolSteps
  <2> QED
    BY <2>4, <2>5
<1> QED
  BY <1>3, <1>4, <1>5

LEMMA FirstCollect ==
    ASSUME Kinds, NoneYet, UpToVersion, AskedBy, ToTheirKeys, NoneLockedOut, NEW d \in Device, Collect(d)
    PROVE  (NoneYet /\ UpToVersion /\ AskedBy /\ ToTheirKeys /\ NoneLockedOut)'
<1>1. Here /\ UNCHANGED <<identity, row, drops, asked, crossed>>
  BY DEF Collect
<1>2. PICK s \in SealedFor(d) : holds' = [holds EXCEPT ![d] = s.key]
  BY DEF Collect
<1>3. s \in drops /\ s.version = identity.version /\ s.key \in Keys
  BY <1>2 DEF SealedFor, Kinds, Drops
<1>4. s.key = identity.key /\ identity.key # NoKey
  BY <1>1, <1>3 DEF UpToVersion, NoneYet
<1>5. holds'[d] = identity.key /\ \A e \in Device \ {d} : holds'[e] = holds[e]
  BY <1>2, <1>4 DEF Kinds
<1>6. NoneYet' /\ UpToVersion' /\ AskedBy'
  BY <1>1, <1>4, <1>5, OneMoreKnows
<1>7. NoneLockedOut'
  BY <1>1, <1>5, SameAccess
<1>8. ToTheirKeys'
  BY <1>1, SameSealed DEF Here
<1> QED
  BY <1>6, <1>7, <1>8

LEMMA FirstAsk ==
    ASSUME Kinds, NoneYet, UpToVersion, AskedBy, ToTheirKeys, NoneLockedOut, NEW d \in Device, NEW by \in Device, Ask(by, d)
    PROVE  (NoneYet /\ UpToVersion /\ AskedBy /\ ToTheirKeys /\ NoneLockedOut)'
<1> DEFINE new == [by |-> by, device |-> d, signed |-> holds[by], next |-> identity.version + 1,
                   key |-> Key(by, identity.version + 1),
                   sealed |-> {<<e, row[e].public_key>> : e \in Enrolled \ {d}}, crossed |-> {}]
<1>1. Here /\ UNCHANGED <<identity, row, drops, holds, crossed>> /\ asked' = asked \cup {new}
  BY DEF Ask, SignsIn
<1>2. new.by = by /\ new.signed = holds[by] /\ new.next = identity.version + 1 /\ new.key.version = identity.version + 1
      /\ \A c \in new.sealed : row[c[1]] # NoRow /\ row[c[1]].public_key = c[2]
  BY EnrolledRows DEF Key
<1>3. identity.version + 1 <= identity.version + 1
  BY <1>1 DEF Here, Kinds, Identities
<1> HIDE DEF new
<1>4. NoneYet'
  BY <1>1, <1>2 DEF NoneYet
<1>5. UpToVersion'
  BY <1>1, <1>2, <1>3 DEF UpToVersion
<1>6. AskedBy'
  BY <1>1, <1>2 DEF AskedBy
<1>7. NoneLockedOut'
  BY <1>1, SameAccess
<1>8. ToTheirKeys'
  BY <1>1, <1>2 DEF ToTheirKeys
<1> QED
  BY <1>4, <1>5, <1>6, <1>7, <1>8

LEMMA FirstSignOutPlain ==
    ASSUME Kinds, Keyed, NoneYet, UpToVersion, AskedBy, ToTheirKeys, NEW q \in asked, SignOutPlain(q)
    PROVE  (NoneYet /\ UpToVersion /\ AskedBy /\ ToTheirKeys /\ NoneLockedOut)'
<1>1. identity.key = NoKey /\ UNCHANGED <<identity, drops, holds>> /\ asked' \subseteq asked
  BY DEF SignOutPlain
<1>2. NoneYet' /\ UpToVersion' /\ AskedBy'
  BY <1>1, SameKeys
<1>3. \A e \in Device : row'[e] # NoRow /\ row'[e].public_key # NoKey => row[e] # NoRow /\ row[e].public_key # NoKey
  BY SignOutDevice, RevokesSteps
<1>6. \A e \in Device : row[e] # NoRow => row'[e] # NoRow /\ row'[e].public_key = row[e].public_key
  BY SignOutDevice, RevokesSteps
<1>4. NoneLockedOut'
  <2>1. \A e \in Device : ~(row'[e] # NoRow /\ row'[e].public_key # NoKey)
    BY <1>1, <1>3 DEF Keyed
  <2> QED
    BY <2>1 DEF NoneLockedOut, Enrolled, HasKey
<1>5. ToTheirKeys'
  BY <1>1, <1>6, SameSealed DEF Here
<1> QED
  BY <1>2, <1>4, <1>5

\* A rotation leaves one copy for each device that remains, and no others.
LEMMA FirstRotation ==
    ASSUME Kinds, UpToVersion, AskedBy, ToTheirKeys, NEW q \in asked, SignOutRotates(q)
    PROVE  (NoneYet /\ UpToVersion /\ AskedBy /\ ToTheirKeys /\ NoneLockedOut)'
<1>1. /\ Here /\ identity.key # NoKey /\ identity.version \in Nat
      /\ q.key \in Keys /\ q.key.version = q.next /\ q.next = identity.version + 1
      /\ SealedIds(q) = Enrolled \ {q.device} /\ q.by \in Device /\ q.key.version \in Nat
  BY DEF SignOutRotates, Acceptable, SignedByCurrent, OneForEach, Kinds, Asks, AskedBy, Here, Identities, Keys
<1>2. identity'.key = q.key /\ identity'.version = q.next /\ asked' = asked \ {q} /\ crossed' = q.crossed
  BY DEF SignOutRotates
<1>3. \A d \in Device : holds'[d] = holds[d] \/ holds'[d] = q.key
  BY DEF SignOutRotates, Kinds
<1>4. drops' = Copies(q)
  <2>1. \A s \in drops : s.version \in Nat /\ s.version <= identity.version
    BY <1>1 DEF UpToVersion, Kinds, Drops
  <2>2. {s \in drops : s.version >= q.next} = {}
    BY <1>1, <2>1
  <2> QED
    BY <2>2 DEF SignOutRotates
<1>5. \A s \in Copies(q) : s.version = q.next /\ s.key = q.key
  BY DEF Copies
<1>6. \A c \in q.sealed : [device |-> c[1], version |-> q.next, key |-> q.key, to |-> c[2]] \in Copies(q)
  BY DEF Copies
<1>7. NoneYet'
  BY <1>1, <1>2, Distinct DEF NoneYet
<1>8. UpToVersion'
  <2>1. \A d \in Device : holds'[d] # NoKey => holds'[d].version <= q.next
    <3>1. \A d \in Device : holds[d] # NoKey => holds[d].version \in Nat /\ holds[d].version <= identity.version
      BY <1>1 DEF UpToVersion, Kinds, Keys
    <3> QED
      BY <1>1, <1>3, <3>1
  <2>2. \A r \in asked : r.next \in Nat /\ r.next <= identity.version + 1
    BY <1>1 DEF UpToVersion, Kinds, Asks
  <2>3. \A r \in asked' : r.next <= q.next + 1
    BY <1>1, <1>2, <2>2
  <2>4. q.next <= q.next
    BY <1>1
  <2> QED
    BY <1>1, <1>2, <1>4, <1>5, <2>1, <2>3, <2>4 DEF UpToVersion
<1>9. AskedBy'
  <2>1. \A r \in asked : r.next \in Nat /\ r.next <= identity.version + 1 /\ r.key.version = r.next
    BY <1>1 DEF UpToVersion, AskedBy, Kinds, Asks
  <2>2. \A r \in asked' : r.next # q.next + 1 /\ r.key.version = r.next
    BY <1>1, <1>2, <2>1
  <2> QED
    BY <1>2, <2>2 DEF AskedBy
<1>10. q.device \in Device /\ row'[q.device].revoked /\ (\A e \in Device \ {q.device} : row'[e] = row[e])
       /\ \A e \in Device : row[e] # NoRow => row'[e] # NoRow /\ row'[e].public_key = row[e].public_key
  BY SignOutDevice, RevokesSteps
<1>11. NoneLockedOut'
  <2> SUFFICES ASSUME NEW e \in Device, row'[e] # NoRow, row'[e].public_key # NoKey, ~row'[e].revoked, e \notin q.crossed
               PROVE  [device |-> e, version |-> q.next, key |-> q.key, to |-> row'[e].public_key] \in Copies(q)
    <3>1. \A e \in Device : [device |-> e, version |-> q.next, key |-> q.key, to |-> row'[e].public_key] \in Copies(q)
                              => Opens(e)'
      BY <1>2, <1>4 DEF Opens, SealedFor
    <3> QED
      BY <1>2, <3>1 DEF NoneLockedOut, Enrolled, HasKey
  <2>1. e # q.device /\ row'[e] = row[e]
    BY <1>10
  <2>2. e \in SealedIds(q)
    BY <1>1, <2>1 DEF Enrolled, HasKey
  <2>3. PICK c \in q.sealed : c[1] = e
    BY <2>2 DEF SealedIds
  <2>4. row'[e].public_key = c[2]
    BY <1>1, <2>1, <2>3 DEF ToTheirKeys
  <2> QED
    BY <1>6, <2>3, <2>4
<1>12. ToTheirKeys'
  BY <1>1, <1>2, <1>10, SameSealed
<1> QED
  BY <1>7, <1>8, <1>9, <1>11, <1>12

LEMMA FirstSeen ==
    ASSUME Kinds, NoneYet, UpToVersion, AskedBy, ToTheirKeys, NoneLockedOut,
           NEW d \in Device, SyncSeen(d) \/ SyncEvicts(d)
    PROVE  (NoneYet /\ UpToVersion /\ AskedBy /\ ToTheirKeys /\ NoneLockedOut)'
<1>1. UNCHANGED <<identity, drops, holds, asked, crossed>>
  BY DEF SyncSeen, SyncEvicts
<1>2. NoneYet' /\ UpToVersion' /\ AskedBy'
  BY <1>1, SameKeys
<1>3. \A e \in Device : row'[e] # NoRow /\ row'[e].public_key # NoKey => row'[e] = row[e]
  BY SeenRows
<1>6. \A e \in Device : row[e] # NoRow /\ row[e].public_key # NoKey => row'[e] = row[e]
  BY SeenRows
<1>4. NoneLockedOut'
  <2>1. \A e \in Device : row'[e] # NoRow /\ row'[e].public_key # NoKey /\ ~row'[e].revoked =>
            row'[e] = row[e] /\ holds'[e] = holds[e] /\ (e \in crossed => e \in crossed')
    BY <1>1, <1>3
  <2> QED
    BY <1>1, <2>1, SameAccess
<1>5. ToTheirKeys'
  <2>1. \A e \in Device : row[e] # NoRow /\ row[e].public_key # NoKey =>
            row'[e] # NoRow /\ row'[e].public_key = row[e].public_key
    BY <1>6
  <2>2. Here' => Here
    BY <1>1 DEF Here
  <2> QED
    BY <1>1, <2>1, <2>2, SameSealed
<1> QED
  BY <1>2, <1>4, <1>5

LEMMA FirstLifeStep ==
    ASSUME Kinds, Begun, Keyed, FirstLife, [Next]_vars
    PROVE  FirstLife'
<1> DEFINE Held == NoneYet /\ UpToVersion /\ AskedBy /\ ToTheirKeys /\ NoneLockedOut
<1>1. SUFFICES ASSUME life' = 1 PROVE Held'
  BY DEF FirstLife
<1>2. life = 1 => Held
  BY DEF FirstLife
<1>3. CASE life = 0 /\ Next
  BY <1>3, RegisterFirst, FirstRegister
<1>4. CASE life = 1 /\ Next
  <2>1. NoneYet /\ UpToVersion /\ AskedBy /\ ToTheirKeys /\ NoneLockedOut
    BY <1>2, <1>4
  <2>2. CASE Leave
    BY <2>1, <2>2, FirstLeave
  <2>3. ASSUME NEW d \in Device, SetKey(d) \/ SharedOff(d) \/ Collect(d) \/ SyncSeen(d) \/ SyncEvicts(d) PROVE Held'
    BY <2>1, <2>3, FirstSetKey, FirstSharedOff, FirstCollect, FirstSeen
  <2>4. ASSUME NEW d \in Device, NEW by \in Device, Ask(by, d) \/ \E k \in PublicKey : Enrol(d, k, by) PROVE Held'
    BY <2>1, <2>4, FirstEnrol, FirstAsk
  <2>5. ASSUME NEW q \in asked, SignOutPlain(q) \/ SignOutRotates(q) PROVE Held'
    BY <2>1, <2>5, FirstSignOutPlain, FirstRotation
  <2>6. CASE UNCHANGED <<identity, row, drops, holds, crossed>> /\ asked' \subseteq asked
    <3>1. NoneYet' /\ UpToVersion' /\ AskedBy'
      BY <2>1, <2>6, SameKeys
    <3>2. NoneLockedOut' /\ ToTheirKeys'
      BY <2>1, <2>6, SameAccess, SameSealed DEF Here
    <3> QED
      BY <3>1, <3>2
  <2>7. ~Register
    BY <1>1, <1>4 DEF Register
  <2>8. ASSUME NEW d \in Device, SyncStarts(d) \/ SyncReads(d) \/ SyncChecks(d) \/ SyncWakes(d) \/ SyncEnds(d) PROVE Held'
    BY <2>6, <2>8 DEF SyncStarts, SyncReads, SyncChecks, SyncWakes, SyncEnds
  <2>9. ASSUME NEW q \in asked, SignOutEnds(q) PROVE Held'
    BY <2>6, <2>9 DEF SignOutEnds
  <2> HIDE DEF Held
  <2> QED
    BY <1>4, <2>2, <2>3, <2>4, <2>5, <2>7, <2>8, <2>9, NextSteps
<1>5. CASE UNCHANGED vars
  <2>1. NoneYet /\ UpToVersion /\ AskedBy /\ ToTheirKeys /\ NoneLockedOut
    BY <1>1, <1>2, <1>5 DEF vars
  <2>2. NoneYet' /\ UpToVersion' /\ AskedBy'
    BY <2>1, <1>5, SameKeys DEF vars
  <2>3. NoneLockedOut' /\ ToTheirKeys'
    BY <2>1, <1>5, SameAccess, SameSealed DEF vars, Here
  <2> QED
    BY <2>2, <2>3
<1>6. CASE life \notin {0, 1} /\ Next
  <2>1. life' = life \/ life' = life + 1
    BY <1>6 DEF Next, Register, Leave, SetKey, SharedOff, Collect, Enrol, Ask, SignOutPlain, SignOutRotates,
                SignOutEnds, SyncStarts, SyncSeen, SyncEvicts, SyncReads, SyncChecks, SyncWakes, SyncEnds
  <2> QED
    BY <1>1, <1>6, <2>1 DEF Kinds
<1> QED
  BY <1>3, <1>4, <1>5, <1>6

\* The invariant of the address: what its first registration keeps, and
\* what every one does.
Address == Kinds /\ Begun /\ Keyed /\ SharedIsOff /\ FirstLife

LEMMA AddressAlways == Spec => []Address
<1>1. Init => Address
  BY KindsInit, IdleSync DEF Init, Address, Begun, Keyed, SharedIsOff, FirstLife, Here
<1>2. Address /\ [Next]_vars => Address'
  BY KindsStep, BegunStep, KeyedStep, SharedStep, FirstLifeStep DEF Address
<1> QED
  BY <1>1, <1>2, PTL DEF Spec

(* Whatever sign-outs and enrolments cross, and whichever answers are lost, *)
(* every enrolled device of an address's first registration knows the       *)
(* identity secret or has a copy waiting that its own key opens, unless it  *)
(* enrolled another key while the sign-out was under way: a rotation is     *)
(* accepted only with one copy for each device that remains, and a copy     *)
(* that nothing crossed was sealed to the key that device still has.        *)
THEOREM NoDeviceIsLockedOut == Spec => [](life <= 1 => NoneLockedOut)
<1>1. Address /\ life <= 1 => NoneLockedOut
  <2>1. Address /\ life = 0 => NoneLockedOut
    BY DEF Address, Begun, NoneLockedOut, Enrolled, HasKey
  <2>2. Address /\ life = 1 => NoneLockedOut
    BY DEF Address, FirstLife
  <2>3. Address => life \in Nat
    BY DEF Address, Kinds
  <2> QED
    BY <2>1, <2>2, <2>3
<1> QED
  BY <1>1, AddressAlways, PTL

\* Registrations never outnumber their bound.
WithinLives == life <= MaxLives

LEMMA LivesAlways == Spec => []WithinLives
<1>1. Init => WithinLives
  BY DeviceKeysConstants DEF Init, WithinLives
<1>2. Kinds /\ WithinLives /\ [Next]_vars => WithinLives'
  <2> SUFFICES ASSUME Kinds, WithinLives, [Next]_vars PROVE WithinLives'
    OBVIOUS
  <2>1. life' = life \/ (life < MaxLives /\ life' = life + 1)
    BY DEF Next, vars, Register, Leave, SetKey, SharedOff, Collect, Enrol, Ask, SignOutPlain,
           SignOutRotates, SignOutEnds, SyncStarts, SyncSeen, SyncEvicts, SyncReads, SyncChecks, SyncWakes, SyncEnds
  <2> QED
    BY <2>1, DeviceKeysConstants DEF WithinLives, Kinds
<1> QED
  BY <1>1, <1>2, KindsAlways, PTL DEF Spec

LEMMA StaysOutStep ==
    ASSUME Kinds, Address, life <= 1, [Next]_vars, Here, identity' # NoIdentity, life' = life
    PROVE  /\ identity.version > 0 => ~identity'.shared
           /\ identity'.version # identity.version =>
                 /\ identity'.version = identity.version + 1
                 /\ \E d \in Device : holds[d] = identity.key
           /\ \A d \in Device : row[d] # NoRow /\ row[d].public_key # NoKey /\ row[d].revoked => row'[d] = row[d]
<1>1. life = 1 /\ UpToVersion /\ AskedBy /\ SharedIsOff
  BY DEF Address, Begun, FirstLife, Kinds
<1>2. identity \in Identities
  BY DEF Here, Kinds
<1>3. CASE UNCHANGED <<identity, row>>
  BY <1>1, <1>3 DEF SharedIsOff
<1>4. ASSUME NEW d \in Device, SetKey(d) \/ SharedOff(d) PROVE
         /\ row' = row /\ identity'.version = identity.version /\ (identity.version > 0 => ~identity'.shared)
  <2>1. Key(d, 0) \in Keys
    BY DEF Key, Keys, Kinds
  <2>2. identity' = [identity EXCEPT !.key = Key(d, 0)] \/ identity' = [identity EXCEPT !.shared = FALSE]
    BY <1>4 DEF SetKey, SharedOff
  <2>3. identity'.version = identity.version /\ (identity'.shared = identity.shared \/ ~identity'.shared)
    <3>1. CASE identity' = [identity EXCEPT !.key = Key(d, 0)]
      BY <1>2, <2>1, <3>1, IdentityFields
    <3>2. CASE identity' = [identity EXCEPT !.shared = FALSE]
      BY <1>2, <3>2, IdentityFields
    <3> QED
      BY <2>2, <3>1, <3>2
  <2> QED
    BY <1>1, <1>4, <2>3 DEF SharedIsOff, SetKey, SharedOff
<1>5. ASSUME NEW d \in Device, NEW k \in PublicKey, NEW by \in Device, Enrol(d, k, by) PROVE
         /\ identity' = identity
         /\ \A e \in Device : row[e] # NoRow /\ row[e].public_key # NoKey /\ row[e].revoked => row'[e] = row[e]
  BY <1>5, EnrolSteps DEF Enrol
<1>6. ASSUME NEW q \in asked, SignOutPlain(q) \/ SignOutRotates(q) PROVE
         \A e \in Device : row[e] # NoRow /\ row[e].public_key # NoKey /\ row[e].revoked => row'[e] = row[e]
  BY <1>6, SignOutDevice, RevokesSteps
<1>7. ASSUME NEW q \in asked, SignOutRotates(q) PROVE
         /\ identity'.version = identity.version + 1 /\ ~identity'.shared
         /\ \E d \in Device : holds[d] = identity.key
  <2>1. q.by \in Device /\ holds[q.by] = identity.key /\ q.next = identity.version + 1
    BY <1>1, <1>7 DEF SignOutRotates, Acceptable, SignedByCurrent, AskedBy, Kinds, Asks
  <2> QED
    BY <1>7, <2>1 DEF SignOutRotates
<1>8. ASSUME NEW d \in Device, SyncSeen(d) \/ SyncEvicts(d) PROVE
         /\ identity' = identity
         /\ \A e \in Device : row[e] # NoRow /\ row[e].public_key # NoKey /\ row[e].revoked => row'[e] = row[e]
  BY <1>8, SeenRows DEF SyncSeen, SyncEvicts
<1>9. ~Register /\ ~Leave
  BY DEF Register, Leave
<1>10. \A q \in asked : SignOutPlain(q) => identity' = identity
  BY DEF SignOutPlain
<1>11. ASSUME NEW d \in Device, NEW by \in Device,
              \/ Collect(d) \/ Ask(by, d)
              \/ SyncStarts(d) \/ SyncReads(d) \/ SyncChecks(d) \/ SyncWakes(d) \/ SyncEnds(d)
       PROVE  UNCHANGED <<identity, row>>
  BY <1>11 DEF Collect, Ask, SyncStarts, SyncReads, SyncChecks, SyncWakes, SyncEnds
<1>12. \A q \in asked : SignOutEnds(q) => UNCHANGED <<identity, row>>
  BY DEF SignOutEnds
<1>13. UNCHANGED vars => UNCHANGED <<identity, row>>
  BY DEF vars
<1>14. identity.version > 0 => ~identity.shared
  BY <1>1 DEF SharedIsOff
<1> QED
  BY <1>3, <1>4, <1>5, <1>6, <1>7, <1>8, <1>9, <1>10, <1>11, <1>12, <1>13, <1>14, NextSteps

(* In an address's first registration the identity key changes only         *)
(* forward, by a device that still knew the secret, and once it was rotated *)
(* neither the shared secret nor a device that was signed out comes back.   *)
THEOREM NobodyComesBack ==
    ASSUME MaxLives <= 1
    PROVE  Spec => SignedOutStaysOut
<1>1. Kinds /\ Address /\ WithinLives /\ [Next]_vars =>
        [Here /\ identity' # NoIdentity /\ life' = life =>
           /\ identity.version > 0 => ~identity'.shared
           /\ identity'.version # identity.version =>
                 /\ identity'.version = identity.version + 1
                 /\ \E d \in Device : holds[d] = identity.key
           /\ \A d \in Device : row[d] # NoRow /\ row[d].public_key # NoKey /\ row[d].revoked => row'[d] = row[d]]_vars
  <2>1. Kinds /\ WithinLives => life <= 1
    BY DeviceKeysConstants DEF Kinds, WithinLives
  <2> QED
    BY <2>1, StaysOutStep
<1> QED
  BY <1>1, KindsAlways, AddressAlways, LivesAlways, PTL DEF Spec, SignedOutStaysOut, HasKey
=============================================================================
