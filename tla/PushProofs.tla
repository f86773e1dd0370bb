----------------------------- MODULE PushProofs -----------------------------
(***************************************************************************)
(* Theorems about Push, for any devices, endpoints and hosts and any       *)
(* lengths of the times the constants name, as long as a request ends      *)
(* before the five seconds between attempts, and those before its lease.   *)
(***************************************************************************)
EXTENDS Push, TLAPS

-----------------------------------------------------------------------------
(* Rows.                                                                   *)

LEMMA BackoffBounds ==
    ASSUME NEW n
    PROVE  Backoff(n) \in Nat /\ Backoff(n) >= Cooldown
BY PushConstants, SMT DEF Backoff

LEMMA FieldRow ==
    ASSUME NEW r \in Rows
    PROVE  /\ \A x \in Nat : [r EXCEPT !.reg = x] \in Rows /\ [r EXCEPT !.pending = x] \in Rows
           /\ \A x \in Endpoint : [r EXCEPT !.endpoint = x] \in Rows
           /\ \A x \in Nat \cup {Never} : [r EXCEPT !.due = x] \in Rows
           /\ \A x \in 0..MaxAttempts : [r EXCEPT !.attempts = x] \in Rows
           /\ \A x \in 0..Cooldown : [r EXCEPT !.sent = x] \in Rows /\ [r EXCEPT !.tried = x] \in Rows
BY DEF Rows, Never

LEMMA UpsertedRow ==
    ASSUME NEW old \in Rows \cup {NoRow}, NEW e \in Endpoint, NEW uuid \in Nat
    PROVE  Upserted(old, e, uuid) \in Rows
<1>1. CASE old = NoRow
  BY <1>1, PushConstants DEF Upserted, Rows
<1>2. CASE old # NoRow
  <2> DEFINE reg == IF old.endpoint = e THEN old.reg ELSE uuid
             due == IF old.due # Never \/ old.endpoint # e THEN old.tried ELSE Never
  <2>1. reg \in Nat /\ due \in Nat \cup {Never} /\ 0 \in 0..MaxAttempts /\ old \in Rows
    BY <1>2, PushConstants DEF Rows
  <2>2. Upserted(old, e, uuid) = [old EXCEPT !.reg = reg, !.endpoint = e, !.attempts = 0, !.due = due]
    BY <1>2 DEF Upserted
  <2> HIDE DEF reg, due
  <2>3. [[[[old EXCEPT !.reg = reg] EXCEPT !.endpoint = e] EXCEPT !.attempts = 0] EXCEPT !.due = due] \in Rows
    BY <2>1, FieldRow
  <2> QED
    BY <2>2, <2>3
<1> QED
  BY <1>1, <1>2

LEMMA QueuedRow ==
    ASSUME NEW r \in Rows \cup {NoRow}, NEW at \in Nat
    PROVE  Queued(r, at) \in Rows \cup {NoRow}
<1> SUFFICES ASSUME r # NoRow PROVE Queued(r, at) \in Rows
  BY DEF Queued
<1> DEFINE pending == r.pending + 1
           due == IF r.due = Never THEN Greatest(at, r.sent) ELSE r.due
           attempts == IF r.due = Never THEN 0 ELSE r.attempts
<1>1. pending \in Nat /\ due \in Nat \cup {Never} /\ attempts \in 0..MaxAttempts /\ r \in Rows
  BY PushConstants DEF Rows, Greatest
<1>2. Queued(r, at) = [r EXCEPT !.pending = pending, !.due = due, !.attempts = attempts]
  BY DEF Queued
<1> HIDE DEF pending, due, attempts
<1>3. [[[r EXCEPT !.pending = pending] EXCEPT !.due = due] EXCEPT !.attempts = attempts] \in Rows
  BY <1>1, FieldRow
<1> QED
  BY <1>2, <1>3

LEMMA FinishedRow ==
    ASSUME NEW r \in Rows, NEW w \in Wakes, w.result # "none"
    PROVE  Finished(r, w) \in Rows \cup {NoRow}
<1>0. Cooldown \in Nat /\ Cooldown \in 0..Cooldown /\ 0 \in 0..MaxAttempts
  BY PushConstants
<1>1. CASE w.result = "deferred"
  BY <1>0, <1>1, FieldRow DEF Finished
<1>2. CASE w.result = "gone"
  BY <1>2 DEF Finished
<1>3. CASE w.result = "accepted"
  <2> DEFINE due == IF r.pending = w.pending THEN Never ELSE Cooldown
  <2>1. due \in Nat \cup {Never}
    BY <1>0
  <2>2. Finished(r, w) = [r EXCEPT !.sent = Cooldown, !.attempts = 0, !.due = due]
    BY <1>3 DEF Finished
  <2> HIDE DEF due
  <2>3. [[[r EXCEPT !.sent = Cooldown] EXCEPT !.attempts = 0] EXCEPT !.due = due] \in Rows
    BY <1>0, <2>1, FieldRow
  <2> QED
    BY <2>2, <2>3
<1>4. CASE w.result = "retry"
  <2> DEFINE attempts == Least(w.attempts + 1, MaxAttempts)
  <2>1. attempts \in 0..MaxAttempts
    BY PushConstants DEF Least, Wakes
  <2>2. Finished(r, w) = [r EXCEPT !.attempts = attempts, !.due = Backoff(attempts)]
    BY <1>4 DEF Finished
  <2> HIDE DEF attempts
  <2>3. Backoff(attempts) \in Nat
    BY BackoffBounds
  <2>4. [[r EXCEPT !.attempts = attempts] EXCEPT !.due = Backoff(attempts)] \in Rows
    BY <2>1, <2>3, FieldRow
  <2> QED
    BY <2>2, <2>4
<1> QED
  BY <1>1, <1>2, <1>3, <1>4 DEF Wakes

LEMMA TickedRow ==
    ASSUME NEW r \in Rows
    PROVE  [r EXCEPT !.due = Sooner(@), !.sent = Sooner(@), !.tried = Sooner(@)] \in Rows
<1>1. Sooner(r.due) \in Nat \cup {Never} /\ Sooner(r.sent) \in 0..Cooldown /\ Sooner(r.tried) \in 0..Cooldown
  BY PushConstants DEF Rows, Sooner, Never
<1>2. [[[r EXCEPT !.due = Sooner(r.due)] EXCEPT !.sent = Sooner(r.sent)] EXCEPT !.tried = Sooner(r.tried)] \in Rows
  BY <1>1, FieldRow
<1> QED
  BY <1>2

-----------------------------------------------------------------------------
(* Types.                                                                  *)

LEMMA DroppedTypes ==
    ASSUME TypeOK, NEW d \in Device, Dropped({d})
    PROVE  /\ row' \in [Device -> Rows \cup {NoRow}]
           /\ heard' \in [Device -> Nat]
           /\ hurried' \subseteq Device
BY DEF TypeOK, Dropped

LEMMA TypeStep == TypeOK /\ [Next]_vars => TypeOK'
<1> SUFFICES ASSUME TypeOK, [Next]_vars PROVE TypeOK'
  OBVIOUS
<1>1. ASSUME NEW d \in Device, NEW e \in Endpoint, Register(d, e) PROVE TypeOK'
  <2>1. drawn + 1 \in Nat
    BY DEF TypeOK
  <2>2. Upserted(row[d], e, drawn + 1) \in Rows
    BY <2>1, UpsertedRow DEF TypeOK
  <2>3. row' \in [Device -> Rows \cup {NoRow}]
    BY <1>1, <2>2 DEF TypeOK, Register
  <2>4. drawn' \in Nat /\ heard' \in [Device -> Nat]
    BY <1>1, <2>1 DEF TypeOK, Register
  <2> QED
    BY <1>1, <2>3, <2>4 DEF TypeOK, Register
<1>2. ASSUME NEW d \in Device, Unregister(d) PROVE TypeOK'
  BY <1>2, DroppedTypes DEF TypeOK, Unregister
<1>3. ASSUME NEW d \in Device, SignOut(d) PROVE TypeOK'
  BY <1>3, DroppedTypes DEF TypeOK, SignOut
<1>4. ASSUME NEW d \in Device, TakeUp(d) \/ PutDown(d) PROVE TypeOK'
  BY <1>4 DEF TypeOK, TakeUp, PutDown
<1>5. ASSUME NEW d \in Device, Claim(d) PROVE TypeOK'
  <2>1. row[d] \in Rows
    BY <1>5 DEF TypeOK, Claim
  <2>2. [row[d] EXCEPT !.due = Lease, !.tried = Cooldown] \in Rows
    <3>1. Lease \in Nat /\ Cooldown \in 0..Cooldown
      BY PushConstants
    <3>2. [[row[d] EXCEPT !.due = Lease] EXCEPT !.tried = Cooldown] \in Rows
      BY <2>1, <3>1, FieldRow
    <3> QED
      BY <3>2
  <2>3. row' = [row EXCEPT ![d] = [row[d] EXCEPT !.due = Lease, !.tried = Cooldown]]
    BY <1>5 DEF Claim, TypeOK
  <2>4. row' \in [Device -> Rows \cup {NoRow}]
    BY <2>2, <2>3 DEF TypeOK
  <2>5. [device |-> d, reg |-> row[d].reg, endpoint |-> row[d].endpoint,
         pending |-> row[d].pending, attempts |-> row[d].attempts,
         age |-> 0, result |-> "none"] \in Wakes
    BY <2>1, PushConstants DEF Rows, Wakes
  <2>6. wakes' \subseteq Wakes
    BY <1>5, <2>5 DEF Claim, TypeOK
  <2> QED
    BY <1>5, <2>4, <2>6 DEF TypeOK, Claim
<1>6. ASSUME NEW w \in wakes, Takes(w) \/ Fails(w) PROVE TypeOK'
  <2>1. w \in Wakes
    BY DEF TypeOK
  <2>2. \A result \in {"accepted", "gone", "retry", "deferred"} : [w EXCEPT !.result = result] \in Wakes
    BY <2>1 DEF Wakes
  <2>3. wakes' \subseteq Wakes
    BY <1>6, <2>2 DEF TypeOK, Takes, Fails, Becomes
  <2>4. heard' \in [Device -> Nat]
    BY <1>6, <2>1 DEF TypeOK, Takes, Fails, Greatest, Wakes
  <2> QED
    BY <1>6, <2>3, <2>4 DEF TypeOK, Takes, Fails
<1>7. ASSUME NEW w \in wakes, Finish(w) PROVE TypeOK'
  <2>1. w \in Wakes /\ w.device \in Device
    BY DEF TypeOK, Wakes
  <2>2. row[w.device] # NoRow => Finished(row[w.device], w) \in Rows \cup {NoRow}
    BY <1>7, <2>1, FinishedRow DEF Finish, TypeOK
  <2>3. row' \in [Device -> Rows \cup {NoRow}]
    BY <1>7, <2>1, <2>2 DEF TypeOK, Finish, IsLeased
  <2>4. heard' \in [Device -> Nat]
    BY <1>7, <2>1 DEF TypeOK, Finish
  <2> QED
    BY <1>7, <2>3, <2>4 DEF TypeOK, Finish
<1>8. ASSUME NEW w \in wakes, FinishFails(w) PROVE TypeOK'
  BY <1>8 DEF TypeOK, FinishFails
<1>9. ASSUME NEW at \in Nat, QueueAt(at) PROVE TypeOK'
  <2>1. row' \in [Device -> Rows \cup {NoRow}]
    BY <1>9, QueuedRow DEF TypeOK, QueueAt
  <2> QED
    BY <1>9, <2>1 DEF TypeOK, QueueAt
<1>10. CASE Hurry
  <2>1. \A r \in Rows : r.due # Never => [r EXCEPT !.due = Least(@, r.sent)] \in Rows
    BY PushConstants DEF Rows, Least, Never
  <2>2. row' \in [Device -> Rows \cup {NoRow}]
    BY <1>10, <2>1 DEF TypeOK, Hurry
  <2> QED
    BY <1>10, <2>2 DEF TypeOK, Hurry
<1>11. CASE Stop
  BY <1>11 DEF TypeOK, Stop
<1>12. CASE Tick
  <2>1. row' \in [Device -> Rows \cup {NoRow}]
    BY <1>12, TickedRow DEF TypeOK, Tick
  <2>2. ASSUME NEW w \in wakes PROVE [w EXCEPT !.age = IF w.result = "none" THEN @ + 1 ELSE @] \in Wakes
    <3> DEFINE age == IF w.result = "none" THEN w.age + 1 ELSE w.age
    <3>1. w \in Wakes
      BY DEF TypeOK
    <3>2. w.age \in 0..RequestTimeout /\ (w.result = "none" => w.age < RequestTimeout) /\ RequestTimeout \in Nat
      BY <1>12, <3>1, PushConstants DEF Tick, Wakes
    <3>3. age \in 0..RequestTimeout
      BY <3>2
    <3> HIDE DEF age
    <3>4. [w EXCEPT !.age = age] \in Wakes
      BY <3>1, <3>3 DEF Wakes
    <3> QED
      BY <3>4 DEF age
  <2>3. wakes' \subseteq Wakes
    BY <1>12, <2>2 DEF Tick
  <2> QED
    BY <1>12, <2>1, <2>3 DEF TypeOK, Tick
<1>13. CASE UNCHANGED vars
  BY <1>13 DEF TypeOK, vars
<1>14. Hold \in Nat /\ 0 \in Nat
  BY PushConstants
<1> QED
  BY <1>1, <1>2, <1>3, <1>4, <1>5, <1>6, <1>7, <1>8, <1>9, <1>10, <1>11, <1>12, <1>13, <1>14 DEF Next

(* Every variable keeps its type: a row's times never leave their ranges,   *)
(* whatever backs off, is hurried or is registered anew (push.rs).          *)
THEOREM TypeCorrect == Spec => []TypeOK
<1>1. Init => TypeOK
  BY DEF Init, TypeOK
<1> QED
  BY <1>1, TypeStep, PTL DEF Spec

-----------------------------------------------------------------------------
(* The fields a step leaves and sets.                                      *)

LEMMA UpsertedFields ==
    ASSUME NEW old \in Rows, old # NoRow, NEW e \in Endpoint, NEW uuid
    PROVE  LET r == Upserted(old, e, uuid) IN
           /\ r.endpoint = e /\ r.pending = old.pending /\ r.sent = old.sent /\ r.tried = old.tried
           /\ r.reg = IF old.endpoint = e THEN old.reg ELSE uuid
           /\ r.due = IF old.due # Never \/ old.endpoint # e THEN old.tried ELSE Never
BY DEF Upserted, Rows

LEMMA NewFields ==
    ASSUME NEW e, NEW uuid
    PROVE  LET r == Upserted(NoRow, e, uuid) IN
           r.endpoint = e /\ r.pending = 1 /\ r.sent = 0 /\ r.tried = 0 /\ r.reg = uuid /\ r.due = 0
BY DEF Upserted

LEMMA QueuedFields ==
    ASSUME NEW r \in Rows, r # NoRow, NEW at
    PROVE  LET q == Queued(r, at) IN
           /\ q.reg = r.reg /\ q.endpoint = r.endpoint /\ q.sent = r.sent /\ q.tried = r.tried
           /\ q.due = IF r.due = Never THEN Greatest(at, r.sent) ELSE r.due
BY DEF Queued, Rows

LEMMA FinishedFields ==
    ASSUME NEW r \in Rows, NEW w \in Wakes, w.result \in {"deferred", "accepted", "retry"}
    PROVE  LET q == Finished(r, w) IN
           /\ q.reg = r.reg /\ q.endpoint = r.endpoint /\ q.pending = r.pending /\ q.tried = r.tried
           /\ \/ q.due \in Nat /\ q.due >= Cooldown
              \/ /\ w.result = "accepted" /\ r.pending = w.pending
                 /\ q.due = Never /\ q.sent = Cooldown
<1>1. CASE w.result = "deferred"
  BY <1>1, PushConstants DEF Finished, Rows
<1>2. CASE w.result = "accepted"
  <2>1. Finished(r, w) = [r EXCEPT !.sent = Cooldown, !.attempts = 0,
                                   !.due = IF r.pending = w.pending THEN Never ELSE Cooldown]
    BY <1>2 DEF Finished
  <2> QED
    BY <1>2, <2>1, PushConstants DEF Rows
<1>3. CASE w.result = "retry"
  <2> DEFINE more == Least(w.attempts + 1, MaxAttempts)
  <2>1. Finished(r, w) = [r EXCEPT !.attempts = more, !.due = Backoff(more)]
    BY <1>3 DEF Finished
  <2>2. more \in Nat
    BY PushConstants DEF Least, Wakes
  <2>3. Backoff(more) \in Nat /\ Backoff(more) >= Cooldown
    BY <2>2, BackoffBounds
  <2> HIDE DEF more
  <2> QED
    BY <1>3, <2>1, <2>3 DEF Rows
<1> QED
  BY <1>1, <1>2, <1>3

LEMMA TickedFields ==
    ASSUME NEW r \in Rows
    PROVE  LET q == [r EXCEPT !.due = Sooner(@), !.sent = Sooner(@), !.tried = Sooner(@)] IN
           /\ q.reg = r.reg /\ q.endpoint = r.endpoint /\ q.pending = r.pending
           /\ q.due = Sooner(r.due) /\ q.sent = Sooner(r.sent) /\ q.tried = Sooner(r.tried)
BY DEF Rows
-----------------------------------------------------------------------------
(* What a step does to rows and to tasks.                                  *)

\* Registrations in rows and in tasks were drawn, each for one row, and a task
\* that has a row's registration has its device and endpoint.
Registered ==
    /\ \A d \in Device : row[d] # NoRow => row[d].reg <= drawn
    /\ \A w \in wakes : w.reg <= drawn
    /\ \A d, e \in Device : row[d] # NoRow /\ row[e] # NoRow /\ d # e => row[d].reg # row[e].reg
    /\ \A w \in wakes, d \in Device :
         row[d] # NoRow /\ row[d].reg = w.reg => w.device = d /\ w.endpoint = row[d].endpoint

\* A row keeps its registration, or goes.
KeepsRow(d) ==
    row'[d] = NoRow \/ (row[d] # NoRow /\ row'[d].reg = row[d].reg /\ row'[d].endpoint = row[d].endpoint)

\* A registration is drawn for d, and for no other device.
IsNew(d) ==
    /\ drawn' = drawn + 1
    /\ row'[d].reg = drawn'
    /\ \A x \in Device \ {d} : KeepsRow(x)

SameWake(u, v) ==
    u.device = v.device /\ u.reg = v.reg /\ u.endpoint = v.endpoint /\ u.pending = v.pending

Claimed(d) == [device |-> d, reg |-> row[d].reg, endpoint |-> row[d].endpoint,
               pending |-> row[d].pending, attempts |-> row[d].attempts,
               age |-> 0, result |-> "none"]

LEMMA RowsKeptOrNew ==
    ASSUME TypeOK, Registered, Next
    PROVE  \/ drawn' = drawn /\ \A d \in Device : KeepsRow(d)
           \/ \E d \in Device : IsNew(d)
<1> USE DEF KeepsRow
<1>1. ASSUME NEW d \in Device, NEW e \in Endpoint, Register(d, e)
      PROVE  (drawn' = drawn /\ \A x \in Device : KeepsRow(x)) \/ IsNew(d)
  <2>1. /\ row'[d] = Upserted(row[d], e, drawn + 1)
        /\ \A x \in Device \ {d} : row'[x] = row[x]
        /\ drawn + 1 \in Nat
    BY <1>1 DEF Register, TypeOK
  <2>2. \A x \in Device \ {d} : KeepsRow(x)
    BY <2>1
  <2>3. CASE row[d] = NoRow
    <3>1. drawn' = drawn + 1 /\ row'[d].reg = drawn + 1
      BY <1>1, <2>1, <2>3, NewFields DEF Register
    <3> QED
      BY <2>2, <3>1 DEF IsNew
  <2>4. CASE row[d] # NoRow
    <3>1. /\ row[d] \in Rows
          /\ row'[d].endpoint = e
          /\ row'[d].reg = IF row[d].endpoint = e THEN row[d].reg ELSE drawn + 1
      BY <2>1, <2>4, UpsertedFields DEF TypeOK
    <3>2. CASE row[d].reg = row'[d].reg /\ row[d].endpoint = e
      BY <1>1, <2>2, <2>4, <3>1, <3>2 DEF Register
    <3>3. CASE row[d].reg = row'[d].reg /\ row[d].endpoint # e
      <4>1. row[d].reg <= drawn /\ row[d].reg \in Nat /\ drawn \in Nat
        BY <2>4, <3>1 DEF Registered, Rows, TypeOK
      <4> QED
        BY <3>1, <3>3, <4>1
    <3>4. CASE row[d].reg # row'[d].reg
      <4>1. drawn' = drawn + 1 /\ row'[d].reg = drawn + 1
        BY <1>1, <3>1, <3>4 DEF Register
      <4> QED
        BY <2>2, <4>1 DEF IsNew
    <3> QED
      BY <3>2, <3>3, <3>4
  <2> QED
    BY <2>3, <2>4
<1>2. ASSUME NEW ds \in SUBSET Device, Dropped(ds), drawn' = drawn
      PROVE  drawn' = drawn /\ \A x \in Device : KeepsRow(x)
  BY <1>2 DEF Dropped
<1>3. ASSUME NEW at \in Nat, QueueAt(at)
      PROVE  drawn' = drawn /\ \A x \in Device : KeepsRow(x)
  <2>1. \A x \in Device : row'[x] = Queued(row[x], at)
    BY <1>3 DEF QueueAt
  <2>2. ASSUME NEW x \in Device PROVE KeepsRow(x)
    <3>1. CASE row[x] = NoRow
      BY <2>1, <3>1 DEF Queued
    <3>2. CASE row[x] # NoRow
      BY <2>1, <3>2, QueuedFields DEF TypeOK
    <3> QED
      BY <3>1, <3>2
  <2> QED
    BY <1>3, <2>2 DEF QueueAt
<1>4. ASSUME Hurry
      PROVE  drawn' = drawn /\ \A x \in Device : KeepsRow(x)
  BY <1>4 DEF Hurry, TypeOK, Rows
<1>5. ASSUME NEW d \in Device, Claim(d)
      PROVE  drawn' = drawn /\ \A x \in Device : KeepsRow(x)
  <2>1. /\ \A x \in Device \ {d} : row'[x] = row[x]
        /\ row'[d] = [row[d] EXCEPT !.due = Lease, !.tried = Cooldown]
    BY <1>5 DEF Claim, TypeOK
  <2> QED
    BY <1>5, <2>1 DEF Claim, TypeOK, Rows
<1>6. ASSUME NEW w \in wakes, Finish(w)
      PROVE  drawn' = drawn /\ \A x \in Device : KeepsRow(x)
  <2>1. ASSUME NEW x \in Device
        PROVE  row'[x] = row[x] \/ (x = w.device /\ row[x] # NoRow /\ row'[x] = Finished(row[x], w))
    BY <1>6 DEF Finish, IsLeased, TypeOK
  <2>2. w \in Wakes
    BY DEF TypeOK
  <2>3. CASE w.result = "gone"
    BY <1>6, <2>1, <2>3 DEF Finish, Finished
  <2>4. CASE w.result # "gone"
    <3>1. w.result \in {"deferred", "accepted", "retry"}
      BY <1>6, <2>2, <2>4 DEF Finish, Wakes
    <3> QED
      BY <1>6, <2>1, <2>2, <3>1, FinishedFields DEF Finish, TypeOK
  <2> QED
    BY <2>3, <2>4
<1>7. ASSUME Tick
      PROVE  drawn' = drawn /\ \A x \in Device : KeepsRow(x)
  <2>1. ASSUME NEW x \in Device
        PROVE  row'[x] = IF row[x] = NoRow THEN NoRow
                         ELSE [row[x] EXCEPT !.due = Sooner(@), !.sent = Sooner(@), !.tried = Sooner(@)]
    BY <1>7 DEF Tick
  <2>2. ASSUME NEW x \in Device PROVE KeepsRow(x)
    BY <2>1, TickedFields DEF TypeOK
  <2> QED
    BY <1>7, <2>2 DEF Tick
<1>8. ASSUME UNCHANGED <<row, drawn>>
      PROVE  drawn' = drawn /\ \A x \in Device : KeepsRow(x)
  BY <1>8
<1>9. 0 \in Nat /\ Hold \in Nat
  BY PushConstants
<1> QED
  BY <1>1, <1>2, <1>3, <1>4, <1>5, <1>6, <1>7, <1>8, <1>9
     DEF Next, Unregister, SignOut, TakeUp, PutDown, Takes, Fails, FinishFails, Stop

LEMMA WakesKeptOrClaimed ==
    ASSUME TypeOK, Next, NEW v \in wakes'
    PROVE  \/ \E u \in wakes : SameWake(u, v)
           \/ \E d \in Device : Claim(d) /\ v = Claimed(d)
<1>1. ASSUME NEW w \in wakes, Takes(w) \/ Fails(w)
      PROVE  \E u \in wakes : SameWake(u, v)
  <2>1. PICK result : v \in wakes \/ v = [w EXCEPT !.result = result]
    BY <1>1 DEF Takes, Fails, Becomes
  <2> QED
    BY <2>1 DEF SameWake, TypeOK, Wakes
<1>2. ASSUME Tick PROVE \E u \in wakes : SameWake(u, v)
  BY <1>2 DEF Tick, SameWake, TypeOK, Wakes
<1>3. ASSUME NEW d \in Device, Claim(d), v \notin wakes PROVE v = Claimed(d)
  BY <1>3 DEF Claim, Claimed
<1>4. CASE v \in wakes
  BY <1>4 DEF SameWake
<1> QED
  BY <1>1, <1>2, <1>3, <1>4
     DEF Next, Register, Unregister, SignOut, TakeUp, PutDown, Finish, FinishFails, QueueAt, Hurry, Stop

LEMMA RegisteredStep ==
    ASSUME TypeOK, Registered, Next
    PROVE  Registered'
<1>1. TypeOK'
  BY TypeStep
<1>2. drawn' >= drawn /\ drawn \in Nat /\ drawn' \in Nat
  BY RowsKeptOrNew DEF IsNew, TypeOK
<1>3. ASSUME NEW d \in Device, row'[d] # NoRow PROVE row'[d].reg <= drawn'
  BY <1>2, <1>3, RowsKeptOrNew DEF IsNew, KeepsRow, Registered, TypeOK, Rows
<1>4. ASSUME NEW w \in wakes' PROVE w.reg <= drawn'
  <2>1. \/ \E u \in wakes : u.reg = w.reg
        \/ \E d \in Device : row[d] # NoRow /\ row[d].reg = w.reg
    <3>1. \A d \in Device : Claim(d) /\ w = Claimed(d) => row[d] # NoRow /\ row[d].reg = w.reg
      BY DEF Claim, Claimed
    <3> QED
      BY <3>1, WakesKeptOrClaimed DEF SameWake
  <2> QED
    BY <1>2, <2>1 DEF Registered, TypeOK, Rows, Wakes
<1>5. ASSUME NEW d \in Device, NEW e \in Device, row'[d] # NoRow, row'[e] # NoRow, d # e
      PROVE  row'[d].reg # row'[e].reg
  BY <1>2, <1>5, RowsKeptOrNew DEF IsNew, KeepsRow, Registered, TypeOK, Rows
<1>6. ASSUME NEW w \in wakes', NEW d \in Device, row'[d] # NoRow, row'[d].reg = w.reg
      PROVE  w.device = d /\ w.endpoint = row'[d].endpoint
  <2>1. w.reg <= drawn /\ w.reg \in Nat
    <3>1. \/ \E u \in wakes : u.reg = w.reg
          \/ \E x \in Device : row[x] # NoRow /\ row[x].reg = w.reg
      <4>1. \A x \in Device : Claim(x) /\ w = Claimed(x) => row[x] # NoRow /\ row[x].reg = w.reg
        BY DEF Claim, Claimed
      <4> QED
        BY <4>1, WakesKeptOrClaimed DEF SameWake
    <3> QED
      BY <3>1 DEF Registered, TypeOK, Rows, Wakes
  <2>2. KeepsRow(d)
    BY <1>2, <1>6, <2>1, RowsKeptOrNew DEF IsNew
  <2>3. row[d] # NoRow /\ row'[d].reg = row[d].reg /\ row'[d].endpoint = row[d].endpoint
    BY <1>6, <2>2 DEF KeepsRow
  <2>4. CASE \E u \in wakes : SameWake(u, w)
    BY <1>6, <2>3, <2>4 DEF SameWake, Registered
  <2>5. ASSUME NEW x \in Device, Claim(x), w = Claimed(x)
        PROVE  w.device = d /\ w.endpoint = row'[d].endpoint
    <3>1. w.device = x /\ w.reg = row[x].reg /\ w.endpoint = row[x].endpoint /\ row[x] # NoRow
      BY <2>5 DEF Claim, Claimed
    <3>2. row[d].reg = row[x].reg
      BY <1>6, <2>3, <3>1
    <3>3. x = d
      BY <2>3, <3>1, <3>2, Zenon DEF Registered
    <3> QED
      BY <2>3, <3>1, <3>3
  <2> QED
    BY <2>4, <2>5, WakesKeptOrClaimed
<1> QED
  BY <1>3, <1>4, <1>5, <1>6 DEF Registered
-----------------------------------------------------------------------------
(* One request to a destination.                                           *)

LEMMA OnePerHostStep ==
    ASSUME TypeOK, Registered, OnePerHost, Next
    PROVE  OnePerHost'
<1>1. CASE wakes' \subseteq wakes
  BY <1>1 DEF OnePerHost
<1>2. ASSUME NEW d \in Device, Claim(d) PROVE OnePerHost'
  <2>1. wakes' = wakes \cup {Claimed(d)} /\ row[d] # NoRow /\ Host[row[d].endpoint] \notin Busy
    BY <1>2 DEF Claim, Claimed
  <2>2. ASSUME NEW v \in wakes
        PROVE  Host[v.endpoint] # Host[Claimed(d).endpoint] /\ v.reg # Claimed(d).reg
    <3>1. Claimed(d).endpoint = row[d].endpoint /\ Claimed(d).reg = row[d].reg
      BY DEF Claimed
    <3>2. Host[v.endpoint] # Host[row[d].endpoint]
      BY <2>1 DEF Busy
    <3>3. v.reg # row[d].reg
      BY <2>1, <3>2 DEF Registered
    <3> QED
      BY <3>1, <3>2, <3>3
  <2> HIDE DEF OnePerHost
  <2>3. SUFFICES ASSUME NEW v \in wakes', NEW w \in wakes', v # w
                 PROVE  Host[v.endpoint] # Host[w.endpoint] /\ v.reg # w.reg
    BY DEF OnePerHost
  <2> QED
    BY <2>1, <2>2, <2>3 DEF OnePerHost
<1>3. ASSUME NEW w \in wakes, Takes(w) \/ Fails(w) PROVE OnePerHost'
  <2>1. PICK new : wakes' = (wakes \ {w}) \cup {new} /\ \E result : new = [w EXCEPT !.result = result]
    BY <1>3 DEF Takes, Fails, Becomes
  <2>2. new.endpoint = w.endpoint /\ new.reg = w.reg
    BY <2>1 DEF TypeOK, Wakes
  <2>3. \A v \in wakes \ {w} : Host[v.endpoint] # Host[new.endpoint] /\ v.reg # new.reg
    BY <2>2 DEF OnePerHost
  <2> QED
    BY <2>1, <2>3 DEF OnePerHost
<1>4. ASSUME Tick PROVE OnePerHost'
  <2> DEFINE Aged(w) == [w EXCEPT !.age = IF w.result = "none" THEN w.age + 1 ELSE w.age]
  <2>1. wakes' = {Aged(w) : w \in wakes}
    BY <1>4 DEF Tick
  <2>2. ASSUME NEW w \in wakes PROVE Aged(w).endpoint = w.endpoint /\ Aged(w).reg = w.reg
    BY DEF TypeOK, Wakes
  <2> HIDE DEF Aged
  <2> QED
    BY <2>1, <2>2 DEF OnePerHost
<1> QED
  BY <1>1, <1>2, <1>3, <1>4
     DEF Next, Register, Unregister, SignOut, TakeUp, PutDown, Finish, FinishFails, QueueAt, Hurry, Stop

-----------------------------------------------------------------------------
(* A wake the current subscription took has been heard.                    *)

HeardOK ==
    \A w \in wakes : row[w.device] # NoRow /\ row[w.device].reg = w.reg /\ w.result = "accepted"
        => heard[w.device] >= w.pending

\* What was heard is forgotten only with the registration.
LEMMA HeardGrows ==
    ASSUME TypeOK, Next, NEW d \in Device
    PROVE  \/ heard'[d] >= heard[d]
           \/ row'[d] = NoRow
           \/ drawn' = drawn + 1 /\ row'[d].reg = drawn'
<1>1. ASSUME NEW x \in Device, NEW e \in Endpoint, Register(x, e)
      PROVE  heard'[d] = heard[d] \/ (drawn' = drawn + 1 /\ row'[d].reg = drawn')
  <2>1. row'[x] = Upserted(row[x], e, drawn + 1)
    BY <1>1 DEF Register, TypeOK
  <2>2. CASE row[x] = NoRow
    BY <1>1, <2>1, <2>2, NewFields DEF Register, TypeOK
  <2>3. CASE row[x] # NoRow
    <3>1. row[x] \in Rows
      BY <2>3 DEF TypeOK
    <3>2. row'[x].reg = IF row[x].endpoint = e THEN row[x].reg ELSE drawn + 1
      BY <2>1, <2>3, <3>1, UpsertedFields
    <3> QED
      BY <1>1, <2>3, <3>2 DEF Register, TypeOK
  <2> QED
    BY <2>2, <2>3
<1>2. ASSUME NEW ds \in SUBSET Device, Dropped(ds) PROVE heard'[d] = heard[d] \/ row'[d] = NoRow
  BY <1>2 DEF Dropped
<1>3. ASSUME NEW w \in wakes, Takes(w) PROVE heard'[d] >= heard[d]
  BY <1>3 DEF Takes, Greatest, TypeOK, Wakes
<1>4. ASSUME NEW w \in wakes, Finish(w) PROVE heard'[d] = heard[d] \/ row'[d] = NoRow
  BY <1>4 DEF Finish, TypeOK
<1>5. heard'[d] = heard[d] => heard'[d] >= heard[d]
  BY DEF TypeOK
<1> QED
  BY <1>1, <1>2, <1>3, <1>4, <1>5
     DEF Next, Unregister, SignOut, TakeUp, PutDown, Claim, Fails, FinishFails, QueueAt, Hurry, Stop, Tick

LEMMA HeardStep ==
    ASSUME TypeOK, Registered, HeardOK, Next
    PROVE  HeardOK'
<1> SUFFICES ASSUME NEW w \in wakes', row'[w.device] # NoRow, row'[w.device].reg = w.reg,
                    w.result = "accepted"
             PROVE  heard'[w.device] >= w.pending
  BY DEF HeardOK
<1>1. TypeOK'
  BY TypeStep
<1>2. w.device \in Device
  BY <1>1 DEF TypeOK, Wakes
<1>3. PICK u \in wakes : SameWake(u, w)
  <2>1. \A d \in Device : w # Claimed(d)
    BY DEF Claimed
  <2> QED
    BY <2>1, WakesKeptOrClaimed
<1>4. w.reg <= drawn /\ w.reg \in Nat /\ drawn \in Nat
  BY <1>3 DEF SameWake, Registered, TypeOK, Wakes
<1>5. KeepsRow(w.device)
  BY <1>2, <1>4, RowsKeptOrNew DEF IsNew
<1>6. row[w.device] # NoRow /\ row[w.device].reg = w.reg
  BY <1>5 DEF KeepsRow
<1>7. heard'[w.device] >= heard[w.device] /\ heard[w.device] \in Nat /\ heard'[w.device] \in Nat
  BY <1>1, <1>2, <1>4, HeardGrows DEF TypeOK
<1>8. CASE \E v \in wakes : v.result = "accepted" /\ SameWake(v, w)
  BY <1>6, <1>7, <1>8 DEF HeardOK, SameWake, TypeOK, Wakes
<1>9. ASSUME \A v \in wakes : SameWake(v, w) => v.result # "accepted"
       PROVE  heard'[w.device] >= w.pending
  <2>1. PICK v \in wakes : Takes(v) /\ SameWake(v, w)
    <3>1. ASSUME NEW v \in wakes, Takes(v) \/ Fails(v)
          PROVE  Takes(v) /\ SameWake(v, w)
      <4>1. w \notin wakes
        BY <1>9 DEF SameWake
      <4>2. PICK result : w = [v EXCEPT !.result = result] /\ (Fails(v) => result # "accepted")
        BY <3>1, <4>1 DEF Takes, Fails, Becomes
      <4>3. w.result = result /\ SameWake(v, w)
        BY <4>2 DEF SameWake, TypeOK, Wakes
      <4> QED
        BY <3>1, <4>2, <4>3
    <3>2. ASSUME Tick PROVE FALSE
      <4>1. PICK v \in wakes : \E age : w = [v EXCEPT !.age = age]
        BY <3>2 DEF Tick
      <4>2. SameWake(v, w) /\ v.result = w.result
        BY <4>1 DEF SameWake, TypeOK, Wakes
      <4> QED
        BY <1>9, <4>2
    <3>3. \A d \in Device : ~Claim(d)
      BY <1>9 DEF Claim, SameWake
    <3>4. w \notin wakes
      BY <1>9 DEF SameWake
    <3> QED
      BY <3>1, <3>2, <3>3, <3>4
         DEF Next, Register, Unregister, SignOut, TakeUp, PutDown, Finish, FinishFails, QueueAt, Hurry, Stop
  <2> QED
    BY <1>2, <1>6, <2>1 DEF Takes, SameWake, Greatest, TypeOK, Wakes
<1> QED
  BY <1>8, <1>9
-----------------------------------------------------------------------------
(* A wake is due until it is heard.                                        *)

LEMMA DueStep ==
    ASSUME TypeOK, Registered, HeardOK, WakeIsDue, Next
    PROVE  WakeIsDue'
<1> SUFFICES ASSUME NEW d \in Device, row'[d] # NoRow, heard'[d] < row'[d].pending, row'[d].due = Never
             PROVE  FALSE
  BY DEF WakeIsDue
<1> USE DEF Never
<1>1. TypeOK'
  BY TypeStep
<1>2. row[d] # NoRow => row[d].due # Never \/ heard[d] >= row[d].pending
  BY DEF WakeIsDue, TypeOK, Rows
<1>3. row'[d] # row[d] \/ heard'[d] < heard[d]
  BY <1>1, <1>2 DEF TypeOK, Rows
<1>4. ASSUME NEW x \in Device, NEW e \in Endpoint, Register(x, e) PROVE FALSE
  <2>1. x = d /\ row'[d] = Upserted(row[d], e, drawn + 1)
    BY <1>3, <1>4 DEF Register, TypeOK
  <2>2. row[d] # NoRow /\ row[d] \in Rows
    BY <2>1, NewFields DEF TypeOK
  <2>3. row[d].due = Never /\ row[d].endpoint = e /\ row'[d].pending = row[d].pending /\ row'[d].reg = row[d].reg
    BY <2>1, <2>2, UpsertedFields DEF Rows
  <2>4. heard'[d] = heard[d]
    BY <1>4, <2>1, <2>2, <2>3 DEF Register
  <2> QED
    BY <1>2, <2>2, <2>3, <2>4 DEF TypeOK, Rows
<1>5. ASSUME NEW ds \in SUBSET Device, Dropped(ds) PROVE FALSE
  BY <1>3, <1>5 DEF Dropped, TypeOK
<1>6. ASSUME NEW at \in Nat, QueueAt(at) PROVE FALSE
  <2>1. row'[d] = Queued(row[d], at)
    BY <1>6 DEF QueueAt
  <2>2. row[d] # NoRow /\ row[d] \in Rows
    BY <2>1 DEF Queued, TypeOK
  <2>3. row'[d].due # Never
    BY <2>1, <2>2, QueuedFields DEF Rows, Greatest
  <2> QED
    BY <2>3
<1>7. ASSUME Hurry PROVE FALSE
  <2>1. row[d] # NoRow /\ row[d] \in Rows /\ row[d].due # Never
    BY <1>3, <1>7 DEF Hurry, TypeOK
  <2>2. row'[d] = [row[d] EXCEPT !.due = Least(row[d].due, row[d].sent)]
    BY <1>7, <2>1 DEF Hurry
  <2> QED
    BY <2>1, <2>2 DEF Rows, Least
<1>8. ASSUME NEW x \in Device, Claim(x) PROVE FALSE
  <2>1. x = d /\ row[d] \in Rows
    BY <1>3, <1>8 DEF Claim, TypeOK
  <2>2. row'[d] = [row[d] EXCEPT !.due = Lease, !.tried = Cooldown]
    BY <1>8, <2>1 DEF Claim, TypeOK
  <2> QED
    BY <2>1, <2>2, PushConstants DEF Rows
<1>9. ASSUME NEW w \in wakes, Takes(w) PROVE FALSE
  BY <1>3, <1>9 DEF Takes, Greatest, TypeOK, Wakes
<1>10. ASSUME NEW w \in wakes, Finish(w) PROVE FALSE
  <2>1. w \in Wakes
    BY DEF TypeOK
  <2>2. w.device = d /\ IsLeased(row[d], w) /\ row'[d] = Finished(row[d], w) /\ heard'[d] = heard[d]
    BY <1>3, <1>10, <2>1 DEF Finish, TypeOK, Wakes
  <2>3. row[d] # NoRow /\ row[d].reg = w.reg /\ row[d] \in Rows
    BY <2>2 DEF IsLeased, TypeOK
  <2>4. w.result # "gone"
    BY <2>2 DEF Finished
  <2>5. w.result \in {"deferred", "accepted", "retry"}
    BY <1>10, <2>1, <2>4 DEF Finish, Wakes
  <2>6. row'[d].pending = row[d].pending /\ w.result = "accepted" /\ row[d].pending = w.pending
    BY <2>1, <2>2, <2>3, <2>5, FinishedFields
  <2> QED
    BY <2>2, <2>3, <2>6 DEF HeardOK, TypeOK, Rows
<1>11. ASSUME Tick PROVE FALSE
  <2>1. row[d] # NoRow /\ row[d] \in Rows
    BY <1>3, <1>11 DEF Tick, TypeOK
  <2>2. row'[d] = [row[d] EXCEPT !.due = Sooner(@), !.sent = Sooner(@), !.tried = Sooner(@)]
    BY <1>11, <2>1 DEF Tick
  <2>3. row'[d].pending = row[d].pending /\ row'[d].due = Sooner(row[d].due)
    BY <2>1, <2>2, TickedFields
  <2>4. row[d].due = Never
    BY <2>1, <2>3 DEF Sooner, Rows
  <2>5. heard'[d] = heard[d] /\ heard[d] \in Nat /\ row[d].pending \in Nat
    BY <1>11, <2>1 DEF Tick, TypeOK, Rows
  <2> QED
    BY <1>2, <2>1, <2>3, <2>4, <2>5
<1>12. 0 \in Nat /\ Hold \in Nat
  BY PushConstants
<1>13. CASE UNCHANGED <<row, heard>>
  BY <1>3, <1>13 DEF TypeOK
<1> QED
  BY <1>4, <1>5, <1>6, <1>7, <1>8, <1>9, <1>10, <1>11, <1>12, <1>13
     DEF Next, Unregister, SignOut, TakeUp, PutDown, Fails, FinishFails, Stop
-----------------------------------------------------------------------------
(* Attempts are spaced.                                                    *)

\* What is not hurried is due no sooner than the spacing allows.
SpacedRow(r) == IF r.due = Never THEN r.tried <= r.sent ELSE r.tried <= r.due
Spaced == \A d \in Device : row[d] # NoRow => SpacedRow(row[d]) \/ (row[d].due # Never /\ d \in hurried)

LEMMA SpacedStep ==
    ASSUME TypeOK, Spaced, Next
    PROVE  Spaced'
<1> SUFFICES ASSUME NEW d \in Device, row'[d] # NoRow
             PROVE  SpacedRow(row'[d]) \/ (row'[d].due # Never /\ d \in hurried')
  BY DEF Spaced, SpacedRow
<1> DEFINE Goal == SpacedRow(row'[d]) \/ (row'[d].due # Never /\ d \in hurried')
<1> USE DEF Never
<1>1. row[d] # NoRow =>
        /\ row[d] \in Rows
        /\ row[d].due \in Nat \cup {Never} /\ row[d].sent \in 0..Cooldown /\ row[d].tried \in 0..Cooldown
        /\ SpacedRow(row[d]) \/ (row[d].due # Never /\ d \in hurried)
  BY DEF Spaced, TypeOK, Rows
<1>2. Cooldown \in Nat /\ Lease \in Nat /\ Cooldown < Lease /\ Hold \in Nat
  BY PushConstants
<1>3. CASE row'[d] = row[d] /\ hurried' = hurried
  BY <1>1, <1>3
<1>4. ASSUME NEW x \in Device, NEW e \in Endpoint, Register(x, e) PROVE Goal
  <2>1. hurried' = hurried /\ (x # d => row'[d] = row[d])
        /\ (x = d => row'[d] = Upserted(row[d], e, drawn + 1))
    BY <1>4 DEF Register, TypeOK
  <2>2. CASE x = d /\ row[d] = NoRow
    BY <2>1, <2>2, NewFields DEF SpacedRow
  <2>3. CASE x = d /\ row[d] # NoRow
    <3>1. /\ row'[d].sent = row[d].sent /\ row'[d].tried = row[d].tried
          /\ row'[d].due = IF row[d].due # Never \/ row[d].endpoint # e THEN row[d].tried ELSE Never
      BY <1>1, <2>1, <2>3, UpsertedFields
    <3> QED
      BY <1>1, <2>3, <3>1 DEF SpacedRow
  <2> QED
    BY <1>3, <2>1, <2>2, <2>3
<1>5. ASSUME NEW ds \in SUBSET Device, Dropped(ds) PROVE Goal
  BY <1>1, <1>5 DEF Dropped
<1>6. ASSUME NEW at \in Nat, QueueAt(at) PROVE Goal
  <2>1. row'[d] = Queued(row[d], at) /\ hurried' = hurried
    BY <1>6 DEF QueueAt
  <2>2. row[d] # NoRow
    BY <2>1 DEF Queued
  <2>3. /\ row'[d].sent = row[d].sent /\ row'[d].tried = row[d].tried
        /\ row'[d].due = IF row[d].due = Never THEN Greatest(at, row[d].sent) ELSE row[d].due
    BY <1>1, <2>1, <2>2, QueuedFields
  <2> QED
    BY <1>1, <2>1, <2>2, <2>3 DEF SpacedRow, Greatest
<1>7. ASSUME Hurry PROVE Goal
  <2>1. CASE row'[d] = row[d]
    BY <1>1, <1>7, <2>1 DEF Hurry
  <2>2. CASE row'[d] # row[d]
    <3>1. row[d] # NoRow /\ row[d].due # Never /\ d \in hurried'
      BY <1>7, <2>2 DEF Hurry
    <3>2. row'[d] = [row[d] EXCEPT !.due = Least(row[d].due, row[d].sent)]
      BY <1>7, <3>1 DEF Hurry
    <3>3. row'[d].due = Least(row[d].due, row[d].sent)
      BY <1>1, <3>1, <3>2 DEF Rows
    <3> QED
      BY <1>1, <3>1, <3>3 DEF Least
  <2> QED
    BY <2>1, <2>2
<1>8. ASSUME NEW x \in Device, Claim(x) PROVE Goal
  <2>1. CASE x # d
    BY <1>1, <1>8, <2>1 DEF Claim, TypeOK
  <2>2. CASE x = d
    <3>1. row[d] # NoRow /\ row'[d] = [row[d] EXCEPT !.due = Lease, !.tried = Cooldown]
      BY <1>8, <2>2 DEF Claim, TypeOK
    <3>2. row'[d].due = Lease /\ row'[d].tried = Cooldown
      BY <1>1, <3>1 DEF Rows
    <3> QED
      BY <1>2, <3>2 DEF SpacedRow
  <2> QED
    BY <2>1, <2>2
<1>9. ASSUME NEW w \in wakes, Finish(w) PROVE Goal
  <2>1. w \in Wakes
    BY DEF TypeOK
  <2>2. CASE row'[d] = row[d]
    BY <1>1, <1>9, <2>2 DEF Finish
  <2>3. CASE row'[d] # row[d]
    <3>1. w.device = d /\ row[d] # NoRow /\ row'[d] = Finished(row[d], w)
      BY <1>9, <2>1, <2>3 DEF Finish, IsLeased, TypeOK, Wakes
    <3>2. w.result # "gone"
      BY <3>1 DEF Finished
    <3>3. w.result \in {"deferred", "accepted", "retry"}
      BY <1>9, <2>1, <3>2 DEF Finish, Wakes
    <3>4. /\ row'[d].tried = row[d].tried
          /\ \/ row'[d].due \in Nat /\ row'[d].due >= Cooldown
             \/ row'[d].due = Never /\ row'[d].sent = Cooldown
      BY <1>1, <2>1, <3>1, <3>3, FinishedFields
    <3> QED
      BY <1>1, <1>2, <3>1, <3>4 DEF SpacedRow
  <2> QED
    BY <2>2, <2>3
<1>10. ASSUME Tick PROVE Goal
  <2>1. hurried' = hurried /\ row[d] # NoRow
    BY <1>10 DEF Tick
  <2>2. row'[d] = [row[d] EXCEPT !.due = Sooner(@), !.sent = Sooner(@), !.tried = Sooner(@)]
    BY <1>10, <2>1 DEF Tick
  <2>3. row'[d].due = Sooner(row[d].due) /\ row'[d].sent = Sooner(row[d].sent) /\ row'[d].tried = Sooner(row[d].tried)
    BY <1>1, <2>1, <2>2, TickedFields
  <2> QED
    BY <1>1, <2>1, <2>3 DEF SpacedRow, Sooner
<1>11. 0 \in Nat
  OBVIOUS
<1> QED
  BY <1>2, <1>3, <1>4, <1>5, <1>6, <1>7, <1>8, <1>9, <1>10, <1>11
     DEF Next, Unregister, SignOut, TakeUp, PutDown, Takes, Fails, FinishFails, Stop

\* Only a claim begins an attempt.
LEMMA AttemptClaims ==
    ASSUME TypeOK, Spaced, Next, NEW d \in Device, Attempted(d)
    PROVE  row[d].tried = 0 \/ d \in hurried
<1>1. PICK w \in wakes' : w \notin wakes /\ w.device = d /\ w.age = 0 /\ w.result = "none"
  BY DEF Attempted
<1>2. ASSUME NEW x \in Device, Claim(x) PROVE row[d].tried = 0 \/ d \in hurried
  <2>1. w = Claimed(x) /\ row[x] # NoRow /\ row[x].due = 0
    BY <1>1, <1>2 DEF Claim, Claimed
  <2>2. x = d
    BY <1>1, <2>1 DEF Claimed
  <2> QED
    BY <2>1, <2>2 DEF Spaced, SpacedRow, TypeOK, Rows, Never
<1>3. ASSUME NEW v \in wakes, Takes(v) \/ Fails(v) PROVE FALSE
  <2>1. PICK result \in {"accepted", "retry", "gone", "deferred"} : w = [v EXCEPT !.result = result]
    BY <1>1, <1>3 DEF Takes, Fails, Becomes
  <2> QED
    BY <1>1, <2>1 DEF TypeOK, Wakes
<1>4. ASSUME Tick PROVE FALSE
  <2>1. PICK v \in wakes : w = [v EXCEPT !.age = IF v.result = "none" THEN v.age + 1 ELSE v.age]
    BY <1>1, <1>4 DEF Tick
  <2>2. v.result = w.result /\ w.age = IF v.result = "none" THEN v.age + 1 ELSE v.age
    BY <2>1 DEF TypeOK, Wakes
  <2> QED
    BY <1>1, <2>2 DEF TypeOK, Wakes
<1> QED
  BY <1>1, <1>2, <1>3, <1>4
     DEF Next, Register, Unregister, SignOut, TakeUp, PutDown, Finish, FinishFails, QueueAt, Hurry, Stop

-----------------------------------------------------------------------------
(* The theorems.                                                           *)

IInv == TypeOK /\ Registered /\ OnePerHost /\ HeardOK /\ WakeIsDue /\ Spaced

LEMMA InductiveInvariant == Spec => []IInv
<1>1. Init => IInv
  BY DEF Init, IInv, TypeOK, Registered, OnePerHost, HeardOK, WakeIsDue, Spaced
<1>2. IInv /\ [Next]_vars => IInv'
  <2>1. ASSUME IInv, Next PROVE IInv'
    BY <2>1, TypeStep, RegisteredStep, OnePerHostStep, HeardStep, DueStep, SpacedStep DEF IInv
  <2>2. ASSUME IInv, UNCHANGED vars PROVE IInv'
    BY <2>2 DEF vars, IInv, TypeOK, Registered, OnePerHost, HeardOK, WakeIsDue, Spaced, SpacedRow
  <2> QED
    BY <2>1, <2>2
<1> QED
  BY <1>1, <1>2, PTL DEF Spec

(* A subscription that has not taken a wake for its mail has one due: no    *)
(* finish, however late, and no registration makes the hub forget mail that *)
(* was queued meanwhile (finish, the upsert).                               *)
THEOREM WakeDue == Spec => []WakeIsDue
<1>1. IInv => WakeIsDue
  BY DEF IInv
<1> QED
  BY <1>1, InductiveInvariant, PTL

(* The worker has one request at a time to a destination, and one for a     *)
(* registration, although a lease may be brought forward (claim).           *)
THEOREM OneRequest == Spec => []OnePerHost
<1>1. IInv => OnePerHost
  BY DEF IInv
<1> QED
  BY <1>1, InductiveInvariant, PTL

(* Attempts for a row are Cooldown ticks apart unless its wake was hurried  *)
(* (the upsert, finish and claim together).                                 *)
THEOREM Spacing == Spec => AttemptsSpaced
<1>1. IInv /\ [Next]_vars => [\A d \in Device : Attempted(d) => row[d].tried = 0 \/ d \in hurried]_vars
  BY AttemptClaims DEF IInv
<1> QED
  BY <1>1, InductiveInvariant, PTL DEF Spec, AttemptsSpaced
=============================================================================
