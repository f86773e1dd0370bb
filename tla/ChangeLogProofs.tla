--------------------------- MODULE ChangeLogProofs ---------------------------
(***************************************************************************)
(* What the properties of ChangeLog and RestoredHub rest on, for every     *)
(* number of addresses, messages, writers, devices and restores, proved    *)
(* with TLAPS.                                                             *)
(***************************************************************************)
EXTENDS RestoredHub, FiniteSetTheorems, TLAPS

-----------------------------------------------------------------------------
(* The order of messages in one log_changes call.                          *)

(* The numbers unnest ... WITH ORDINALITY gives are 1 to the count.         *)
LEMMA OrdBounds ==
    ASSUME NEW ms \in SUBSET Message, NEW m \in ms
    PROVE  /\ Ord(ms, m) \in Nat /\ Cardinality(ms) \in Nat
           /\ 1 <= Ord(ms, m) /\ Ord(ms, m) <= Cardinality(ms)
<1> DEFINE below == {k \in ms : k <= m}
<1>1. IsFiniteSet(ms)
  BY ConstantsOK, FS_Subset
<1>2. below \in SUBSET ms /\ m \in below
  BY ConstantsOK
<1>3. IsFiniteSet(below) /\ Cardinality(below) <= Cardinality(ms)
  BY <1>1, <1>2, FS_Subset
<1>4. Cardinality(below) \in Nat /\ Cardinality(ms) \in Nat
  BY <1>1, <1>3, FS_CardinalityType
<1>5. Cardinality(below) # 0
  BY <1>2, <1>3, FS_EmptySet
<1> QED
  BY <1>3, <1>4, <1>5 DEF Ord

(* No two messages of one call get the same number.                         *)
LEMMA OrdDiffers ==
    ASSUME NEW ms \in SUBSET Message, NEW m \in ms, NEW k \in ms, m < k
    PROVE  Ord(ms, m) < Ord(ms, k)
<1> DEFINE upto(x) == {j \in ms : j <= x}
<1>1. IsFiniteSet(ms)
  BY ConstantsOK, FS_Subset
<1>2. upto(k) \in SUBSET ms /\ upto(m) \in SUBSET upto(k)
  <2>1. \A j \in ms : j \in Nat /\ (j <= m => j <= k)
    BY ConstantsOK
  <2> QED
    BY <2>1
<1>3. upto(m) # upto(k)
  <2>1. k \in upto(k) /\ k \notin upto(m)
    BY ConstantsOK
  <2> QED
    BY <2>1
<1>4. IsFiniteSet(upto(k))
  BY <1>1, <1>2, FS_Subset
<1>5. IsFiniteSet(upto(m))
      /\ Cardinality(upto(m)) <= Cardinality(upto(k))
      /\ Cardinality(upto(k)) # Cardinality(upto(m))
  BY <1>2, <1>3, <1>4, FS_Subset
<1>6. Cardinality(upto(m)) \in Nat /\ Cardinality(upto(k)) \in Nat
  BY <1>4, <1>5, FS_CardinalityType
<1> HIDE DEF upto
<1>7. Cardinality(upto(m)) < Cardinality(upto(k))
  BY <1>5, <1>6
<1> QED
  BY <1>7 DEF Ord, upto

-----------------------------------------------------------------------------
(* Types.                                                                  *)

LEMMA InitType == Init => TypeOK
BY ConstantsOK DEF Init, TypeOK, Entries, Contents, Version, Answers,
   NoEntries, NoAnswer, Absent, NoBase, Deleted

LEMMA OpenType ==
    ASSUME TypeOK, NEW w \in Writer, NEW cs \in SUBSET (Address \X Message),
           NEW b \in BOOLEAN, Open(w, cs, b)
    PROVE  TypeOK'
BY DEF TypeOK, Open, storeVars, clientVars, callVars

LEMMA ReleaseType ==
    ASSUME TypeOK, NEW w \in Writer, Release(w)
    PROVE  /\ edits' \in [Writer -> SUBSET (Address \X Message)]
           /\ erase' \in [Writer -> BOOLEAN]
           /\ headLock' \in [Address -> Writer \cup {NoWriter}]
           /\ pending' \in [Address -> Entries]
           /\ newHead' \in [Address -> Nat]
BY DEF TypeOK, Release, Entries, NoEntries, Absent

LEMMA HangType ==
    ASSUME TypeOK, NEW d \in Device, Hang(d)
    PROVE  /\ stage' \in [Device -> {"idle", "called", "checked", "answered"}]
           /\ at' \in [Device -> Nat]
           /\ atBase' \in [Device -> Nat \cup {NoBase}]
           /\ from' \in [Device -> Nat]
           /\ reset' \in [Device -> BOOLEAN]
           /\ answer' \in [Device -> Answers]
BY DEF TypeOK, Hang, Answers, NoAnswer, NoEntries, Absent, NoBase, Contents, Version

LEMMA WriteType ==
    ASSUME TypeOK, NEW w \in Writer, Write(w)
    PROVE  TypeOK'
<1>1. CASE \E m \in Message : Send(w, m)
  <2>1. PICK m \in Message : Send(w, m)
    BY <1>1
  <2>2. Copies(m) \in SUBSET (Address \X Message)
    BY ConstantsOK DEF Copies
  <2> QED
    BY <2>1, <2>2, OpenType DEF Send
<1>2. CASE \E reader \in Address, ms \in SUBSET Message : Receipts(w, reader, ms)
  <2>1. PICK reader \in Address, ms \in SUBSET Message : Receipts(w, reader, ms)
    BY <1>2
  <2> DEFINE cs == {c \in UNION {Copies(m) : m \in ms} : copy[c[1]][c[2]] > 0}
  <2>2. \A m \in ms : Copies(m) \in SUBSET (Address \X Message)
    BY ConstantsOK DEF Copies
  <2>3. cs \in SUBSET (Address \X Message)
    BY <2>2
  <2>4. Open(w, cs, FALSE)
    BY <2>1 DEF Receipts
  <2> QED
    BY <2>3, <2>4, OpenType
<1>3. CASE \E m \in Message : Settle(w, m)
  <2>1. PICK m \in Message : Settle(w, m)
    BY <1>3
  <2>2. {<<To[m], m>>} \in SUBSET (Address \X Message)
    BY ConstantsOK
  <2> QED
    BY <2>1, <2>2, OpenType DEF Settle
<1>4. CASE \E me \in Address, ms \in SUBSET Message : DeleteCopies(w, me, ms)
  <2>1. PICK me \in Address, ms \in SUBSET Message : DeleteCopies(w, me, ms)
    BY <1>4
  <2>2. {me} \X ms \in SUBSET (Address \X Message)
    OBVIOUS
  <2> QED
    BY <2>1, <2>2, OpenType DEF DeleteCopies
<1> QED
  BY <1>1, <1>2, <1>3, <1>4 DEF Write

LEMMA DrawType ==
    ASSUME TypeOK, NEW w \in Writer, NEW a \in Address, Draw(w, a)
    PROVE  TypeOK'
<1> DEFINE ms == Changed(w, a)
<1>1. ms \in SUBSET Message
  BY DEF Changed
<1>2. \A m \in ms : Ord(ms, m) \in Nat
  BY <1>1, OrdBounds
<1>3. Cardinality(ms) \in Nat
  BY <1>1, ConstantsOK, FS_Subset, FS_CardinalityType
<1> HIDE DEF ms
<1>4. heads[a] \in Nat
  BY DEF TypeOK
<1>5. [m \in Message |-> IF m \in ms THEN heads[a] + Ord(ms, m) ELSE Absent] \in Entries
  BY <1>2, <1>4 DEF Entries, Absent
<1>6. newHead' \in [Address -> Nat] /\ pending' \in [Address -> Entries]
  BY <1>3, <1>4, <1>5 DEF TypeOK, Draw, ms
<1>7. headLock' \in [Address -> Writer \cup {NoWriter}]
  BY DEF TypeOK, Draw
<1> QED
  BY <1>6, <1>7 DEF TypeOK, Draw, storeVars, clientVars, callVars

LEMMA CommitType ==
    ASSUME TypeOK, NEW w \in Writer, Commit(w)
    PROVE  TypeOK'
<1>1. heads' \in [Address -> Nat] /\ log' \in [Address -> Entries] /\ sent' \in SUBSET Message
  BY DEF TypeOK, Commit, Entries
<1>2. \A c \in Version : Written(w, c) \in Version
  BY DEF Written, Version, Deleted
<1>3. copy' \in [Address -> Contents]
  BY <1>2 DEF TypeOK, Commit, Contents
<1>4. Release(w) /\ UNCHANGED <<clientVars, callVars>>
  BY DEF Commit
<1> QED
  BY <1>1, <1>3, <1>4, ReleaseType DEF TypeOK, clientVars, callVars

LEMMA DeliverType ==
    ASSUME TypeOK, NEW d \in Device, Deliver(d)
    PROVE  TypeOK'
<1>1. answer[d] \in Answers
  BY DEF TypeOK
<1>2. /\ answer[d].to \in Nat /\ answer[d].base \in Nat \cup {NoBase}
      /\ answer[d].changes \in Contents /\ held[d] \in Contents
  BY <1>1 DEF Answers, TypeOK
<1>3. cursor' \in [Device -> Nat] /\ base' \in [Device -> Nat \cup {NoBase}]
  BY <1>2 DEF Deliver, TypeOK
<1>4. held' \in [Device -> Contents]
  BY <1>2 DEF Deliver, TypeOK, Contents, Version, Absent
<1>5. Hang(d) /\ UNCHANGED <<storeVars, writerVars>>
  BY DEF Deliver
<1> QED
  BY <1>3, <1>4, <1>5, HangType DEF TypeOK, storeVars, writerVars

LEMMA ReadHeadsType ==
    ASSUME TypeOK, NEW d \in Device, ReadHeads(d)
    PROVE  TypeOK'
<1> DEFINE head == heads[Owner[d]]
<1>1. head \in Nat
  BY ConstantsOK DEF TypeOK
<1> HIDE DEF head
<1>2. from' \in [Device -> Nat]
  BY <1>1 DEF ReadHeads, StartOver, TypeOK, head
<1>3. atBase' \in [Device -> Nat \cup {NoBase}]
  BY <1>1 DEF ReadHeads, StartOver, TypeOK, head
<1>4. reset' \in [Device -> BOOLEAN]
  <2>1. (at[d] > head) \in BOOLEAN
    OBVIOUS
  <2> QED
    BY <2>1, Zenon DEF ReadHeads, StartOver, TypeOK, head
<1>5. /\ stage' \in [Device -> {"idle", "called", "checked", "answered"}]
      /\ UNCHANGED <<storeVars, writerVars, clientVars, at, answer>>
  BY DEF ReadHeads, StartOver, TypeOK
<1> QED
  BY <1>2, <1>3, <1>4, <1>5 DEF TypeOK, storeVars, writerVars, clientVars

LEMMA ReadLogType ==
    ASSUME TypeOK, NEW d \in Device, ReadLog(d)
    PROVE  TypeOK'
<1> DEFINE a == Owner[d]
<1>1. a \in Address
  BY ConstantsOK
<1> HIDE DEF a
<1>2. PICK page \in SUBSET Above(a, from[d]) :
        \E to \in {from[d]} \cup {log[a][m] : m \in page} :
          answer' = [answer EXCEPT ![d] =
             [to |-> to, base |-> atBase[d], reset |-> reset[d],
              changes |-> [m \in Message |-> IF m \in page THEN copy[a][m] ELSE Absent]]]
  BY DEF ReadLog, a
<1>3. PICK to \in {from[d]} \cup {log[a][m] : m \in page} :
          answer' = [answer EXCEPT ![d] =
             [to |-> to, base |-> atBase[d], reset |-> reset[d],
              changes |-> [m \in Message |-> IF m \in page THEN copy[a][m] ELSE Absent]]]
  BY <1>2
<1>4. to \in Nat
  BY <1>1 DEF TypeOK, Above, Entries
<1>5. [m \in Message |-> IF m \in page THEN copy[a][m] ELSE Absent] \in Contents
  BY <1>1 DEF TypeOK, Contents, Version, Absent
<1>6. answer' \in [Device -> Answers]
  BY <1>3, <1>4, <1>5 DEF TypeOK, Answers
<1>7. stage' \in [Device -> {"idle", "called", "checked", "answered"}]
      /\ UNCHANGED <<storeVars, writerVars, clientVars, at, atBase, from, reset>>
  BY DEF ReadLog, TypeOK
<1> QED
  BY <1>6, <1>7 DEF TypeOK, storeVars, writerVars, clientVars

(* Every step keeps the variables in their types.                           *)
LEMMA NextType == TypeOK /\ [Next]_vars => TypeOK'
<1> SUFFICES ASSUME TypeOK, [Next]_vars
             PROVE  TypeOK'
  OBVIOUS
<1>1. ASSUME NEW w \in Writer, Write(w)
      PROVE  TypeOK'
  BY <1>1, WriteType
<1>2. ASSUME NEW w \in Writer, Finish(w)
      PROVE  TypeOK'
  BY <1>2, DrawType, CommitType DEF Finish
<1>3. ASSUME NEW w \in Writer, Rollback(w)
      PROVE  TypeOK'
  BY <1>3, ReleaseType DEF Rollback, TypeOK, storeVars, clientVars, callVars
<1>4. ASSUME NEW ms \in SUBSET Message, Expire(ms)
      PROVE  TypeOK'
  BY <1>4 DEF Expire, TypeOK, Entries, Contents, Version, Absent, writerVars, clientVars, callVars
<1>5. ASSUME NEW d \in Device, Call(d)
      PROVE  TypeOK'
  BY <1>5 DEF Call, TypeOK, storeVars, writerVars, clientVars
<1>6. ASSUME NEW d \in Device, CallFromNow(d)
      PROVE  TypeOK'
  BY <1>6, ConstantsOK DEF CallFromNow, TypeOK, storeVars, writerVars, clientVars
<1>7. ASSUME NEW d \in Device, ReadHeads(d)
      PROVE  TypeOK'
  BY <1>7, ReadHeadsType
<1>8. ASSUME NEW d \in Device, ReadLog(d)
      PROVE  TypeOK'
  BY <1>8, ReadLogType
<1>9. ASSUME NEW d \in Device, Park(d)
      PROVE  TypeOK'
  BY <1>9 DEF Park, TypeOK, Answers, NoAnswer, NoEntries, Absent, NoBase, Contents, Version,
              storeVars, writerVars, clientVars
<1>10. ASSUME NEW d \in Device, Lose(d)
       PROVE  TypeOK'
  BY <1>10, HangType DEF Lose, TypeOK, storeVars, writerVars, clientVars
<1>11. ASSUME NEW d \in Device, Deliver(d)
       PROVE  TypeOK'
  BY <1>11, DeliverType
<1>12. ASSUME NEW d \in Device, Reinstall(d)
       PROVE  TypeOK'
  BY <1>12 DEF Reinstall, TypeOK, NoEntries, Absent, Contents, Version, storeVars, writerVars, callVars
<1>13. CASE UNCHANGED vars
  BY <1>13 DEF vars, TypeOK, storeVars, writerVars, clientVars, callVars
<1> QED
  BY <1>1, <1>2, <1>3, <1>4, <1>5, <1>6, <1>7, <1>8, <1>9, <1>10, <1>11, <1>12, <1>13
     DEF Next, Storing, Asking

(* The change log, its writers and its devices keep their types.            *)
THEOREM TypeCorrect == Spec => []TypeOK
BY InitType, NextType, PTL DEF Spec

-----------------------------------------------------------------------------
(* The inductive invariant.  NothingMissed alone is not inductive: it needs *)
(* to know where a transaction's uncommitted numbers lie, and what an       *)
(* answer says while it is on its way.                                      *)

\* The holder of a head row wrote distinct numbers between the committed head
\* and the one it will leave.
DrawnAhead(a) ==
    LET w == headLock[a] IN
    w # NoWriter =>
        /\ Changed(w, a) # {}
        /\ heads[a] <= newHead[a]
        /\ \A m \in Changed(w, a) : heads[a] < pending[a][m] /\ pending[a][m] <= newHead[a]
        /\ \A m, k \in Changed(w, a) : m # k => pending[a][m] # pending[a][k]

\* Committed entries lie at or below the head.
Published == \A a \in Address, m \in Message : log[a][m] <= heads[a]

StoreOK == SeqUnique /\ EveryCopyLogged /\ Published

\* No position a device has, or is about to have, is beyond the head.
PositionsKnown(d) ==
    LET head == heads[Owner[d]] IN
    cursor[d] <= head /\ at[d] <= head /\ from[d] <= head /\ answer[d].to <= head

\* A call goes on from the device's cursor, or starts from now.
Continues(d, p) ==
    \/ p = cursor[d] /\ atBase[d] = base[d]
    \/ cursor[d] = 0 /\ atBase[d] = p

CallFits(d) ==
    /\ reset[d] = FALSE /\ answer[d].reset = FALSE
    /\ stage[d] = "called" => Continues(d, at[d])
    /\ stage[d] \in {"checked", "answered"} => from[d] = at[d] /\ Continues(d, from[d])

\* An answer on its way has, current, every copy between the two positions.
AnswerFits(d) ==
    LET a == Owner[d]
        ans == answer[d] IN
    stage[d] = "answered" =>
        /\ ans.base = atBase[d] /\ from[d] <= ans.to
        /\ \A m \in Message :
             /\ from[d] < log[a][m] /\ log[a][m] <= ans.to => ans.changes[m] = copy[a][m]
             /\ ans.changes[m] # Absent => log[a][m] = Absent \/ from[d] < log[a][m]
             /\ ans.changes[m] = Deleted => copy[a][m] = Deleted
             /\ held[d][m] = Deleted => ans.changes[m] \in {Absent, Deleted}

\* What a device was told is deleted is deleted.
DeletedKnown(d) == \A m \in Message : held[d][m] = Deleted => copy[Owner[d]][m] = Deleted

DeviceOK(d) ==
    /\ PositionsKnown(d) /\ CallFits(d) /\ AnswerFits(d) /\ DeletedKnown(d)
    /\ \A m \in Message : Mirrors(d, m)

HubOK ==
    /\ TypeOK
    /\ \A a \in Address : DrawnAhead(a)
    /\ StoreOK

IInv ==
    /\ HubOK
    /\ \A d \in Device : DeviceOK(d)

-----------------------------------------------------------------------------
(* The parts of the invariant a step leaves alone.                          *)

LEMMA InitInv == Init => IInv
<1> SUFFICES ASSUME Init PROVE IInv
  OBVIOUS
<1>1. TypeOK
  BY InitType
<1>2. \A a \in Address : DrawnAhead(a)
  BY DEF Init, DrawnAhead
<1>3. StoreOK
  BY DEF Init, StoreOK, SeqUnique, EveryCopyLogged, Published, NoEntries, Absent
<1>4. \A d \in Device : DeviceOK(d)
  BY ConstantsOK DEF Init, DeviceOK, PositionsKnown, CallFits, AnswerFits, DeletedKnown, Mirrors,
     Continues, NoEntries, NoAnswer, Absent, Deleted
<1> QED
  BY <1>1, <1>2, <1>3, <1>4 DEF IInv, HubOK

\* What a commit or a sweep does to a log: an entry stays as it is, moves
\* beyond the head, or goes; a deleted copy stays deleted.
StoreMoves(a) ==
    /\ heads[a] <= heads'[a]
    /\ \A m \in Message :
         /\ \/ log'[a][m] = log[a][m] /\ copy'[a][m] = copy[a][m]
            \/ heads[a] < log'[a][m]
            \/ log'[a][m] = Absent
         /\ copy[a][m] = Deleted => copy'[a][m] = Deleted

LEMMA DeviceKept ==
    ASSUME TypeOK, TypeOK', NEW d \in Device, DeviceOK(d), StoreMoves(Owner[d]),
           UNCHANGED <<clientVars, callVars>>
    PROVE  DeviceOK(d)'
<1> DEFINE a == Owner[d]
<1>1. a \in Address
  BY ConstantsOK
<1>2. /\ heads[a] \in Nat /\ heads'[a] \in Nat /\ cursor[d] \in Nat /\ at[d] \in Nat /\ from[d] \in Nat
      /\ answer[d].to \in Nat
      /\ \A m \in Message : log[a][m] \in Nat /\ log'[a][m] \in Nat
  BY <1>1 DEF TypeOK, Entries, Answers
<1>3. PositionsKnown(d)'
  BY <1>2 DEF DeviceOK, PositionsKnown, StoreMoves, clientVars, callVars
<1>4. CallFits(d)' /\ DeletedKnown(d)'
  BY DEF DeviceOK, CallFits, Continues, DeletedKnown, StoreMoves, clientVars, callVars
<1>5. AnswerFits(d)'
  BY <1>2 DEF DeviceOK, AnswerFits, PositionsKnown, StoreMoves, Absent, clientVars, callVars
<1>6. \A m \in Message : Mirrors(d, m)'
  BY <1>2 DEF DeviceOK, Mirrors, PositionsKnown, StoreMoves, Absent, clientVars
<1> QED
  BY <1>3, <1>4, <1>5, <1>6 DEF DeviceOK

LEMMA StillStore ==
    ASSUME TypeOK, NEW a \in Address, UNCHANGED storeVars
    PROVE  StoreMoves(a)
BY DEF TypeOK, StoreMoves, storeVars

\* A step of one device leaves another's call and store alone.
SameDevice(d) ==
    /\ cursor'[d] = cursor[d] /\ base'[d] = base[d] /\ held'[d] = held[d]
    /\ stage'[d] = stage[d] /\ at'[d] = at[d] /\ atBase'[d] = atBase[d]
    /\ from'[d] = from[d] /\ reset'[d] = reset[d] /\ answer'[d] = answer[d]

LEMMA OtherDevice ==
    ASSUME NEW d \in Device, DeviceOK(d), UNCHANGED storeVars, SameDevice(d)
    PROVE  DeviceOK(d)'
BY DEF DeviceOK, PositionsKnown, CallFits, AnswerFits, DeletedKnown, Mirrors, Continues,
       SameDevice, storeVars

LEMMA StoreKept ==
    ASSUME StoreOK, UNCHANGED storeVars
    PROVE  StoreOK'
BY DEF StoreOK, SeqUnique, EveryCopyLogged, Published, storeVars

LEMMA DrawnKept ==
    ASSUME NEW a \in Address, DrawnAhead(a), UNCHANGED <<writerVars, heads>>
    PROVE  DrawnAhead(a)'
BY DEF DrawnAhead, Changed, writerVars

\* A step of a device's calls leaves the hub as it is.
LEMMA DeviceHub ==
    ASSUME HubOK, TypeOK', UNCHANGED <<storeVars, writerVars>>
    PROVE  HubOK'
<1>1. \A a \in Address : DrawnAhead(a)'
  BY DrawnKept DEF HubOK, storeVars
<1>2. StoreOK'
  BY StoreKept DEF HubOK
<1> QED
  BY <1>1, <1>2 DEF HubOK

-----------------------------------------------------------------------------
(* Writers.                                                                *)

LEMMA OpenHub ==
    ASSUME HubOK, TypeOK', NEW w \in Writer, NEW cs, NEW b, Open(w, cs, b)
    PROVE  HubOK'
<1>1. ASSUME NEW a \in Address
      PROVE  DrawnAhead(a)'
  <2>1. headLock[a] # w
    BY ConstantsOK DEF HubOK, DrawnAhead, Open, Changed
  <2>2. headLock[a] # NoWriter => headLock[a] \in Writer \ {w}
    BY <2>1 DEF HubOK, TypeOK
  <2>3. headLock[a] # NoWriter => edits'[headLock[a]] = edits[headLock[a]]
    BY <2>2 DEF Open, HubOK, TypeOK
  <2> QED
    BY <2>3 DEF HubOK, DrawnAhead, Changed, Open, storeVars
<1> QED
  BY <1>1, StoreKept DEF HubOK, Open

LEMMA WriteHub ==
    ASSUME HubOK, NEW w \in Writer, Write(w)
    PROVE  HubOK'
<1>1. TypeOK'
  BY WriteType DEF HubOK
<1>2. \E cs, b : Open(w, cs, b)
  BY DEF Write, Send, Receipts, Settle, DeleteCopies
<1> QED
  BY <1>1, <1>2, OpenHub

LEMMA DrawHub ==
    ASSUME HubOK, NEW w \in Writer, NEW a \in Address, Draw(w, a)
    PROVE  HubOK'
<1>1. TypeOK'
  BY DrawType DEF HubOK
<1> DEFINE ms == Changed(w, a)
<1>2. ms \in SUBSET Message /\ ms # {}
  BY DEF Changed, Draw, Undrawn
<1>3. heads[a] \in Nat
  BY DEF HubOK, TypeOK
<1>4. \A m \in ms : /\ Ord(ms, m) \in Nat /\ Cardinality(ms) \in Nat
                     /\ 1 <= Ord(ms, m) /\ Ord(ms, m) <= Cardinality(ms)
  BY <1>2, OrdBounds
<1>5. \A m, k \in ms : m # k => Ord(ms, m) # Ord(ms, k)
  <2> SUFFICES ASSUME NEW m \in ms, NEW k \in ms, m # k
               PROVE  Ord(ms, m) # Ord(ms, k)
    OBVIOUS
  <2>1. m \in Nat /\ k \in Nat
    BY <1>2, ConstantsOK
  <2>2. CASE m < k
    <3>1. Ord(ms, m) < Ord(ms, k)
      BY <1>2, <2>2, OrdDiffers
    <3> QED
      BY <3>1, <1>4
  <2>3. CASE k < m
    <3>1. Ord(ms, k) < Ord(ms, m)
      BY <1>2, <2>3, OrdDiffers
    <3> QED
      BY <3>1, <1>4
  <2> QED
    BY <2>1, <2>2, <2>3
<1>6. /\ headLock'[a] = w /\ newHead'[a] = heads[a] + Cardinality(ms)
      /\ \A m \in ms : pending'[a][m] = heads[a] + Ord(ms, m)
  BY <1>2 DEF Draw, HubOK, TypeOK
<1>7. Changed(w, a)' = ms /\ heads' = heads
  BY DEF Changed, Draw, storeVars
<1> HIDE DEF ms
<1>8. DrawnAhead(a)'
  <2>1. Cardinality(ms) \in Nat
    BY <1>2, <1>4
  <2>2. heads[a] <= heads[a] + Cardinality(ms)
    BY <2>1, <1>3
  <2>3. \A m \in ms : /\ heads[a] < heads[a] + Ord(ms, m)
                       /\ heads[a] + Ord(ms, m) <= heads[a] + Cardinality(ms)
    BY <1>3, <1>4
  <2>4. \A m, k \in ms : m # k => heads[a] + Ord(ms, m) # heads[a] + Ord(ms, k)
    BY <1>3, <1>4, <1>5
  <2> QED
    BY <1>2, <1>6, <1>7, <2>2, <2>3, <2>4 DEF DrawnAhead
<1>9. ASSUME NEW c \in Address, c # a
      PROVE  DrawnAhead(c)'
  <2>1. headLock'[c] = headLock[c] /\ newHead'[c] = newHead[c] /\ pending'[c] = pending[c]
    BY <1>9 DEF Draw, HubOK, TypeOK
  <2> QED
    BY <2>1 DEF HubOK, DrawnAhead, Changed, Draw, storeVars
<1>10. StoreOK'
  BY StoreKept DEF HubOK, Draw
<1> QED
  BY <1>1, <1>8, <1>9, <1>10 DEF HubOK

\* Whoever keeps its head row keeps what it wrote there.
LEMMA ReleaseDrawn ==
    ASSUME HubOK, NEW w \in Writer, Release(w), NEW a \in Address,
           headLock[a] # w => heads'[a] = heads[a]
    PROVE  DrawnAhead(a)'
<1>1. CASE headLock[a] = w
  <2>1. headLock'[a] = NoWriter
    BY <1>1 DEF Release
  <2> QED
    BY <2>1 DEF DrawnAhead
<1>2. CASE headLock[a] # w
  <2>1. headLock'[a] = headLock[a] /\ newHead'[a] = newHead[a] /\ pending'[a] = pending[a]
    BY <1>2 DEF Release
  <2>2. headLock[a] # NoWriter => edits'[headLock[a]] = edits[headLock[a]]
    BY <1>2 DEF Release, HubOK, TypeOK
  <2> QED
    BY <1>2, <2>1, <2>2 DEF HubOK, DrawnAhead, Changed
<1> QED
  BY <1>1, <1>2

LEMMA RollbackHub ==
    ASSUME HubOK, TypeOK', NEW w \in Writer, Rollback(w)
    PROVE  HubOK'
<1>1. \A a \in Address : DrawnAhead(a)'
  BY ReleaseDrawn DEF Rollback, storeVars
<1> QED
  BY <1>1, StoreKept DEF HubOK, Rollback

\* A commit, seen from one log: the holder's entries move beyond the head.
LEMMA CommitLog ==
    ASSUME HubOK, NEW w \in Writer, Commit(w), NEW a \in Address
    PROVE  /\ heads[a] <= heads'[a]
           /\ \A m \in Message :
                \/ /\ m \notin Changed(w, a)
                   /\ log'[a][m] = log[a][m] /\ copy'[a][m] = copy[a][m]
                \/ /\ m \in Changed(w, a) /\ headLock[a] = w
                   /\ log'[a][m] = pending[a][m] /\ heads'[a] = newHead[a]
                   /\ heads[a] < log'[a][m] /\ log'[a][m] <= heads'[a]
                   /\ copy'[a][m] = Written(w, copy[a][m])
<1>1. heads[a] \in Nat /\ newHead[a] \in Nat
  BY DEF HubOK, TypeOK
<1>2. heads'[a] = IF headLock[a] = w THEN newHead[a] ELSE heads[a]
  BY DEF Commit
<1>3. headLock[a] = w => heads[a] <= newHead[a]
  BY ConstantsOK DEF HubOK, DrawnAhead
<1>4. heads[a] <= heads'[a]
  BY <1>1, <1>2, <1>3
<1>5. ASSUME NEW m \in Message, m \notin Changed(w, a)
      PROVE  log'[a][m] = log[a][m] /\ copy'[a][m] = copy[a][m]
  BY <1>5 DEF Commit
<1>6. ASSUME NEW m \in Message, m \in Changed(w, a)
      PROVE  /\ headLock[a] = w
             /\ log'[a][m] = pending[a][m] /\ heads'[a] = newHead[a]
             /\ heads[a] < log'[a][m] /\ log'[a][m] <= heads'[a]
             /\ copy'[a][m] = Written(w, copy[a][m])
  <2>1. headLock[a] = w
    BY <1>6 DEF Commit, Undrawn
  <2>2. heads[a] < pending[a][m] /\ pending[a][m] <= newHead[a]
    BY <1>6, <2>1, ConstantsOK DEF HubOK, DrawnAhead
  <2> QED
    BY <1>2, <1>6, <2>1, <2>2 DEF Commit
<1> QED
  BY <1>4, <1>5, <1>6

LEMMA CommitStore ==
    ASSUME HubOK, TypeOK', NEW w \in Writer, Commit(w)
    PROVE  StoreOK'
<1>1. \A a \in Address, m \in Message :
        /\ heads[a] \in Nat /\ heads'[a] \in Nat
        /\ log[a][m] \in Nat /\ log'[a][m] \in Nat /\ copy[a][m] \in Version
  BY DEF HubOK, TypeOK, Entries, Contents
<1>2. SeqUnique'
  <2> SUFFICES ASSUME NEW a \in Address, NEW m \in Message, NEW k \in Message,
                      m # k, log'[a][m] # Absent
               PROVE  log'[a][m] # log'[a][k]
    BY DEF SeqUnique
  <2>1. CASE m \in Changed(w, a) /\ k \in Changed(w, a)
    <3>1. headLock[a] = w
      BY <2>1, CommitLog
    <3>2. DrawnAhead(a) /\ headLock[a] # NoWriter
      BY <3>1, ConstantsOK DEF HubOK
    <3>3. pending[a][m] # pending[a][k]
      BY <2>1, <3>1, <3>2 DEF DrawnAhead
    <3> QED
      BY <2>1, <3>3, CommitLog
  <2>2. CASE m \notin Changed(w, a) /\ k \notin Changed(w, a)
    BY <2>2, CommitLog DEF HubOK, StoreOK, SeqUnique
  <2>3. CASE m \in Changed(w, a) /\ k \notin Changed(w, a)
    <3>1. heads[a] < log'[a][m] /\ log'[a][k] <= heads[a]
      BY <2>3, CommitLog DEF HubOK, StoreOK, Published
    <3> QED
      BY <3>1, <1>1
  <2>4. CASE m \notin Changed(w, a) /\ k \in Changed(w, a)
    <3>1. heads[a] < log'[a][k] /\ log'[a][m] <= heads[a]
      BY <2>4, CommitLog DEF HubOK, StoreOK, Published
    <3> QED
      BY <3>1, <1>1
  <2> QED
    BY <2>1, <2>2, <2>3, <2>4
<1>3. EveryCopyLogged'
  <2> SUFFICES ASSUME NEW a \in Address, NEW m \in Message
               PROVE  (log'[a][m] # Absent) <=> (copy'[a][m] # Absent)
    BY DEF EveryCopyLogged
  <2>1. CASE m \in Changed(w, a)
    <3>1. log'[a][m] # Absent
      BY <2>1, <1>1, CommitLog DEF Absent
    <3>2. Written(w, copy[a][m]) # Absent
      BY <1>1 DEF Written, Version, Deleted, Absent
    <3> QED
      BY <2>1, <3>1, <3>2, CommitLog
  <2>2. CASE m \notin Changed(w, a)
    BY <2>2, CommitLog DEF HubOK, StoreOK, EveryCopyLogged
  <2> QED
    BY <2>1, <2>2
<1>4. Published'
  <2> SUFFICES ASSUME NEW a \in Address, NEW m \in Message
               PROVE  log'[a][m] <= heads'[a]
    BY DEF Published
  <2>1. log[a][m] <= heads[a]
    BY DEF HubOK, StoreOK, Published
  <2> QED
    BY <1>1, <2>1, CommitLog
<1> QED
  BY <1>2, <1>3, <1>4 DEF StoreOK

LEMMA CommitHub ==
    ASSUME HubOK, NEW w \in Writer, Commit(w)
    PROVE  HubOK'
<1>1. TypeOK'
  BY CommitType DEF HubOK
<1>2. \A a \in Address : DrawnAhead(a)'
  BY ReleaseDrawn DEF Commit
<1>3. StoreOK'
  BY <1>1, CommitStore
<1> QED
  BY <1>1, <1>2, <1>3 DEF HubOK

LEMMA CommitMoves ==
    ASSUME HubOK, NEW w \in Writer, Commit(w), NEW a \in Address
    PROVE  StoreMoves(a)
<1>1. ASSUME NEW m \in Message, copy[a][m] = Deleted
      PROVE  copy'[a][m] = Deleted
  BY <1>1, CommitLog DEF Written
<1> QED
  BY <1>1, CommitLog DEF StoreMoves

LEMMA ExpireHub ==
    ASSUME HubOK, TypeOK', NEW ms \in SUBSET Message, Expire(ms)
    PROVE  HubOK' /\ \A a \in Address : StoreMoves(a)
<1>1. \A a \in Address : DrawnAhead(a)'
  BY DrawnKept DEF HubOK, Expire
<1>2. \A a \in Address, m \in Message :
        \/ log'[a][m] = log[a][m] /\ copy'[a][m] = copy[a][m]
        \/ log'[a][m] = Absent /\ copy'[a][m] = Absent /\ copy[a][m] # Deleted
  BY DEF Expire
<1>3. heads' = heads /\ \A a \in Address : heads[a] \in Nat
  BY DEF Expire, HubOK, TypeOK
<1>4. StoreOK'
  BY <1>2, <1>3 DEF HubOK, StoreOK, SeqUnique, EveryCopyLogged, Published, Absent
<1>5. \A a \in Address : StoreMoves(a)
  BY <1>2, <1>3 DEF StoreMoves
<1> QED
  BY <1>1, <1>4, <1>5 DEF HubOK

(* A step of the writers or the sweep keeps the hub in order, moves logs     *)
(* only forward, and touches no device.                                      *)
LEMMA StoringHub ==
    ASSUME HubOK, Storing
    PROVE  HubOK' /\ (\A a \in Address : StoreMoves(a)) /\ UNCHANGED <<clientVars, callVars>>
<1>1. TypeOK'
  BY NextType DEF HubOK, Next
<1>2. ASSUME NEW w \in Writer, Commit(w)
      PROVE  HubOK' /\ (\A a \in Address : StoreMoves(a)) /\ UNCHANGED <<clientVars, callVars>>
  BY <1>2, CommitHub, CommitMoves DEF Commit
<1>3. ASSUME NEW ms \in SUBSET Message, Expire(ms)
      PROVE  HubOK' /\ (\A a \in Address : StoreMoves(a)) /\ UNCHANGED <<clientVars, callVars>>
  BY <1>1, <1>3, ExpireHub DEF Expire
<1>4. ASSUME NEW w \in Writer, Write(w) \/ (\E a \in Address : Draw(w, a)) \/ Rollback(w)
      PROVE  HubOK' /\ (\A a \in Address : StoreMoves(a)) /\ UNCHANGED <<clientVars, callVars>>
  <2>1. UNCHANGED <<storeVars, clientVars, callVars>>
    BY <1>4 DEF Write, Send, Receipts, Settle, DeleteCopies, Open, Draw, Rollback
  <2>2. HubOK'
    BY <1>1, <1>4, WriteHub, DrawHub, RollbackHub
  <2> QED
    BY <2>1, <2>2, StillStore DEF HubOK
<1> QED
  BY <1>2, <1>3, <1>4 DEF Storing, Finish

-----------------------------------------------------------------------------
(* Devices.                                                                *)

\* A call of one device is nothing to the hub's store and to other devices.
LEMMA DeviceAlone ==
    ASSUME TypeOK, NEW d \in Device, Asking(d) \/ Deliver(d) \/ Reinstall(d)
    PROVE  UNCHANGED <<storeVars, writerVars>> /\ \A e \in Device \ {d} : SameDevice(e)
<1>1. CASE Call(d) \/ CallFromNow(d)
  BY <1>1 DEF Call, CallFromNow, SameDevice, clientVars, TypeOK
<1>2. CASE ReadHeads(d)
  BY <1>2 DEF ReadHeads, StartOver, SameDevice, clientVars, TypeOK
<1>3. CASE ReadLog(d)
  BY <1>3 DEF ReadLog, SameDevice, clientVars, TypeOK
<1>4. CASE Park(d)
  BY <1>4 DEF Park, SameDevice, clientVars, TypeOK
<1>5. CASE Lose(d)
  BY <1>5 DEF Lose, Hang, SameDevice, clientVars, TypeOK
<1>6. CASE Deliver(d)
  BY <1>6 DEF Deliver, Hang, SameDevice, TypeOK
<1>7. CASE Reinstall(d)
  BY <1>7 DEF Reinstall, SameDevice, callVars, TypeOK
<1> QED
  BY <1>1, <1>2, <1>3, <1>4, <1>5, <1>6, <1>7 DEF Asking

LEMMA CallKeeps ==
    ASSUME HubOK, TypeOK', NEW d \in Device, DeviceOK(d), Call(d) \/ CallFromNow(d)
    PROVE  DeviceOK(d)'
<1>1. UNCHANGED <<storeVars, writerVars>>
  BY DEF Call, CallFromNow, SameDevice, clientVars, HubOK, TypeOK
<1>2. DeviceOK(d)
  OBVIOUS
<1>3. heads[Owner[d]] \in Nat
  BY ConstantsOK DEF HubOK, TypeOK
<1>4. PositionsKnown(d)'
  BY <1>2, <1>3 DEF Call, CallFromNow, DeviceOK, PositionsKnown, HubOK, TypeOK, storeVars, clientVars
<1>5. CallFits(d)'
  BY <1>2 DEF Call, CallFromNow, DeviceOK, CallFits, Continues, HubOK, TypeOK, clientVars
<1>6. AnswerFits(d)' /\ DeletedKnown(d)' /\ \A m \in Message : Mirrors(d, m)'
  BY <1>2 DEF Call, CallFromNow, DeviceOK, AnswerFits, DeletedKnown, Mirrors, HubOK, TypeOK, storeVars, clientVars
<1> QED
  BY <1>4, <1>5, <1>6 DEF DeviceOK

LEMMA ReadHeadsKeeps ==
    ASSUME HubOK, TypeOK', NEW d \in Device, DeviceOK(d), ReadHeads(d)
    PROVE  DeviceOK(d)'
<1>1. UNCHANGED <<storeVars, writerVars>>
  BY DEF ReadHeads, StartOver, SameDevice, clientVars, HubOK, TypeOK
<1>2. DeviceOK(d)
  OBVIOUS
<1>3. heads[Owner[d]] \in Nat /\ at[d] \in Nat /\ at[d] <= heads[Owner[d]]
  BY <1>2, ConstantsOK DEF HubOK, TypeOK, DeviceOK, PositionsKnown
<1>4. ~(at[d] > heads[Owner[d]])
  BY <1>3
<1>5. /\ reset'[d] = FALSE /\ from'[d] = at[d] /\ atBase'[d] = atBase[d] /\ stage'[d] = "checked"
      /\ stage[d] = "called"
  BY <1>4 DEF ReadHeads, StartOver, HubOK, TypeOK
<1>6. PositionsKnown(d)'
  BY <1>2, <1>5 DEF ReadHeads, StartOver, DeviceOK, PositionsKnown, storeVars, clientVars
<1>7. CallFits(d)'
  BY <1>2, <1>5 DEF ReadHeads, StartOver, DeviceOK, CallFits, Continues, clientVars
<1>8. AnswerFits(d)' /\ DeletedKnown(d)' /\ \A m \in Message : Mirrors(d, m)'
  BY <1>2, <1>5 DEF ReadHeads, StartOver, DeviceOK, AnswerFits, DeletedKnown, Mirrors, storeVars, clientVars
<1> QED
  BY <1>6, <1>7, <1>8 DEF DeviceOK

(* A page holds every entry up to the position it ends at: entries of one   *)
(* log have different numbers.                                              *)
LEMMA PageComplete ==
    ASSUME TypeOK, SeqUnique, NEW a \in Address, NEW p \in Nat,
           NEW page \in SUBSET Above(a, p), IsPage(page, a, p),
           NEW to \in {p} \cup {log[a][m] : m \in page},
           NEW m \in Message, p < log[a][m], log[a][m] <= to
    PROVE  m \in page
<1>1. PICK k \in page : to = log[a][k]
  BY DEF TypeOK, Entries
<1>2. k \in Message /\ log[a][k] \in Nat /\ log[a][m] \in Nat
  BY DEF Above, TypeOK, Entries
<1>3. SUFFICES ASSUME m \notin page PROVE FALSE
  OBVIOUS
<1>4. m \in Above(a, p) \ page
  BY <1>2, <1>3 DEF Above
<1>5. log[a][k] <= log[a][m]
  BY <1>4 DEF IsPage
<1>6. log[a][k] = log[a][m] /\ log[a][m] # Absent
  BY <1>1, <1>2, <1>5 DEF Absent
<1> QED
  BY <1>1, <1>2, <1>3, <1>6 DEF SeqUnique

LEMMA ReadLogKeeps ==
    ASSUME HubOK, TypeOK', NEW d \in Device, DeviceOK(d), ReadLog(d)
    PROVE  DeviceOK(d)'
<1> DEFINE a == Owner[d]
           p == from[d]
<1>1. UNCHANGED <<storeVars, writerVars, clientVars, at, atBase, from, reset>>
  BY DEF ReadLog
<1>3. DeviceOK(d) /\ a \in Address /\ p \in Nat /\ heads[a] \in Nat
  BY ConstantsOK DEF HubOK, TypeOK
<1>4. PICK page \in SUBSET Above(a, p) :
        /\ IsPage(page, a, p)
        /\ \E to \in {p} \cup {log[a][m] : m \in page} :
             /\ \A m \in page : log[a][m] <= to
             /\ answer' = [answer EXCEPT ![d] =
                  [to |-> to, base |-> atBase[d], reset |-> reset[d],
                   changes |-> [m \in Message |-> IF m \in page THEN copy[a][m] ELSE Absent]]]
  BY DEF ReadLog
<1>5. PICK to \in {p} \cup {log[a][m] : m \in page} :
             /\ \A m \in page : log[a][m] <= to
             /\ answer' = [answer EXCEPT ![d] =
                  [to |-> to, base |-> atBase[d], reset |-> reset[d],
                   changes |-> [m \in Message |-> IF m \in page THEN copy[a][m] ELSE Absent]]]
  BY <1>4
<1>6. answer'[d] = [to |-> to, base |-> atBase[d], reset |-> reset[d],
                    changes |-> [m \in Message |-> IF m \in page THEN copy[a][m] ELSE Absent]]
  BY <1>5 DEF HubOK, TypeOK
<1>7. /\ answer'[d].to = to /\ answer'[d].base = atBase[d] /\ answer'[d].reset = reset[d]
      /\ \A m \in Message : answer'[d].changes[m] = IF m \in page THEN copy[a][m] ELSE Absent
      /\ stage'[d] = "answered" /\ stage[d] = "checked"
  BY <1>6 DEF ReadLog, HubOK, TypeOK
<1>8. \A m \in page : m \in Message /\ log[a][m] \in Nat /\ p < log[a][m] /\ log[a][m] <= heads[a]
  BY <1>3 DEF Above, HubOK, TypeOK, Entries, StoreOK, Published
<1>9. to \in Nat /\ p <= to /\ to <= heads[a]
  BY <1>3, <1>8 DEF DeviceOK, PositionsKnown
<1>10. PositionsKnown(d)'
  BY <1>1, <1>3, <1>7, <1>9 DEF DeviceOK, PositionsKnown, storeVars, clientVars
<1>11. CallFits(d)'
  BY <1>1, <1>3, <1>7 DEF DeviceOK, CallFits, Continues, clientVars
<1>12. AnswerFits(d)'
  <2>1. \A m \in Message : p < log[a][m] /\ log[a][m] <= to => m \in page
    BY <1>3, <1>4, PageComplete DEF HubOK, StoreOK
  <2>2. \A m \in Message : answer'[d].changes[m] # Absent => m \in page
    BY <1>7
  <2>3. \A m \in Message : held[d][m] = Deleted => copy[a][m] = Deleted
    BY <1>3 DEF DeviceOK, DeletedKnown
  <2>4. UNCHANGED <<log, copy, from, held, atBase>>
    BY <1>1 DEF storeVars, clientVars
  <2> HIDE DEF a, p
  <2>5. AnswerFits(d)' <=>
          (stage'[d] = "answered" =>
            /\ answer'[d].base = atBase[d] /\ p <= answer'[d].to
            /\ \A m \in Message :
                 /\ p < log[a][m] /\ log[a][m] <= answer'[d].to => answer'[d].changes[m] = copy[a][m]
                 /\ answer'[d].changes[m] # Absent => log[a][m] = Absent \/ p < log[a][m]
                 /\ answer'[d].changes[m] = Deleted => copy[a][m] = Deleted
                 /\ held[d][m] = Deleted => answer'[d].changes[m] \in {Absent, Deleted})
    BY <2>4 DEF AnswerFits, a, p
  <2>6. Deleted # Absent
    BY DEF Deleted, Absent
  <2> QED
    BY <1>7, <1>8, <1>9, <2>1, <2>2, <2>3, <2>5, <2>6
<1>13. DeletedKnown(d)' /\ \A m \in Message : Mirrors(d, m)'
  BY <1>1, <1>3 DEF DeviceOK, DeletedKnown, Mirrors, storeVars, clientVars
<1> QED
  BY <1>10, <1>11, <1>12, <1>13 DEF DeviceOK

LEMMA ParkKeeps ==
    ASSUME HubOK, TypeOK', NEW d \in Device, DeviceOK(d), Park(d)
    PROVE  DeviceOK(d)'
<1>1. UNCHANGED <<storeVars, writerVars, clientVars, at, atBase, from, reset>>
  BY DEF Park
<1>3. DeviceOK(d) /\ heads[Owner[d]] \in Nat
  BY ConstantsOK DEF HubOK, TypeOK
<1>4. stage[d] = "answered" /\ stage'[d] = "called" /\ answer'[d] = NoAnswer /\ ~StartsNow(d)
  BY DEF Park, HubOK, TypeOK
<1>5. PositionsKnown(d)'
  BY <1>1, <1>3, <1>4 DEF DeviceOK, PositionsKnown, NoAnswer, storeVars, clientVars
<1>6. Continues(d, at[d])
  BY <1>3, <1>4 DEF DeviceOK, CallFits
<1>7. CallFits(d)'
  BY <1>1, <1>3, <1>4, <1>6 DEF DeviceOK, CallFits, Continues, NoAnswer, clientVars
<1>8. AnswerFits(d)' /\ DeletedKnown(d)' /\ \A m \in Message : Mirrors(d, m)'
  BY <1>1, <1>3, <1>4 DEF DeviceOK, AnswerFits, DeletedKnown, Mirrors, storeVars, clientVars
<1> QED
  BY <1>5, <1>7, <1>8 DEF DeviceOK

\* A call that ended is as one that never was.
LEMMA HangOK ==
    ASSUME TypeOK, NEW d \in Device, Hang(d), heads' = heads,
           cursor'[d] <= heads[Owner[d]]
    PROVE  PositionsKnown(d)' /\ CallFits(d)' /\ AnswerFits(d)'
<1>1. /\ stage'[d] = "idle" /\ at'[d] = 0 /\ from'[d] = 0 /\ reset'[d] = FALSE
      /\ answer'[d] = NoAnswer /\ heads[Owner[d]] \in Nat
  BY ConstantsOK DEF TypeOK, Hang
<1>2. answer'[d].to = 0 /\ answer'[d].reset = FALSE
  BY <1>1 DEF NoAnswer
<1>3. PositionsKnown(d)'
  BY <1>1, <1>2 DEF PositionsKnown
<1>4. CallFits(d)'
  BY <1>1, <1>2 DEF CallFits
<1>5. AnswerFits(d)'
  BY <1>1 DEF AnswerFits
<1> QED
  BY <1>3, <1>4, <1>5

LEMMA LoseKeeps ==
    ASSUME HubOK, TypeOK', NEW d \in Device, DeviceOK(d), Lose(d)
    PROVE  DeviceOK(d)'
<1>1. UNCHANGED <<storeVars, writerVars, clientVars>> /\ Hang(d)
  BY DEF Lose
<1>3. DeviceOK(d)
  OBVIOUS
<1>4. PositionsKnown(d)' /\ CallFits(d)' /\ AnswerFits(d)'
  BY <1>1, <1>3, HangOK DEF HubOK, DeviceOK, PositionsKnown, storeVars, clientVars
<1>5. DeletedKnown(d)' /\ \A m \in Message : Mirrors(d, m)'
  BY <1>1, <1>3 DEF DeviceOK, DeletedKnown, Mirrors, storeVars, clientVars
<1> QED
  BY <1>4, <1>5 DEF DeviceOK

LEMMA ReinstallKeeps ==
    ASSUME HubOK, TypeOK', NEW d \in Device, DeviceOK(d), Reinstall(d)
    PROVE  DeviceOK(d)'
<1>1. UNCHANGED <<storeVars, writerVars, callVars>> /\ stage[d] = "idle"
  BY DEF Reinstall
<1>3. DeviceOK(d) /\ heads[Owner[d]] \in Nat /\ Owner[d] \in Address
  BY ConstantsOK DEF HubOK, TypeOK
<1>4. cursor'[d] = 0 /\ held'[d] = NoEntries
  BY DEF Reinstall, HubOK, TypeOK
<1>5. PositionsKnown(d)' /\ CallFits(d)' /\ AnswerFits(d)'
  BY <1>1, <1>3, <1>4 DEF DeviceOK, PositionsKnown, CallFits, AnswerFits, storeVars, callVars
<1>6. DeletedKnown(d)'
  BY <1>4 DEF DeletedKnown, NoEntries, Absent, Deleted
<1>7. \A m \in Message : Mirrors(d, m)'
  <2>1. \A m \in Message : log[Owner[d]][m] \in Nat /\ log' = log
    BY <1>1, <1>3 DEF HubOK, TypeOK, Entries, storeVars
  <2> QED
    BY <1>4, <2>1 DEF Mirrors, Absent
<1> QED
  BY <1>5, <1>6, <1>7 DEF DeviceOK

LEMMA DeliverKeeps ==
    ASSUME HubOK, TypeOK', NEW d \in Device, DeviceOK(d), Deliver(d)
    PROVE  DeviceOK(d)'
<1> DEFINE a == Owner[d]
           ans == answer[d]
<1>1. UNCHANGED <<storeVars, writerVars>> /\ Hang(d) /\ stage[d] = "answered"
  BY DEF Deliver
<1>3. DeviceOK(d) /\ a \in Address
  BY ConstantsOK DEF HubOK
<1>4. /\ from[d] \in Nat /\ cursor[d] \in Nat /\ base[d] \in Nat \cup {NoBase}
      /\ atBase[d] \in Nat \cup {NoBase} /\ ans.to \in Nat
      /\ \A m \in Message : log[a][m] \in Nat
  BY <1>3 DEF HubOK, TypeOK, Answers, Entries
<1>5. ans.reset = FALSE /\ ans.base = atBase[d] /\ from[d] <= ans.to /\ Continues(d, from[d])
  BY <1>1, <1>3 DEF DeviceOK, CallFits, AnswerFits
<1>6. /\ cursor'[d] = ans.to /\ base'[d] = ans.base
      /\ \A m \in Message : held'[d][m] = IF ans.changes[m] # Absent THEN ans.changes[m] ELSE held[d][m]
  BY <1>5 DEF Deliver, HubOK, TypeOK
<1>7. PositionsKnown(d)' /\ CallFits(d)' /\ AnswerFits(d)'
  BY <1>1, <1>3, <1>6, HangOK DEF HubOK, DeviceOK, PositionsKnown, storeVars
<1>8. DeletedKnown(d)'
  BY <1>1, <1>3, <1>6 DEF DeviceOK, AnswerFits, DeletedKnown, storeVars
<1>9. ASSUME NEW m \in Message
      PROVE  Mirrors(d, m)'
  <2>1. SUFFICES ASSUME log[a][m] # Absent, ans.base < log[a][m], log[a][m] <= ans.to
                 PROVE  held'[d][m] = copy[a][m]
    BY <1>1, <1>6 DEF Mirrors, storeVars
  <2>2. CASE from[d] < log[a][m]
    <3>1. ans.changes[m] = copy[a][m]
      BY <1>1, <1>3, <2>1, <2>2 DEF DeviceOK, AnswerFits
    <3>2. copy[a][m] # Absent
      BY <1>3, <2>1 DEF HubOK, StoreOK, EveryCopyLogged
    <3> QED
      BY <1>6, <3>1, <3>2
  <2>3. CASE ~(from[d] < log[a][m])
    <3>1. ans.changes[m] = Absent
      BY <1>1, <1>3, <2>1, <2>3 DEF DeviceOK, AnswerFits
    <3>2. from[d] = cursor[d] /\ atBase[d] = base[d]
      BY <1>4, <1>5, <2>1, <2>3 DEF Continues, NoBase
    <3>3. base[d] < log[a][m] /\ log[a][m] <= cursor[d]
      BY <1>4, <1>5, <2>1, <2>3, <3>2
    <3>4. held[d][m] = copy[a][m]
      BY <1>3, <2>1, <3>3 DEF DeviceOK, Mirrors
    <3> QED
      BY <1>6, <3>1, <3>4
  <2> QED
    BY <2>2, <2>3
<1> QED
  BY <1>7, <1>8, <1>9 DEF DeviceOK

-----------------------------------------------------------------------------
(* The theorems.                                                           *)

\* A device's own steps keep it in order.
LEMMA OwnSteps ==
    ASSUME HubOK, NEW d \in Device, DeviceOK(d), Asking(d) \/ Deliver(d) \/ Reinstall(d)
    PROVE  HubOK' /\ DeviceOK(d)'
<1>1. TypeOK'
  BY NextType DEF HubOK, Next
<1>2. HubOK'
  BY <1>1, DeviceAlone, DeviceHub DEF HubOK
<1>3. DeviceOK(d)'
  BY <1>1, CallKeeps, ReadHeadsKeeps, ReadLogKeeps, ParkKeeps, LoseKeeps, DeliverKeeps, ReinstallKeeps
     DEF Asking
<1> QED
  BY <1>2, <1>3

LEMMA NextInv == IInv /\ [Next]_vars => IInv'
<1> SUFFICES ASSUME IInv, [Next]_vars
             PROVE  IInv'
  OBVIOUS
<1>1. TypeOK /\ TypeOK'
  BY NextType DEF IInv, HubOK
<1>2. CASE Storing
  <2>1. HubOK' /\ (\A a \in Address : StoreMoves(a)) /\ UNCHANGED <<clientVars, callVars>>
    BY <1>2, StoringHub DEF IInv
  <2> QED
    BY <1>1, <2>1, DeviceKept, ConstantsOK DEF IInv
<1>3. ASSUME NEW d \in Device, Asking(d) \/ Deliver(d) \/ Reinstall(d)
      PROVE  IInv'
  <2>1. UNCHANGED storeVars /\ \A e \in Device \ {d} : SameDevice(e)
    BY <1>1, <1>3, DeviceAlone
  <2>2. \A e \in Device \ {d} : DeviceOK(e)'
    BY <2>1, OtherDevice DEF IInv
  <2> QED
    BY <1>3, <2>2, OwnSteps DEF IInv
<1>4. CASE UNCHANGED vars
  <2>1. UNCHANGED <<storeVars, writerVars>>
    BY <1>4 DEF vars
  <2>2. HubOK'
    BY <1>1, <2>1, DeviceHub DEF IInv
  <2>3. \A d \in Device : SameDevice(d)
    BY <1>4 DEF vars, clientVars, callVars, SameDevice
  <2> QED
    BY <2>1, <2>2, <2>3, OtherDevice DEF IInv
<1> QED
  BY <1>2, <1>3, <1>4 DEF Next

(* The invariant holds throughout.                                          *)
THEOREM Inductive == Spec => []IInv
BY InitInv, NextInv, PTL DEF Spec

(* No interleaving of transactions, sync calls, losses and sweeps makes a   *)
(* device pass over a change below its cursor.                              *)
THEOREM NothingIsMissed == Spec => []NothingMissed
<1>1. IInv => NothingMissed
  BY DEF IInv, DeviceOK, NothingMissed
<1> QED
  BY <1>1, Inductive, PTL

(* Log numbers are unique, and rows and log entries stay in step.           *)
THEOREM LogsFit == Spec => []LogMatches
<1>1. IInv => LogMatches
  BY DEF IInv, HubOK, StoreOK, LogMatches
<1> QED
  BY <1>1, Inductive, PTL

LEMMA LandsAheadStep == IInv /\ [Next]_vars => [LandsAhead]_vars
<1> SUFFICES ASSUME IInv, [Next]_vars, NEW a \in Address, NEW m \in Message,
                    log'[a][m] \notin {log[a][m], Absent},
                    NEW d \in Device, Owner[d] = a
             PROVE  /\ log'[a][m] > cursor[d]
                    /\ stage[d] = "answered" => log'[a][m] > answer[d].to
                    /\ stage[d] = "called" => log'[a][m] > at[d]
  BY DEF LandsAhead
<1>1. log' # log
  OBVIOUS
<1>2. CASE \E w \in Writer : Commit(w)
  <2>1. heads[a] < log'[a][m]
    BY <1>2, CommitLog DEF IInv
  <2>2. PositionsKnown(d)
    BY DEF IInv, DeviceOK
  <2>3. heads[a] \in Nat /\ cursor[d] \in Nat /\ at[d] \in Nat /\ answer[d].to \in Nat
    BY DEF IInv, HubOK, TypeOK, Answers
  <2>4. log'[a][m] \in Nat
    BY NextType DEF IInv, HubOK, TypeOK, Entries
  <2> QED
    BY <2>1, <2>2, <2>3, <2>4 DEF PositionsKnown
<1>3. CASE \E ms \in SUBSET Message : Expire(ms)
  BY <1>3 DEF Expire
<1>4. ASSUME ~\E w \in Writer : Commit(w), ~\E ms \in SUBSET Message : Expire(ms)
      PROVE  log' = log
  <2>1. ASSUME NEW w \in Writer, Write(w) \/ Rollback(w) \/ \E b \in Address : Draw(w, b)
        PROVE  log' = log
    BY <2>1 DEF Write, Send, Receipts, Settle, DeleteCopies, Open, Draw, Rollback, storeVars
  <2>2. ASSUME NEW e \in Device, Asking(e) \/ Deliver(e) \/ Reinstall(e)
        PROVE  log' = log
    BY <2>2 DEF Asking, Call, CallFromNow, ReadHeads, StartOver, ReadLog, Park, Lose, Deliver, Reinstall, storeVars
  <2>3. CASE UNCHANGED vars
    BY <2>3 DEF vars, storeVars
  <2> QED
    BY <1>4, <2>1, <2>2, <2>3 DEF Next, Storing, Finish
<1> QED
  BY <1>1, <1>2, <1>3, <1>4

(* What commits lands beyond every position handed out, for any number of   *)
(* transactions and devices.                                                *)
THEOREM LandingAhead == Spec => ChangesLandAhead
BY LandsAheadStep, Inductive, PTL DEF Spec, ChangesLandAhead

LEMMA ForwardStep == IInv /\ [Next]_vars => [Forward]_vars
<1> SUFFICES ASSUME IInv, [Next]_vars, NEW d \in Device
             PROVE  \/ /\ cursor'[d] >= cursor[d]
                       /\ \A m \in Message : held[d][m] = Deleted => held'[d][m] = Deleted
                    \/ cursor'[d] = 0 /\ held'[d] = NoEntries
  BY DEF Forward
<1>0. cursor[d] \in Nat /\ from[d] \in Nat /\ answer[d].to \in Nat /\ DeviceOK(d)
  BY DEF IInv, HubOK, TypeOK, Answers
<1>1. CASE Deliver(d)
  <2>1. /\ answer[d].reset = FALSE /\ from[d] <= answer[d].to /\ Continues(d, from[d])
        /\ \A m \in Message : held[d][m] = Deleted => answer[d].changes[m] \in {Absent, Deleted}
    BY <1>0, <1>1 DEF Deliver, DeviceOK, CallFits, AnswerFits
  <2>2. /\ cursor'[d] = answer[d].to
        /\ \A m \in Message : held'[d][m] = IF answer[d].changes[m] # Absent
                                              THEN answer[d].changes[m] ELSE held[d][m]
    BY <1>1, <2>1 DEF Deliver, IInv, HubOK, TypeOK
  <2>3. answer[d].to >= cursor[d]
    BY <1>0, <2>1 DEF Continues
  <2> QED
    BY <2>1, <2>2, <2>3
<1>2. CASE Reinstall(d)
  BY <1>2 DEF Reinstall, IInv, HubOK, TypeOK
<1>3. ASSUME cursor'[d] = cursor[d], held'[d] = held[d]
      PROVE  cursor'[d] >= cursor[d] /\ \A m \in Message : held[d][m] = Deleted => held'[d][m] = Deleted
  BY <1>0, <1>3
<1>4. ASSUME ~Deliver(d), ~Reinstall(d)
      PROVE  cursor'[d] = cursor[d] /\ held'[d] = held[d]
  <2>1. CASE Storing
    BY <2>1 DEF Storing, Write, Finish, Send, Receipts, Settle, DeleteCopies, Open, Draw, Commit,
                Rollback, Expire, clientVars
  <2>2. ASSUME NEW e \in Device, Asking(e)
        PROVE  cursor' = cursor /\ held' = held
    BY <2>2 DEF Asking, Call, CallFromNow, ReadHeads, StartOver, ReadLog, Park, Lose, clientVars
  <2>3. ASSUME NEW e \in Device, e # d, Deliver(e) \/ Reinstall(e)
        PROVE  cursor'[d] = cursor[d] /\ held'[d] = held[d]
    BY <2>3 DEF Deliver, Reinstall, IInv, HubOK, TypeOK
  <2>4. CASE UNCHANGED vars
    BY <2>4 DEF vars, clientVars
  <2> QED
    BY <1>4, <2>1, <2>2, <2>3, <2>4 DEF Next
<1> QED
  BY <1>1, <1>2, <1>3, <1>4

(* No device's cursor or its deletions go back.                             *)
THEOREM GoingForward == Spec => DevicesGoForward
BY ForwardStep, Inductive, PTL DEF Spec, DevicesGoForward

-----------------------------------------------------------------------------
(* Waiting for head rows.                                                  *)

\* A transaction has still to draw only beyond the head rows it holds.
InOrder ==
    \A w \in Writer : \A b \in Address : headLock[b] = w => \A c \in Undrawn(w) : b < c

LEMMA UndrawnAddress ==
    ASSUME TypeOK, NEW w \in Writer
    PROVE  Undrawn(w) \subseteq Address /\ Address \subseteq Nat /\ NoWriter \notin Writer
BY ConstantsOK DEF Undrawn

\* The greatest of some addresses.
LEMMA Greatest ==
    ASSUME NEW S \in SUBSET Address, S # {}
    PROVE  \E b \in S : \A a \in S : a <= b
<1> DEFINE Over(b) == {a \in S : b < a}
           T == {Over(b) : b \in S}
<1>1. IsFiniteSet(S) /\ S \subseteq Nat
  BY ConstantsOK, FS_Subset
<1>2. IsWellFoundedOn(StrictSubsetOrdering(S), SUBSET S)
  BY <1>1, FS_FiniteSubsetsOfFinite, FS_StrictSubsetOrderingWellFounded
<1>3. T \subseteq SUBSET S /\ T # {}
  OBVIOUS
<1>4. PICK x \in T : \A y \in T : <<y, x>> \notin StrictSubsetOrdering(S)
  <2> HIDE DEF T
  <2> QED
    BY <1>2, <1>3, WFMin
<1>5. PICK b \in S : x = Over(b)
  OBVIOUS
<1>6. ASSUME NEW a \in S, b < a PROVE FALSE
  <2>1. Over(a) \in T
    OBVIOUS
  <2>2. \A c \in S : c \in Nat
    BY <1>1
  <2>3. Over(a) \subseteq Over(b) /\ a \in Over(b) /\ a \notin Over(a)
    BY <1>6, <2>2
  <2>4. <<Over(a), Over(b)>> \in StrictSubsetOrdering(S)
    BY <2>3 DEF StrictSubsetOrdering
  <2> QED
    BY <1>4, <1>5, <2>1, <2>4
<1> QED
  BY <1>1, <1>6

\* Of transactions that wait, the one that holds the greatest head row waits
\* for none of them.
LEMMA OrderBreaksCircles ==
    ASSUME TypeOK, InOrder
    PROVE  NoCircle
<1> SUFFICES ASSUME NEW ws \in (SUBSET Writer) \ {{}}
             PROVE  \E w \in ws : \A v \in ws : ~WaitsFor(w, v)
  BY DEF NoCircle
<1> DEFINE S == {a \in Address : headLock[a] \in ws}
<1>1. CASE S = {}
  <2>1. \A w, v \in ws : ~WaitsFor(w, v)
    BY <1>1, UndrawnAddress DEF WaitsFor
  <2>2. PICK w \in ws : TRUE
    OBVIOUS
  <2> QED
    BY <2>1, <2>2
<1>2. CASE S # {}
  <2>1. PICK b \in S : \A a \in S : a <= b
    BY <1>2, Greatest
  <2>2. headLock[b] \in ws /\ headLock[b] \in Writer /\ headLock[b] # NoWriter
    BY UndrawnAddress
  <2>3. ASSUME NEW v \in ws, WaitsFor(headLock[b], v) PROVE FALSE
    <3>1. PICK a \in Undrawn(headLock[b]) : headLock[a] = v
      BY <2>3 DEF WaitsFor
    <3>2. a \in Address /\ Address \subseteq Nat
      BY <2>2, UndrawnAddress
    <3>3. a <= b
      BY <2>1, <3>1, <3>2
    <3>4. b < a
      BY <2>2, <3>1 DEF InOrder
    <3> QED
      BY <3>2, <3>3, <3>4
  <2> QED
    BY <2>2, <2>3
<1> QED
  BY <1>1, <1>2

LEMMA DrawInOrder ==
    ASSUME IInv, InOrder, NEW w \in Writer, NEW a \in Address, Draw(w, a)
    PROVE  InOrder'
<1>1. headLock \in [Address -> Writer \cup {NoWriter}] /\ Address \subseteq Nat /\ NoWriter \notin Writer
  BY ConstantsOK DEF IInv, HubOK, TypeOK
<1>2. headLock'[a] = w /\ (\A c \in Address \ {a} : headLock'[c] = headLock[c]) /\ edits' = edits /\ headLock[a] = NoWriter
  BY <1>1 DEF Draw
<1>3. \A v \in Writer : Undrawn(v)' = {c \in Undrawn(v) : ~(v = w /\ c = a)}
  BY <1>1, <1>2 DEF Undrawn, Changed
<1>4. \A c \in Undrawn(w) : a <= c
  BY DEF Draw, Turn
<1> SUFFICES ASSUME NEW v \in Writer, NEW b \in Address, headLock'[b] = v, NEW c \in Undrawn(v)'
             PROVE  b < c
  BY DEF InOrder
<1>5. c \in Address /\ c \in Undrawn(v) /\ ~(v = w /\ c = a)
  BY <1>3 DEF Undrawn
<1>6. CASE b = a
  BY <1>1, <1>2, <1>4, <1>5, <1>6
<1>7. CASE b # a
  BY <1>2, <1>5, <1>7 DEF InOrder
<1> QED
  BY <1>6, <1>7

LEMMA ReleaseInOrder ==
    ASSUME IInv, InOrder, NEW w \in Writer, Release(w)
    PROVE  InOrder'
<1>1. headLock \in [Address -> Writer \cup {NoWriter}] /\ NoWriter \notin Writer /\ edits \in [Writer -> SUBSET (Address \X Message)]
  BY ConstantsOK DEF IInv, HubOK, TypeOK
<1>2. \A c \in Address : headLock'[c] = IF headLock[c] = w THEN NoWriter ELSE headLock[c]
  BY DEF Release
<1>3. \A v \in Writer \ {w} : edits'[v] = edits[v]
  BY <1>1 DEF Release
<1>4. \A v \in Writer \ {w} : Undrawn(v)' = Undrawn(v)
  BY <1>1, <1>2, <1>3 DEF Undrawn, Changed
<1> SUFFICES ASSUME NEW v \in Writer, NEW a \in Address, headLock'[a] = v
             PROVE  \A c \in Undrawn(v)' : a < c
  BY DEF InOrder
<1>5. headLock[a] = v /\ v # w
  BY <1>1, <1>2
<1> QED
  BY <1>4, <1>5 DEF InOrder

LEMMA OpenInOrder ==
    ASSUME IInv, InOrder, NEW w \in Writer, NEW cs, NEW b, Open(w, cs, b)
    PROVE  InOrder'
<1>1. headLock' = headLock /\ headLock \in [Address -> Writer \cup {NoWriter}] /\ edits \in [Writer -> SUBSET (Address \X Message)]
  BY DEF Open, IInv, HubOK, TypeOK
<1>2. \A a \in Address : headLock[a] # w
  BY ConstantsOK DEF IInv, HubOK, DrawnAhead, Open, Changed
<1>3. \A v \in Writer \ {w} : edits'[v] = edits[v]
  BY <1>1 DEF Open
<1>4. \A v \in Writer \ {w} : Undrawn(v)' = Undrawn(v)
  BY <1>1, <1>3 DEF Undrawn, Changed
<1> SUFFICES ASSUME NEW v \in Writer, NEW a \in Address, headLock'[a] = v
             PROVE  \A c \in Undrawn(v)' : a < c
  BY DEF InOrder
<1>5. headLock[a] = v /\ v # w
  BY <1>1, <1>2
<1> QED
  BY <1>4, <1>5 DEF InOrder

LEMMA OrderStep ==
    ASSUME IInv, InOrder, [Next]_vars
    PROVE  InOrder'
<1>1. CASE edits' = edits /\ headLock' = headLock
  BY <1>1 DEF InOrder, Undrawn, Changed
<1>2. ASSUME NEW w \in Writer, Write(w) PROVE InOrder'
  <2>1. \E cs, b : Open(w, cs, b)
    BY <1>2 DEF Write, Send, Receipts, Settle, DeleteCopies
  <2> QED
    BY <2>1, OpenInOrder
<1>3. ASSUME NEW w \in Writer, Finish(w) \/ Rollback(w) PROVE InOrder'
  BY <1>3, DrawInOrder, ReleaseInOrder DEF Finish, Commit, Rollback
<1>4. ASSUME NEW ms \in SUBSET Message, Expire(ms) PROVE InOrder'
  BY <1>1, <1>4 DEF Expire, writerVars
<1>5. ASSUME NEW d \in Device, Asking(d) \/ Deliver(d) \/ Reinstall(d) PROVE InOrder'
  BY <1>1, <1>5 DEF Asking, Call, CallFromNow, ReadHeads, ReadLog, Park, Lose, Deliver, Reinstall, writerVars
<1>6. CASE UNCHANGED vars
  BY <1>1, <1>6 DEF vars, writerVars
<1> QED
  BY <1>2, <1>3, <1>4, <1>5, <1>6 DEF Next, Storing

(* Writers never wait for one another in a circle: the head rows are taken *)
(* in slug order, so who holds the greatest of them waits for none of      *)
(* those that wait (ChangeLog's NoCircle).                                 *)
THEOREM NobodyWaitsInACircle == Spec => []NoCircle
<1>1. Init => InOrder
  BY ConstantsOK DEF Init, InOrder
<1>2. IInv /\ InOrder /\ [Next]_vars => InOrder'
  BY OrderStep
<1>3. IInv /\ InOrder => NoCircle
  BY OrderBreaksCircles DEF IInv, HubOK
<1> QED
  BY <1>1, <1>2, <1>3, Inductive, PTL DEF Spec

-----------------------------------------------------------------------------
(* A hub restored from a backup.  What the store's part of the invariant    *)
(* says is true of a backup too; what a device holds of the lost history is *)
(* known only once it started over, but the calls the restored hub answers  *)
(* are in order whatever the device holds.                                  *)

OnlySent == \A a \in Address, m \in Message : copy[a][m] # Absent => m \in sent

\* The store's part of the invariant, of any store.
StoreFits(h, l, c, s) ==
    /\ h \in [Address -> Nat] /\ l \in [Address -> Entries]
    /\ c \in [Address -> Contents] /\ s \in SUBSET Message
    /\ \A a \in Address : \A m, k \in Message : m # k /\ l[a][m] # Absent => l[a][m] # l[a][k]
    /\ \A a \in Address, m \in Message :
         /\ (l[a][m] # Absent) <=> (c[a][m] # Absent)
         /\ l[a][m] <= h[a]
         /\ c[a][m] # Absent => m \in s

\* A restore that is still to come brings back a store in order.
BackupFits == restores = MaxRestores \/ StoreFits(backup[1], backup[2], backup[3], backup[4])

\* A call as the hub answers it, whatever the device holds: a reset one goes
\* from nothing, or from the head it took as its base.
CallKnown(d) ==
    LET a == Owner[d]
        ans == answer[d] IN
    /\ stage[d] = "idle" => at[d] = 0 /\ from[d] = 0 /\ reset[d] = FALSE /\ ans = NoAnswer
    /\ stage[d] \in {"checked", "answered"} =>
         /\ from[d] <= heads[a]
         /\ reset[d] => (IF atBase[d] = NoBase THEN from[d] = 0 ELSE atBase[d] = from[d])
    /\ stage[d] = "answered" =>
         /\ ans.reset = reset[d] /\ ans.base = atBase[d]
         /\ ans.to <= heads[a]
         /\ \A m \in Message :
              /\ from[d] < log[a][m] /\ log[a][m] <= ans.to => ans.changes[m] = copy[a][m]
              /\ ans.changes[m] # Absent => m \in sent
              /\ ans.changes[m] = Deleted => copy[a][m] = Deleted

HeldSent(d) == \A m \in Message : held[d][m] # Absent => m \in sent

RInv ==
    /\ HubOK /\ OnlySent /\ BackupFits
    /\ since \in [Device -> {"not yet", "merged", "started over"}]
    /\ \A d \in Device :
         /\ CallKnown(d)
         /\ since[d] = "started over" => DeviceOK(d) /\ HeldSent(d)

LEMMA StoreIsFit ==
    ASSUME TypeOK
    PROVE  StoreFits(heads, log, copy, sent) <=> StoreOK /\ OnlySent
BY DEF TypeOK, StoreFits, StoreOK, OnlySent, SeqUnique, EveryCopyLogged, Published

LEMMA InitRInv == RInit => RInv
<1> SUFFICES ASSUME RInit PROVE RInv
  OBVIOUS
<1>1. IInv
  BY InitInv DEF RInit
<1>2. OnlySent /\ (\A d \in Device : CallKnown(d) /\ HeldSent(d))
  BY DEF RInit, Init, OnlySent, CallKnown, HeldSent, NoEntries
<1>3. backup = <<heads, log, copy, sent>>
  BY DEF RInit, storeVars
<1>4. BackupFits
  BY <1>1, <1>2, <1>3, StoreIsFit DEF BackupFits, IInv, HubOK
<1> QED
  BY <1>1, <1>2, <1>4 DEF RInv, IInv, RInit

\* The writers' steps only add to what was sent, and copies are of that.
LEMMA StoringSent ==
    ASSUME HubOK, OnlySent, Storing
    PROVE  OnlySent' /\ sent \subseteq sent'
<1>1. ASSUME NEW w \in Writer, Commit(w)
      PROVE  OnlySent' /\ sent \subseteq sent'
  <2>1. sent' = sent \cup {m \in Message : \E a \in Address : <<a, m>> \in edits[w]}
    BY <1>1 DEF Commit
  <2>2. \A a \in Address, m \in Message :
          m \in Changed(w, a) \/ copy'[a][m] = copy[a][m]
    BY <1>1, CommitLog
  <2> QED
    BY <2>1, <2>2 DEF OnlySent, Changed
<1>2. ASSUME NEW ms \in SUBSET Message, Expire(ms)
      PROVE  OnlySent' /\ sent \subseteq sent'
  BY <1>2 DEF Expire, OnlySent
<1>3. ASSUME NEW w \in Writer, Write(w) \/ (\E a \in Address : Draw(w, a)) \/ Rollback(w)
      PROVE  OnlySent' /\ sent \subseteq sent'
  <2>1. UNCHANGED storeVars
    BY <1>3 DEF Write, Send, Receipts, Settle, DeleteCopies, Open, Draw, Rollback
  <2> QED
    BY <2>1 DEF storeVars, OnlySent
<1> QED
  BY <1>1, <1>2, <1>3 DEF Storing, Finish

\* A call stays in order while logs move.
LEMMA CallStaysKnown ==
    ASSUME TypeOK, TypeOK', NEW d \in Device, CallKnown(d), StoreMoves(Owner[d]),
           sent \subseteq sent', SameDevice(d)
    PROVE  CallKnown(d)'
<1> DEFINE a == Owner[d]
<1>1. a \in Address
  BY ConstantsOK
<1>2. /\ heads[a] \in Nat /\ heads'[a] \in Nat /\ from[d] \in Nat /\ answer[d].to \in Nat
      /\ \A m \in Message : log[a][m] \in Nat /\ log'[a][m] \in Nat
  BY <1>1 DEF TypeOK, Entries, Answers
<1>5. stage[d] = "idle" => at[d] = 0 /\ from[d] = 0 /\ reset[d] = FALSE /\ answer[d] = NoAnswer
  BY DEF CallKnown
<1>3. stage[d] \in {"checked", "answered"} =>
        /\ from[d] <= heads'[a]
        /\ reset[d] => (IF atBase[d] = NoBase THEN from[d] = 0 ELSE atBase[d] = from[d])
  BY <1>2 DEF CallKnown, StoreMoves
<1>4. stage[d] = "answered" =>
        /\ answer[d].reset = reset[d] /\ answer[d].base = atBase[d]
        /\ answer[d].to <= heads'[a]
        /\ \A m \in Message :
             /\ from[d] < log'[a][m] /\ log'[a][m] <= answer[d].to => answer[d].changes[m] = copy'[a][m]
             /\ answer[d].changes[m] # Absent => m \in sent'
             /\ answer[d].changes[m] = Deleted => copy'[a][m] = Deleted
  BY <1>2 DEF CallKnown, StoreMoves, Absent
<1> QED
  BY <1>3, <1>4, <1>5 DEF CallKnown, SameDevice

\* The hub reads its head: a call that goes on does so at or below it.
LEMMA ReadHeadsKnown ==
    ASSUME TypeOK, NEW d \in Device, ReadHeads(d)
    PROVE  CallKnown(d)'
<1> DEFINE head == heads[Owner[d]]
<1>1. head \in Nat /\ at[d] \in Nat /\ heads' = heads
  BY ConstantsOK DEF TypeOK, ReadHeads, storeVars
<1>2. /\ stage'[d] = "checked" /\ (reset'[d] => at[d] > head)
      /\ from'[d] = IF at[d] > head THEN StartOver(d, head) ELSE at[d]
      /\ atBase'[d] = IF at[d] > head /\ atBase[d] # NoBase THEN head ELSE atBase[d]
  BY DEF ReadHeads, StartOver, TypeOK
<1>3. StartOver(d, head) = IF atBase[d] = NoBase THEN 0 ELSE head
  BY DEF StartOver
<1>4. from'[d] <= head
  BY <1>1, <1>2, <1>3
<1>5. reset'[d] => (IF atBase'[d] = NoBase THEN from'[d] = 0 ELSE atBase'[d] = from'[d])
  <2>1. SUFFICES ASSUME at[d] > head
                 PROVE  IF atBase'[d] = NoBase THEN from'[d] = 0 ELSE atBase'[d] = from'[d]
    BY <1>2
  <2>2. CASE atBase[d] = NoBase
    BY <1>2, <1>3, <2>1, <2>2
  <2>3. CASE atBase[d] # NoBase
    BY <1>1, <1>2, <1>3, <2>1, <2>3 DEF NoBase
  <2> QED
    BY <2>2, <2>3
<1>6. stage'[d] = "checked" /\ heads'[Owner[d]] = head
  BY <1>1, <1>2
<1> QED
  BY <1>4, <1>5, <1>6 DEF CallKnown

LEMMA ReadLogKnown ==
    ASSUME TypeOK, StoreOK, OnlySent, NEW d \in Device, CallKnown(d), ReadLog(d)
    PROVE  CallKnown(d)'
<1> DEFINE a == Owner[d]
           p == from[d]
<1>1. UNCHANGED <<heads, log, copy, sent, atBase, from, reset>> /\ stage[d] = "checked"
  BY DEF ReadLog, storeVars
<1>2. a \in Address /\ p \in Nat /\ heads[a] \in Nat
  BY ConstantsOK DEF TypeOK
<1>3. PICK page \in SUBSET Above(a, p) :
        /\ IsPage(page, a, p)
        /\ \E to \in {p} \cup {log[a][m] : m \in page} :
             /\ \A m \in page : log[a][m] <= to
             /\ answer' = [answer EXCEPT ![d] =
                  [to |-> to, base |-> atBase[d], reset |-> reset[d],
                   changes |-> [m \in Message |-> IF m \in page THEN copy[a][m] ELSE Absent]]]
  BY DEF ReadLog
<1>4. PICK to \in {p} \cup {log[a][m] : m \in page} :
             /\ \A m \in page : log[a][m] <= to
             /\ answer' = [answer EXCEPT ![d] =
                  [to |-> to, base |-> atBase[d], reset |-> reset[d],
                   changes |-> [m \in Message |-> IF m \in page THEN copy[a][m] ELSE Absent]]]
  BY <1>3
<1>5. /\ answer'[d].to = to /\ answer'[d].base = atBase[d] /\ answer'[d].reset = reset[d]
      /\ \A m \in Message : answer'[d].changes[m] = IF m \in page THEN copy[a][m] ELSE Absent
      /\ stage'[d] = "answered"
  BY <1>4 DEF ReadLog, TypeOK
<1>6. \A m \in page : m \in Message /\ log[a][m] <= heads[a] /\ copy[a][m] # Absent
  <2>1. \A m \in page : m \in Message /\ log[a][m] # Absent
    BY <1>2 DEF Above, TypeOK, Entries, Absent
  <2> QED
    BY <1>2, <2>1 DEF StoreOK, Published, EveryCopyLogged
<1>7. p <= heads[a]
  BY <1>1 DEF CallKnown
<1>8. to <= heads[a]
  BY <1>6, <1>7
<1>9. \A m \in Message : p < log[a][m] /\ log[a][m] <= to => m \in page
  BY <1>2, <1>3, PageComplete DEF StoreOK
<1>10. \A m \in Message : m \in page => m \in sent
  BY <1>2, <1>6 DEF OnlySent
<1>11. /\ p <= heads[a]
       /\ reset[d] => (IF atBase[d] = NoBase THEN p = 0 ELSE atBase[d] = p)
  BY <1>1 DEF CallKnown
<1>12. \A m \in Message :
         /\ p < log[a][m] /\ log[a][m] <= to => answer'[d].changes[m] = copy[a][m]
         /\ answer'[d].changes[m] # Absent => m \in sent
         /\ answer'[d].changes[m] = Deleted => copy[a][m] = Deleted
  BY <1>5, <1>9, <1>10 DEF Deleted, Absent
<1> HIDE DEF a, p
<1> QED
  BY <1>1, <1>5, <1>8, <1>11, <1>12 DEF CallKnown, a, p

\* A device's own step leaves the hub's answers in order.
LEMMA OwnCallKnown ==
    ASSUME HubOK, OnlySent, NEW d \in Device, CallKnown(d),
           Asking(d) \/ Deliver(d) \/ Reinstall(d)
    PROVE  CallKnown(d)'
<1>1. CASE ReadHeads(d)
  BY <1>1, ReadHeadsKnown DEF HubOK
<1>2. CASE ReadLog(d)
  BY <1>2, ReadLogKnown DEF HubOK
<1>3. CASE Call(d) \/ CallFromNow(d) \/ Park(d)
  <2>1. stage'[d] = "called"
    BY <1>3 DEF Call, CallFromNow, Park, HubOK, TypeOK
  <2> QED
    BY <2>1 DEF CallKnown
<1>4. CASE Lose(d) \/ Deliver(d)
  <2>1. Hang(d)
    BY <1>4 DEF Lose, Deliver
  <2>2. stage'[d] = "idle" /\ at'[d] = 0 /\ from'[d] = 0 /\ reset'[d] = FALSE /\ answer'[d] = NoAnswer
    BY <2>1 DEF Hang, HubOK, TypeOK
  <2> QED
    BY <2>2 DEF CallKnown
<1>5. CASE Reinstall(d)
  BY <1>5 DEF Reinstall, CallKnown, callVars
<1> QED
  BY <1>1, <1>2, <1>3, <1>4, <1>5 DEF Asking

\* A reset answer makes the device what the hub has.
LEMMA ResetDelivered ==
    ASSUME HubOK, NEW d \in Device, CallKnown(d), Deliver(d), answer[d].reset
    PROVE  DeviceOK(d)' /\ HeldSent(d)'
<1> DEFINE a == Owner[d]
           ans == answer[d]
<1>1. UNCHANGED <<heads, log, copy, sent>> /\ Hang(d) /\ stage[d] = "answered"
  BY DEF Deliver, storeVars
<1>2. /\ a \in Address /\ from[d] \in Nat /\ ans.to \in Nat
      /\ \A m \in Message : log[a][m] \in Nat
  <2>1. a \in Address /\ ans \in Answers /\ log \in [Address -> Entries]
    BY ConstantsOK DEF HubOK, TypeOK
  <2> QED
    BY <2>1 DEF HubOK, TypeOK, Answers, Entries
<1>3. /\ cursor'[d] = ans.to /\ base'[d] = ans.base
      /\ \A m \in Message : held'[d][m] = ans.changes[m]
  BY DEF Deliver, HubOK, TypeOK
<1>4. /\ ans.base = atBase[d] /\ ans.to <= heads[a]
      /\ IF atBase[d] = NoBase THEN from[d] = 0 ELSE atBase[d] = from[d]
      /\ \A m \in Message :
           /\ from[d] < log[a][m] /\ log[a][m] <= ans.to => ans.changes[m] = copy[a][m]
           /\ ans.changes[m] # Absent => m \in sent
           /\ ans.changes[m] = Deleted => copy[a][m] = Deleted
  BY <1>1 DEF CallKnown
<1>5. PositionsKnown(d)' /\ CallFits(d)' /\ AnswerFits(d)'
  BY <1>1, <1>3, <1>4, HangOK DEF HubOK
<1>6. DeletedKnown(d)' /\ HeldSent(d)'
  BY <1>1, <1>3, <1>4 DEF DeletedKnown, HeldSent
<1>7. ASSUME NEW m \in Message
      PROVE  Mirrors(d, m)'
  <2>1. log[a][m] # Absent /\ ans.base < log[a][m] => from[d] < log[a][m]
    BY <1>2, <1>4 DEF Absent
  <2> QED
    BY <1>1, <1>3, <1>4, <2>1 DEF Mirrors
<1> QED
  BY <1>5, <1>6, <1>7 DEF DeviceOK

\* What a device holds stays among what was sent.
LEMMA OwnHeldSent ==
    ASSUME HubOK, NEW d \in Device, CallKnown(d), HeldSent(d),
           Asking(d) \/ Deliver(d) \/ Reinstall(d)
    PROVE  HeldSent(d)'
<1>1. CASE Deliver(d)
  <2>1. \A m \in Message : \/ held'[d][m] = answer[d].changes[m]
                           \/ held'[d][m] = Absent \/ held'[d][m] = held[d][m]
    BY <1>1 DEF Deliver, HubOK, TypeOK
  <2>2. stage[d] = "answered" /\ sent' = sent
    BY <1>1 DEF Deliver, storeVars
  <2> QED
    BY <2>1, <2>2 DEF CallKnown, HeldSent
<1>2. CASE Reinstall(d)
  BY <1>2 DEF Reinstall, HeldSent, NoEntries, HubOK, TypeOK
<1>3. CASE Asking(d)
  BY <1>3 DEF Asking, Call, CallFromNow, ReadHeads, StartOver, ReadLog, Park, Lose, HeldSent,
              storeVars, clientVars
<1> QED
  BY <1>1, <1>2, <1>3

\* A re-created store is one of nothing.
LEMMA StartsOver ==
    ASSUME HubOK', NEW d \in Device, cursor'[d] = 0, held'[d] = NoEntries,
           stage'[d] = "idle", at'[d] = 0, from'[d] = 0, reset'[d] = FALSE, answer'[d] = NoAnswer
    PROVE  DeviceOK(d)' /\ HeldSent(d)'
<1>1. heads'[Owner[d]] \in Nat /\ \A m \in Message : log'[Owner[d]][m] \in Nat
  <2>1. Owner[d] \in Address /\ TypeOK'
    BY ConstantsOK DEF HubOK
  <2> QED
    BY <2>1 DEF TypeOK, Entries
<1>2. PositionsKnown(d)' /\ CallFits(d)' /\ AnswerFits(d)'
  BY <1>1 DEF PositionsKnown, CallFits, AnswerFits, NoAnswer
<1>3. DeletedKnown(d)' /\ HeldSent(d)'
  BY DEF DeletedKnown, HeldSent, NoEntries, Absent, Deleted
<1>4. \A m \in Message : Mirrors(d, m)'
  BY <1>1 DEF Mirrors, Absent
<1> QED
  BY <1>2, <1>3, <1>4 DEF DeviceOK

\* The hub comes back with its backup.
LEMMA RestoreInv ==
    ASSUME RInv, Restore
    PROVE  RInv'
<1>1. StoreFits(backup[1], backup[2], backup[3], backup[4])
  <2>1. restores # MaxRestores
    <3>1. restores < MaxRestores
      BY DEF Restore
    <3>2. ~(MaxRestores < MaxRestores)
      BY RestoresOK
    <3> QED
      BY <3>1, <3>2
  <2> QED
    BY <2>1 DEF RInv, BackupFits
<1>2. StoreFits(heads', log', copy', sent')
  BY <1>1 DEF Restore, StoreFits
<1>3. TypeOK'
  <2>1. UNCHANGED clientVars /\ TypeOK
    BY DEF Restore, RInv, HubOK
  <2>2. cursor' \in [Device -> Nat] /\ base' \in [Device -> Nat \cup {NoBase}] /\ held' \in [Device -> Contents]
    BY <2>1 DEF TypeOK, clientVars
  <2>3. /\ heads' \in [Address -> Nat] /\ log' \in [Address -> Entries]
        /\ copy' \in [Address -> Contents] /\ sent' \in SUBSET Message
    BY <1>2 DEF StoreFits
  <2>4. NoEntries \in Entries /\ NoEntries \in Contents /\ NoAnswer \in Answers
    BY DEF NoEntries, NoAnswer, Entries, Contents, Answers, Version, Absent, NoBase
  <2>5. /\ edits' \in [Writer -> SUBSET (Address \X Message)] /\ erase' \in [Writer -> BOOLEAN]
        /\ headLock' \in [Address -> Writer \cup {NoWriter}]
        /\ pending' \in [Address -> Entries] /\ newHead' \in [Address -> Nat]
    BY <2>4 DEF Restore
  <2>6. /\ stage' \in [Device -> {"idle", "called", "checked", "answered"}]
        /\ at' \in [Device -> Nat] /\ atBase' \in [Device -> Nat \cup {NoBase}]
        /\ from' \in [Device -> Nat] /\ reset' \in [Device -> BOOLEAN] /\ answer' \in [Device -> Answers]
    BY <2>4 DEF Restore
  <2> QED
    BY <2>2, <2>3, <2>5, <2>6 DEF TypeOK
<1>4. StoreOK' /\ OnlySent'
  BY <1>2 DEF StoreFits, StoreOK, OnlySent, SeqUnique, EveryCopyLogged, Published
<1>5. HubOK'
  BY <1>3, <1>4 DEF HubOK, DrawnAhead, Restore
<1>6. BackupFits'
  BY <1>1 DEF BackupFits, Restore
<1>7. ASSUME NEW d \in Device
      PROVE  CallKnown(d)' /\ (since'[d] = "started over" => DeviceOK(d)' /\ HeldSent(d)')
  <2>1. /\ stage'[d] = "idle" /\ at'[d] = 0 /\ from'[d] = 0 /\ reset'[d] = FALSE /\ answer'[d] = NoAnswer
        /\ cursor' = cursor /\ held' = held
    BY DEF Restore, clientVars
  <2>2. CallKnown(d)'
    BY <2>1 DEF CallKnown
  <2>3. since'[d] = "started over" => cursor[d] = 0 /\ held[d] = NoEntries
    BY DEF Restore
  <2> QED
    BY <1>5, <2>1, <2>2, <2>3, StartsOver
<1>8. since' \in [Device -> {"not yet", "merged", "started over"}]
  BY DEF Restore
<1> QED
  BY <1>4, <1>5, <1>6, <1>7, <1>8 DEF RInv

LEMMA StoringRInv ==
    ASSUME RInv, Storing, Quiet
    PROVE  RInv'
<1>1. /\ HubOK' /\ (\A a \in Address : StoreMoves(a)) /\ UNCHANGED <<clientVars, callVars>>
      /\ OnlySent' /\ sent \subseteq sent'
  BY StoringHub, StoringSent DEF RInv
<1>2. BackupFits' /\ since' = since
  BY DEF RInv, BackupFits, Quiet
<1>3. ASSUME NEW d \in Device
      PROVE  CallKnown(d)' /\ (since[d] = "started over" => DeviceOK(d)' /\ HeldSent(d)')
  <2>1. Owner[d] \in Address /\ TypeOK /\ TypeOK'
    BY <1>1, ConstantsOK DEF RInv, HubOK
  <2>2. SameDevice(d)
    BY <1>1 DEF SameDevice, clientVars, callVars
  <2>3. CallKnown(d)'
    BY <1>1, <2>1, <2>2, CallStaysKnown DEF RInv
  <2>4. since[d] = "started over" => DeviceOK(d)'
    BY <1>1, <2>1, DeviceKept DEF RInv
  <2>5. since[d] = "started over" => HeldSent(d)'
    BY <1>1, <2>2 DEF RInv, HeldSent, SameDevice
  <2> QED
    BY <2>3, <2>4, <2>5
<1> QED
  BY <1>1, <1>2, <1>3 DEF RInv

\* A step of a device that does not count as a restart.
LEMMA DeviceRInv ==
    ASSUME RInv, NEW d \in Device, Asking(d) \/ Deliver(d) \/ Reinstall(d),
           UNCHANGED <<backup, restores>>,
           since' \in [Device -> {"not yet", "merged", "started over"}],
           \A e \in Device \ {d} : since'[e] = since[e],
           since'[d] = "started over" => DeviceOK(d)' /\ HeldSent(d)'
    PROVE  RInv'
<1>1. HubOK /\ OnlySent /\ TypeOK
  BY DEF RInv, HubOK
<1>2. UNCHANGED <<storeVars, writerVars>> /\ \A e \in Device \ {d} : SameDevice(e)
  BY <1>1, DeviceAlone
<1>3. TypeOK'
  BY <1>1, NextType DEF Next
<1>4. HubOK' /\ OnlySent' /\ sent' = sent
  BY <1>1, <1>2, <1>3, DeviceHub DEF OnlySent, storeVars
<1>5. BackupFits'
  BY DEF RInv, BackupFits
<1>6. ASSUME NEW e \in Device \ {d}
      PROVE  CallKnown(e)' /\ (since'[e] = "started over" => DeviceOK(e)' /\ HeldSent(e)')
  <2>1. Owner[e] \in Address /\ StoreMoves(Owner[e]) /\ SameDevice(e)
    BY <1>1, <1>2, StillStore, ConstantsOK
  <2>2. CallKnown(e)'
    BY <1>1, <1>3, <1>4, <2>1, CallStaysKnown DEF RInv
  <2>3. since[e] = "started over" => DeviceOK(e)'
    BY <1>2, <2>1, OtherDevice DEF RInv
  <2>4. since[e] = "started over" => HeldSent(e)'
    BY <1>4, <2>1 DEF RInv, HeldSent, SameDevice
  <2> QED
    BY <2>2, <2>3, <2>4
<1>7. CallKnown(d)'
  BY <1>1, OwnCallKnown DEF RInv
<1> QED
  BY <1>4, <1>5, <1>6, <1>7 DEF RInv

LEMMA StillRInv ==
    ASSUME RInv, UNCHANGED vars, since' = since, BackupFits'
    PROVE  RInv'
<1>1. UNCHANGED <<storeVars, writerVars>> /\ \A d \in Device : SameDevice(d)
  BY DEF vars, clientVars, callVars, SameDevice
<1>2. HubOK /\ TypeOK /\ TypeOK'
  BY NextType DEF RInv, HubOK
<1>3. HubOK' /\ OnlySent' /\ sent' = sent
  BY <1>1, <1>2, DeviceHub DEF RInv, OnlySent, storeVars
<1>4. ASSUME NEW d \in Device
      PROVE  CallKnown(d)' /\ (since[d] = "started over" => DeviceOK(d)' /\ HeldSent(d)')
  <2>1. Owner[d] \in Address /\ StoreMoves(Owner[d]) /\ SameDevice(d)
    BY <1>1, <1>2, StillStore, ConstantsOK
  <2>2. CallKnown(d)'
    BY <1>2, <1>3, <2>1, CallStaysKnown DEF RInv
  <2>3. since[d] = "started over" => DeviceOK(d)' /\ HeldSent(d)'
    BY <1>1, <1>3, <2>1, OtherDevice DEF RInv, HeldSent, SameDevice
  <2> QED
    BY <2>2, <2>3
<1> QED
  BY <1>3, <1>4 DEF RInv

LEMMA RNextInv == RInv /\ [RNext]_rVars => RInv'
<1> SUFFICES ASSUME RInv, [RNext]_rVars
             PROVE  RInv'
  OBVIOUS
<1>1. HubOK /\ OnlySent /\ since \in [Device -> {"not yet", "merged", "started over"}]
      /\ \A d \in Device : CallKnown(d) /\ (since[d] = "started over" => DeviceOK(d) /\ HeldSent(d))
  BY DEF RInv
<1>2. CASE Storing /\ Quiet
  BY <1>2, StoringRInv
<1>3. ASSUME NEW d \in Device, Asking(d), Quiet
      PROVE  RInv'
  <2>1. since[d] = "started over" => DeviceOK(d)' /\ HeldSent(d)'
    BY <1>1, <1>3, OwnSteps, OwnHeldSent
  <2> QED
    BY <1>1, <1>3, <2>1, DeviceRInv DEF Quiet
<1>4. ASSUME NEW d \in Device, Deliver(d),
             since' = [since EXCEPT ![d] = IF answer[d].reset THEN "started over"
                                          ELSE IF @ = "not yet" THEN "merged" ELSE @],
             UNCHANGED <<backup, restores>>
      PROVE  RInv'
  <2>1. answer[d].reset => DeviceOK(d)' /\ HeldSent(d)'
    BY <1>1, <1>4, ResetDelivered
  <2>2. since[d] = "started over" => DeviceOK(d)' /\ HeldSent(d)'
    BY <1>1, <1>4, OwnSteps, OwnHeldSent
  <2>3. since'[d] = "started over" => answer[d].reset \/ since[d] = "started over"
    BY <1>1, <1>4
  <2>4. since' \in [Device -> {"not yet", "merged", "started over"}] /\ \A e \in Device \ {d} : since'[e] = since[e]
    BY <1>1, <1>4
  <2> QED
    BY <1>4, <2>1, <2>2, <2>3, <2>4, DeviceRInv
<1>5. ASSUME NEW d \in Device, Reinstall(d), since' = [since EXCEPT ![d] = "started over"],
             UNCHANGED <<backup, restores>>
      PROVE  RInv'
  <2>1. HubOK'
    <3>1. TypeOK /\ TypeOK'
      BY <1>1, <1>5, NextType DEF HubOK, Next
    <3> QED
      BY <1>1, <1>5, <3>1, DeviceHub DEF Reinstall
  <2>2. cursor'[d] = 0 /\ held'[d] = NoEntries /\ stage'[d] = "idle"
    BY <1>1, <1>5 DEF Reinstall, callVars, HubOK, TypeOK
  <2>3. DeviceOK(d)' /\ HeldSent(d)'
    <3>1. at'[d] = 0 /\ from'[d] = 0 /\ reset'[d] = FALSE /\ answer'[d] = NoAnswer
      BY <1>1, <1>5 DEF CallKnown, Reinstall, callVars
    <3> QED
      BY <2>1, <2>2, <3>1, StartsOver
  <2>4. since' \in [Device -> {"not yet", "merged", "started over"}] /\ \A e \in Device \ {d} : since'[e] = since[e]
    BY <1>1, <1>5
  <2> QED
    BY <1>5, <2>3, <2>4, DeviceRInv
<1>6. CASE Backup
  <2>1. UNCHANGED vars /\ since' = since /\ backup' = <<heads, log, copy, sent>>
    BY <1>6 DEF Backup, storeVars
  <2>2. BackupFits'
    BY <1>1, <2>1, StoreIsFit DEF BackupFits, HubOK, vars, storeVars
  <2> QED
    BY <2>1, <2>2, StillRInv
<1>7. CASE Restore
  BY <1>7, RestoreInv
<1>8. CASE UNCHANGED rVars
  BY <1>8, StillRInv DEF RInv, rVars, BackupFits
<1> QED
  BY <1>2, <1>3, <1>4, <1>5, <1>6, <1>7, <1>8 DEF RNext

THEOREM RestoredInductive == RSpec => []RInv
BY InitRInv, RNextInv, PTL DEF RSpec

(* Whatever backup the hub comes back with, and however often, a device     *)
(* that was started over since holds what the hub has and nothing of the    *)
(* history that was lost.                                                   *)
THEOREM ResetRebuildsDevices == RSpec => []ResetRebuilds
<1>1. RInv => ResetRebuilds
  BY DEF RInv, DeviceOK, HeldSent, ResetRebuilds
<1> QED
  BY <1>1, RestoredInductive, PTL

(* A restored hub's log indexes its copies as before, with numbers of the   *)
(* lost history used again.                                                 *)
THEOREM RestoredLogsFit == RSpec => []LogMatches
<1>1. RInv => LogMatches
  BY DEF RInv, HubOK, StoreOK, LogMatches
<1> QED
  BY <1>1, RestoredInductive, PTL
=============================================================================
