---------------------------- MODULE CustodyProofs ----------------------------
(***************************************************************************)
(* What Custody's properties rest on, for every number of messages,        *)
(* clients and devices, proved with TLAPS.                                 *)
(***************************************************************************)
EXTENDS Custody, FiniteSetTheorems, SequenceTheorems, TLAPS

-----------------------------------------------------------------------------
(* The inductive invariant.                                                *)

(* A send holds the identity row of its own recipient.                      *)
SendsLockTheirRecipient ==
    \A a \in Address : sending[a] # NoSend => sending[a].id \in Mail /\ To[sending[a].id] = a

(* Numbers come from their sequences.                                       *)
Numbered ==
    /\ \A m \in Mail : row[m].n <= lastN
    /\ \A m \in Mail : seq[m] <= head[To[m]]

(* What a row says was so.                                                  *)
RowTrue(m) ==
    /\ Fetched(m) => m \in had \/ To[m] \in row[m].deletedBy
    /\ To[m] \in row[m].deletedBy => m \in left
    /\ row[m].marks \cap {"delivered", "read"} # {} => m \in had
RowsTrue == \A m \in Mail : RowTrue(m)

(* What acks name, and what a ring or a listener past its print holds, its  *)
(* recipient had.                                                           *)
ListenersHold ==
    /\ \A ids \in acks : ids \subseteq had
    /\ \A p \in Poller : stage[p] \in {"surfaced", "marked"} => batch[p] \subseteq had
    /\ \A p \in Poller : \A i \in 1..Len(ring[p]) : ring[p][i] \in had

(* All mail to a in (low, high] of its log is in `have`, or a deleted it.   *)
Covered(a, low, high, have) ==
    \A m \in Mail : row[m].n # 0 /\ To[m] = a /\ low < seq[m] /\ seq[m] <= high =>
        m \in have \/ a \in row[m].deletedBy

(* A cursor covers what its device holds, and lies within the log.          *)
CursorsHold ==
    \A d \in Device :
        /\ cursor[d] <= head[Owner[d]] /\ Covered(Owner[d], base[d], cursor[d], had)
        /\ answer[d].to <= head[Owner[d]]
        /\ Covered(Owner[d], answer[d].base, answer[d].to, had \cup answer[d].mail)
        /\ \A call \in asked[d] :
             call.cursor <= head[Owner[d]] /\ Covered(Owner[d], call.base, call.cursor, had)

HeldInv == SendsLockTheirRecipient /\ Numbered /\ RowsTrue /\ ListenersHold /\ CursorsHold

-----------------------------------------------------------------------------
(* Helpers.                                                                *)

LEMMA Cardinals ==
    ASSUME NEW ms \in SUBSET Mail
    PROVE  IsFiniteSet(ms) /\ Cardinality(ms) \in Nat
BY ConstantsOK, FS_Subset, FS_CardinalityType

(* Entries written by one log_changes call lie above the head it found.     *)
LEMMA PlaceBounds ==
    ASSUME NEW ms \in SUBSET Mail, NEW m \in ms, row'[m].n \in Nat
    PROVE  /\ Place(ms, m) \in Nat /\ Cardinality(ms) \in Nat
           /\ 1 <= Place(ms, m) /\ Place(ms, m) <= Cardinality(ms)
<1> DEFINE upto == {k \in ms : row'[k].n <= row'[m].n}
<1>1. IsFiniteSet(ms) /\ Cardinality(ms) \in Nat
  BY Cardinals
<1>2. upto \in SUBSET ms /\ m \in upto
  OBVIOUS
<1>3. IsFiniteSet(upto) /\ Cardinality(upto) <= Cardinality(ms)
  BY <1>1, <1>2, FS_Subset
<1>4. Cardinality(upto) \in Nat
  BY <1>3, FS_CardinalityType
<1>5. Cardinality(upto) # 0
  BY <1>2, <1>3, FS_EmptySet
<1> QED
  BY <1>1, <1>3, <1>4, <1>5 DEF Place

(* What LogChanges leaves, once the rows have their types.                  *)
LEMMA LogChangesLands ==
    ASSUME TypeOK, NEW a \in Address, NEW ms \in SUBSET Mail,
           \A m \in ms : row'[m].n \in Nat /\ To[m] = a,
           Numbered, LogChanges(a, ms)
    PROVE  /\ seq' \in [Mail -> Nat] /\ head' \in [Address -> Nat]
           /\ \A b \in Address : head[b] <= head'[b]
           /\ \A m \in ms : seq'[m] > head[To[m]]
           /\ \A m \in Mail \ ms : seq'[m] = seq[m]
           /\ \A m \in Mail : seq'[m] <= head'[To[m]]
<1>1. Cardinality(ms) \in Nat
  BY Cardinals
<1>2. \A m \in ms : Place(ms, m) \in Nat /\ 1 <= Place(ms, m) /\ Place(ms, m) <= Cardinality(ms)
  BY PlaceBounds
<1>3. head \in [Address -> Nat] /\ seq \in [Mail -> Nat] /\ \A m \in Mail : To[m] \in Address
  BY ConstantsOK DEF TypeOK
<1>4. seq' = [m \in Mail |-> IF m \in ms THEN head[a] + Place(ms, m) ELSE seq[m]]
      /\ head' = [head EXCEPT ![a] = @ + Cardinality(ms)]
  BY DEF LogChanges
<1> HIDE DEF Place
<1>5. \A m \in Mail : seq[m] <= head[To[m]]
  BY DEF Numbered
<1>6. \A b \in Address : head'[b] = IF b = a THEN head[a] + Cardinality(ms) ELSE head[b]
  BY <1>3, <1>4
<1>7. \A m \in Mail : seq'[m] = IF m \in ms THEN head[a] + Place(ms, m) ELSE seq[m]
  BY <1>4
<1>8. seq' \in [Mail -> Nat] /\ head' \in [Address -> Nat]
  BY <1>1, <1>2, <1>3, <1>4
<1> QED
  BY <1>1, <1>2, <1>3, <1>5, <1>6, <1>7, <1>8

(* Rings.                                                                   *)
LEMMA KeepKeeps ==
    ASSUME NEW S, NEW s \in Seq(S), RingSize \in Nat \ {0}
    PROVE  /\ Keep(s) \in Seq(S)
           /\ \A i \in 1..Len(Keep(s)) : \E j \in 1..Len(s) : Keep(s)[i] = s[j]
<1>1. CASE Len(s) <= RingSize
  BY <1>1 DEF Keep
<1>2. CASE ~(Len(s) <= RingSize)
  <2> DEFINE lo == Len(s) - RingSize + 1
  <2>1. Len(s) \in Nat /\ lo \in 1..Len(s) + 1 /\ lo \in Nat
    BY <1>2
  <2>2. Keep(s) = SubSeq(s, lo, Len(s))
    BY <1>2 DEF Keep
  <2>3. /\ SubSeq(s, lo, Len(s)) \in Seq(S)
        /\ Len(SubSeq(s, lo, Len(s))) = IF lo <= Len(s) THEN Len(s) - lo + 1 ELSE 0
        /\ \A i \in 1..(Len(s) - lo + 1) : SubSeq(s, lo, Len(s))[i] = s[lo + i - 1]
    BY <2>1, SubSeqProperties
  <2>4. \A i \in 1..Len(Keep(s)) : lo + i - 1 \in 1..Len(s) /\ Keep(s)[i] = s[lo + i - 1]
    BY <2>1, <2>2, <2>3
  <2> QED
    BY <2>2, <2>3, <2>4
<1> QED
  BY <1>1, <1>2

\* What a ring drops, it drops at its front.
LEMMA KeepCuts ==
    ASSUME NEW S, NEW s \in Seq(S), RingSize \in Nat \ {0}
    PROVE  LET cut == IF Len(s) <= RingSize THEN 0 ELSE Len(s) - RingSize IN
           /\ cut \in Nat /\ Len(s) \in Nat
           /\ Len(Keep(s)) = Len(s) - cut
           /\ \A j \in 1..(Len(s) - cut) : Keep(s)[j] = s[j + cut]
<1>0. Len(s) \in Nat
  OBVIOUS
<1>1. CASE Len(s) <= RingSize
  <2>1. Keep(s) = s
    BY <1>1 DEF Keep
  <2>2. \A j \in 1..(Len(s) - 0) : Keep(s)[j] = s[j + 0]
    BY <1>0, <2>1
  <2> QED
    BY <1>0, <1>1, <2>1, <2>2
<1>2. CASE ~(Len(s) <= RingSize)
  <2> DEFINE lo == Len(s) - RingSize + 1
             cut == Len(s) - RingSize
  <2>1. cut \in Nat /\ lo = cut + 1 /\ lo \in Nat /\ lo <= Len(s)
    BY <1>0, <1>2
  <2>2. Keep(s) = SubSeq(s, lo, Len(s))
    BY <1>2 DEF Keep
  <2>3. lo \in 1..Len(s) + 1
    BY <1>0, <2>1
  <2>4. /\ Len(SubSeq(s, lo, Len(s))) = IF lo <= Len(s) THEN Len(s) - lo + 1 ELSE 0
        /\ \A i \in 1..(Len(s) - lo + 1) : SubSeq(s, lo, Len(s))[i] = s[lo + i - 1]
    BY <1>0, <2>1, <2>3, SubSeqProperties
  <2>5. Len(s) - lo + 1 = Len(s) - cut /\ \A j \in 1..(Len(s) - cut) : lo + j - 1 = j + cut
    BY <1>0, <2>1
  <2> HIDE DEF lo
  <2>6. Len(Keep(s)) = Len(s) - cut /\ \A j \in 1..(Len(s) - cut) : Keep(s)[j] = s[j + cut]
    BY <2>1, <2>2, <2>4, <2>5
  <2> QED
    BY <1>0, <1>2, <2>1, <2>6
<1> QED
  BY <1>1, <1>2

LEMMA MarkedRing ==
    ASSUME TypeOK, NEW p \in Poller, MarkSeen(p)
    PROVE  /\ ring' \in [Poller -> Seq(Mail)]
           /\ \A q \in Poller \ {p} : ring'[q] = ring[q]
           /\ \A i \in 1..Len(ring'[p]) :
                ring'[p][i] \in batch[p] \/ \E j \in 1..Len(ring[p]) : ring'[p][i] = ring[p][j]
<1>1. Fresh(p) \subseteq batch[p] /\ batch[p] \subseteq Mail /\ ring \in [Poller -> Seq(Mail)]
  BY DEF Fresh, TypeOK
<1>2. Cardinality(Fresh(p)) \in Nat
  BY <1>1, Cardinals
<1>3. PICK ids \in [1..Cardinality(Fresh(p)) -> Fresh(p)] :
        ring' = [ring EXCEPT ![p] = Keep(@ \o ids)]
  BY DEF MarkSeen
<1> DEFINE s == ring[p] \o ids
<1>4. ids \in Seq(Mail) /\ Len(ids) = Cardinality(Fresh(p))
  BY <1>1, <1>2, <1>3
<1>5. ring[p] \in Seq(Mail)
  BY <1>1
<1>6. /\ s \in Seq(Mail)
      /\ Len(s) = Len(ring[p]) + Len(ids)
      /\ \A i \in 1..Len(s) : s[i] = IF i <= Len(ring[p]) THEN ring[p][i] ELSE ids[i - Len(ring[p])]
  BY <1>4, <1>5, ConcatProperties
<1>7. Len(ring[p]) \in Nat
  BY <1>5
<1>8. \A j \in 1..Len(s) : s[j] \in batch[p] \/ \E k \in 1..Len(ring[p]) : s[j] = ring[p][k]
  <2> SUFFICES ASSUME NEW j \in 1..Len(s) PROVE s[j] \in batch[p] \/ \E k \in 1..Len(ring[p]) : s[j] = ring[p][k]
    OBVIOUS
  <2>1. CASE j <= Len(ring[p])
    BY <1>6, <1>7, <2>1
  <2>2. CASE ~(j <= Len(ring[p]))
    <3>1. j - Len(ring[p]) \in 1..Cardinality(Fresh(p))
      BY <1>2, <1>4, <1>6, <1>7, <2>2
    <3>2. ids[j - Len(ring[p])] \in Fresh(p)
      BY <1>3, <3>1
    <3> QED
      BY <1>1, <1>6, <2>2, <3>2
  <2> QED
    BY <2>1, <2>2
<1>9. ring'[p] = Keep(s) /\ ring' \in [Poller -> Seq(Mail)]
  <2>1. Keep(s) \in Seq(Mail)
    BY <1>6, KeepKeeps, ConstantsOK
  <2> QED
    BY <1>1, <1>3, <2>1
<1>10. \A i \in 1..Len(Keep(s)) : \E j \in 1..Len(s) : Keep(s)[i] = s[j]
  BY <1>6, KeepKeeps, ConstantsOK
<1>11. \A q \in Poller \ {p} : ring'[q] = ring[q]
  BY <1>1, <1>3
<1> QED
  BY <1>8, <1>9, <1>10, <1>11

(* The ids mark_seen appends: each fresh one, once.                         *)
LEMMA NewIds ==
    ASSUME TypeOK, NEW p \in Poller, NEW ids \in [1..Cardinality(Fresh(p)) -> Fresh(p)],
           \A m \in Fresh(p) : \E i \in DOMAIN ids : ids[i] = m
    PROVE  /\ Cardinality(Fresh(p)) \in Nat
           /\ ids \in Seq(Mail) /\ Len(ids) = Cardinality(Fresh(p))
           /\ \A i \in 1..Len(ids) : ids[i] \in Fresh(p)
           /\ \A m \in Fresh(p), i \in 1..Len(ids) : ids[i] = m => (CHOOSE j \in DOMAIN ids : ids[j] = m) = i
           /\ \A m \in Fresh(p) : \E i \in 1..Len(ids) : ids[i] = m
<1> DEFINE c == Cardinality(Fresh(p))
<1>1. Fresh(p) \subseteq Mail
  BY DEF Fresh, TypeOK
<1>2. IsFiniteSet(Fresh(p)) /\ c \in Nat
  BY <1>1, Cardinals
<1>3. ids \in Seq(Mail) /\ Len(ids) = c
  BY <1>1, <1>2
<1>4. IsFiniteSet(1..c) /\ Cardinality(1..c) = c
  BY <1>2, FS_Interval
<1>5. ids \in Surjection(1..c, Fresh(p))
  BY DEF Surjection
<1>6. ids \in Injection(1..c, Fresh(p))
  BY <1>4, <1>5, FS_SurjSameCardinalityImpliesInj
<1>7. \A i, j \in 1..c : ids[i] = ids[j] => i = j
  BY <1>6 DEF Injection, IsInjective
<1>8. DOMAIN ids = 1..c
  OBVIOUS
<1>9. ASSUME NEW m \in Fresh(p), NEW i \in 1..c, ids[i] = m
      PROVE  (CHOOSE j \in DOMAIN ids : ids[j] = m) = i
  BY <1>7, <1>8, <1>9
<1> QED
  BY <1>2, <1>3, <1>8, <1>9

LEMMA PassedType ==
    ASSUME TypeOK, NEW p \in Poller, MarkSeen(p)
    PROVE  passed' \in [Poller -> [Mail -> Nat]]
<1>1. PICK ids \in [1..Cardinality(Fresh(p)) -> Fresh(p)] :
        /\ \A m \in Fresh(p) : \E i \in DOMAIN ids : ids[i] = m
        /\ passed' = [passed EXCEPT ![p] = [m \in Mail |-> Behind(p, ids, m)]]
  BY DEF MarkSeen
<1>2. Len(ids) \in Nat
  BY <1>1, NewIds
<1>3. passed \in [Poller -> [Mail -> Nat]] /\ RingSize \in Nat
  BY ConstantsOK DEF TypeOK
<1>4. ASSUME NEW m \in Mail PROVE Behind(p, ids, m) \in Nat
  <2>1. CASE m \in Fresh(p)
    <3>1. PICK i \in 1..Len(ids) : ids[i] = m
      BY <1>1, <2>1, NewIds
    <3>2. (CHOOSE j \in DOMAIN ids : ids[j] = m) = i
      BY <1>1, <2>1, <3>1, NewIds
    <3>3. Behind(p, ids, m) = Len(ids) - i
      BY <2>1, <3>2 DEF Behind
    <3> QED
      BY <1>2, <3>1, <3>3
  <2>2. CASE m \notin Fresh(p)
    BY <1>2, <1>3, <2>2 DEF Behind
  <2> QED
    BY <2>1, <2>2
<1> QED
  BY <1>1, <1>3, <1>4

-----------------------------------------------------------------------------
(* Types.                                                                  *)

LEMMA RowFields ==
    ASSUME TypeOK, NEW m \in Mail
    PROVE  /\ row[m] \in Rows
           /\ row[m].n \in Nat /\ row[m].marks \in Marks
           /\ row[m].owed \in BOOLEAN /\ row[m].deletedBy \in SUBSET Address
           /\ row[m].marks \cup {"fetched"} \in Marks
BY DEF TypeOK, Rows, Marks

(* A row edited stays a row.                                                *)
LEMMA EditedRow ==
    ASSUME NEW r \in Rows, NEW marks \in Marks, NEW owed \in BOOLEAN, NEW deletedBy \in SUBSET Address
    PROVE  /\ [r EXCEPT !.marks = marks, !.owed = owed] \in Rows
           /\ [r EXCEPT !.owed = owed] \in Rows
           /\ [r EXCEPT !.deletedBy = deletedBy, !.marks = marks, !.owed = owed] \in Rows
BY DEF Rows

LEMMA NoRowType == NoRow \in Rows /\ \A k \in Nat : [NoRow EXCEPT !.n = k] \in Rows
BY DEF NoRow, Rows, Marks

LEMMA NewRowFields ==
    ASSUME NEW k \in Nat
    PROVE  LET r == [NoRow EXCEPT !.n = k] IN r.n = k /\ r.marks = {} /\ r.deletedBy = {} /\ r.owed = FALSE
BY DEF NoRow

LEMMA InitType == Init => TypeOK
BY ConstantsOK DEF Init, TypeOK, Rows, Marks, NoRow, NoSend, NoAnswer, NoBase

LEMMA SendingType ==
    ASSUME TypeOK, SendsLockTheirRecipient, Numbered, Sending
    PROVE  TypeOK'
<1>1. CASE \E m \in Mail : SendLookup(m)
  BY <1>1, ConstantsOK DEF SendLookup, TypeOK, Exists, pollVars, ringVars, syncVars, history
<1>2. CASE \E a \in Address : SendNew(a)
  <2>1. PICK a \in Address : SendNew(a)
    BY <1>2
  <2> DEFINE m == sending[a].id
  <2>2. m \in Mail /\ To[m] = a
    BY <2>1 DEF SendNew, Unstored, SendsLockTheirRecipient
  <2>3. lastN' \in Nat /\ row' \in [Mail -> Rows] /\ row'[m].n \in Nat
    <3>1. row' = [row EXCEPT ![m] = [NoRow EXCEPT !.n = lastN + 1]] /\ lastN + 1 \in Nat /\ lastN' = lastN + 1
      BY <2>1 DEF SendNew, Unstored, TypeOK
    <3>2. row' \in [Mail -> Rows]
      BY <2>2, <3>1, NoRowType DEF TypeOK
    <3> QED
      BY <2>2, <3>1, <3>2 DEF Rows
  <2>4. LogChanges(a, {m})
    BY <2>1 DEF SendNew, Unstored
  <2>5. seq' \in [Mail -> Nat] /\ head' \in [Address -> Nat]
    BY <2>2, <2>3, <2>4, LogChangesLands
  <2>6. answered' \in [Mail -> Nat] /\ sending' \in [Address -> [id : Mail \cup {NoMail}, known : BOOLEAN]]
    BY <2>1, <2>2 DEF SendNew, Unstored, TypeOK, NoSend
  <2> QED
    BY <2>1, <2>3, <2>5, <2>6 DEF SendNew, Unstored, TypeOK, pollVars, ringVars, syncVars, history
<1>3. CASE \E a \in Address : SendDuplicate(a)
  <2>1. PICK a \in Address : SendDuplicate(a)
    BY <1>3
  <2>2. row[sending[a].id].n \in Nat
    BY <2>1 DEF SendDuplicate, SendsLockTheirRecipient, TypeOK, Rows
  <2> QED
    BY <2>1, <2>2 DEF SendDuplicate, TypeOK, NoSend, pollVars, ringVars, syncVars, history
<1>4. CASE \E a \in Address : SendFails(a)
  BY <1>4 DEF SendFails, TypeOK, NoSend, pollVars, ringVars, syncVars, history
<1> QED
  BY <1>1, <1>2, <1>3, <1>4 DEF Sending

LEMMA HandOverType ==
    ASSUME TypeOK, NEW ms, HandOver(ms)
    PROVE  row' \in [Mail -> Rows]
<1>1. \A m \in Mail : row[m] \in Rows /\ [row[m] EXCEPT !.marks = @ \cup {"fetched"}, !.owed = TRUE] \in Rows
  BY RowFields, EditedRow
<1> QED
  BY <1>1 DEF HandOver

(* A receipts call: what it changes.                                        *)
LEMMA ReceiptsChange ==
    ASSUME TypeOK, Numbered, NEW a \in Address, NEW todo \in SUBSET (had \X Rung), Receipts(a, todo)
    PROVE  \E changed \in SUBSET had :
             /\ \A m \in changed : row[m].n # 0 /\ To[m] = a
             /\ \A m \in Mail \ changed : row'[m] = row[m]
             /\ \A m \in changed :
                  /\ row[m].marks \subseteq row'[m].marks /\ row'[m].marks # row[m].marks
                  /\ row'[m].marks \ row[m].marks \subseteq {"delivered", "read"}
                  /\ row'[m].owed /\ row'[m].n = row[m].n /\ row'[m].deletedBy = row[m].deletedBy
             /\ row' \in [Mail -> Rows]
             /\ LogChanges(a, {m \in changed : a \notin row[m].deletedBy})
<1> DEFINE due == {t \in todo : To[t[1]] = a /\ Exists(t[1]) /\ t[2] \notin row[t[1]].marks}
           changed == {t[1] : t \in due}
           new(m) == {t[2] : t \in {x \in due : x[1] = m}}
<1>1. \A t \in due : t[1] \in had /\ t[2] \in Rung /\ To[t[1]] = a /\ Exists(t[1]) /\ t[2] \notin row[t[1]].marks
  OBVIOUS
<1>2. row' = [m \in Mail |-> IF m \in changed THEN [row[m] EXCEPT !.marks = @ \cup new(m), !.owed = TRUE] ELSE row[m]]
  BY DEF Receipts
<1>3. LogChanges(a, {m \in changed : a \notin row[m].deletedBy})
  BY DEF Receipts
<1>4. Rung \subseteq {"delivered", "read"} /\ had \subseteq Mail /\ row \in [Mail -> Rows]
  BY ConstantsOK DEF TypeOK
<1>5. \A m \in changed : \E r \in new(m) : r \notin row[m].marks
  BY <1>1
<1>6. \A m \in Mail : new(m) \subseteq {"delivered", "read"}
  BY <1>1, <1>4
<1>7. changed \in SUBSET had /\ \A m \in changed : Exists(m) /\ To[m] = a
  BY <1>1
<1> HIDE DEF due, changed, new
<1>8. \A m \in Mail : row'[m] = IF m \in changed THEN [row[m] EXCEPT !.marks = @ \cup new(m), !.owed = TRUE] ELSE row[m]
  BY <1>2
<1>9. \A m \in changed :
        /\ row'[m].marks = row[m].marks \cup new(m)
        /\ row'[m].owed /\ row'[m].n = row[m].n /\ row'[m].deletedBy = row[m].deletedBy
  BY <1>4, <1>7, <1>8 DEF Rows
<1>10. row' \in [Mail -> Rows]
  BY <1>2, <1>4, <1>6 DEF Rows, Marks
<1>11. \A m \in changed : row[m].marks \subseteq row'[m].marks /\ row'[m].marks # row[m].marks
  BY <1>5, <1>9
<1>12. \A m \in changed : row'[m].marks \ row[m].marks \subseteq {"delivered", "read"}
  BY <1>4, <1>6, <1>7, <1>9
<1> QED
  BY <1>3, <1>7, <1>8, <1>9, <1>10, <1>11, <1>12 DEF Exists

LEMMA ReadingType ==
    ASSUME TypeOK, Numbered, Reading
    PROVE  TypeOK'
<1>1. CASE \E a \in Address, todo \in SUBSET (had \X Rung) : Receipts(a, todo)
  <2>1. PICK a \in Address, todo \in SUBSET (had \X Rung) : Receipts(a, todo)
    BY <1>1
  <2>2. PICK changed \in SUBSET had :
          /\ \A m \in changed : To[m] = a
          /\ row' \in [Mail -> Rows]
          /\ LogChanges(a, {m \in changed : a \notin row[m].deletedBy})
    BY <2>1, ReceiptsChange
  <2>3. {m \in changed : a \notin row[m].deletedBy} \in SUBSET Mail
        /\ \A m \in Mail : row'[m].n \in Nat
    BY <2>2 DEF TypeOK, Rows
  <2>4. seq' \in [Mail -> Nat] /\ head' \in [Address -> Nat]
    BY <2>2, <2>3, LogChangesLands
  <2> QED
    BY <2>1, <2>2, <2>4 DEF Receipts, TypeOK, pollVars, ringVars, syncVars, history
<1>2. CASE \E a \in Address, m \in Mail : DeleteCopy(a, m)
  <2>1. PICK a \in Address, m \in Mail : DeleteCopy(a, m)
    BY <1>2
  <2>2. row' \in [Mail -> Rows]
    <3> DEFINE rest == [row[m] EXCEPT !.deletedBy = @ \cup {a},
                                      !.marks = IF a = To[m] THEN @ \cup {"fetched"} ELSE @,
                                      !.owed = @ \/ (a = To[m] /\ ~Fetched(m))]
    <3>1. row' = [row EXCEPT ![m] = IF rest.deletedBy = {From[m], To[m]} THEN NoRow ELSE rest]
      BY <2>1 DEF DeleteCopy
    <3>2. rest \in Rows
      BY RowFields, EditedRow
    <3> QED
      BY <3>1, <3>2, NoRowType DEF TypeOK
  <2>3. seq' \in [Mail -> Nat] /\ head' \in [Address -> Nat] /\ left' \subseteq Mail
    BY <2>1 DEF DeleteCopy, TypeOK
  <2> QED
    BY <2>1, <2>2, <2>3 DEF DeleteCopy, TypeOK, pollVars, ringVars, syncVars, history
<1>3. CASE \E m \in Mail : Expire(m)
  BY <1>3 DEF Expire, TypeOK, Rows, Marks, NoRow, pollVars, ringVars, syncVars, history
<1> QED
  BY <1>1, <1>2, <1>3 DEF Reading

LEMMA AckingType ==
    ASSUME TypeOK, Acking
    PROVE  TypeOK'
<1>1. CASE \E ids \in SUBSET Mail : Ack(ids)
  <2>1. PICK ids \in SUBSET Mail : Ack(ids)
    BY <1>1
  <2>2. row' \in [Mail -> Rows]
    BY <2>1, HandOverType DEF Ack
  <2> QED
    BY <2>1, <2>2 DEF Ack, TypeOK, pollVars, ringVars, syncVars, history
<1>2. CASE \E ids \in SUBSET Mail : AckLost(ids)
  BY <1>2 DEF AckLost, TypeOK, hubVars, pollVars, ringVars, syncVars, history
<1> QED
  BY <1>1, <1>2 DEF Acking

LEMMA RestType ==
    ASSUME TypeOK, NEW p \in Poller, Rest(p)
    PROVE  /\ stage' \in [Poller -> {"idle", "polled", "answered", "surfaced", "marked"}]
           /\ batch' \in [Poller -> SUBSET Mail]
           /\ receipts' \in [Poller -> SUBSET ReceiptsSent]
BY DEF TypeOK, Rest

LEMMA PollerType ==
    ASSUME TypeOK, NEW p \in Poller, Polling(p) \/ Crash(p)
    PROVE  TypeOK'
<1>1. CASE PollMail(p)
  <2>1. Oldest(Owner[p]) \in SUBSET Mail
    BY DEF Oldest, Queued
  <2> QED
    BY <1>1, <2>1 DEF PollMail, TypeOK, hubVars, ringVars, syncVars, history
<1>2. CASE PollReceipts(p)
  <2> DEFINE due == {m \in Mail : Exists(m) /\ From[m] = Owner[p] /\ row[m].owed}
  <2>1. row' \in [Mail -> Rows]
    <3>1. \A m \in Mail : row[m] \in Rows /\ [row[m] EXCEPT !.owed = FALSE] \in Rows
      BY RowFields, EditedRow
    <3> QED
      BY <1>2, <3>1 DEF PollReceipts, Claim
  <2>2. \A m \in Mail : Receipt(m) \in ReceiptsSent
    BY DEF Receipt, ReceiptsSent, TypeOK, Rows
  <2>3. receipts' \in [Poller -> SUBSET ReceiptsSent] /\ stage' \in [Poller -> {"idle", "polled", "answered", "surfaced", "marked"}]
    BY <1>2, <2>2 DEF PollReceipts, Claim, TypeOK
  <2> QED
    BY <1>2, <2>1, <2>3 DEF PollReceipts, Claim, TypeOK, ringVars, syncVars, history
<1>3. CASE PollPark(p)
  BY <1>3, RestType DEF PollPark, TypeOK, hubVars, ringVars, syncVars, history
<1>4. CASE Surface(p)
  <2>1. Fresh(p) \subseteq Mail
    BY DEF Fresh, TypeOK
  <2>2. shown' \in [Poller -> SUBSET Mail]
    BY <1>4, <2>1 DEF Surface, TypeOK
  <2>3. receipts[p] \subseteq ReceiptsSent /\ receipts' \in [Poller -> SUBSET ReceiptsSent]
    BY <1>4 DEF Surface, TypeOK
  <2> QED
    BY <1>4, <2>1, <2>2, <2>3 DEF Surface, TypeOK, hubVars, syncVars
<1>5. CASE MarkSeen(p)
  <2>1. ring' \in [Poller -> Seq(Mail)]
    BY <1>5, MarkedRing
  <2>2. passed' \in [Poller -> [Mail -> Nat]]
    BY <1>5, PassedType
  <2>3. torn' \in [Poller -> SUBSET Mail]
    BY <1>5 DEF MarkSeen, TypeOK
  <2> QED
    BY <1>5, <2>1, <2>2, <2>3 DEF MarkSeen, TypeOK, hubVars, syncVars, history
<1>6. CASE AskAck(p)
  <2>1. acks' \subseteq SUBSET Mail
    BY <1>6 DEF AskAck, Acked, TypeOK
  <2> QED
    BY <1>6, <2>1, RestType DEF AskAck, Acked, TypeOK, hubVars, ringVars, syncVars, history
<1>7. CASE Crash(p)
  <2>1. Fresh(p) \subseteq Mail /\ receipts[p] \subseteq ReceiptsSent
    BY DEF Fresh, TypeOK
  <2>2. missed' \subseteq ReceiptsSent /\ torn' \in [Poller -> SUBSET Mail]
    BY <1>7, <2>1 DEF Crash, TypeOK
  <2> QED
    BY <1>7, <2>2, RestType DEF Crash, TypeOK, hubVars, syncVars
<1> QED
  BY <1>1, <1>2, <1>3, <1>4, <1>5, <1>6, <1>7 DEF Polling

LEMMA AskType ==
    ASSUME TypeOK, NEW d \in Device, NEW c \in Nat, NEW b \in Nat, Ask(d, c, b)
    PROVE  asked' \in [Device -> SUBSET [cursor : Nat, base : Nat]]
<1>1. PICK late \in SUBSET asked[d] : asked' = [asked EXCEPT ![d] = late \cup {[cursor |-> c, base |-> b]}]
  BY DEF Ask
<1>2. asked \in [Device -> SUBSET [cursor : Nat, base : Nat]]
  BY DEF TypeOK
<1>3. late \cup {[cursor |-> c, base |-> b]} \in SUBSET [cursor : Nat, base : Nat]
  BY <1>2
<1> QED
  BY <1>1, <1>2, <1>3

LEMMA SyncingType ==
    ASSUME TypeOK, NEW d \in Device, Syncing(d)
    PROVE  TypeOK'
<1>0. /\ cursor[d] \in Nat /\ base[d] \in Nat /\ Owner[d] \in Address /\ head[Owner[d]] \in Nat
      /\ answer[d] \in [to : Nat, base : Nat, mail : SUBSET Mail]
  BY ConstantsOK DEF TypeOK
<1>1. CASE \E call \in asked[d] : TakeCustody(d, call)
  <2>1. PICK call \in asked[d] : TakeCustody(d, call)
    BY <1>1
  <2>2. row' \in [Mail -> Rows]
    BY <2>1, HandOverType DEF TakeCustody
  <2> QED
    BY <2>1, <2>2 DEF TakeCustody, TypeOK, pollVars, ringVars, syncVars, history
<1>2. CASE Sync(d)
  <2>1. asked' \in [Device -> SUBSET [cursor : Nat, base : Nat]]
    BY <1>0, <1>2, AskType DEF Sync, Called
  <2>2. answer' \in [Device -> [to : Nat, base : Nat, mail : SUBSET Mail]]
    BY <1>0, <1>2 DEF Sync, TypeOK, Between
  <2> QED
    BY <1>2, <2>1, <2>2 DEF Sync, TypeOK, hubVars, pollVars, ringVars, history
<1>3. CASE SyncFromNow(d)
  BY <1>0, <1>3 DEF SyncFromNow, Now, TypeOK, hubVars, pollVars, ringVars, history
<1>4. CASE SyncParks(d)
  <2>1. asked' \in [Device -> SUBSET [cursor : Nat, base : Nat]]
    BY <1>0, <1>4, AskType DEF SyncParks, Called
  <2> QED
    BY <1>4, <2>1 DEF SyncParks, TypeOK, hubVars, pollVars, ringVars, history
<1>5. CASE SyncArrives(d)
  BY <1>0, <1>5 DEF SyncArrives, TypeOK, NoAnswer, NoBase, hubVars, pollVars, ringVars
<1>6. CASE SyncLost(d)
  BY <1>6 DEF SyncLost, TypeOK, NoAnswer, NoBase, hubVars, pollVars, ringVars, history
<1>7. CASE Reinstall(d)
  BY <1>7 DEF Reinstall, TypeOK, NoBase, hubVars, pollVars, ringVars, history
<1> QED
  BY <1>1, <1>2, <1>3, <1>4, <1>5, <1>6, <1>7 DEF Syncing

-----------------------------------------------------------------------------
(* Custody.                                                                *)

(* What every step does to the log: entries stay or move past the old head. *)
LogGrows ==
    /\ \A a \in Address : head[a] <= head'[a]
    /\ \A m \in Mail : row'[m].n # 0 =>
         \/ seq'[m] > head[To[m]]
         \/ row[m].n # 0 /\ seq'[m] = seq[m] /\ row[m].deletedBy \subseteq row'[m].deletedBy

(* What lay below a position of the log and was held stays so.              *)
LEMMA CoveredStays ==
    ASSUME TypeOK, TypeOK', LogGrows,
           NEW a \in Address, NEW low \in Nat, NEW high \in Nat, high <= head[a],
           NEW have, NEW more, have \subseteq more, Covered(a, low, high, have)
    PROVE  /\ high <= head'[a]
           /\ \A m \in Mail : row'[m].n # 0 /\ To[m] = a /\ low < seq'[m] /\ seq'[m] <= high =>
                m \in more \/ a \in row'[m].deletedBy
<1>1. head[a] \in Nat /\ head'[a] \in Nat /\ head[a] <= head'[a]
  BY DEF TypeOK, LogGrows
<1>2. \A m \in Mail : seq'[m] \in Nat
  BY DEF TypeOK
<1> QED
  BY <1>1, <1>2 DEF LogGrows, Covered

LEMMA CursorTypes ==
    ASSUME TypeOK, NEW d \in Device
    PROVE  /\ Owner[d] \in Address /\ head[Owner[d]] \in Nat
           /\ cursor[d] \in Nat /\ base[d] \in Nat
           /\ answer[d].to \in Nat /\ answer[d].base \in Nat /\ answer[d].mail \in SUBSET Mail
           /\ \A call \in asked[d] : call.cursor \in Nat /\ call.base \in Nat
BY ConstantsOK DEF TypeOK

(* Cursors and calls that do not change keep what they say.                 *)
LEMMA OneDeviceStays ==
    ASSUME TypeOK, TypeOK', LogGrows, CursorsHold, had \subseteq had', NEW d \in Device
    PROVE  /\ cursor'[d] = cursor[d] /\ base'[d] = base[d] =>
                 cursor'[d] <= head'[Owner[d]] /\ Covered(Owner[d], base[d], cursor[d], had)'
           /\ answer'[d] = answer[d] =>
                 answer'[d].to <= head'[Owner[d]] /\ Covered(Owner[d], answer[d].base, answer[d].to, had \cup answer[d].mail)'
           /\ \A call \in asked'[d] : call \in asked[d] =>
                 call.cursor <= head'[Owner[d]] /\ Covered(Owner[d], call.base, call.cursor, had)'
<1>1. cursor[d] <= head[Owner[d]] /\ Covered(Owner[d], base[d], cursor[d], had)
  BY DEF CursorsHold
<1>2. answer[d].to <= head[Owner[d]] /\ Covered(Owner[d], answer[d].base, answer[d].to, had \cup answer[d].mail)
  BY DEF CursorsHold
<1>3. \A call \in asked[d] : call.cursor <= head[Owner[d]] /\ Covered(Owner[d], call.base, call.cursor, had)
  BY DEF CursorsHold
<1>4. ASSUME cursor'[d] = cursor[d], base'[d] = base[d]
      PROVE  cursor'[d] <= head'[Owner[d]] /\ Covered(Owner[d], base[d], cursor[d], had)'
  <2>1. /\ cursor[d] <= head'[Owner[d]]
        /\ \A m \in Mail : row'[m].n # 0 /\ To[m] = Owner[d] /\ base[d] < seq'[m] /\ seq'[m] <= cursor[d] =>
             m \in had' \/ Owner[d] \in row'[m].deletedBy
    BY <1>1, CursorTypes, CoveredStays
  <2> QED
    BY <1>4, <2>1 DEF Covered
<1>5. ASSUME answer'[d] = answer[d]
      PROVE  answer'[d].to <= head'[Owner[d]] /\ Covered(Owner[d], answer[d].base, answer[d].to, had \cup answer[d].mail)'
  <2>0. had \cup answer[d].mail \subseteq had' \cup answer[d].mail
    OBVIOUS
  <2>1. /\ answer[d].to <= head'[Owner[d]]
        /\ \A m \in Mail : row'[m].n # 0 /\ To[m] = Owner[d] /\ answer[d].base < seq'[m] /\ seq'[m] <= answer[d].to =>
             m \in had' \cup answer[d].mail \/ Owner[d] \in row'[m].deletedBy
    BY <1>2, <2>0, CursorTypes, CoveredStays
  <2> QED
    BY <1>5, <2>1 DEF Covered
<1>6. ASSUME NEW call \in asked'[d], call \in asked[d]
      PROVE  call.cursor <= head'[Owner[d]] /\ Covered(Owner[d], call.base, call.cursor, had)'
  <2>1. /\ call.cursor <= head'[Owner[d]]
        /\ \A m \in Mail : row'[m].n # 0 /\ To[m] = Owner[d] /\ call.base < seq'[m] /\ seq'[m] <= call.cursor =>
             m \in had' \/ Owner[d] \in row'[m].deletedBy
    BY <1>3, <1>6, CursorTypes, CoveredStays
  <2> QED
    BY <2>1 DEF Covered
<1> QED
  BY <1>4, <1>5, <1>6

LEMMA CursorsStay ==
    ASSUME TypeOK, TypeOK', LogGrows, CursorsHold, had \subseteq had', UNCHANGED syncVars
    PROVE  CursorsHold'
<1>1. \A d \in Device : cursor'[d] = cursor[d] /\ base'[d] = base[d] /\ answer'[d] = answer[d] /\ asked'[d] = asked[d]
  BY DEF syncVars
<1> QED
  BY <1>1, OneDeviceStays DEF CursorsHold

LEMMA ListenersStay ==
    ASSUME ListenersHold, had \subseteq had', acks' \subseteq acks, UNCHANGED pollVars
    PROVE  ListenersHold'
BY DEF ListenersHold, pollVars, ringVars

(* Handing over mail that someone holds.                                    *)
LEMMA HandOverKeeps ==
    ASSUME TypeOK, Numbered, RowsTrue, NEW ms \in SUBSET Mail, HandOver(ms),
           UNCHANGED <<lastN, seq, head, had, left>>,
           \A m \in ms : Exists(m) => m \in had \/ To[m] \in row[m].deletedBy
    PROVE  LogGrows /\ RowsTrue' /\ Numbered'
<1>1. \A m \in Mail : /\ row'[m].n = row[m].n /\ row'[m].deletedBy = row[m].deletedBy
                      /\ \/ row'[m].marks = row[m].marks
                         \/ m \in ms /\ Exists(m) /\ row'[m].marks = row[m].marks \cup {"fetched"}
  <2> TAKE m \in Mail
  <2>1. row'[m] = IF m \in ms /\ Exists(m) /\ ~Fetched(m)
                  THEN [row[m] EXCEPT !.marks = @ \cup {"fetched"}, !.owed = TRUE] ELSE row[m]
    BY DEF HandOver
  <2>2. row[m] \in Rows
    BY RowFields
  <2> QED
    BY <2>1, <2>2 DEF Rows
<1>2. LogGrows
  BY <1>1 DEF LogGrows, TypeOK
<1>3. RowsTrue'
  <2> SUFFICES ASSUME NEW m \in Mail PROVE RowTrue(m)'
    BY DEF RowsTrue
  <2>1. RowTrue(m)
    BY DEF RowsTrue
  <2> QED
    BY <1>1, <2>1 DEF RowTrue, Fetched
<1> QED
  BY <1>1, <1>2, <1>3 DEF Numbered

LEMMA InitHeld == Init => HeldInv
<1> SUFFICES ASSUME Init PROVE HeldInv
  OBVIOUS
<1>1. SendsLockTheirRecipient /\ RowsTrue /\ ListenersHold
  BY DEF Init, SendsLockTheirRecipient, NoSend, RowsTrue, RowTrue, Fetched, NoRow, ListenersHold
<1>2. Numbered /\ CursorsHold
  BY ConstantsOK DEF Init, Numbered, NoRow, CursorsHold, Covered, NoAnswer, NoBase
<1> QED
  BY <1>1, <1>2 DEF HeldInv

LEMMA SendingHeld ==
    ASSUME TypeOK, TypeOK', HeldInv, Sending
    PROVE  HeldInv'
<1> USE DEF HeldInv
<1>0. had' = had /\ left' = left /\ acks' = acks /\ UNCHANGED <<pollVars, syncVars>>
  BY DEF Sending, SendLookup, SendNew, Unstored, SendDuplicate, SendFails, history
<1>1. CASE row' = row /\ seq' = seq /\ head' = head /\ lastN' = lastN
  <2>1. LogGrows
    BY <1>1 DEF LogGrows, TypeOK
  <2>2. RowsTrue' /\ Numbered'
    BY <1>0, <1>1 DEF RowsTrue, RowTrue, Fetched, Numbered
  <2>3. SendsLockTheirRecipient'
    <3>1. CASE \E m \in Mail : SendLookup(m)
      <4>1. PICK m \in Mail : SendLookup(m)
        BY <3>1
      <4>2. /\ sending'[To[m]] = [id |-> m, known |-> Exists(m)]
            /\ \A b \in Address \ {To[m]} : sending'[b] = sending[b]
        BY <4>1, ConstantsOK DEF SendLookup, TypeOK
      <4> QED
        BY <4>2 DEF SendsLockTheirRecipient
    <3>2. CASE \E a \in Address : SendNew(a) \/ SendDuplicate(a) \/ SendFails(a)
      <4>1. PICK a \in Address : sending' = [sending EXCEPT ![a] = NoSend]
        BY <3>2 DEF SendNew, Unstored, SendDuplicate, SendFails
      <4>2. sending'[a] = NoSend /\ \A b \in Address \ {a} : sending'[b] = sending[b]
        BY <4>1 DEF TypeOK
      <4> QED
        BY <4>2 DEF SendsLockTheirRecipient
    <3> QED
      BY <3>1, <3>2 DEF Sending
  <2> QED
    BY <1>0, <2>1, <2>2, <2>3, CursorsStay, ListenersStay
<1>2. CASE \E a \in Address : SendNew(a)
  <2>1. PICK a \in Address : SendNew(a)
    BY <1>2
  <2>2. PICK m \in Mail : m = sending[a].id /\ To[m] = a /\ row[m].n = 0
    BY <2>1 DEF SendNew, Unstored, SendsLockTheirRecipient, Exists
  <2>3. lastN' = lastN + 1 /\ lastN \in Nat /\ \A k \in Mail \ {m} : row'[k] = row[k]
    BY <2>1, <2>2 DEF SendNew, Unstored, TypeOK
  <2>4. row'[m].n = lastN + 1 /\ row'[m].marks = {} /\ row'[m].deletedBy = {}
    <3>1. lastN + 1 \in Nat
      BY <2>3
    <3>2. LET r == [NoRow EXCEPT !.n = lastN + 1] IN r.n = lastN + 1 /\ r.marks = {} /\ r.deletedBy = {}
      BY <3>1, NewRowFields
    <3>3. row'[m] = [NoRow EXCEPT !.n = lastN + 1]
      BY <2>1, <2>2 DEF SendNew, Unstored, TypeOK
    <3> QED
      BY <3>2, <3>3
  <2>5. LogChanges(a, {m}) /\ a \in Address /\ {m} \in SUBSET Mail
    BY <2>1, <2>2 DEF SendNew, Unstored
  <2>6. /\ \A b \in Address : head[b] <= head'[b]
        /\ seq'[m] > head[To[m]]
        /\ \A k \in Mail \ {m} : seq'[k] = seq[k]
        /\ \A k \in Mail : seq'[k] <= head'[To[k]]
    <3>1. \A k \in {m} : row'[k].n \in Nat /\ To[k] = a
      BY <2>2, <2>3, <2>4
    <3>2. /\ \A b \in Address : head[b] <= head'[b]
          /\ \A k \in {m} : seq'[k] > head[To[k]]
          /\ \A k \in Mail \ {m} : seq'[k] = seq[k]
          /\ \A k \in Mail : seq'[k] <= head'[To[k]]
      BY <2>5, <3>1, LogChangesLands
    <3> QED
      BY <3>2
  <2>7. LogGrows
    BY <2>3, <2>6 DEF LogGrows
  <2>8. Numbered'
    <3>1. \A k \in Mail : row[k].n \in Nat /\ row[k].n <= lastN
      BY RowFields DEF Numbered
    <3>2. \A k \in Mail : row'[k].n <= lastN'
      <4> TAKE k \in Mail
      <4>1. CASE k = m
        BY <2>3, <2>4, <4>1
      <4>2. CASE k # m
        BY <2>3, <3>1, <4>2
      <4> QED
        BY <4>1, <4>2
    <3> QED
      BY <2>6, <3>2 DEF Numbered
  <2>9. RowsTrue'
    BY <1>0, <2>3, <2>4 DEF RowsTrue, RowTrue, Fetched
  <2>10. SendsLockTheirRecipient'
    <3>1. sending'[a] = NoSend /\ \A b \in Address \ {a} : sending'[b] = sending[b]
      BY <2>1 DEF SendNew, Unstored, TypeOK
    <3> QED
      BY <3>1 DEF SendsLockTheirRecipient
  <2> QED
    BY <1>0, <2>7, <2>8, <2>9, <2>10, CursorsStay, ListenersStay
<1> QED
  BY <1>1, <1>2 DEF Sending, SendLookup, SendDuplicate, SendFails

LEMMA ReceiptsHeld ==
    ASSUME TypeOK, TypeOK', HeldInv, NEW a \in Address, NEW todo \in SUBSET (had \X Rung), Receipts(a, todo)
    PROVE  HeldInv'
<1> USE DEF HeldInv
<1>0. had' = had /\ left' = left /\ acks' = acks /\ lastN' = lastN /\ sending' = sending
      /\ UNCHANGED <<pollVars, syncVars>>
  BY DEF Receipts, history
<1>1. PICK changed \in SUBSET had :
        /\ \A m \in changed : row[m].n # 0 /\ To[m] = a
        /\ \A m \in Mail \ changed : row'[m] = row[m]
        /\ \A m \in changed :
             /\ row[m].marks \subseteq row'[m].marks
             /\ row'[m].n = row[m].n /\ row'[m].deletedBy = row[m].deletedBy
        /\ LogChanges(a, {m \in changed : a \notin row[m].deletedBy})
  BY ReceiptsChange
<1>2. \A m \in Mail : row'[m].n = row[m].n /\ row'[m].deletedBy = row[m].deletedBy
  BY <1>1
<1>3. \A m \in Mail : m \notin had => row'[m] = row[m]
  BY <1>1
<1> DEFINE logged == {m \in changed : a \notin row[m].deletedBy}
<1>4. logged \in SUBSET Mail /\ \A m \in logged : row'[m].n \in Nat /\ To[m] = a
  BY <1>1, <1>2, RowFields DEF TypeOK
<1>5. LogChanges(a, logged)
  BY <1>1
<1> HIDE DEF logged
<1>6. /\ \A b \in Address : head[b] <= head'[b]
      /\ \A m \in logged : seq'[m] > head[To[m]]
      /\ \A m \in Mail \ logged : seq'[m] = seq[m]
      /\ \A m \in Mail : seq'[m] <= head'[To[m]]
  BY <1>4, <1>5, LogChangesLands
<1>7. LogGrows
  BY <1>2, <1>6 DEF LogGrows
<1>8. Numbered'
  BY <1>0, <1>2, <1>6 DEF Numbered
<1>9. RowsTrue'
  <2> SUFFICES ASSUME NEW m \in Mail PROVE RowTrue(m)'
    BY DEF RowsTrue
  <2>1. RowTrue(m)
    BY DEF RowsTrue
  <2>2. CASE m \in had
    BY <1>0, <1>2, <2>1, <2>2 DEF RowTrue
  <2>3. CASE m \notin had
    BY <1>0, <1>3, <2>1, <2>3 DEF RowTrue, Fetched
  <2> QED
    BY <2>2, <2>3
<1>10. SendsLockTheirRecipient'
  BY <1>0 DEF SendsLockTheirRecipient
<1> QED
  BY <1>0, <1>7, <1>8, <1>9, <1>10, CursorsStay, ListenersStay

(* A deletion: what it does to its row.                                     *)
LEMMA DeleteChange ==
    ASSUME TypeOK, NEW a \in Address, NEW m \in Mail, DeleteCopy(a, m)
    PROVE  /\ row[m].n # 0
           /\ \A k \in Mail \ {m} : row'[k] = row[k]
           /\ \/ row'[m] = NoRow
              \/ /\ row'[m].n = row[m].n
                 /\ row'[m].deletedBy = row[m].deletedBy \cup {a}
                 /\ row'[m].marks = (IF a = To[m] THEN row[m].marks \cup {"fetched"} ELSE row[m].marks)
<1> DEFINE rest == [row[m] EXCEPT !.deletedBy = @ \cup {a},
                                  !.marks = IF a = To[m] THEN @ \cup {"fetched"} ELSE @,
                                  !.owed = @ \/ (a = To[m] /\ ~Fetched(m))]
<1>1. row' = [row EXCEPT ![m] = IF rest.deletedBy = {From[m], To[m]} THEN NoRow ELSE rest] /\ row[m].n # 0
  BY DEF DeleteCopy, Exists
<1>2. /\ rest.n = row[m].n /\ rest.deletedBy = row[m].deletedBy \cup {a}
      /\ rest.marks = (IF a = To[m] THEN row[m].marks \cup {"fetched"} ELSE row[m].marks)
  BY RowFields DEF Rows
<1>3. (row'[m] = NoRow \/ row'[m] = rest) /\ \A k \in Mail \ {m} : row'[k] = row[k]
  BY <1>1 DEF TypeOK
<1> HIDE DEF rest
<1>4. row[m].n # 0
  BY <1>1
<1>5. CASE row'[m] = rest
  BY <1>2, <1>3, <1>4, <1>5
<1> QED
  BY <1>3, <1>4, <1>5

LEMMA NoRowFields == NoRow.n = 0 /\ NoRow.marks = {} /\ NoRow.deletedBy = {} /\ NoRow.owed = FALSE
BY DEF NoRow

LEMMA DeleteHeld ==
    ASSUME TypeOK, TypeOK', HeldInv, NEW a \in Address, NEW m \in Mail, DeleteCopy(a, m)
    PROVE  HeldInv'
<1> USE DEF HeldInv
<1>0. had' = had /\ acks' = acks /\ lastN' = lastN /\ sending' = sending
      /\ UNCHANGED <<pollVars, syncVars>>
  BY DEF DeleteCopy
<1>1. left' = IF a = To[m] THEN left \cup {m} ELSE left
  BY DEF DeleteCopy
<1>2. /\ row[m].n # 0
      /\ \A k \in Mail \ {m} : row'[k] = row[k]
      /\ \/ row'[m] = NoRow
         \/ /\ row'[m].n = row[m].n
            /\ row'[m].deletedBy = row[m].deletedBy \cup {a}
            /\ row'[m].marks = (IF a = To[m] THEN row[m].marks \cup {"fetched"} ELSE row[m].marks)
  BY DeleteChange
<1>3. /\ \A b \in Address : head[b] \in Nat /\ head[b] <= head'[b]
      /\ \A k \in Mail \ {m} : seq'[k] = seq[k]
      /\ IF a = To[m] THEN seq'[m] = head[a] + 1 /\ head'[a] = head[a] + 1 ELSE seq'[m] = seq[m]
  BY DEF DeleteCopy, TypeOK
<1>4. LogGrows
  <2>1. \A k \in Mail : row'[k].n # 0 => row[k].n # 0 /\ row[k].deletedBy \subseteq row'[k].deletedBy
    BY <1>2, NoRowFields
  <2>2. \A k \in Mail : To[k] \in Address
    BY ConstantsOK
  <2>3. \A k \in Mail : seq'[k] = seq[k] \/ seq'[k] > head[To[k]]
    BY <1>3, <2>2
  <2> QED
    BY <1>3, <2>1, <2>3 DEF LogGrows
<1>5. Numbered'
  <2>1. \A k \in Mail : row'[k].n <= lastN'
    <3>1. lastN \in Nat /\ \A k \in Mail : row[k].n <= lastN
      BY DEF Numbered, TypeOK
    <3>2. row'[m].n = 0 \/ row'[m].n = row[m].n
      BY <1>2, NoRowFields
    <3> QED
      BY <1>0, <1>2, <3>1, <3>2
  <2>2. \A k \in Mail : To[k] \in Address /\ seq[k] \in Nat /\ seq[k] <= head[To[k]]
    BY ConstantsOK DEF Numbered, TypeOK
  <2>3. \A k \in Mail : seq'[k] <= head'[To[k]]
    <3> TAKE k \in Mail
    <3>1. head[To[k]] \in Nat /\ head'[To[k]] \in Nat /\ head[To[k]] <= head'[To[k]]
      BY <1>3, <2>2 DEF TypeOK
    <3> QED
      BY <1>3, <2>2, <3>1
  <2> QED
    BY <2>1, <2>3 DEF Numbered
<1>6. RowsTrue'
  <2> SUFFICES ASSUME NEW k \in Mail PROVE RowTrue(k)'
    BY DEF RowsTrue
  <2>1. RowTrue(k) /\ left \subseteq left'
    BY <1>1 DEF RowsTrue
  <2>2. CASE k # m
    BY <1>0, <1>2, <2>1, <2>2 DEF RowTrue, Fetched
  <2>3. CASE k = m /\ row'[m] = NoRow
    BY <2>3, NoRowFields DEF RowTrue, Fetched
  <2>4. CASE /\ k = m
             /\ row'[m].deletedBy = row[m].deletedBy \cup {a}
             /\ row'[m].marks = (IF a = To[m] THEN row[m].marks \cup {"fetched"} ELSE row[m].marks)
    <3>1. CASE a = To[m]
      BY <1>0, <1>1, <2>1, <2>4, <3>1 DEF RowTrue, Fetched
    <3>2. CASE a # To[m]
      BY <1>0, <1>1, <2>1, <2>4, <3>2 DEF RowTrue, Fetched
    <3> QED
      BY <3>1, <3>2
  <2> QED
    BY <1>2, <2>2, <2>3, <2>4
<1>7. SendsLockTheirRecipient'
  BY <1>0 DEF SendsLockTheirRecipient
<1> QED
  BY <1>0, <1>4, <1>5, <1>6, <1>7, CursorsStay, ListenersStay

LEMMA ExpireHeld ==
    ASSUME TypeOK, TypeOK', HeldInv, NEW m \in Mail, Expire(m)
    PROVE  HeldInv'
<1> USE DEF HeldInv
<1>0. had' = had /\ left' = left /\ acks' = acks /\ lastN' = lastN /\ sending' = sending /\ head' = head
      /\ UNCHANGED <<pollVars, syncVars>>
  BY DEF Expire, history
<1>1. row'[m] = NoRow /\ (\A k \in Mail \ {m} : row'[k] = row[k] /\ seq'[k] = seq[k])
      /\ (seq'[m] = seq[m] \/ seq'[m] = 0)
  BY DEF Expire, TypeOK
<1>2. LogGrows
  BY <1>0, <1>1, NoRowFields DEF LogGrows, TypeOK
<1>3. Numbered'
  <2>1. \A k \in Mail : To[k] \in Address /\ head[To[k]] \in Nat
    BY ConstantsOK DEF TypeOK
  <2>2. lastN \in Nat
    BY DEF TypeOK
  <2> QED
    BY <1>0, <1>1, <2>1, <2>2, NoRowFields DEF Numbered
<1>4. RowsTrue'
  BY <1>0, <1>1, NoRowFields DEF RowsTrue, RowTrue, Fetched
<1>5. SendsLockTheirRecipient'
  BY <1>0 DEF SendsLockTheirRecipient
<1> QED
  BY <1>0, <1>2, <1>3, <1>4, <1>5, CursorsStay, ListenersStay

LEMMA AckingHeld ==
    ASSUME TypeOK, TypeOK', HeldInv, Acking
    PROVE  HeldInv'
<1> USE DEF HeldInv
<1>0. /\ had' = had /\ left' = left /\ acks' \subseteq acks /\ lastN' = lastN /\ sending' = sending
      /\ head' = head /\ seq' = seq /\ UNCHANGED <<pollVars, syncVars>>
  BY DEF Acking, Ack, AckLost, hubVars, history
<1>1. CASE \E ids \in SUBSET Mail : Ack(ids)
  <2>1. PICK ids \in SUBSET Mail : Ack(ids)
    BY <1>1
  <2>2. ids \subseteq had /\ HandOver(ids)
    BY <2>1 DEF Ack, ListenersHold
  <2>3. LogGrows /\ RowsTrue' /\ Numbered'
    BY <1>0, <2>2, HandOverKeeps
  <2>4. SendsLockTheirRecipient'
    BY <1>0 DEF SendsLockTheirRecipient
  <2> QED
    BY <1>0, <2>3, <2>4, CursorsStay, ListenersStay
<1>2. CASE \E ids \in SUBSET Mail : AckLost(ids)
  <2>1. row' = row
    BY <1>2 DEF AckLost, hubVars
  <2>2. LogGrows /\ Numbered' /\ RowsTrue' /\ SendsLockTheirRecipient'
    BY <1>0, <2>1 DEF LogGrows, Numbered, RowsTrue, RowTrue, Fetched, SendsLockTheirRecipient, TypeOK
  <2> QED
    BY <1>0, <2>2, CursorsStay, ListenersStay
<1> QED
  BY <1>1, <1>2 DEF Acking

LEMMA PollerHeld ==
    ASSUME TypeOK, TypeOK', HeldInv, NEW p \in Poller, Polling(p) \/ Crash(p)
    PROVE  HeldInv'
<1> USE DEF HeldInv
<1>0. /\ had \subseteq had' /\ left' = left /\ lastN' = lastN /\ sending' = sending
      /\ head' = head /\ seq' = seq /\ UNCHANGED syncVars
  BY DEF Polling, PollMail, PollReceipts, Claim, PollPark, Surface, MarkSeen, AskAck, Acked, Crash, hubVars, history
<1>1. \A m \in Mail : /\ row'[m].n = row[m].n /\ row'[m].marks = row[m].marks
                      /\ row'[m].deletedBy = row[m].deletedBy
  <2>1. CASE PollReceipts(p)
    <3> TAKE m \in Mail
    <3>1. row'[m] = row[m] \/ row'[m] = [row[m] EXCEPT !.owed = FALSE]
      BY <2>1 DEF PollReceipts, Claim
    <3> QED
      BY <3>1, RowFields DEF Rows
  <2>2. CASE row' = row
    BY <2>2
  <2> QED
    BY <2>1, <2>2 DEF Polling, PollMail, PollPark, Surface, MarkSeen, AskAck, Acked, Crash, hubVars
<1>2. LogGrows /\ Numbered'
  <2>1. \A a \in Address : head[a] <= head'[a]
    BY <1>0 DEF TypeOK
  <2> QED
    BY <1>0, <1>1, <2>1 DEF LogGrows, Numbered
<1>3. RowsTrue'
  BY <1>0, <1>1 DEF RowsTrue, RowTrue, Fetched
<1>4. SendsLockTheirRecipient'
  BY <1>0 DEF SendsLockTheirRecipient
<1>5. CursorsHold'
  BY <1>0, <1>2, CursorsStay
<1>6. ListenersHold'
  <2>1. stage \in [Poller -> {"idle", "polled", "answered", "surfaced", "marked"}]
        /\ batch \in [Poller -> SUBSET Mail] /\ ring \in [Poller -> Seq(Mail)]
    BY DEF TypeOK
  <2>2. CASE PollMail(p) \/ PollReceipts(p) \/ PollPark(p) \/ Crash(p)
    <3>1. acks' = acks /\ ring' = ring
      BY <2>2 DEF PollMail, PollReceipts, Claim, PollPark, Crash, ringVars
    <3>2. \A q \in Poller : stage'[q] \in {"surfaced", "marked"} => stage'[q] = stage[q] /\ batch'[q] = batch[q]
      BY <2>1, <2>2 DEF PollMail, PollReceipts, Claim, PollPark, Crash, Rest
    <3> QED
      BY <1>0, <3>1, <3>2 DEF ListenersHold
  <2>3. CASE Surface(p)
    <3>1. had' = had \cup Fresh(p) /\ acks' = acks /\ ring' = ring /\ batch' = batch
      BY <2>3 DEF Surface
    <3>2. \A q \in Poller \ {p} : stage'[q] = stage[q]
      BY <2>1, <2>3 DEF Surface
    <3>3. batch[p] \subseteq had'
      BY <3>1 DEF Fresh, ListenersHold
    <3> QED
      BY <3>1, <3>2, <3>3 DEF ListenersHold
  <2>4. CASE MarkSeen(p)
    <3>1. had' = had /\ acks' = acks /\ batch' = batch /\ stage[p] = "surfaced"
          /\ \A q \in Poller \ {p} : stage'[q] = stage[q]
      BY <2>1, <2>4 DEF MarkSeen, history
    <3>2. batch[p] \subseteq had
      BY <3>1 DEF ListenersHold
    <3>3. /\ \A q \in Poller \ {p} : ring'[q] = ring[q]
          /\ \A i \in 1..Len(ring'[p]) :
               ring'[p][i] \in batch[p] \/ \E j \in 1..Len(ring[p]) : ring'[p][i] = ring[p][j]
      BY <2>4, MarkedRing
    <3>4. \A i \in 1..Len(ring'[p]) : ring'[p][i] \in had
      BY <3>2, <3>3 DEF ListenersHold
    <3>5. \A q \in Poller : \A i \in 1..Len(ring'[q]) : ring'[q][i] \in had
      BY <3>3, <3>4 DEF ListenersHold
    <3> QED
      BY <3>1, <3>2, <3>5 DEF ListenersHold
  <2>5. CASE AskAck(p)
    <3>1. had' = had /\ ring' = ring /\ stage[p] = "marked" /\ acks' \subseteq acks \cup {batch[p]}
      BY <2>5 DEF AskAck, Acked, ringVars, history
    <3>2. \A q \in Poller : stage'[q] \in {"surfaced", "marked"} => stage'[q] = stage[q] /\ batch'[q] = batch[q]
      BY <2>1, <2>5 DEF AskAck, Acked, Rest
    <3>3. batch[p] \subseteq had
      BY <3>1 DEF ListenersHold
    <3> QED
      BY <3>1, <3>2, <3>3 DEF ListenersHold
  <2> QED
    BY <2>2, <2>3, <2>4, <2>5 DEF Polling
<1> QED
  BY <1>2, <1>3, <1>4, <1>5, <1>6

(* A new position of d, beside what stays of the others.                    *)
LEMMA AskHeld ==
    ASSUME TypeOK, HeldInv, NEW d \in Device, Ask(d, cursor[d], base[d])
    PROVE  /\ \A e \in Device \ {d} : asked'[e] = asked[e]
           /\ \A call \in asked'[d] :
                call \in asked[d] \/ (call.cursor = cursor[d] /\ call.base = base[d])
<1>1. PICK late \in SUBSET asked[d] :
        asked' = [asked EXCEPT ![d] = late \cup {[cursor |-> cursor[d], base |-> base[d]]}]
  BY DEF Ask
<1>2. asked'[d] = late \cup {[cursor |-> cursor[d], base |-> base[d]]}
      /\ \A e \in Device \ {d} : asked'[e] = asked[e]
  BY <1>1 DEF TypeOK
<1> QED
  BY <1>2

LEMMA SyncingHeld ==
    ASSUME TypeOK, TypeOK', HeldInv, NEW d \in Device, Syncing(d)
    PROVE  HeldInv'
<1> USE DEF HeldInv
<1>1. CASE \E call \in asked[d] : TakeCustody(d, call)
  <2>1. PICK call \in asked[d] : TakeCustody(d, call)
    BY <1>1
  <2>2. PICK locked \in SUBSET Mail :
          HandOver({m \in Between(Owner[d], call.base, call.cursor) : m \notin locked})
    BY <2>1 DEF TakeCustody
  <2> DEFINE ms == {m \in Between(Owner[d], call.base, call.cursor) : m \notin locked}
  <2>3. Covered(Owner[d], call.base, call.cursor, had)
    BY <2>1 DEF CursorsHold
  <2>4. ms \in SUBSET Mail /\ \A m \in ms : Exists(m) => m \in had \/ To[m] \in row[m].deletedBy
    BY <2>3 DEF Between, Covered, Exists
  <2>5. /\ had' = had /\ left' = left /\ acks' = acks /\ lastN' = lastN /\ sending' = sending
        /\ head' = head /\ seq' = seq /\ UNCHANGED <<pollVars, syncVars>>
    BY <2>1 DEF TakeCustody, history
  <2>6. HandOver(ms)
    BY <2>2
  <2> HIDE DEF ms
  <2>7. LogGrows /\ RowsTrue' /\ Numbered'
    BY <2>4, <2>5, <2>6, HandOverKeeps
  <2>8. SendsLockTheirRecipient'
    BY <2>5 DEF SendsLockTheirRecipient
  <2> QED
    BY <2>5, <2>7, <2>8, CursorsStay, ListenersStay
<1>2. CASE Sync(d) \/ SyncFromNow(d) \/ SyncParks(d) \/ SyncArrives(d) \/ SyncLost(d) \/ Reinstall(d)
  <2>0. /\ had \subseteq had' /\ left' = left /\ UNCHANGED <<hubVars, acks, pollVars>>
    BY <1>2 DEF Sync, SyncFromNow, Now, SyncParks, SyncArrives, SyncLost, Reinstall, history
  <2>1. /\ row' = row /\ seq' = seq /\ head' = head /\ lastN' = lastN /\ sending' = sending /\ acks' = acks
    BY <2>0 DEF hubVars
  <2>2. LogGrows
    BY <2>1 DEF LogGrows, TypeOK
  <2>3. Numbered' /\ RowsTrue' /\ SendsLockTheirRecipient'
    BY <2>0, <2>1 DEF Numbered, RowsTrue, RowTrue, Fetched, SendsLockTheirRecipient
  <2>4. ListenersHold'
    BY <2>0, <2>1, ListenersStay
  <2>5. \A e \in Device \ {d} : cursor'[e] = cursor[e] /\ base'[e] = base[e] /\ answer'[e] = answer[e] /\ asked'[e] = asked[e]
    <3>1. CASE Sync(d) \/ SyncParks(d)
      BY <3>1, AskHeld DEF Sync, SyncParks, Called, TypeOK
    <3>2. CASE SyncFromNow(d) \/ SyncArrives(d) \/ SyncLost(d) \/ Reinstall(d)
      BY <3>2 DEF SyncFromNow, Now, SyncArrives, SyncLost, Reinstall, TypeOK
    <3> QED
      BY <1>2, <3>1, <3>2
  <2> DEFINE Good(e) ==
        /\ cursor'[e] <= head'[Owner[e]] /\ Covered(Owner[e], base[e], cursor[e], had)'
        /\ answer'[e].to <= head'[Owner[e]]
        /\ Covered(Owner[e], answer[e].base, answer[e].to, had \cup answer[e].mail)'
        /\ \A call \in asked'[e] :
             call.cursor <= head'[Owner[e]] /\ Covered(Owner[e], call.base, call.cursor, had)'
  <2>6. ASSUME NEW e \in Device \ {d} PROVE Good(e)
    BY <2>0, <2>2, <2>5, OneDeviceStays
  <2>7. cursor[d] <= head[Owner[d]] /\ Covered(Owner[d], base[d], cursor[d], had)'
    <3>1. cursor[d] <= head[Owner[d]] /\ Covered(Owner[d], base[d], cursor[d], had)
      BY DEF CursorsHold
    <3>2. CASE cursor'[d] = cursor[d] /\ base'[d] = base[d]
      BY <2>0, <2>1, <2>2, <3>1, <3>2, OneDeviceStays
    <3>3. CASE SyncArrives(d)
      <4>1. /\ cursor' = [cursor EXCEPT ![d] = answer[d].to] /\ base' = [base EXCEPT ![d] = answer[d].base]
            /\ had' = had \cup answer[d].mail
        BY <3>3 DEF SyncArrives
      <4>2. cursor'[d] = answer[d].to /\ base'[d] = answer[d].base
        BY <4>1 DEF TypeOK
      <4>3. Covered(Owner[d], answer[d].base, answer[d].to, had \cup answer[d].mail)
        BY DEF CursorsHold
      <4> QED
        BY <2>1, <3>1, <4>1, <4>2, <4>3 DEF Covered
    <3>4. CASE Reinstall(d)
      <4>1. cursor'[d] = 0 /\ base'[d] = 0
        BY <3>4 DEF Reinstall, TypeOK, NoBase
      <4>2. \A m \in Mail : seq'[m] \in Nat
        BY DEF TypeOK
      <4> QED
        BY <3>1, <4>1, <4>2 DEF Covered
    <3> QED
      BY <1>2, <3>2, <3>3, <3>4 DEF Sync, SyncFromNow, Now, SyncParks, SyncLost
  <2>8. cursor'[d] <= head'[Owner[d]]
    <3>1. cursor'[d] = cursor[d] \/ cursor'[d] = answer[d].to \/ cursor'[d] = 0
      BY <1>2 DEF Sync, SyncFromNow, Now, SyncParks, SyncArrives, SyncLost, Reinstall, TypeOK
    <3>2. answer[d].to <= head[Owner[d]] /\ head[Owner[d]] \in Nat
      BY CursorTypes DEF CursorsHold
    <3> QED
      BY <2>1, <2>7, <3>1, <3>2
  <2>9. answer'[d].to <= head'[Owner[d]] /\ Covered(Owner[d], answer[d].base, answer[d].to, had \cup answer[d].mail)'
    <3>1. CASE answer'[d] = answer[d]
      BY <2>0, <2>2, <3>1, OneDeviceStays
    <3>2. CASE answer'[d] = NoAnswer
      <4>1. answer'[d].to = 0 /\ answer'[d].base = 0
        BY <3>2 DEF NoAnswer, NoBase
      <4>2. (\A m \in Mail : seq'[m] \in Nat) /\ head'[Owner[d]] \in Nat
        BY CursorTypes, <2>1 DEF TypeOK
      <4> QED
        BY <4>1, <4>2 DEF Covered
    <3>3. CASE Sync(d)
      <4> DEFINE mail == {m \in Between(Owner[d], cursor[d], head[Owner[d]]) : Owner[d] \notin row[m].deletedBy}
      <4>1. answer' = [answer EXCEPT ![d] = [to |-> head[Owner[d]], base |-> base[d], mail |-> mail]]
        BY <3>3 DEF Sync
      <4>2. answer'[d].to = head[Owner[d]] /\ answer'[d].base = base[d] /\ answer'[d].mail = mail
        BY <4>1 DEF TypeOK
      <4>3. Covered(Owner[d], base[d], cursor[d], had)
        BY DEF CursorsHold
      <4>4. head[Owner[d]] \in Nat /\ cursor[d] \in Nat /\ \A m \in Mail : seq[m] \in Nat
        BY CursorTypes DEF TypeOK
      <4>5. \A m \in Mail : row[m].n # 0 /\ To[m] = Owner[d] /\ base[d] < seq[m] /\ seq[m] <= head[Owner[d]] =>
              m \in had \cup mail \/ Owner[d] \in row[m].deletedBy
        <5> TAKE m \in Mail
        <5>1. CASE seq[m] <= cursor[d]
          BY <4>3, <5>1 DEF Covered
        <5>2. CASE seq[m] > cursor[d]
          BY <5>2 DEF Between, Exists
        <5> QED
          BY <4>4, <5>1, <5>2
      <4> HIDE DEF mail
      <4>6. had \cup mail \subseteq had' \cup answer'[d].mail
        BY <2>0, <4>2
      <4> QED
        BY <2>1, <4>2, <4>4, <4>5, <4>6 DEF Covered
    <3>4. CASE SyncFromNow(d)
      <4>1. answer' = [answer EXCEPT ![d] = [to |-> head[Owner[d]], base |-> head[Owner[d]], mail |-> {}]]
        BY <3>4 DEF SyncFromNow, Now
      <4>2. answer'[d].to = head[Owner[d]] /\ answer'[d].base = head[Owner[d]]
        BY <4>1 DEF TypeOK
      <4>3. head[Owner[d]] \in Nat /\ \A m \in Mail : seq'[m] \in Nat
        BY CursorTypes DEF TypeOK
      <4> QED
        BY <2>1, <4>2, <4>3 DEF Covered
    <3> QED
      BY <1>2, <3>1, <3>2, <3>3, <3>4 DEF SyncParks, SyncArrives, SyncLost, Reinstall, TypeOK
  <2>10. ASSUME NEW call \in asked'[d]
         PROVE  call.cursor <= head'[Owner[d]] /\ Covered(Owner[d], call.base, call.cursor, had)'
    <3>1. CASE call \in asked[d]
      BY <2>0, <2>2, <3>1, OneDeviceStays
    <3>2. CASE call.cursor = cursor[d] /\ call.base = base[d] /\ (Sync(d) \/ SyncParks(d))
      <4>1. cursor'[d] = cursor[d] /\ base'[d] = base[d]
        BY <3>2 DEF Sync, SyncParks
      <4> QED
        BY <2>7, <2>8, <3>2, <4>1 DEF Covered
    <3>3. CASE Sync(d) \/ SyncParks(d)
      BY <2>10, <3>1, <3>2, <3>3, AskHeld DEF Sync, SyncParks, Called
    <3>4. CASE SyncFromNow(d) \/ SyncArrives(d) \/ SyncLost(d) \/ Reinstall(d)
      BY <2>10, <3>1, <3>4 DEF SyncFromNow, Now, SyncArrives, SyncLost, Reinstall
    <3> QED
      BY <1>2, <3>3, <3>4
  <2>11. CursorsHold'
    BY <2>6, <2>7, <2>8, <2>9, <2>10 DEF CursorsHold
  <2> QED
    BY <2>3, <2>4, <2>11
<1> QED
  BY <1>1, <1>2 DEF Syncing

LEMMA StutterHeld ==
    ASSUME TypeOK, HeldInv, UNCHANGED vars
    PROVE  TypeOK' /\ HeldInv'
<1>1. TypeOK'
  BY DEF vars, hubVars, pollVars, ringVars, syncVars, history, TypeOK
<1>2. LogGrows /\ had' = had /\ acks' = acks /\ UNCHANGED <<pollVars, syncVars>>
  BY DEF LogGrows, vars, hubVars, history, TypeOK
<1>3. Numbered' /\ RowsTrue' /\ SendsLockTheirRecipient'
  BY DEF HeldInv, vars, hubVars, history, Numbered, RowsTrue, RowTrue, Fetched, SendsLockTheirRecipient
<1> QED
  BY <1>1, <1>2, <1>3, CursorsStay, ListenersStay DEF HeldInv

LEMMA StepHeld ==
    ASSUME TypeOK, HeldInv, Next
    PROVE  TypeOK' /\ HeldInv'
<1>1. TypeOK'
  BY SendingType, ReadingType, AckingType, PollerType, SyncingType DEF Next, HeldInv
<1>2. HeldInv'
  BY <1>1, SendingHeld, ReceiptsHeld, DeleteHeld, ExpireHeld, AckingHeld, PollerHeld, SyncingHeld
     DEF Next, Reading
<1> QED
  BY <1>1, <1>2

(* The types and the custody invariant hold in every behaviour.             *)
THEOREM HeldInductive == Spec => [](TypeOK /\ HeldInv)
<1>1. Init => TypeOK /\ HeldInv
  BY InitType, InitHeld
<1>2. TypeOK /\ HeldInv /\ [Next]_vars => TypeOK' /\ HeldInv'
  BY StepHeld, StutterHeld
<1> QED
  BY <1>1, <1>2, PTL DEF Spec

(* The variables keep their types (Custody's TypeOK).                       *)
THEOREM CustodyTypes == Spec => []TypeOK
BY HeldInductive, PTL

(* Mail leaves the queue only to someone who has it, or deleted it: by ack  *)
(* or by cursor, in time, late or again.                                    *)
THEOREM CustodyHeld == Spec => []CustodyIsHeld
<1>1. HeldInv => CustodyIsHeld
  BY DEF HeldInv, RowsTrue, RowTrue, CustodyIsHeld
<1> QED
  BY <1>1, HeldInductive, PTL

-----------------------------------------------------------------------------
(* The receipts a sender is owed.                                          *)

\* Every receipt that was ever claimed: told, lost with an answer, or in one.
Sent == told \cup missed \cup UNION {receipts[p] : p \in Poller}

\* Only an answer on its way has receipts in it.
OnlyAnswered == \A p \in Poller : receipts[p] # {} => stage[p] = "answered"

\* A claimed receipt is of a row that was, and is never ahead of it.
SentBefore ==
    \A r \in Sent :
        /\ r.n # 0 /\ r.n <= lastN
        /\ r.n = row[r.id].n => r.marks \subseteq row[r.id].marks

\* What a row owes was not claimed yet.
OwedUnsent == \A m \in Mail : Exists(m) /\ row[m].owed => Receipt(m) \notin Sent

SentTrue ==
    \A r \in Sent :
        /\ r.marks \cap {"delivered", "read"} # {} => r.id \in had
        /\ "fetched" \in r.marks => r.id \in had \cup left

ReceiptsInv == OnlyAnswered /\ SentBefore /\ OwedUnsent /\ SentTrue /\ ReceiptsAccounted /\ ReceiptsToldOnce

\* What may happen to a row other than that its receipt is claimed.
Moves(m) ==
    \/ row'[m].n = 0
    \/ row'[m].n = row[m].n /\ row'[m].marks = row[m].marks /\ row'[m].owed = row[m].owed
    \/ /\ row'[m].n = row[m].n /\ row'[m].owed
       /\ row[m].marks \subseteq row'[m].marks /\ row'[m].marks # row[m].marks
    \/ row'[m].n > lastN /\ row'[m].marks = {} /\ ~row'[m].owed

LEMMA SentTypes ==
    ASSUME TypeOK
    PROVE  \A r \in Sent : r.id \in Mail /\ r.n \in Nat /\ r.marks \in Marks
BY DEF TypeOK, Sent, ReceiptsSent

\* Rows that move leave what was claimed and what is owed in step.
LEMMA MovesKeep ==
    ASSUME TypeOK, TypeOK', SentBefore, OwedUnsent, SentTrue, ReceiptsAccounted,
           Sent' = Sent, lastN <= lastN', had \subseteq had', left \subseteq left', \A m \in Mail : Moves(m)
    PROVE  SentBefore' /\ OwedUnsent' /\ SentTrue' /\ ReceiptsAccounted'
<1>1. lastN \in Nat /\ lastN' \in Nat
  BY DEF TypeOK
<1>2. SentBefore'
  <2> SUFFICES ASSUME NEW r \in Sent
               PROVE  r.n # 0 /\ r.n <= lastN' /\ (r.n = row'[r.id].n => r.marks \subseteq row'[r.id].marks)
    BY DEF SentBefore
  <2>1. r.n \in Nat /\ r.id \in Mail /\ r.n # 0 /\ r.n <= lastN /\ (r.n = row[r.id].n => r.marks \subseteq row[r.id].marks)
    BY SentTypes DEF SentBefore
  <2>2. Moves(r.id)
    BY <2>1
  <2> QED
    BY <1>1, <2>1, <2>2 DEF Moves
<1>3. OwedUnsent'
  <2> SUFFICES ASSUME NEW m \in Mail, row'[m].n # 0, row'[m].owed
               PROVE  [id |-> m, n |-> row'[m].n, marks |-> row'[m].marks] \notin Sent
    BY DEF OwedUnsent, Exists, Receipt
  <2>1. Moves(m)
    OBVIOUS
  <2>2. CASE row'[m].n = row[m].n /\ row'[m].marks = row[m].marks /\ row'[m].owed = row[m].owed
    BY <2>2 DEF OwedUnsent, Exists, Receipt
  <2>3. CASE /\ row'[m].n = row[m].n
             /\ row[m].marks \subseteq row'[m].marks /\ row'[m].marks # row[m].marks
    <3> SUFFICES ASSUME [id |-> m, n |-> row'[m].n, marks |-> row'[m].marks] \in Sent PROVE FALSE
      OBVIOUS
    <3>1. row'[m].marks \subseteq row[m].marks
      BY <2>3 DEF SentBefore
    <3> QED
      BY <2>3, <3>1
  <2> QED
    BY <2>1, <2>2, <2>3 DEF Moves
<1>4. SentTrue'
  BY DEF SentTrue
<1>5. ReceiptsAccounted'
  <2> SUFFICES ASSUME NEW m \in Mail, row'[m].n # 0, row'[m].marks # {}, ~row'[m].owed
               PROVE  [id |-> m, n |-> row'[m].n, marks |-> row'[m].marks] \in Sent'
    BY DEF ReceiptsAccounted, Exists, Receipt, Sent
  <2>1. row'[m].n = row[m].n /\ row'[m].marks = row[m].marks /\ row'[m].owed = row[m].owed
    <3>1. Moves(m)
      OBVIOUS
    <3> QED
      BY <3>1 DEF Moves
  <2>2. Receipt(m) \in Sent
    BY <2>1 DEF ReceiptsAccounted, Exists, Sent
  <2> QED
    BY <2>1, <2>2 DEF Receipt
<1> QED
  BY <1>2, <1>3, <1>4, <1>5

-----------------------------------------------------------------------------
(* How each handler moves the rows.                                        *)

LEMMA SameMoves == row' = row => \A m \in Mail : Moves(m)
BY DEF Moves

LEMMA HandOverMoves ==
    ASSUME TypeOK, NEW ms, HandOver(ms)
    PROVE  \A m \in Mail : Moves(m)
<1> TAKE m \in Mail
<1>1. row[m] \in Rows
  BY RowFields
<1>2. CASE m \in ms /\ Exists(m) /\ ~Fetched(m)
  <2>1. row'[m] = [row[m] EXCEPT !.marks = @ \cup {"fetched"}, !.owed = TRUE]
    BY <1>2 DEF HandOver
  <2>2. row'[m].n = row[m].n /\ row'[m].owed /\ row'[m].marks = row[m].marks \cup {"fetched"}
    BY <1>1, <2>1 DEF Rows
  <2>3. "fetched" \notin row[m].marks
    BY <1>2 DEF Fetched
  <2> QED
    BY <2>2, <2>3 DEF Moves
<1>3. CASE ~(m \in ms /\ Exists(m) /\ ~Fetched(m))
  <2>1. row'[m] = row[m]
    BY <1>3 DEF HandOver
  <2> QED
    BY <2>1 DEF Moves
<1> QED
  BY <1>2, <1>3

LEMMA SendMoves ==
    ASSUME TypeOK, SendsLockTheirRecipient, NEW a \in Address, SendNew(a)
    PROVE  \A m \in Mail : Moves(m)
<1> TAKE m \in Mail
<1>1. lastN + 1 \in Nat /\ lastN + 1 > lastN
  BY DEF TypeOK
<1>2. CASE m = sending[a].id
  <2>1. row'[m] = [NoRow EXCEPT !.n = lastN + 1]
    BY <1>2 DEF SendNew, TypeOK
  <2>2. row'[m].n = lastN + 1 /\ row'[m].marks = {} /\ row'[m].owed = FALSE
    BY <1>1, <2>1, NewRowFields
  <2> QED
    BY <1>1, <2>2 DEF Moves
<1>3. CASE m # sending[a].id
  <2>1. row'[m] = row[m]
    BY <1>3 DEF SendNew, TypeOK
  <2> QED
    BY <2>1 DEF Moves
<1> QED
  BY <1>2, <1>3

LEMMA ReceiptsMoves ==
    ASSUME TypeOK, Numbered, NEW a \in Address, NEW todo \in SUBSET (had \X Rung), Receipts(a, todo)
    PROVE  \A m \in Mail : Moves(m)
<1>1. PICK changed \in SUBSET had :
        /\ \A m \in changed : row[m].n # 0 /\ To[m] = a
        /\ \A m \in Mail \ changed : row'[m] = row[m]
        /\ \A m \in changed :
             /\ row[m].marks \subseteq row'[m].marks /\ row'[m].marks # row[m].marks
             /\ row'[m].marks \ row[m].marks \subseteq {"delivered", "read"}
             /\ row'[m].owed /\ row'[m].n = row[m].n /\ row'[m].deletedBy = row[m].deletedBy
        /\ row' \in [Mail -> Rows]
        /\ LogChanges(a, {m \in changed : a \notin row[m].deletedBy})
  BY ReceiptsChange, Zenon
<1> TAKE m \in Mail
<1>2. CASE m \in changed
  BY <1>1, <1>2 DEF Moves
<1>3. CASE m \notin changed
  <2>1. row'[m] = row[m]
    BY <1>1, <1>3
  <2> QED
    BY <2>1 DEF Moves
<1> QED
  BY <1>2, <1>3

LEMMA DeleteMoves ==
    ASSUME TypeOK, NEW a \in Address, NEW k \in Mail, DeleteCopy(a, k)
    PROVE  \A m \in Mail : Moves(m)
<1> DEFINE rest == [row[k] EXCEPT !.deletedBy = @ \cup {a},
                                  !.marks = IF a = To[k] THEN @ \cup {"fetched"} ELSE @,
                                  !.owed = @ \/ (a = To[k] /\ ~Fetched(k))]
<1>1. row' = [row EXCEPT ![k] = IF rest.deletedBy = {From[k], To[k]} THEN NoRow ELSE rest]
  BY DEF DeleteCopy
<1>2. /\ rest.n = row[k].n
      /\ rest.marks = (IF a = To[k] THEN row[k].marks \cup {"fetched"} ELSE row[k].marks)
      /\ rest.owed = (row[k].owed \/ (a = To[k] /\ ~Fetched(k)))
  BY RowFields DEF Rows
<1>3. (row'[k] = NoRow \/ row'[k] = rest) /\ \A m \in Mail \ {k} : row'[m] = row[m]
  BY <1>1 DEF TypeOK
<1> HIDE DEF rest
<1> TAKE m \in Mail
<1>4. CASE m # k
  <2>1. row'[m] = row[m]
    BY <1>3, <1>4
  <2> QED
    BY <2>1 DEF Moves
<1>5. CASE m = k /\ row'[k] = NoRow
  BY <1>5, NoRowFields DEF Moves
<1>6. CASE m = k /\ row'[k] = rest /\ a = To[k] /\ ~Fetched(k)
  <2>1. row'[m].n = row[m].n /\ row'[m].owed /\ row'[m].marks = row[m].marks \cup {"fetched"}
    BY <1>2, <1>6
  <2>2. "fetched" \notin row[m].marks
    BY <1>6 DEF Fetched
  <2> QED
    BY <2>1, <2>2 DEF Moves
<1>7. CASE m = k /\ row'[k] = rest /\ ~(a = To[k] /\ ~Fetched(k))
  <2>1. row'[m].n = row[m].n
    BY <1>2, <1>7
  <2>2. row'[m].marks = row[m].marks
    BY <1>2, <1>7 DEF Fetched
  <2>3. row'[m].owed = row[m].owed
    <3>1. row[k].owed \in BOOLEAN /\ rest.owed = (row[k].owed \/ FALSE)
      BY <1>2, <1>7, RowFields
    <3> QED
      BY <1>7, <3>1
  <2> QED
    BY <2>1, <2>2, <2>3 DEF Moves
<1> QED
  BY <1>3, <1>4, <1>5, <1>6, <1>7

LEMMA ExpireMoves ==
    ASSUME TypeOK, NEW k \in Mail, Expire(k)
    PROVE  \A m \in Mail : Moves(m)
<1> TAKE m \in Mail
<1>1. row'[m] = IF m = k THEN NoRow ELSE row[m]
  BY DEF Expire, TypeOK
<1> QED
  BY <1>1, NoRowFields DEF Moves

\* Steps that leave every answer alone.
LEMMA QuietKeeps ==
    ASSUME TypeOK, TypeOK', ReceiptsInv, UNCHANGED <<told, missed, receipts, stage>>,
           lastN <= lastN', had \subseteq had', left \subseteq left', \A m \in Mail : Moves(m)
    PROVE  ReceiptsInv'
<1>1. Sent' = Sent
  BY DEF Sent
<1>2. SentBefore' /\ OwedUnsent' /\ SentTrue' /\ ReceiptsAccounted'
  BY <1>1, MovesKeep DEF ReceiptsInv
<1>3. OnlyAnswered' /\ ReceiptsToldOnce'
  BY DEF ReceiptsInv, OnlyAnswered, ReceiptsToldOnce
<1> QED
  BY <1>2, <1>3 DEF ReceiptsInv

\* A poller's steps but the claim: its receipts stay, arrive or are lost.
LEMMA PollerKeeps ==
    ASSUME TypeOK, TypeOK', ReceiptsInv, NEW p \in Poller,
           PollMail(p) \/ PollPark(p) \/ Surface(p) \/ MarkSeen(p) \/ AskAck(p) \/ Crash(p)
    PROVE  ReceiptsInv'
<1>1. row' = row /\ lastN' = lastN /\ had \subseteq had' /\ left' = left
  BY DEF PollMail, PollPark, Surface, MarkSeen, AskAck, Crash, hubVars, history
<1>2. lastN <= lastN'
  BY <1>1 DEF TypeOK
<1>3. receipts \in [Poller -> SUBSET ReceiptsSent] /\ stage \in [Poller -> {"idle", "polled", "answered", "surfaced", "marked"}]
  BY DEF TypeOK
<1>4. stage[p] # "answered" => receipts[p] = {}
  BY DEF ReceiptsInv, OnlyAnswered
<1>5. \A q \in Poller \ {p} : receipts'[q] = receipts[q] /\ stage'[q] = stage[q]
  BY <1>3 DEF PollMail, PollPark, Surface, MarkSeen, AskAck, Crash, Rest
<1>6. receipts'[p] = {}
  BY <1>3, <1>4 DEF PollMail, PollPark, Surface, MarkSeen, AskAck, Crash, Rest
<1>7. told' \cup missed' = told \cup missed \cup receipts[p]
  BY <1>4 DEF PollMail, PollPark, Surface, MarkSeen, AskAck, Crash, history
<1>8. UNION {receipts[q] : q \in Poller} = receipts[p] \cup UNION {receipts'[q] : q \in Poller}
  BY <1>5, <1>6
<1>9. Sent' = Sent
  BY <1>7, <1>8 DEF Sent
<1>10. SentBefore' /\ OwedUnsent' /\ SentTrue' /\ ReceiptsAccounted'
  BY <1>1, <1>2, <1>9, SameMoves, MovesKeep DEF ReceiptsInv
<1>11. OnlyAnswered'
  BY <1>5, <1>6 DEF ReceiptsInv, OnlyAnswered
<1>12. ReceiptsToldOnce'
  <2> SUFFICES ASSUME NEW q \in Poller, NEW r \in receipts'[q]
               PROVE  r \notin told' \cup missed' /\ \A o \in Poller \ {q} : r \notin receipts'[o]
    BY DEF ReceiptsToldOnce
  <2>1. q # p /\ r \in receipts[q]
    BY <1>5, <1>6
  <2>2. r \notin told \cup missed /\ \A o \in Poller \ {q} : r \notin receipts[o]
    BY <2>1 DEF ReceiptsInv, ReceiptsToldOnce
  <2> QED
    BY <1>5, <1>6, <1>7, <2>1, <2>2
<1> QED
  BY <1>10, <1>11, <1>12 DEF ReceiptsInv

\* The claim: what is owed goes into one answer.
LEMMA ClaimKeeps ==
    ASSUME TypeOK, HeldInv, ReceiptsInv, NEW p \in Poller, PollReceipts(p)
    PROVE  ReceiptsInv'
<1> DEFINE due == {m \in Mail : Exists(m) /\ From[m] = Owner[p] /\ row[m].owed}
           claimed == {Receipt(m) : m \in due}
<1>1. stage[p] = "polled" /\ UNCHANGED <<lastN, told, missed, had, left>>
  BY DEF PollReceipts, history
<1>2. receipts[p] = {}
  BY <1>1 DEF ReceiptsInv, OnlyAnswered
<1>3. /\ receipts'[p] = claimed /\ stage'[p] = "answered"
      /\ \A q \in Poller \ {p} : receipts'[q] = receipts[q] /\ stage'[q] = stage[q]
  BY DEF PollReceipts, TypeOK
<1>4. \A m \in Mail : /\ row'[m].n = row[m].n /\ row'[m].marks = row[m].marks
                      /\ m \notin due => row'[m] = row[m]
                      /\ m \in due => ~row'[m].owed
  <2> TAKE m \in Mail
  <2>1. row[m] \in Rows
    BY RowFields
  <2>2. row'[m] = IF m \in due THEN [row[m] EXCEPT !.owed = FALSE] ELSE row[m]
    BY DEF PollReceipts, Claim
  <2> HIDE DEF due
  <2> QED
    BY <2>1, <2>2 DEF Rows
<1>5. UNION {receipts'[q] : q \in Poller} = claimed \cup UNION {receipts[q] : q \in Poller}
  BY <1>2, <1>3
<1>6. Sent' = Sent \cup claimed
  BY <1>1, <1>5 DEF Sent
<1>7. \A m \in due : m \in Mail /\ Exists(m) /\ row[m].owed
  OBVIOUS
<1>8. \A r \in claimed : r.id \in due /\ r = Receipt(r.id) /\ r.n = row[r.id].n /\ r.marks = row[r.id].marks
  BY DEF Receipt
<1>9. \A m \in due : Receipt(m) \in claimed
  OBVIOUS
<1> HIDE DEF due, claimed
<1>10. \A r \in claimed : r \notin Sent
  BY <1>7, <1>8 DEF ReceiptsInv, OwedUnsent
<1>11. SentBefore'
  <2>1. \A r \in Sent : r.id \in Mail
    BY SentTypes
  <2>2. \A r \in Sent : r.n # 0 /\ r.n <= lastN /\ (r.n = row'[r.id].n => r.marks \subseteq row'[r.id].marks)
    BY <1>4, <2>1 DEF ReceiptsInv, SentBefore
  <2>3. \A r \in claimed : r.n # 0 /\ r.n <= lastN /\ (r.n = row'[r.id].n => r.marks \subseteq row'[r.id].marks)
    BY <1>4, <1>7, <1>8 DEF HeldInv, Numbered, Exists
  <2> QED
    BY <1>1, <1>6, <2>2, <2>3 DEF SentBefore
<1>12. OwedUnsent'
  <2> SUFFICES ASSUME NEW m \in Mail, row'[m].n # 0, row'[m].owed
               PROVE  [id |-> m, n |-> row'[m].n, marks |-> row'[m].marks] \notin Sent'
    BY DEF OwedUnsent, Exists, Receipt
  <2>1. m \notin due /\ row'[m] = row[m]
    BY <1>4
  <2>2. Receipt(m) \notin Sent
    BY <2>1 DEF ReceiptsInv, OwedUnsent, Exists
  <2>3. Receipt(m) \notin claimed
    BY <1>8, <2>1 DEF Receipt
  <2> QED
    BY <1>6, <2>1, <2>2, <2>3 DEF Receipt
<1>13. SentTrue'
  <2>1. \A r \in claimed : /\ r.marks \cap {"delivered", "read"} # {} => r.id \in had
                           /\ "fetched" \in r.marks => r.id \in had \cup left
    BY <1>7, <1>8 DEF HeldInv, RowsTrue, RowTrue, Fetched
  <2> QED
    BY <1>1, <1>6, <2>1 DEF ReceiptsInv, SentTrue
<1>14. ReceiptsAccounted'
  <2> SUFFICES ASSUME NEW m \in Mail, row'[m].n # 0, row'[m].marks # {}, ~row'[m].owed
               PROVE  [id |-> m, n |-> row'[m].n, marks |-> row'[m].marks] \in Sent'
    BY DEF ReceiptsAccounted, Exists, Receipt, Sent
  <2>1. [id |-> m, n |-> row'[m].n, marks |-> row'[m].marks] = Receipt(m)
    BY <1>4 DEF Receipt
  <2>2. CASE m \in due
    BY <1>6, <1>9, <2>1, <2>2
  <2>3. CASE m \notin due
    <3>1. Receipt(m) \in Sent
      BY <1>4, <2>3 DEF ReceiptsInv, ReceiptsAccounted, Exists, Sent
    <3> QED
      BY <1>6, <2>1, <3>1
  <2> QED
    BY <2>2, <2>3
<1>15. OnlyAnswered'
  BY <1>3 DEF ReceiptsInv, OnlyAnswered
<1>16. ReceiptsToldOnce'
  <2> SUFFICES ASSUME NEW q \in Poller, NEW r \in receipts'[q]
               PROVE  r \notin told \cup missed /\ \A o \in Poller \ {q} : r \notin receipts'[o]
    BY <1>1 DEF ReceiptsToldOnce
  <2>1. \A o \in Poller : receipts[o] \subseteq Sent
    BY DEF Sent
  <2>2. CASE q = p
    <3>1. r \in claimed /\ r \notin Sent
      BY <1>3, <1>10, <2>2
    <3> QED
      BY <1>3, <2>1, <2>2, <3>1 DEF Sent
  <2>3. CASE q # p
    <3>1. r \in receipts[q] /\ r \notin claimed
      BY <1>3, <1>10, <2>1, <2>3
    <3>2. r \notin told \cup missed /\ \A o \in Poller \ {q} : r \notin receipts[o]
      BY <3>1 DEF ReceiptsInv, ReceiptsToldOnce
    <3> QED
      BY <1>3, <3>1, <3>2
  <2> QED
    BY <2>2, <2>3
<1> QED
  BY <1>11, <1>12, <1>13, <1>14, <1>15, <1>16 DEF ReceiptsInv

LEMMA ReceiptsStep ==
    ASSUME TypeOK, TypeOK', HeldInv, ReceiptsInv, [Next]_vars
    PROVE  ReceiptsInv'
<1>1. lastN \in Nat /\ SendsLockTheirRecipient /\ Numbered
  BY DEF TypeOK, HeldInv
<1>2. CASE Sending
  <2>1. UNCHANGED <<told, missed, receipts, stage, had, left>>
    BY <1>2 DEF Sending, SendLookup, SendNew, SendDuplicate, SendFails, pollVars, ringVars, history
  <2>2. lastN <= lastN' /\ \A m \in Mail : Moves(m)
    <3>1. CASE \E a \in Address : SendNew(a)
      <4>1. PICK a \in Address : SendNew(a)
        BY <3>1
      <4>2. lastN' = lastN + 1
        BY <4>1 DEF SendNew
      <4> QED
        BY <1>1, <4>1, <4>2, SendMoves
    <3>2. CASE row' = row /\ lastN' = lastN
      BY <1>1, <3>2, SameMoves
    <3> QED
      BY <1>2, <3>1, <3>2 DEF Sending, SendLookup, SendDuplicate, SendFails
  <2> QED
    BY <2>1, <2>2, QuietKeeps
<1>3. CASE Reading
  <2>1. UNCHANGED <<told, missed, receipts, stage, had, lastN>> /\ left \subseteq left'
    BY <1>3 DEF Reading, Receipts, DeleteCopy, Expire, pollVars, ringVars, history
  <2>2. \A m \in Mail : Moves(m)
    BY <1>1, <1>3, ReceiptsMoves, DeleteMoves, ExpireMoves DEF Reading
  <2> QED
    BY <1>1, <2>1, <2>2, QuietKeeps
<1>4. CASE Acking
  <2>1. UNCHANGED <<told, missed, receipts, stage, had, left, lastN>>
    BY <1>4 DEF Acking, Ack, AckLost, hubVars, pollVars, ringVars, history
  <2>2. \A m \in Mail : Moves(m)
    BY <1>4, HandOverMoves, SameMoves DEF Acking, Ack, AckLost, hubVars
  <2> QED
    BY <1>1, <2>1, <2>2, QuietKeeps
<1>5. ASSUME NEW d \in Device, Syncing(d) PROVE ReceiptsInv'
  <2>1. UNCHANGED <<told, missed, receipts, stage, left, lastN>> /\ had \subseteq had'
    BY <1>5 DEF Syncing, TakeCustody, Sync, SyncFromNow, SyncParks, SyncArrives, SyncLost, Reinstall, hubVars, pollVars, ringVars, history
  <2>2. \A m \in Mail : Moves(m)
    <3>1. CASE \E call \in asked[d] : TakeCustody(d, call)
      BY <3>1, HandOverMoves DEF TakeCustody
    <3>2. CASE ~\E call \in asked[d] : TakeCustody(d, call)
      BY <1>5, <3>2, SameMoves DEF Syncing, Sync, SyncFromNow, SyncParks, SyncArrives, SyncLost, Reinstall, hubVars
    <3> QED
      BY <3>1, <3>2
  <2> QED
    BY <1>1, <2>1, <2>2, QuietKeeps
<1>6. ASSUME NEW p \in Poller, Polling(p) \/ Crash(p) PROVE ReceiptsInv'
  BY <1>6, PollerKeeps, ClaimKeeps DEF Polling
<1>7. CASE UNCHANGED vars
  BY <1>1, <1>7, SameMoves, QuietKeeps DEF vars, hubVars, pollVars, ringVars, history
<1> QED
  BY <1>2, <1>3, <1>4, <1>5, <1>6, <1>7 DEF Next

LEMMA ReceiptsAlways == Spec => []ReceiptsInv
<1>1. Init => ReceiptsInv
  <2> SUFFICES ASSUME Init PROVE ReceiptsInv
    OBVIOUS
  <2>1. Sent = {} /\ \A p \in Poller : receipts[p] = {}
    BY DEF Init, Sent
  <2>2. \A m \in Mail : row[m] = NoRow
    BY DEF Init
  <2> QED
    BY <2>1, <2>2, NoRowFields DEF ReceiptsInv, OnlyAnswered, SentBefore, OwedUnsent, SentTrue, ReceiptsAccounted,
       ReceiptsToldOnce, Exists
<1>2. TypeOK /\ TypeOK' /\ HeldInv /\ ReceiptsInv /\ [Next]_vars => ReceiptsInv'
  BY ReceiptsStep
<1> QED
  BY <1>1, <1>2, HeldInductive, PTL DEF Spec

(* No rung is forgotten: what a message reached is owed, in an answer,      *)
(* told, or went with one lost answer, whichever of ack, cursor, receipt    *)
(* and deletion brought it there (Custody's ReceiptsAccounted).             *)
THEOREM NoReceiptForgotten == Spec => []ReceiptsAccounted
<1>1. ReceiptsInv => ReceiptsAccounted
  BY DEF ReceiptsInv
<1> QED
  BY <1>1, ReceiptsAlways, PTL

(* Two polls of one sender never answer with the same receipt: the claim    *)
(* takes what is owed in one statement (Custody's ReceiptsToldOnce).        *)
THEOREM NoReceiptTwice == Spec => []ReceiptsToldOnce
<1>1. ReceiptsInv => ReceiptsToldOnce
  BY DEF ReceiptsInv
<1> QED
  BY <1>1, ReceiptsAlways, PTL

(* What a sender hears of a message is true of it, whatever became of its   *)
(* row (Custody's ToldTheTruth).                                            *)
THEOREM SendersHearTheTruth == Spec => []ToldTheTruth
<1>1. ReceiptsInv => ToldTheTruth
  BY DEF ReceiptsInv, SentTrue, Sent, ToldTheTruth
<1> QED
  BY <1>1, ReceiptsAlways, PTL

-----------------------------------------------------------------------------
(* What a retried send is answered.                                        *)

\* No answer is ahead of the row it was given for.
AnswersBehind ==
    \A m \in Mail : answered[m] <= lastN /\ (Exists(m) => answered[m] <= row[m].n)

LEMMA SendTouchesOne ==
    ASSUME TypeOK, SendsLockTheirRecipient, NEW a \in Address, SendNew(a) \/ SendDuplicate(a)
    PROVE  /\ sending[a].id \in Mail
           /\ \A m \in Mail \ {sending[a].id} : row'[m] = row[m] /\ answered'[m] = answered[m]
BY DEF SendNew, Unstored, SendDuplicate, SendsLockTheirRecipient, TypeOK

LEMMA SendNewAnswers ==
    ASSUME TypeOK, SendsLockTheirRecipient, NEW a \in Address, SendNew(a)
    PROVE  LET m == sending[a].id IN
           /\ row[m].n = 0 /\ row'[m].n = lastN + 1 /\ answered'[m] = lastN + 1 /\ lastN' = lastN + 1
<1> DEFINE m == sending[a].id
<1>1. m \in Mail /\ lastN + 1 \in Nat
  BY SendTouchesOne DEF TypeOK
<1>2. row'[m] = [NoRow EXCEPT !.n = lastN + 1] /\ answered'[m] = lastN + 1 /\ lastN' = lastN + 1
  BY <1>1 DEF SendNew, TypeOK
<1>3. row[m].n = 0
  BY DEF SendNew, Unstored, Exists
<1> QED
  BY <1>1, <1>2, <1>3, NewRowFields

LEMMA AnswersStep ==
    ASSUME TypeOK, TypeOK', HeldInv, AnswersBehind, [Next]_vars
    PROVE  AnswersBehind' /\ AnsweredAsBefore
<1>1. SendsLockTheirRecipient /\ Numbered /\ lastN \in Nat
  BY DEF HeldInv, TypeOK
<1>2. \A m \in Mail : /\ answered[m] \in Nat /\ answered[m] <= lastN /\ row[m].n \in Nat /\ row[m].n <= lastN
                      /\ row[m].n # 0 => answered[m] <= row[m].n
  BY <1>1, RowFields DEF AnswersBehind, Exists, Numbered, TypeOK
<1>3. ASSUME NEW a \in Address, SendNew(a) PROVE AnswersBehind' /\ AnsweredAsBefore
  <2> DEFINE m == sending[a].id
  <2>1. m \in Mail /\ \A k \in Mail \ {m} : row'[k] = row[k] /\ answered'[k] = answered[k]
    BY <1>1, <1>3, SendTouchesOne
  <2>2. row[m].n = 0 /\ row'[m].n = lastN + 1 /\ answered'[m] = lastN + 1 /\ lastN' = lastN + 1
    BY <1>1, <1>3, SendNewAnswers
  <2> HIDE DEF m
  <2>3. AnswersBehind'
    BY <1>1, <1>2, <2>1, <2>2 DEF AnswersBehind, Exists
  <2>4. AnsweredAsBefore
    BY <1>1, <1>2, <2>1, <2>2 DEF AnsweredAsBefore
  <2> QED
    BY <2>3, <2>4
<1>4. ASSUME NEW a \in Address, SendDuplicate(a) PROVE AnswersBehind' /\ AnsweredAsBefore
  <2> DEFINE m == sending[a].id
  <2>1. m \in Mail /\ \A k \in Mail \ {m} : row'[k] = row[k] /\ answered'[k] = answered[k]
    BY <1>1, <1>4, SendTouchesOne
  <2>2. row[m].n # 0 /\ row' = row /\ answered'[m] = row[m].n /\ lastN' = lastN
    BY <1>4, <2>1 DEF SendDuplicate, Exists, TypeOK
  <2> HIDE DEF m
  <2>3. AnswersBehind'
    BY <1>1, <1>2, <2>1, <2>2 DEF AnswersBehind, Exists
  <2>4. AnsweredAsBefore
    BY <1>1, <1>2, <2>1, <2>2 DEF AnsweredAsBefore
  <2> QED
    BY <2>3, <2>4
<1>5. CASE answered' = answered /\ lastN' = lastN /\ \A m \in Mail : row'[m].n = row[m].n \/ row'[m].n = 0
  BY <1>2, <1>5 DEF AnswersBehind, AnsweredAsBefore, Exists
<1>6. ASSUME answered' = answered, lastN' = lastN, \A m \in Mail : Moves(m) PROVE AnswersBehind' /\ AnsweredAsBefore
  <2>1. ASSUME NEW m \in Mail PROVE answered[m] <= lastN /\ (row'[m].n # 0 => answered[m] <= row'[m].n)
    <3>1. row'[m] \in Rows /\ row'[m].n \in Nat
      BY DEF TypeOK, Rows
    <3>2. row'[m].n = 0 \/ row'[m].n = row[m].n \/ row'[m].n > lastN
      BY <1>6 DEF Moves
    <3> QED
      BY <1>1, <1>2, <3>1, <3>2
  <2> QED
    BY <1>6, <2>1 DEF AnswersBehind, AnsweredAsBefore, Exists
<1>7. CASE row' = row /\ answered' = answered /\ lastN' = lastN
  BY <1>5, <1>7
<1>8. CASE UNCHANGED vars
  BY <1>7, <1>8 DEF vars, hubVars
<1>9. CASE Reading
  <2>1. answered' = answered /\ lastN' = lastN
    BY <1>9 DEF Reading, Receipts, DeleteCopy, Expire
  <2>2. \A m \in Mail : Moves(m)
    BY <1>1, <1>9, ReceiptsMoves, DeleteMoves, ExpireMoves DEF Reading
  <2> QED
    BY <1>6, <2>1, <2>2
<1>10. CASE \E ids \in SUBSET Mail : Ack(ids)
  BY <1>6, <1>10, HandOverMoves DEF Ack
<1>11. ASSUME NEW d \in Device, NEW call \in asked[d], TakeCustody(d, call) PROVE AnswersBehind' /\ AnsweredAsBefore
  BY <1>6, <1>11, HandOverMoves DEF TakeCustody
<1>12. ASSUME NEW p \in Poller, PollReceipts(p) PROVE AnswersBehind' /\ AnsweredAsBefore
  <2>1. \A m \in Mail : row'[m].n = row[m].n
    <3> TAKE m \in Mail
    <3>1. row[m] \in Rows
      BY RowFields
    <3>2. row'[m] = row[m] \/ row'[m] = [row[m] EXCEPT !.owed = FALSE]
      BY <1>12 DEF PollReceipts, Claim
    <3> QED
      BY <3>1, <3>2 DEF Rows
  <2> QED
    BY <1>5, <1>12, <2>1 DEF PollReceipts
<1>13. CASE Sending
  BY <1>3, <1>4, <1>7, <1>13 DEF Sending, SendLookup, SendFails
<1>14. CASE Acking
  <2>1. CASE \E ids \in SUBSET Mail : AckLost(ids)
    BY <1>7, <2>1 DEF AckLost, hubVars
  <2> QED
    BY <1>10, <1>14, <2>1 DEF Acking
<1>15. ASSUME NEW p \in Poller, Polling(p) \/ Crash(p) PROVE AnswersBehind' /\ AnsweredAsBefore
  <2>1. CASE PollMail(p) \/ PollPark(p) \/ Surface(p) \/ MarkSeen(p) \/ AskAck(p) \/ Crash(p)
    BY <1>7, <2>1 DEF PollMail, PollPark, Surface, MarkSeen, AskAck, Crash, hubVars
  <2> QED
    BY <1>12, <1>15, <2>1 DEF Polling
<1>16. ASSUME NEW d \in Device, Syncing(d) PROVE AnswersBehind' /\ AnsweredAsBefore
  <2>1. CASE Sync(d) \/ SyncFromNow(d) \/ SyncParks(d) \/ SyncArrives(d) \/ SyncLost(d) \/ Reinstall(d)
    BY <1>7, <2>1 DEF Sync, SyncFromNow, SyncParks, SyncArrives, SyncLost, Reinstall, hubVars
  <2> QED
    BY <1>11, <1>16, <2>1 DEF Syncing
<1> QED
  BY <1>8, <1>9, <1>13, <1>14, <1>15, <1>16 DEF Next

(* A retry is answered as the first send was, unless the message it stored  *)
(* is gone: only a row that is not there is made anew, and numbers only     *)
(* grow (Custody's RetryAnswersOriginal).                                   *)
THEOREM RetriesAnswerTheOriginal == Spec => RetryAnswersOriginal
<1>1. Init => AnswersBehind
  BY NoRowFields DEF Init, AnswersBehind, Exists
<1>2. TypeOK /\ TypeOK' /\ HeldInv /\ AnswersBehind /\ [Next]_vars => AnswersBehind' /\ [AnsweredAsBefore]_vars
  BY AnswersStep
<1> QED
  BY <1>1, <1>2, HeldInductive, PTL DEF Spec, RetryAnswersOriginal

-----------------------------------------------------------------------------
(* What a listener surfaces.                                               *)

Rings(p, m) == \E i \in 1..Len(ring[p]) : ring[p][i] = m

\* A ring knows how many ids it took after each one it holds.
InRing == \A p \in Poller : \A i \in 1..Len(ring[p]) : passed[p][ring[p][i]] >= Len(ring[p]) - i

\* What a listener ever surfaced is in its ring or was pushed out of it, is
\* about to be marked, or torn.
ShownKnown ==
    \A p \in Poller : \A m \in shown[p] :
        \/ Rings(p, m) \/ passed[p][m] >= RingSize
        \/ m \in torn[p] \/ (stage[p] = "surfaced" /\ m \in batch[p])

RingInv == InRing /\ ShownKnown

\* mark_seen: a ring got `c` new ids and dropped `cut`.
Shifted(p, c, cut) ==
    LET n == Len(ring[p]) IN
    /\ n \in Nat
    /\ Len(ring'[p]) = n + c - cut /\ Len(ring'[p]) <= RingSize
    /\ cut = 0 \/ n + c - cut = RingSize
    /\ \A j \in 1..Len(ring'[p]) :
         IF j + cut <= n THEN ring'[p][j] = ring[p][j + cut] /\ ring'[p][j] \notin Fresh(p)
         ELSE ring'[p][j] \in Fresh(p) /\ passed'[p][ring'[p][j]] = n + c - (j + cut)
    /\ \A m \in Mail \ Fresh(p) :
         passed'[p][m] = IF passed[p][m] + c < RingSize THEN passed[p][m] + c ELSE RingSize
    /\ \A m \in Fresh(p) : \E i \in 1..c :
         /\ passed'[p][m] = c - i
         /\ n + i > cut => n + i - cut \in 1..Len(ring'[p]) /\ ring'[p][n + i - cut] = m

LEMMA MarkSeenRing ==
    ASSUME TypeOK, NEW p \in Poller, MarkSeen(p)
    PROVE  \E c \in Nat, cut \in Nat : Shifted(p, c, cut)
<1>1. PICK ids \in [1..Cardinality(Fresh(p)) -> Fresh(p)] :
        /\ \A m \in Fresh(p) : \E i \in DOMAIN ids : ids[i] = m
        /\ ring' = [ring EXCEPT ![p] = Keep(@ \o ids)]
        /\ passed' = [passed EXCEPT ![p] = [m \in Mail |-> Behind(p, ids, m)]]
  BY DEF MarkSeen
<1> DEFINE n == Len(ring[p])
           c == Len(ids)
           s == ring[p] \o ids
           cut == IF Len(s) <= RingSize THEN 0 ELSE Len(s) - RingSize
<1>2. /\ ids \in Seq(Mail) /\ c \in Nat
      /\ \A i \in 1..c : ids[i] \in Fresh(p)
      /\ \A m \in Fresh(p), i \in 1..c : ids[i] = m => (CHOOSE j \in DOMAIN ids : ids[j] = m) = i
      /\ \A m \in Fresh(p) : \E i \in 1..c : ids[i] = m
  BY <1>1, NewIds
<1>3. /\ ring[p] \in Seq(Mail) /\ n \in Nat /\ RingSize \in Nat \ {0}
      /\ Fresh(p) \subseteq Mail
      /\ ring \in [Poller -> Seq(Mail)] /\ passed \in [Poller -> [Mail -> Nat]]
  <2>1. ring \in [Poller -> Seq(Mail)]
    BY DEF TypeOK
  <2>2. ring[p] \in Seq(Mail)
    BY <2>1
  <2>3. n \in Nat
    BY <2>2
  <2> QED
    BY <2>1, <2>2, <2>3, ConstantsOK DEF TypeOK, Fresh
<1>4. /\ s \in Seq(Mail) /\ Len(s) = n + c
      /\ \A i \in 1..Len(s) : s[i] = IF i <= n THEN ring[p][i] ELSE ids[i - n]
  <2>1. ring[p] \in Seq(Mail) /\ ids \in Seq(Mail)
    BY <1>2, <1>3
  <2> QED
    BY <2>1, ConcatProperties
<1>5. /\ cut \in Nat /\ Len(Keep(s)) = n + c - cut
      /\ \A j \in 1..(n + c - cut) : Keep(s)[j] = s[j + cut]
  <2>1. s \in Seq(Mail) /\ Len(s) = n + c
    BY <1>4
  <2> HIDE DEF s
  <2>2. /\ cut \in Nat /\ Len(Keep(s)) = Len(s) - cut
        /\ \A j \in 1..(Len(s) - cut) : Keep(s)[j] = s[j + cut]
    BY <1>3, <2>1, KeepCuts
  <2> HIDE DEF cut
  <2> QED
    BY <2>1, <2>2
<1> HIDE DEF s
<1>6. ring'[p] = Keep(s) /\ \A m \in Mail : passed'[p][m] = Behind(p, ids, m)
  BY <1>1, <1>3 DEF s
<1>7. n + c - cut \in Nat /\ n + c - cut <= RingSize /\ (cut = 0 \/ n + c - cut = RingSize)
  BY <1>2, <1>3, <1>4
<1> HIDE DEF cut, c
<1>8. ASSUME NEW j \in 1..(n + c - cut)
      PROVE  IF j + cut <= n THEN ring'[p][j] = ring[p][j + cut] /\ ring'[p][j] \notin Fresh(p)
             ELSE ring'[p][j] \in Fresh(p) /\ passed'[p][ring'[p][j]] = n + c - (j + cut)
  <2>1. j + cut \in 1..(n + c) /\ j \in Nat
    BY <1>2, <1>3, <1>5
  <2>2. ring'[p][j] = s[j + cut]
    BY <1>5, <1>6
  <2>3. CASE j + cut <= n
    <3>1. ring'[p][j] = ring[p][j + cut] /\ j + cut \in 1..n
      BY <1>3, <1>4, <2>1, <2>2, <2>3
    <3> QED
      BY <2>3, <3>1 DEF Fresh
  <2>4. CASE ~(j + cut <= n)
    <3> DEFINE i == j + cut - n
    <3>1. i \in 1..c
      BY <1>2, <1>3, <1>5, <2>1, <2>4
    <3>2. ring'[p][j] = ids[i]
      <4>1. s[j + cut] = IF j + cut <= n THEN ring[p][j + cut] ELSE ids[j + cut - n]
        <5>1. PICK k \in 1..Len(s) : k = j + cut
          BY <1>4, <2>1
        <5>2. s[k] = IF k <= n THEN ring[p][k] ELSE ids[k - n]
          BY <1>4
        <5> QED
          BY <1>2, <1>3, <1>5, <5>1, <5>2
      <4> QED
        BY <2>2, <2>4, <4>1
    <3>3. ids[i] \in Fresh(p)
      BY <1>2, <3>1
    <3>4. PICK m \in Fresh(p) : m = ids[i]
      BY <3>3
    <3>6. (CHOOSE k \in DOMAIN ids : ids[k] = m) = i
      BY <1>2, <3>1, <3>4
    <3>7. Behind(p, ids, m) = c - i
      BY <1>3, <3>6 DEF Behind, c
    <3>5. c - i = n + c - (j + cut)
      BY <1>2, <1>3, <1>5, <2>1
    <3> QED
      BY <1>3, <1>6, <2>4, <3>2, <3>4, <3>5, <3>7
  <2> QED
    BY <2>3, <2>4
<1>9. \A m \in Mail \ Fresh(p) :
        passed'[p][m] = IF passed[p][m] + c < RingSize THEN passed[p][m] + c ELSE RingSize
  BY <1>6 DEF Behind, c
<1>10. ASSUME NEW m \in Fresh(p)
       PROVE  \E i \in 1..c :
                /\ passed'[p][m] = c - i
                /\ n + i > cut => n + i - cut \in 1..(n + c - cut) /\ ring'[p][n + i - cut] = m
  <2>1. PICK i \in 1..c : ids[i] = m
    BY <1>2
  <2>2. (CHOOSE k \in DOMAIN ids : ids[k] = m) = i
    BY <1>2, <2>1
  <2>3. passed'[p][m] = c - i
    BY <1>3, <1>6, <2>2 DEF Behind, c
  <2>4. ASSUME n + i > cut PROVE n + i - cut \in 1..(n + c - cut) /\ ring'[p][n + i - cut] = m
    <3>1. n + i - cut \in 1..(n + c - cut) /\ (n + i - cut) + cut = n + i /\ n + i \in 1..(n + c)
          /\ ~(n + i <= n) /\ (n + i) - n = i
      BY <1>2, <1>3, <1>5, <2>1, <2>4
    <3>2. ring'[p][n + i - cut] = s[n + i]
      BY <1>5, <1>6, <3>1
    <3>3. s[n + i] = ids[i]
      BY <1>4, <3>1
    <3> QED
      BY <2>1, <3>1, <3>2, <3>3
  <2> QED
    BY <2>1, <2>3, <2>4
<1>11. Len(ring'[p]) = n + c - cut
  BY <1>5, <1>6
<1>12. \A m \in Fresh(p) : \E i \in 1..c :
         /\ passed'[p][m] = c - i
         /\ n + i > cut => n + i - cut \in 1..Len(ring'[p]) /\ ring'[p][n + i - cut] = m
  BY <1>10, <1>11
<1>13. \A j \in 1..Len(ring'[p]) :
         IF j + cut <= n THEN ring'[p][j] = ring[p][j + cut] /\ ring'[p][j] \notin Fresh(p)
         ELSE ring'[p][j] \in Fresh(p) /\ passed'[p][ring'[p][j]] = n + c - (j + cut)
  BY <1>8, <1>11
<1>14. c \in Nat /\ cut \in Nat /\ n \in Nat /\ Len(ring'[p]) <= RingSize
  BY <1>2, <1>3, <1>5, <1>7, <1>11
<1>15. cut = 0 \/ n + c - cut = RingSize
  BY <1>7
<1>16. Shifted(p, c, cut)
  BY <1>9, <1>11, <1>12, <1>13, <1>14, <1>15 DEF Shifted
<1> QED
  BY <1>14, <1>16

LEMMA MarkSeenKeeps ==
    ASSUME TypeOK, RingInv, NEW p \in Poller, MarkSeen(p)
    PROVE  /\ \A i \in 1..Len(ring'[p]) : passed'[p][ring'[p][i]] >= Len(ring'[p]) - i
           /\ \A m \in shown[p] : Rings(p, m)' \/ passed'[p][m] >= RingSize \/ m \in torn'[p]
<1> DEFINE n == Len(ring[p])
<1>1. PICK c \in Nat, cut \in Nat : Shifted(p, c, cut)
  BY MarkSeenRing
<1>0. n \in Nat /\ Len(ring'[p]) = n + c - cut /\ Len(ring'[p]) <= RingSize /\ (cut = 0 \/ n + c - cut = RingSize)
  BY <1>1 DEF Shifted
<1>2. /\ passed[p] \in [Mail -> Nat] /\ ring[p] \in Seq(Mail) /\ RingSize \in Nat \ {0}
      /\ shown[p] \subseteq Mail /\ \A i \in 1..n : ring[p][i] \in Mail
  <2>1. ring \in [Poller -> Seq(Mail)]
    BY DEF TypeOK
  <2>2. ring[p] \in Seq(Mail)
    BY <2>1
  <2>3. \A i \in 1..n : ring[p][i] \in Mail
    BY <2>2
  <2> QED
    BY <2>2, <2>3, ConstantsOK DEF TypeOK
<1>3. /\ torn'[p] = torn[p] \ Fresh(p) /\ stage[p] = "surfaced"
  BY DEF MarkSeen, TypeOK
<1>4. \A i \in 1..n : passed[p][ring[p][i]] >= n - i
  BY DEF RingInv, InRing
<1>5. ASSUME NEW j \in 1..Len(ring'[p]) PROVE passed'[p][ring'[p][j]] >= Len(ring'[p]) - j
  <2>1. CASE j + cut <= n
    <3> DEFINE m == ring[p][j + cut]
    <3>0. ring'[p][j] = ring[p][j + cut] /\ ring'[p][j] \notin Fresh(p)
      BY <1>1, <2>1 DEF Shifted
    <3>1. ring'[p][j] = m /\ m \notin Fresh(p) /\ j + cut \in 1..n
      BY <1>0, <2>1, <3>0
    <3>2. passed[p][m] >= n - (j + cut) /\ m \in Mail /\ passed[p][m] \in Nat
      BY <1>2, <1>4, <3>1
    <3>3. passed'[p][m] = IF passed[p][m] + c < RingSize THEN passed[p][m] + c ELSE RingSize
      BY <1>1, <3>1, <3>2 DEF Shifted
    <3> HIDE DEF m
    <3>4. RingSize \in Nat /\ j \in Nat
      BY <1>2
    <3>5. passed'[p][m] >= Len(ring'[p]) - j
      BY <1>0, <3>2, <3>3, <3>4
    <3> QED
      BY <3>1, <3>5
  <2>2. CASE ~(j + cut <= n)
    <3>1. passed'[p][ring'[p][j]] = n + c - (j + cut)
      BY <1>1, <2>2 DEF Shifted
    <3>2. n + c - (j + cut) >= Len(ring'[p]) - j
      BY <1>0
    <3> QED
      BY <3>1, <3>2
  <2> QED
    BY <2>1, <2>2
<1>6. ASSUME NEW m \in Fresh(p) PROVE Rings(p, m)' \/ passed'[p][m] >= RingSize
  <2>1. PICK i \in 1..c :
          /\ passed'[p][m] = c - i
          /\ n + i > cut => n + i - cut \in 1..Len(ring'[p]) /\ ring'[p][n + i - cut] = m
    BY <1>1 DEF Shifted
  <2>2. CASE n + i > cut
    BY <2>1, <2>2 DEF Rings
  <2>3. CASE ~(n + i > cut)
    BY <1>0, <1>2, <2>1, <2>3
  <2> QED
    BY <2>2, <2>3
<1>7. ASSUME NEW m \in shown[p], m \notin Fresh(p)
      PROVE  Rings(p, m)' \/ passed'[p][m] >= RingSize \/ m \in torn'[p]
  <2>1. m \in Mail /\ passed[p][m] \in Nat
    BY <1>2
  <2>2. passed'[p][m] = IF passed[p][m] + c < RingSize THEN passed[p][m] + c ELSE RingSize
    BY <1>1, <1>7, <2>1 DEF Shifted
  <2>3. m \in batch[p] => Rings(p, m)
    BY <1>7 DEF Fresh, Rings
  <2>4. CASE Rings(p, m)
    <3>1. PICK i \in 1..n : ring[p][i] = m
      BY <2>4 DEF Rings
    <3>2. passed[p][m] >= n - i
      BY <1>4, <3>1
    <3>3. CASE i > cut
      <4>1. i - cut \in 1..Len(ring'[p]) /\ (i - cut) + cut = i /\ i <= n
        BY <1>1, <3>1, <3>3 DEF Shifted
      <4>2. ring'[p][i - cut] = m
        BY <1>1, <3>1, <4>1 DEF Shifted
      <4> QED
        BY <4>1, <4>2 DEF Rings
    <3>4. CASE ~(i > cut)
      BY <1>0, <1>2, <2>1, <2>2, <3>1, <3>2, <3>4
    <3> QED
      BY <3>3, <3>4
  <2>5. CASE passed[p][m] >= RingSize
    BY <1>0, <1>2, <2>1, <2>2, <2>5
  <2>6. CASE m \in torn[p]
    BY <1>3, <1>7, <2>6
  <2> QED
    BY <2>3, <2>4, <2>5, <2>6 DEF RingInv, ShownKnown
<1> QED
  BY <1>5, <1>6, <1>7

\* A poller's steps but the mark.
LEMMA PollerRing ==
    ASSUME TypeOK, RingInv, NEW p \in Poller, Polling(p) \/ Crash(p)
    PROVE  RingInv'
<1>1. /\ stage \in [Poller -> {"idle", "polled", "answered", "surfaced", "marked"}]
      /\ batch \in [Poller -> SUBSET Mail] /\ ring \in [Poller -> Seq(Mail)]
      /\ shown \in [Poller -> SUBSET Mail] /\ passed \in [Poller -> [Mail -> Nat]]
      /\ torn \in [Poller -> SUBSET Mail]
  BY DEF TypeOK
<1>2. \A q \in Poller \ {p} :
        /\ stage'[q] = stage[q] /\ batch'[q] = batch[q] /\ ring'[q] = ring[q]
        /\ shown'[q] = shown[q] /\ passed'[q] = passed[q] /\ torn'[q] = torn[q]
  BY <1>1 DEF Polling, PollMail, PollReceipts, PollPark, Surface, MarkSeen, AskAck, Crash, Rest, ringVars
<1>3. SUFFICES
        /\ \A i \in 1..Len(ring'[p]) : passed'[p][ring'[p][i]] >= Len(ring'[p]) - i
        /\ \A m \in shown'[p] :
             \/ Rings(p, m)' \/ passed'[p][m] >= RingSize
             \/ m \in torn'[p] \/ (stage'[p] = "surfaced" /\ m \in batch'[p])
  <2>1. InRing'
    BY <1>2, <1>3 DEF RingInv, InRing
  <2>2. ShownKnown'
    BY <1>2, <1>3 DEF RingInv, ShownKnown, Rings
  <2> QED
    BY <2>1, <2>2 DEF RingInv
<1>4. CASE PollMail(p) \/ PollReceipts(p) \/ PollPark(p) \/ AskAck(p)
  <2>1. UNCHANGED ringVars /\ stage[p] # "surfaced"
    BY <1>4 DEF PollMail, PollReceipts, PollPark, AskAck
  <2> QED
    BY <2>1 DEF RingInv, InRing, ShownKnown, Rings, ringVars
<1>5. CASE Surface(p)
  <2>1. /\ UNCHANGED <<ring, passed, torn, batch>> /\ stage[p] = "answered" /\ stage'[p] = "surfaced"
        /\ shown'[p] = shown[p] \cup Fresh(p) /\ Fresh(p) \subseteq batch[p]
    BY <1>1, <1>5 DEF Surface, Fresh
  <2> QED
    BY <2>1 DEF RingInv, InRing, ShownKnown, Rings
<1>6. CASE MarkSeen(p)
  <2>1. shown' = shown
    BY <1>6 DEF MarkSeen
  <2> QED
    BY <1>6, <2>1, MarkSeenKeeps
<1>7. CASE Crash(p)
  <2>1. UNCHANGED <<ring, shown, passed>>
    BY <1>7 DEF Crash
  <2>2. torn[p] \subseteq torn'[p] /\ (stage[p] = "surfaced" => Fresh(p) \subseteq torn'[p])
    BY <1>1, <1>7 DEF Crash
  <2>3. \A m \in batch[p] : m \in Fresh(p) \/ Rings(p, m)
    BY DEF Fresh, Rings
  <2> QED
    BY <2>1, <2>2, <2>3 DEF RingInv, InRing, ShownKnown, Rings
<1> QED
  BY <1>4, <1>5, <1>6, <1>7 DEF Polling

LEMMA RingStep ==
    ASSUME TypeOK, RingInv, [Next]_vars
    PROVE  RingInv'
<1>1. CASE UNCHANGED pollVars
  BY <1>1 DEF pollVars, ringVars, RingInv, InRing, ShownKnown, Rings
<1>2. CASE vars' = vars
  BY <1>1, <1>2 DEF vars
<1>3. CASE Sending \/ Reading \/ Acking
  BY <1>1, <1>3 DEF Sending, SendLookup, SendNew, SendDuplicate, SendFails, Reading, Receipts,
       DeleteCopy, Expire, Acking, Ack, AckLost
<1>4. CASE \E p \in Poller : Polling(p) \/ Crash(p)
  BY <1>4, PollerRing
<1>5. CASE \E d \in Device : Syncing(d)
  <2>1. PICK d \in Device : Syncing(d)
    BY <1>5
  <2>2. UNCHANGED pollVars
    BY <2>1 DEF Syncing, TakeCustody, Sync, SyncFromNow, SyncParks, SyncArrives, SyncLost, Reinstall
  <2> QED
    BY <1>1, <2>2
<1> QED
  BY <1>2, <1>3, <1>4, <1>5 DEF Next

(* A listener surfaces a message again only if it died between the print    *)
(* and the mark, or its ring took RingSize others since (Custody's          *)
(* SurfacedOnce).                                                           *)
THEOREM ListenersSurfaceOnce == Spec => SurfacedOnce
<1>1. Init => RingInv
  <2> SUFFICES ASSUME Init PROVE RingInv
    OBVIOUS
  <2>1. \A p \in Poller : ring[p] = << >> /\ shown[p] = {}
    BY DEF Init
  <2> QED
    BY <2>1 DEF RingInv, InRing, ShownKnown
<1>2. TypeOK /\ RingInv /\ [Next]_vars => RingInv'
  BY RingStep
<1>3. ASSUME RingInv, NEW p \in Poller, stage[p] # "surfaced"
      PROVE  \A m \in shown[p] \cap Fresh(p) : m \in torn[p] \/ passed[p][m] >= RingSize
  BY <1>3 DEF RingInv, ShownKnown, Fresh, Rings
<1>4. RingInv => \A p \in Poller : Prints(p) =>
        \A m \in shown[p] \cap Fresh(p) : m \in torn[p] \/ passed[p][m] >= RingSize
  BY <1>3 DEF Prints
<1> QED
  BY <1>1, <1>2, <1>4, CustodyTypes, PTL DEF Spec, SurfacedOnce
-----------------------------------------------------------------------------
(* Custody keeps MailPromise.                                              *)

\* What is there was taken, and a copy its reader deleted is not queued.
RowsPromised ==
    /\ \A m \in Mail : Exists(m) => m \in Taken
    /\ \A m \in Mail : To[m] \in row[m].deletedBy => Fetched(m)

\* What is in an answer was taken.
AnswersPromised ==
    /\ \A p \in Poller : batch[p] \subseteq Taken
    /\ \A d \in Device : answer[d].mail \subseteq Taken

PromiseInv == RowsPromised /\ AnswersPromised

\* A step that takes nothing and neither empties nor refills a place.
StaysPut ==
    /\ answered' = answered
    /\ \A m \in Mail : /\ row'[m].n = row[m].n
                       /\ "fetched" \in row'[m].marks <=> "fetched" \in row[m].marks

LEMMA PlacesStay == StaysPut => Places' = Places /\ Taken' = Taken
<1> SUFFICES ASSUME StaysPut PROVE Places' = Places /\ Taken' = Taken
  OBVIOUS
<1>1. \A m \in Mail : Standing(m)' = Standing(m)
  BY DEF StaysPut, Standing, Exists, Fetched
<1> QED
  BY <1>1 DEF StaysPut, Places, Taken

LEMMA Stutters ==
    ASSUME StaysPut, UNCHANGED <<had, left, told>>
    PROVE  UNCHANGED Promise!vars
<1>1. Heard' = Heard
  BY DEF Heard
<1> QED
  BY <1>1, PlacesStay DEF Promise!vars

LEMMA RowsStay == row' = row /\ answered' = answered => StaysPut
BY DEF StaysPut

\* Rows of which nothing is deleted stay as promised.
LEMMA RowsKeep ==
    ASSUME RowsPromised, StaysPut, \A m \in Mail : row'[m].deletedBy = row[m].deletedBy
    PROVE  RowsPromised'
<1>1. Taken' = Taken
  BY PlacesStay
<1> QED
  BY <1>1 DEF RowsPromised, StaysPut, Exists, Fetched

LEMMA AnswersKeep ==
    ASSUME AnswersPromised, Taken \subseteq Taken', batch' = batch, answer' = answer
    PROVE  AnswersPromised'
BY DEF AnswersPromised

\* Mail that clients have is handed over.
LEMMA HandOverPromised ==
    ASSUME TypeOK, TypeOK', PromiseInv, NEW ms \in SUBSET Mail, HandOver(ms),
           \A m \in ms : Exists(m) /\ ~Fetched(m) => m \in had,
           UNCHANGED <<answered, batch, answer, had, left, told>>
    PROVE  PromiseInv' /\ Promise!Next
<1> DEFINE fresh == {m \in ms : Exists(m) /\ ~Fetched(m)}
<1>1. \A m \in Mail : /\ row'[m].n = row[m].n /\ row'[m].deletedBy = row[m].deletedBy
                      /\ m \in fresh => "fetched" \in row'[m].marks
                      /\ m \notin fresh => row'[m] = row[m]
  <2> TAKE m \in Mail
  <2>1. row'[m] = IF m \in fresh THEN [row[m] EXCEPT !.marks = @ \cup {"fetched"}, !.owed = TRUE] ELSE row[m]
    BY DEF HandOver
  <2>2. row[m] \in Rows
    BY RowFields
  <2> HIDE DEF fresh
  <2> QED
    BY <2>1, <2>2 DEF Rows
<1>2. fresh \subseteq had /\ fresh \subseteq Mail /\ \A m \in fresh : Exists(m) /\ ~Fetched(m)
  OBVIOUS
<1> HIDE DEF fresh
<1>3. Taken' = Taken /\ Heard' = Heard
  BY DEF Taken, Heard
<1>4. RowsPromised'
  BY <1>1, <1>3 DEF PromiseInv, RowsPromised, Exists, Fetched
<1>5. AnswersPromised'
  BY <1>3, AnswersKeep DEF PromiseInv
<1>6. \A m \in Mail : Standing(m)' = IF m \in fresh /\ Standing(m) = "queued" THEN "handed" ELSE Standing(m)
  BY <1>1, <1>2 DEF Standing, Exists, Fetched
<1>7. Places' = [m \in Mail |-> IF m \in fresh /\ Places[m] = "queued" THEN "handed" ELSE Places[m]]
  BY <1>6 DEF Places
<1>8. Promise!HandOver
  BY <1>2, <1>3, <1>7 DEF Promise!HandOver
<1> QED
  BY <1>4, <1>5, <1>8 DEF PromiseInv, Promise!Next

\* One place changes.
LEMMA OnePlace ==
    ASSUME NEW m \in Mail, \A k \in Mail \ {m} : row'[k] = row[k]
    PROVE  Places' = [Places EXCEPT ![m] = Standing(m)']
<1>1. \A k \in Mail \ {m} : Standing(k)' = Standing(k)
  BY DEF Standing, Exists, Fetched
<1> QED
  BY <1>1 DEF Places

LEMMA SendNewPromised ==
    ASSUME TypeOK, TypeOK', HeldInv, PromiseInv, NEW a \in Address, SendNew(a)
    PROVE  PromiseInv' /\ Promise!Next
<1>0. PICK m \in Mail : m = sending[a].id
  BY SendTouchesOne DEF HeldInv
<1>1. m \in Mail /\ \A k \in Mail \ {m} : row'[k] = row[k] /\ answered'[k] = answered[k]
  BY <1>0, SendTouchesOne DEF HeldInv
<1>2. row[m].n = 0 /\ row'[m].n = lastN + 1 /\ answered'[m] = lastN + 1
  BY <1>0, SendNewAnswers DEF HeldInv
<1>3. row'[m] = [NoRow EXCEPT !.n = lastN + 1] /\ lastN + 1 \in Nat /\ lastN + 1 # 0
  BY <1>0, <1>1 DEF SendNew, TypeOK
<1>4. row'[m].marks = {} /\ row'[m].deletedBy = {}
  BY <1>3, NewRowFields
<1>5. UNCHANGED <<batch, answer, had, left, told>>
  BY DEF SendNew, pollVars, syncVars, history
<1>6. Taken' = Taken \cup {m}
  BY <1>1, <1>2, <1>3 DEF Taken
<1>7. RowsPromised'
  BY <1>1, <1>4, <1>6 DEF PromiseInv, RowsPromised, Exists, Fetched
<1>8. AnswersPromised'
  BY <1>5, <1>6, AnswersKeep DEF PromiseInv
<1>9. Standing(m) = "nowhere" /\ Standing(m)' = "queued"
  <2>1. row'[m].n # 0 /\ "fetched" \notin row'[m].marks
    BY <1>2, <1>3, <1>4
  <2> QED
    BY <1>2, <2>1 DEF Standing, Exists, Fetched
<1>10. Places[m] = "nowhere" /\ Places' = [Places EXCEPT ![m] = "queued"] /\ Heard' = Heard
  <2>1. Places' = [Places EXCEPT ![m] = Standing(m)']
    BY <1>1, OnePlace
  <2>2. Places[m] = "nowhere"
    BY <1>1, <1>9 DEF Places
  <2>3. Heard' = Heard
    BY <1>5 DEF Heard
  <2> QED
    BY <1>9, <2>1, <2>2, <2>3
<1>11. Promise!Take(m)
  BY <1>5, <1>6, <1>10 DEF Promise!Take
<1> QED
  BY <1>1, <1>7, <1>8, <1>11 DEF PromiseInv, Promise!Next

LEMMA SendingPromised ==
    ASSUME TypeOK, TypeOK', HeldInv, PromiseInv, Sending
    PROVE  PromiseInv' /\ [Promise!Next]_(Promise!vars)
<1>1. CASE \E a \in Address : SendNew(a)
  BY <1>1, SendNewPromised
<1>2. ASSUME NEW a \in Address, SendDuplicate(a) PROVE PromiseInv' /\ [Promise!Next]_(Promise!vars)
  <2> DEFINE m == sending[a].id
  <2>1. m \in Mail /\ \A k \in Mail \ {m} : answered'[k] = answered[k]
    BY <1>2, SendTouchesOne DEF HeldInv
  <2>2. row' = row /\ row[m].n # 0 /\ answered'[m] = row[m].n /\ UNCHANGED <<batch, answer, had, left, told>>
    BY <1>2, <2>1 DEF SendDuplicate, Exists, TypeOK, pollVars, syncVars, history
  <2> HIDE DEF m
  <2>3. answered[m] # 0
    BY <2>1, <2>2 DEF PromiseInv, RowsPromised, Taken, Exists
  <2>4. Taken' = Taken
    BY <2>1, <2>2, <2>3 DEF Taken
  <2>5. PromiseInv'
    BY <2>2, <2>4 DEF PromiseInv, RowsPromised, AnswersPromised, Exists, Fetched
  <2>6. Places' = Places /\ Heard' = Heard
    BY <2>2 DEF Places, Standing, Exists, Fetched, Heard
  <2> QED
    BY <2>2, <2>4, <2>5, <2>6 DEF Promise!vars
<1>3. CASE (\E m \in Mail : SendLookup(m)) \/ (\E a \in Address : SendFails(a))
  <2>1. row' = row /\ UNCHANGED <<answered, batch, answer, had, left, told>>
    BY <1>3 DEF SendLookup, SendFails, pollVars, syncVars, history
  <2>2. StaysPut
    BY <2>1, RowsStay
  <2>3. PromiseInv'
    BY <2>1, <2>2, RowsKeep, AnswersKeep, PlacesStay DEF PromiseInv
  <2> QED
    BY <2>1, <2>2, <2>3, Stutters
<1> QED
  BY <1>1, <1>2, <1>3 DEF Sending

LEMMA ReceiptsPromised ==
    ASSUME TypeOK, TypeOK', HeldInv, PromiseInv,
           NEW a \in Address, NEW todo \in SUBSET (had \X Rung), Receipts(a, todo)
    PROVE  PromiseInv' /\ [Promise!Next]_(Promise!vars)
<1>0. Numbered
  BY DEF HeldInv
<1>1. PICK changed \in SUBSET had :
        /\ \A m \in changed : row[m].n # 0 /\ To[m] = a
        /\ \A m \in Mail \ changed : row'[m] = row[m]
        /\ \A m \in changed :
             /\ row[m].marks \subseteq row'[m].marks /\ row'[m].marks # row[m].marks
             /\ row'[m].marks \ row[m].marks \subseteq {"delivered", "read"}
             /\ row'[m].owed /\ row'[m].n = row[m].n /\ row'[m].deletedBy = row[m].deletedBy
        /\ row' \in [Mail -> Rows]
        /\ LogChanges(a, {m \in changed : a \notin row[m].deletedBy})
  BY <1>0, ReceiptsChange, Zenon
<1>2. UNCHANGED <<answered, batch, answer, had, left, told>>
  BY DEF Receipts, pollVars, syncVars, history
<1>3. \A m \in Mail : /\ row'[m].n = row[m].n /\ row'[m].deletedBy = row[m].deletedBy
                      /\ "fetched" \in row'[m].marks <=> "fetched" \in row[m].marks
  <2> TAKE m \in Mail
  <2>1. CASE m \in changed
    BY <1>1, <2>1
  <2>2. CASE m \notin changed
    BY <1>1, <2>2
  <2> QED
    BY <2>1, <2>2
<1>4. StaysPut
  BY <1>2, <1>3 DEF StaysPut
<1>5. PromiseInv'
  BY <1>2, <1>3, <1>4, RowsKeep, AnswersKeep, PlacesStay DEF PromiseInv
<1> QED
  BY <1>2, <1>4, <1>5, Stutters

LEMMA DeletePromised ==
    ASSUME TypeOK, TypeOK', PromiseInv, NEW a \in Address, NEW m \in Mail, DeleteCopy(a, m)
    PROVE  PromiseInv' /\ [Promise!Next]_(Promise!vars)
<1>1. /\ row[m].n # 0
      /\ \A k \in Mail \ {m} : row'[k] = row[k]
      /\ \/ row'[m] = NoRow
         \/ /\ row'[m].n = row[m].n
            /\ row'[m].deletedBy = row[m].deletedBy \cup {a}
            /\ row'[m].marks = (IF a = To[m] THEN row[m].marks \cup {"fetched"} ELSE row[m].marks)
  BY DeleteChange
<1>2. UNCHANGED <<answered, batch, answer, had, told>> /\ left' = (IF a = To[m] THEN left \cup {m} ELSE left)
  BY DEF DeleteCopy, pollVars, syncVars, history
<1>3. Taken' = Taken /\ Heard' = Heard
  BY <1>2 DEF Taken, Heard
<1>4. RowsPromised'
  <2> SUFFICES ASSUME NEW k \in Mail
               PROVE  /\ row'[k].n # 0 => k \in Taken
                      /\ To[k] \in row'[k].deletedBy => "fetched" \in row'[k].marks
    BY <1>3 DEF RowsPromised, Exists, Fetched
  <2>1. (row[k].n # 0 => k \in Taken) /\ (To[k] \in row[k].deletedBy => "fetched" \in row[k].marks)
    BY DEF PromiseInv, RowsPromised, Exists, Fetched
  <2>2. CASE k # m
    BY <1>1, <2>1, <2>2
  <2>3. CASE k = m /\ row'[m] = NoRow
    BY <2>3, NoRowFields
  <2>4. CASE k = m /\ row'[m] # NoRow
    BY <1>1, <2>1, <2>4
  <2> QED
    BY <2>2, <2>3, <2>4
<1>5. AnswersPromised'
  BY <1>2, <1>3, AnswersKeep DEF PromiseInv
<1>6. Places' = [Places EXCEPT ![m] = Standing(m)'] /\ Places[m] = Standing(m) /\ Standing(m) # "nowhere"
  BY <1>1, OnePlace DEF Places, Standing, Exists
<1>7. CASE a = To[m]
  <2>1. Standing(m)' \in {"handed", "nowhere"}
    BY <1>1, <1>7, NoRowFields DEF Standing, Exists, Fetched
  <2>2. Promise!Leave(m)
    BY <1>2, <1>3, <1>6, <1>7, <2>1 DEF Promise!Leave
  <2> QED
    BY <1>4, <1>5, <2>2 DEF PromiseInv, Promise!Next
<1>8. CASE a # To[m] /\ row'[m] = NoRow
  <2>1. Standing(m)' = "nowhere"
    BY <1>8, NoRowFields DEF Standing, Exists
  <2>2. Promise!Drop(m)
    BY <1>2, <1>3, <1>6, <1>8, <2>1 DEF Promise!Drop
  <2> QED
    BY <1>4, <1>5, <2>2 DEF PromiseInv, Promise!Next
<1>9. CASE a # To[m] /\ row'[m] # NoRow
  <2>1. StaysPut
    BY <1>1, <1>2, <1>9 DEF StaysPut
  <2> QED
    BY <1>2, <1>4, <1>5, <1>9, <2>1, Stutters DEF PromiseInv
<1> QED
  BY <1>7, <1>8, <1>9

LEMMA ExpirePromised ==
    ASSUME TypeOK, TypeOK', PromiseInv, NEW m \in Mail, Expire(m)
    PROVE  PromiseInv' /\ Promise!Next
<1>1. row[m].n # 0 /\ row'[m] = NoRow /\ \A k \in Mail \ {m} : row'[k] = row[k]
  BY DEF Expire, Exists, TypeOK
<1>2. UNCHANGED <<answered, batch, answer, had, left, told>>
  BY DEF Expire, pollVars, syncVars, history
<1>3. Taken' = Taken /\ Heard' = Heard
  BY <1>2 DEF Taken, Heard
<1>4. RowsPromised'
  BY <1>1, <1>3, NoRowFields DEF PromiseInv, RowsPromised, Exists, Fetched
<1>5. AnswersPromised'
  BY <1>2, <1>3, AnswersKeep DEF PromiseInv
<1>6. Standing(m)' = "nowhere" /\ Standing(m) # "nowhere" /\ Places[m] = Standing(m)
  BY <1>1, NoRowFields DEF Standing, Exists, Places
<1>7. Places' = [Places EXCEPT ![m] = "nowhere"]
  BY <1>1, <1>6, OnePlace
<1>8. Promise!Drop(m)
  BY <1>2, <1>3, <1>6, <1>7 DEF Promise!Drop
<1> QED
  BY <1>4, <1>5, <1>8 DEF PromiseInv, Promise!Next

LEMMA ReadingPromised ==
    ASSUME TypeOK, TypeOK', HeldInv, PromiseInv, Reading
    PROVE  PromiseInv' /\ [Promise!Next]_(Promise!vars)
BY ReceiptsPromised, DeletePromised, ExpirePromised DEF Reading

LEMMA AckingPromised ==
    ASSUME TypeOK, TypeOK', HeldInv, PromiseInv, Acking
    PROVE  PromiseInv' /\ [Promise!Next]_(Promise!vars)
<1>1. ASSUME NEW ids \in SUBSET Mail, Ack(ids) PROVE PromiseInv' /\ [Promise!Next]_(Promise!vars)
  <2>1. HandOver(ids) /\ ids \subseteq had /\ UNCHANGED <<answered, batch, answer, had, left, told>>
    BY <1>1 DEF Ack, HeldInv, ListenersHold, pollVars, syncVars, history
  <2> QED
    BY <2>1, HandOverPromised
<1>2. ASSUME NEW ids \in SUBSET Mail, AckLost(ids) PROVE PromiseInv' /\ [Promise!Next]_(Promise!vars)
  <2>1. row' = row /\ UNCHANGED <<answered, batch, answer, had, left, told>>
    BY <1>2 DEF AckLost, hubVars, pollVars, syncVars, history
  <2>2. StaysPut
    BY <2>1, RowsStay
  <2>3. PromiseInv'
    BY <2>1, <2>2, RowsKeep, AnswersKeep, PlacesStay DEF PromiseInv
  <2> QED
    BY <2>1, <2>2, <2>3, Stutters
<1> QED
  BY <1>1, <1>2 DEF Acking

\* Mail and receipts reach a client.
LEMMA Delivers ==
    ASSUME StaysPut, UNCHANGED left, NEW ms \in SUBSET Taken, had' = had \cup ms,
           NEW rs \in SUBSET ReceiptsSent, told' = told \cup rs,
           \A r \in rs : /\ r.marks \cap {"delivered", "read"} # {} => r.id \in had
                         /\ "fetched" \in r.marks => r.id \in had \cup left
    PROVE  Promise!Next
<1>1. Places' = Places /\ Taken' = Taken
  BY PlacesStay
<1>2. Heard \subseteq Heard'
  BY DEF Heard
<1>3. Heard' \subseteq Heard \cup Promise!So
  <2> SUFFICES ASSUME NEW t \in Heard', t \notin Heard PROVE t \in Promise!So
    OBVIOUS
  <2>1. t \in Mail \X {"fetched", "delivered", "read"}
    BY DEF Heard
  <2>2. PICK r \in rs : r.id = t[1] /\ t[2] \in r.marks
    BY <2>1 DEF Heard
  <2>3. t[1] \in had \/ (t[2] = "fetched" /\ t[1] \in left)
    <3>1. t[2] \in {"fetched", "delivered", "read"}
      BY <2>1
    <3>2. CASE t[2] = "fetched"
      BY <2>2, <3>2
    <3>3. CASE t[2] \in {"delivered", "read"}
      <4>1. r.marks \cap {"delivered", "read"} # {}
        BY <2>2, <3>3
      <4> QED
        BY <2>2, <4>1
    <3> QED
      BY <3>1, <3>2, <3>3
  <2> QED
    BY <2>1, <2>3 DEF Promise!So
<1>4. Promise!Deliver
  BY <1>1, <1>2, <1>3 DEF Promise!Deliver
<1> QED
  BY <1>4 DEF Promise!Next

LEMMA PollerPromised ==
    ASSUME TypeOK, TypeOK', HeldInv, ReceiptsInv, PromiseInv, NEW p \in Poller, Polling(p) \/ Crash(p)
    PROVE  PromiseInv' /\ [Promise!Next]_(Promise!vars)
<1>1. answered' = answered /\ answer' = answer /\ left' = left
  BY DEF Polling, PollMail, PollReceipts, PollPark, Surface, MarkSeen, AskAck, Crash, hubVars, syncVars, history
<1>2. \A m \in Mail : /\ row'[m].n = row[m].n /\ row'[m].marks = row[m].marks
                      /\ row'[m].deletedBy = row[m].deletedBy
  <2>1. CASE PollReceipts(p)
    <3> TAKE m \in Mail
    <3>1. row'[m] = row[m] \/ row'[m] = [row[m] EXCEPT !.owed = FALSE]
      BY <2>1 DEF PollReceipts, Claim
    <3> QED
      BY <3>1, RowFields DEF Rows
  <2>2. CASE row' = row
    BY <2>2
  <2> QED
    BY <2>1, <2>2 DEF Polling, PollMail, PollPark, Surface, MarkSeen, AskAck, Crash, hubVars
<1>3. StaysPut
  BY <1>1, <1>2 DEF StaysPut
<1>4. RowsPromised' /\ Taken' = Taken
  BY <1>2, <1>3, RowsKeep, PlacesStay DEF PromiseInv
<1>5. \A q \in Poller : batch'[q] = batch[q] \/ batch'[q] = {} \/ batch'[q] = Oldest(Owner[q])
  <2>1. batch' = batch \/ batch' = [batch EXCEPT ![p] = {}] \/ batch' = [batch EXCEPT ![p] = Oldest(Owner[p])]
    BY DEF Polling, PollMail, PollReceipts, PollPark, Surface, MarkSeen, AskAck, Crash, Rest
  <2>2. batch \in [Poller -> SUBSET Mail]
    BY DEF TypeOK
  <2> QED
    BY <2>1, <2>2
<1>6. \A q \in Poller : Oldest(Owner[q]) \subseteq Taken
  BY DEF Oldest, Queued, PromiseInv, RowsPromised
<1>7. AnswersPromised'
  BY <1>1, <1>4, <1>5, <1>6 DEF PromiseInv, AnswersPromised
<1>8. CASE Surface(p)
  <2>1. stage[p] = "answered" /\ had' = had \cup Fresh(p) /\ told' = told \cup receipts[p]
    BY <1>8 DEF Surface
  <2>2. Fresh(p) \in SUBSET Taken
    BY DEF Fresh, PromiseInv, AnswersPromised
  <2>3. receipts[p] \in SUBSET ReceiptsSent /\ receipts[p] \subseteq Sent
    BY DEF TypeOK, Sent
  <2>4. \A r \in receipts[p] : /\ r.marks \cap {"delivered", "read"} # {} => r.id \in had
                               /\ "fetched" \in r.marks => r.id \in had \cup left
    BY <2>3 DEF ReceiptsInv, SentTrue
  <2>5. Promise!Next
    BY <1>1, <1>3, <2>1, <2>2, <2>3, <2>4, Delivers
  <2> QED
    BY <1>4, <1>7, <2>5 DEF PromiseInv
<1>9. CASE had' = had /\ told' = told
  BY <1>1, <1>3, <1>4, <1>7, <1>9, Stutters DEF PromiseInv
<1> QED
  BY <1>8, <1>9 DEF Polling, PollMail, PollReceipts, PollPark, MarkSeen, AskAck, Crash, history

LEMMA SyncingPromised ==
    ASSUME TypeOK, TypeOK', HeldInv, PromiseInv, NEW d \in Device, Syncing(d)
    PROVE  PromiseInv' /\ [Promise!Next]_(Promise!vars)
<1>1. ASSUME NEW call \in asked[d], TakeCustody(d, call) PROVE PromiseInv' /\ [Promise!Next]_(Promise!vars)
  <2>1. PICK locked \in SUBSET Mail :
          HandOver({m \in Between(Owner[d], call.base, call.cursor) : m \notin locked})
    BY <1>1 DEF TakeCustody
  <2> DEFINE ms == {m \in Between(Owner[d], call.base, call.cursor) : m \notin locked}
  <2>2. Covered(Owner[d], call.base, call.cursor, had)
    BY <1>1 DEF HeldInv, CursorsHold
  <2>3. ms \in SUBSET Mail /\ \A m \in ms : Exists(m) => m \in had \/ To[m] \in row[m].deletedBy
    BY <2>2 DEF Between, Covered, Exists
  <2>4. HandOver(ms)
    BY <2>1
  <2> HIDE DEF ms
  <2>5. \A m \in ms : Exists(m) /\ ~Fetched(m) => m \in had
    BY <2>3 DEF PromiseInv, RowsPromised
  <2>6. UNCHANGED <<answered, batch, answer, had, left, told>>
    BY <1>1 DEF TakeCustody, pollVars, syncVars, history
  <2> QED
    BY <2>3, <2>4, <2>5, <2>6, HandOverPromised
<1>2. CASE Sync(d) \/ SyncFromNow(d) \/ SyncParks(d) \/ SyncArrives(d) \/ SyncLost(d) \/ Reinstall(d)
  <2>1. row' = row /\ UNCHANGED <<answered, batch, left, told>>
    BY <1>2 DEF Sync, SyncFromNow, SyncParks, SyncArrives, SyncLost, Reinstall, hubVars, pollVars, history
  <2>2. StaysPut
    BY <2>1, RowsStay
  <2>3. RowsPromised' /\ Taken' = Taken
    BY <2>1, <2>2, RowsKeep, PlacesStay DEF PromiseInv
  <2>4. \A e \in Device : answer'[e].mail \subseteq Taken
    <3> SUFFICES ASSUME NEW e \in Device, NEW m \in answer'[e].mail PROVE m \in Taken
      OBVIOUS
    <3>1. CASE answer'[e] = answer[e]
      BY <3>1 DEF PromiseInv, AnswersPromised
    <3>2. CASE answer'[e] = NoAnswer
      BY <3>2 DEF NoAnswer
    <3>3. CASE Sync(d) /\ e = d
      <4> DEFINE mail == {k \in Between(Owner[d], cursor[d], head[Owner[d]]) : Owner[d] \notin row[k].deletedBy}
      <4>1. answer' = [answer EXCEPT ![d] = [to |-> head[Owner[d]], base |-> base[d], mail |-> mail]]
        BY <3>3 DEF Sync
      <4>2. answer'[d].mail = mail
        BY <4>1 DEF TypeOK
      <4> QED
        BY <3>3, <4>2 DEF Between, PromiseInv, RowsPromised
    <3>4. CASE SyncFromNow(d) /\ e = d
      <4>1. answer'[d] = Now(Owner[d])
        BY <3>4 DEF SyncFromNow, TypeOK
      <4> QED
        BY <3>4, <4>1 DEF Now
    <3> QED
      BY <1>2, <3>1, <3>2, <3>3, <3>4 DEF Sync, SyncFromNow, SyncParks, SyncArrives, SyncLost, Reinstall, TypeOK
  <2>5. PromiseInv'
    BY <2>1, <2>3, <2>4 DEF PromiseInv, AnswersPromised
  <2>6. CASE SyncArrives(d)
    <3>1. had' = had \cup answer[d].mail /\ answer[d].mail \in SUBSET Taken
      BY <2>6 DEF SyncArrives, PromiseInv, AnswersPromised
    <3>2. told' = told \cup {} /\ {} \in SUBSET ReceiptsSent
      BY <2>1
    <3>3. Promise!Next
      BY <2>1, <2>2, <3>1, <3>2, Delivers
    <3> QED
      BY <2>5, <3>3
  <2>7. CASE had' = had
    BY <2>1, <2>2, <2>5, <2>7, Stutters
  <2> QED
    BY <1>2, <2>6, <2>7 DEF Sync, SyncFromNow, SyncParks, SyncLost, Reinstall, history
<1> QED
  BY <1>1, <1>2 DEF Syncing

LEMMA StepPromised ==
    ASSUME TypeOK, TypeOK', HeldInv, ReceiptsInv, PromiseInv, [Next]_vars
    PROVE  PromiseInv' /\ [Promise!Next]_(Promise!vars)
<1>1. CASE Next
  BY <1>1, SendingPromised, ReadingPromised, AckingPromised, PollerPromised, SyncingPromised DEF Next
<1>2. CASE UNCHANGED vars
  <2>1. row' = row /\ UNCHANGED <<answered, batch, answer, had, left, told>>
    BY <1>2 DEF vars, hubVars, pollVars, syncVars, history
  <2>2. StaysPut
    BY <2>1, RowsStay
  <2>3. PromiseInv'
    BY <2>1, <2>2, RowsKeep, AnswersKeep, PlacesStay DEF PromiseInv
  <2> QED
    BY <2>1, <2>2, <2>3, Stutters
<1> QED
  BY <1>1, <1>2

LEMMA InitPromised == Init => PromiseInv /\ Promise!Init
<1> SUFFICES ASSUME Init PROVE PromiseInv /\ Promise!Init
  OBVIOUS
<1>1. \A m \in Mail : row[m] = NoRow /\ answered[m] = 0
  BY DEF Init
<1>2. PromiseInv
  BY <1>1, NoRowFields DEF Init, PromiseInv, RowsPromised, AnswersPromised, Exists, NoAnswer
<1>3. \A m \in Mail : Standing(m) = "nowhere"
  BY <1>1, NoRowFields DEF Standing, Exists
<1>4. Places = [m \in Mail |-> "nowhere"] /\ Taken = {}
  BY <1>1, <1>3 DEF Places, Taken
<1>5. had = {} /\ left = {} /\ Heard = {}
  BY DEF Init, Heard
<1> QED
  BY <1>2, <1>4, <1>5 DEF Promise!Init

(* The hub and its clients keep the promise made of each message, whatever  *)
(* is lost, repeated, deleted or swept: it is handed over only to a client  *)
(* that has it or its reader deletes it, an id that is there is not taken   *)
(* again, and senders hear what is so (Custody's KeepsMailPromise).         *)
THEOREM KeepsThePromise == Spec => KeepsMailPromise
<1>1. Init => PromiseInv /\ Promise!Init
  BY InitPromised
<1>2. TypeOK /\ TypeOK' /\ HeldInv /\ ReceiptsInv /\ PromiseInv /\ [Next]_vars =>
        PromiseInv' /\ [Promise!Next]_(Promise!vars)
  BY StepPromised
<1> QED
  BY <1>1, <1>2, HeldInductive, ReceiptsAlways, PTL DEF Spec, KeepsMailPromise, Promise!Spec
=============================================================================
