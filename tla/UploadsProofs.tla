----------------------------- MODULE UploadsProofs -----------------------------
(***************************************************************************)
(* What Uploads promises for every number of requests, every size and any   *)
(* number of late statements, proved with TLAPS: its safety properties, and *)
(* that it implements UploadPromise.                                       *)
(***************************************************************************)
EXTENDS Uploads, TLAPS

-----------------------------------------------------------------------------
(* The inductive invariant.                                                *)

Claims == \A p \in Process : pc[p].stage \in Held => writing = p

Good == hashed => wrong = {}

\* The upload had every byte, and what changed it since is accounted for.
Full == hashed \/ crossed \/ received \in {Total, Gone}

(* What a process at each stage can rely on: nobody else has the claim, and *)
(* of what changes the row without one, a late delete takes it away and a   *)
(* late offset is a crossing.                                              *)
Knows(p) == pc[p].stage \in Held \cup {"asked"} => born
Opens(p) ==
    IsAt(p, "opening") => ~born /\ part = 0 /\ \A q \in Process : IsAt(q, "opening") => q = p
Writes(p) ==
    IsAt(p, "writing") => part = pc[p].at /\ (received = Gone \/ crossed \/ received <= pc[p].at)
Asks(p) == IsAt(p, "asked") => Full
Looks(p) ==
    IsAt(p, "look") => Full /\ (astray \/ crossed \/ received \in {Total, Gone})
Moves(p) ==
    pc[p].stage \in {"rename", "commit"} =>
        /\ Full /\ (astray \/ crossed \/ received \in {Total, Gone})
        /\ Good
        /\ IsAt(p, "rename") => part = Total
        /\ IsAt(p, "commit") => part = Gone /\ blob = Total
Resets(p) ==
    pc[p].stage \in {"truncate", "again"} =>
        /\ hashed /\ blob = Gone /\ part # Gone
        /\ IsAt(p, "again") => part = 0 /\ astray
Closes(p) ==
    /\ pc[p].stage \in {"damaged", "damaged blob", "damaged row"} =>
         ~published /\ Unlocked /\ (hashed \/ crossed \/ received = Gone)
    /\ pc[p].stage \in {"damaged blob", "damaged row"} => astray /\ part = Gone
    /\ IsAt(p, "damaged row") => blob = Gone
    /\ pc[p].stage \in {"remove", "remove blob"} => received = Gone /\ ~published /\ Unlocked
    /\ IsAt(p, "remove blob") => part = Gone
Fits(p) == Knows(p) /\ Opens(p) /\ Writes(p) /\ Asks(p) /\ Looks(p) /\ Moves(p) /\ Resets(p) /\ Closes(p)

(* The rows and the bytes.                                                  *)
RowsFit ==
    /\ ~born => received = Gone /\ ~published /\ blob = Gone /\ ~astray
    /\ published => received = Gone /\ blob = Total /\ part = Gone /\ Good
    /\ blob # Gone => part = Gone
    /\ hashed \/ crossed \/ received = Gone \/ ~astray

(* What a dropped handler sent, and what it left it for.                    *)
LateFits(l) ==
    /\ l.kind = "offset" /\ ~l.overtaken =>
         part = l.at /\ (received = Gone \/ crossed \/ received <= l.at \/ (l.at = 0 /\ hashed))
    /\ l.kind = "delete" /\ ~left => part = Gone /\ blob = Gone
    /\ l.kind = "commit" => part = Gone /\ blob = Total /\ Good /\ Full
LateFit ==
    /\ ~born => late = {}
    /\ \A l \in late : LateFits(l) /\ (writing = NoOne \/ l.overtaken)

IInv ==
    /\ TypeOK /\ Claims /\ RowsFit /\ LateFit
    /\ \A p \in Process : Fits(p)
    /\ ConfirmedIsKept /\ ClosedLeavesNothing

LEMMA InitInv == Init => IInv
<1> SUFFICES ASSUME Init PROVE IInv
  OBVIOUS
<1>1. \A p \in Process : pc[p].stage = "idle" /\ pc[p] = Idle
  BY DEF Init, Idle
<1>2. TypeOK
  <2>1. Idle \in [stage : Stages, at : 0..Total]
    BY UploadsAssumption DEF Idle, Stages
  <2> QED
    BY <2>1 DEF Init, TypeOK, Lengths
<1>3. Claims /\ \A p \in Process : Fits(p)
  BY <1>1 DEF Claims, Held, Fits, Knows, Opens, Writes, Asks, Looks, Moves, Resets, Closes, IsAt
<1>4. RowsFit /\ LateFit /\ ConfirmedIsKept /\ ClosedLeavesNothing
  BY DEF Init, RowsFit, LateFit, ConfirmedIsKept, ClosedLeavesNothing
<1> QED
  BY <1>2, <1>3, <1>4 DEF IInv

-----------------------------------------------------------------------------
(* Helpers.                                                                *)

Points == [stage : Stages, at : 0..Total]

\* Where a step leaves the processes.
LEMMA GoMoves ==
    ASSUME TypeOK, NEW p \in Process, NEW st \in Stages, Go(p, st)
    PROVE  /\ pc' \in [Process -> Points]
           /\ pc'[p].stage = st /\ pc'[p].at = pc[p].at
           /\ \A q \in Process \ {p} : pc'[q] = pc[q]
<1>1. pc \in [Process -> Points]
  BY DEF TypeOK, Points
<1>2. pc[p] \in Points
  BY <1>1
<1>3. pc' = [pc EXCEPT ![p] = [pc[p] EXCEPT !.stage = st]]
  BY DEF Go
<1>4. [pc[p] EXCEPT !.stage = st] = [stage |-> st, at |-> pc[p].at]
  BY <1>2 DEF Points
<1>5. [stage |-> st, at |-> pc[p].at] \in Points
  BY <1>2 DEF Points
<1> QED
  BY <1>1, <1>3, <1>4, <1>5

LEMMA EndMoves ==
    ASSUME TypeOK, NEW p \in Process, End(p)
    PROVE  /\ pc' \in [Process -> Points]
           /\ pc'[p].stage = "idle"
           /\ \A q \in Process \ {p} : pc'[q] = pc[q]
           /\ writing' = IF writing = p THEN NoOne ELSE writing
<1>1. Idle \in Points
  BY UploadsAssumption DEF Idle, Points, Stages
<1> QED
  BY <1>1 DEF End, TypeOK, Points, Idle, Released

\* A claim overtakes every late statement, and changes nothing else of them.
LEMMA ClaimLate ==
    ASSUME TypeOK, NEW p \in Process, Claim(p)
    PROVE  /\ writing = NoOne /\ writing' = p
           /\ late' \subseteq Statements
           /\ \A l \in late' : l.overtaken /\ \E m \in late : m.kind = l.kind
           /\ Unlocked' = Unlocked
<1>1. writing = NoOne /\ writing' = p /\ late' = {Overtaken(l) : l \in late}
  BY DEF Claim, MayClaim
<1>2. ASSUME NEW l \in late
      PROVE  Overtaken(l) \in Statements
  BY DEF TypeOK, Statements, Overtaken
<1>3. \A l \in late' : \E m \in late : l = Overtaken(m)
  BY <1>1
<1>4. late' \subseteq Statements
  BY <1>2, <1>3
<1>5. \A l \in late' : l.overtaken /\ \E m \in late : m.kind = l.kind
  BY <1>3 DEF Overtaken
<1>6. \A m \in late : \E l \in late' : l.kind = m.kind
  <2> TAKE m \in late
  <2>1. Overtaken(m) \in late'
    BY <1>1
  <2>2. Overtaken(m).kind = m.kind
    BY DEF Overtaken
  <2> QED
    BY <2>1, <2>2
<1>7. Unlocked' = Unlocked
  <2>1. Unlocked => Unlocked'
    BY <1>5, Zenon DEF Unlocked
  <2>2. Unlocked' => Unlocked
    BY <1>6, Zenon DEF Unlocked
  <2> QED
    BY <2>1, <2>2 DEF Unlocked
<1> QED
  BY <1>1, <1>4, <1>5, <1>7

\* The one that holds the claim, or makes it, is alone with the upload.
LEMMA Alone ==
    ASSUME IInv, NEW p \in Process, pc[p].stage \in Held \/ writing = NoOne, NEW q \in Process \ {p}
    PROVE  pc[q].stage \notin Held
BY UploadsAssumption DEF IInv, Claims, Process

\* What those without the claim rely on stays so.
LEMMA OthersFit ==
    ASSUME IInv, NEW q \in Process, pc[q].stage \notin Held, pc'[q] = pc[q],
           born, born', Full => Full'
    PROVE  Fits(q)'
<1>1. Fits(q)
  BY DEF IInv
<1>2. Opens(q)' /\ Knows(q)'
  BY <1>1 DEF Fits, Opens, Knows, IsAt
<1>3. Asks(q)'
  BY <1>1 DEF Fits, Asks, IsAt
<1>4. Writes(q)' /\ Looks(q)' /\ Moves(q)' /\ Resets(q)' /\ Closes(q)'
  BY DEF Held, Writes, Looks, Moves, Resets, Closes, IsAt
<1> QED
  BY <1>2, <1>3, <1>4 DEF Fits

\* Before the upload is opened nobody knows it.
LEMMA Early ==
    ASSUME IInv, ~born, NEW q \in Process
    PROVE  pc[q].stage \in {"idle", "selected", "opening"}
BY DEF IInv, TypeOK, Fits, Knows, Held, Stages

\* The late statements through a step of the one that holds or makes the claim.
LEMMA LateStep ==
    ASSUME IInv, born',
           \A l \in late' : l.overtaken /\ \E m \in late : m.kind = l.kind,
           left => left', Full => Full',
           part' \in {part, Gone} \/ part # Gone,
           blob' \in {blob, Gone} \/ part # Gone,
           Unlocked \/ part # Gone \/ (part' = part /\ blob' = blob /\ (Good => Good'))
    PROVE  LateFit'
<1> SUFFICES ASSUME NEW l \in late' PROVE LateFits(l)'
  BY DEF LateFit
<1>1. PICK m \in late : m.kind = l.kind
  OBVIOUS
<1>2. LateFits(m)
  BY DEF IInv, LateFit
<1>3. l.kind = "delete" /\ ~left' => part' = Gone /\ blob' = Gone
  BY <1>1, <1>2 DEF LateFits
<1>4. l.kind = "commit" => part' = Gone /\ blob' = Total /\ Good' /\ Full'
  BY <1>1, <1>2 DEF LateFits, Unlocked
<1> QED
  BY <1>3, <1>4 DEF LateFits

\* A step of the one that holds or makes the claim.
LEMMA HolderStep ==
    ASSUME IInv, NEW p \in Process, pc[p].stage \in Held \/ writing = NoOne,
           \A q \in Process \ {p} : pc'[q] = pc[q],
           pc'[p].stage \in Held => writing' = p,
           born, born', Full => Full',
           TypeOK', RowsFit', LateFit', Fits(p)', ConfirmedIsKept', ClosedLeavesNothing'
    PROVE  IInv'
<1>1. \A q \in Process \ {p} : pc'[q].stage \notin Held
  BY Alone
<1>2. Claims'
  BY <1>1 DEF Claims
<1>3. ASSUME NEW q \in Process PROVE Fits(q)'
  <2>1. CASE q = p
    BY <2>1
  <2>2. CASE q # p
    <3>1. q \in Process \ {p} /\ pc[q].stage \notin Held /\ pc'[q] = pc[q]
      BY <2>2, Alone
    <3> QED
      BY <3>1, OthersFit
  <2> QED
    BY <2>1, <2>2
<1> QED
  BY <1>2, <1>3 DEF IInv

\* One at work has the claim, the upload is known, and what is late is overtaken.
LEMMA AtWork ==
    ASSUME IInv, NEW p \in Process, pc[p].stage \in Held
    PROVE  /\ TypeOK /\ RowsFit /\ Fits(p) /\ writing = p /\ born
           /\ \A l \in late : l.overtaken /\ \E m \in late : m.kind = l.kind
<1>1. TypeOK /\ RowsFit /\ Fits(p) /\ writing = p
  BY DEF IInv, Claims
<1>2. writing # NoOne
  BY <1>1, UploadsAssumption DEF Process
<1> QED
  BY <1>1, <1>2 DEF IInv, LateFit, Fits, Knows

\* ... and if its row is gone, or a late delete is under way, bytes may stay.
LEMMA RowOrLeft ==
    ASSUME IInv, NEW p \in Process, pc[p].stage \in Held \ {"remove", "remove blob"},
           received = Gone, ~published, part # Gone \/ blob # Gone
    PROVE  left
<1>1. \A q \in Process : ~Leaves(q)
  <2> SUFFICES ASSUME NEW q \in Process PROVE ~Leaves(q)
    OBVIOUS
  <2>1. born /\ Fits(q)
    BY AtWork DEF IInv, Held
  <2>2. pc[q].stage # "opening"
    BY <2>1 DEF Fits, Opens, IsAt
  <2>3. pc[q].stage \notin {"remove", "remove blob"}
    BY Alone DEF Held
  <2> QED
    BY <2>2, <2>3 DEF Leaves
<1> QED
  BY <1>1 DEF IInv, ClosedLeavesNothing

-----------------------------------------------------------------------------
(* start, append, confirm.                                                 *)

LEMMA StartInv == ASSUME IInv, NEW r \in Request, Start(r) PROVE IInv'
<1>1. r \in Process /\ TypeOK
  BY DEF Process, IInv
<1>2. /\ pc' \in [Process -> Points]
      /\ pc'[r].stage = "opening" /\ pc'[r].at = pc[r].at
      /\ \A q \in Process \ {r} : pc'[q] = pc[q]
  BY <1>1, GoMoves DEF Start, Stages
<1>3. TypeOK'
  BY <1>1, <1>2, UploadsAssumption DEF Start, TypeOK, Points, Lengths, rows, claims, history
<1>4. received = Gone /\ ~published /\ blob = Gone /\ part = Gone /\ ~born /\ ~astray /\ late = {}
  BY DEF IInv, RowsFit, LateFit, Start
<1>5. \A q \in Process : q # r => pc[q].stage \in {"idle", "selected"}
  <2> SUFFICES ASSUME NEW q \in Process, q # r
               PROVE  pc[q].stage \in {"idle", "selected"}
    OBVIOUS
  <2>1. ~IsAt(q, "opening")
    BY <1>4 DEF IInv, Fits, Opens, Gone
  <2> QED
    BY <1>4, <2>1, Early DEF IsAt
<1>6. Claims'
  BY <1>2, <1>5 DEF Claims, Held
<1>7. part' = 0 /\ ~born' /\ late' = {}
  BY <1>4 DEF Start, claims, history
<1>8. \A q \in Process : Fits(q)'
  BY <1>2, <1>5, <1>7 DEF Fits, Knows, Held, Opens, Writes, Asks, Looks, Moves, Resets, Closes, IsAt
<1>9. RowsFit' /\ LateFit' /\ ConfirmedIsKept' /\ ClosedLeavesNothing'
  BY <1>1, <1>2, <1>4, <1>7
  DEF Start, rows, history, RowsFit, LateFit, ConfirmedIsKept, ClosedLeavesNothing, Leaves, Gone
<1> QED
  BY <1>3, <1>6, <1>8, <1>9 DEF IInv

LEMMA StartRowInv == ASSUME IInv, NEW r \in Request, StartRow(r) PROVE IInv'
<1>1. r \in Process /\ TypeOK
  BY DEF Process, IInv
<1>2. /\ pc' \in [Process -> Points]
      /\ pc'[r].stage = "idle"
      /\ \A q \in Process \ {r} : pc'[q] = pc[q]
  BY <1>1, GoMoves DEF StartRow, Stages
<1>3. TypeOK'
  <2>1. received' \in Lengths
    BY UploadsAssumption DEF StartRow, Lengths
  <2>2. UNCHANGED <<hashed, published, part, blob, wrong, writing, late, astray, crossed, left>>
    BY DEF StartRow, disk, claims
  <2>3. quiet' \in BOOLEAN /\ born' \in BOOLEAN
    BY DEF StartRow
  <2> QED
    BY <1>1, <1>2, <2>1, <2>2, <2>3 DEF TypeOK, Points, Lengths
<1>4. ~born /\ part = 0 /\ received = Gone /\ ~published /\ blob = Gone /\ ~astray /\ late = {}
  BY <1>1 DEF IInv, RowsFit, LateFit, StartRow, Fits, Opens
<1>5. \A q \in Process : q # r => pc[q].stage \in {"idle", "selected"}
  <2> SUFFICES ASSUME NEW q \in Process, q # r
               PROVE  pc[q].stage \in {"idle", "selected"}
    OBVIOUS
  <2>1. ~IsAt(q, "opening")
    BY <1>1 DEF IInv, Fits, Opens, StartRow
  <2> QED
    BY <1>4, <2>1, Early DEF IsAt
<1>6. Claims'
  BY <1>2, <1>5 DEF Claims, Held
<1>7. \A q \in Process : Fits(q)'
  BY <1>2, <1>5 DEF Fits, Knows, Held, Opens, Writes, Asks, Looks, Moves, Resets, Closes, IsAt
<1>8. LateFit' /\ ConfirmedIsKept' /\ ClosedLeavesNothing'
  BY <1>4 DEF StartRow, disk, claims, LateFit, ConfirmedIsKept, Kept, ClosedLeavesNothing, Gone
<1>9. RowsFit'
  BY <1>4 DEF StartRow, disk, RowsFit, Gone
<1> QED
  BY <1>3, <1>6, <1>7, <1>8, <1>9 DEF IInv

LEMMA AppendInv == ASSUME IInv, NEW r \in Request, Append(r) PROVE IInv'
<1>1. r \in Process /\ TypeOK /\ RowsFit
  BY DEF Process, IInv
<1>2. received \in 0..Total /\ born /\ ~published /\ blob = Gone /\ part # Gone
  BY <1>1 DEF TypeOK, Lengths, RowsFit, Append
<1>3. /\ pc' \in [Process -> Points]
      /\ pc'[r] = [stage |-> "writing", at |-> received]
      /\ \A q \in Process \ {r} : pc'[q] = pc[q]
  BY <1>1, <1>2 DEF Append, TypeOK, Points, Stages
<1>4. /\ writing = NoOne /\ writing' = r /\ late' \subseteq Statements
      /\ \A l \in late' : l.overtaken /\ \E m \in late : m.kind = l.kind
  BY <1>1, ClaimLate DEF Append
<1>5. /\ UNCHANGED <<hashed, received, quiet, published, blob, born, astray, crossed, left>>
      /\ part' = received /\ wrong' \subseteq 1..Total
  BY <1>2, UploadsAssumption DEF Append, SetLen, rows, history
<1>6. TypeOK'
  BY <1>1, <1>3, <1>4, <1>5 DEF TypeOK, Points
<1>7. Full' = Full
  BY <1>5 DEF Full
<1>8. LateFit'
  BY <1>2, <1>4, <1>5, <1>7, LateStep
<1>9. Fits(r)'
  BY <1>2, <1>3, <1>5
  DEF Fits, Knows, Opens, Writes, Asks, Looks, Moves, Resets, Closes, IsAt, Gone
<1>10. RowsFit' /\ ConfirmedIsKept' /\ ClosedLeavesNothing'
  BY <1>1, <1>2, <1>5 DEF RowsFit, ConfirmedIsKept, Kept, ClosedLeavesNothing, Gone
<1> QED
  BY <1>1, <1>2, <1>3, <1>4, <1>5, <1>6, <1>7, <1>8, <1>9, <1>10, HolderStep

LEMMA WriteInv == ASSUME IInv, NEW r \in Request, Write(r) PROVE IInv'
<1>1. r \in Process /\ pc[r].stage = "writing" /\ pc[r].stage \in Held
  BY DEF Process, Write, IsAt, Held
<1>2. /\ TypeOK /\ RowsFit /\ writing = r /\ born
      /\ \A l \in late : l.overtaken /\ \E m \in late : m.kind = l.kind
  BY <1>1, AtWork
<1>3. /\ part = pc[r].at /\ (received = Gone \/ crossed \/ received <= pc[r].at)
      /\ pc[r].at \in 0..Total /\ part # Gone /\ blob = Gone /\ ~published
  <2>1. Writes(r)
    BY <1>1 DEF IInv, Fits
  <2> QED
    BY <1>1, <1>2, <2>1 DEF TypeOK, RowsFit, Write, Writes, Gone
<1>4. pc[r].at + 1 \in 1..Total
  BY <1>3, UploadsAssumption DEF Write
<1>5. /\ pc' \in [Process -> Points]
      /\ pc'[r] = [stage |-> "writing", at |-> pc[r].at + 1]
      /\ \A q \in Process \ {r} : pc'[q] = pc[q]
  <2>1. pc[r] \in Points /\ pc \in [Process -> Points]
    BY <1>1, <1>2 DEF TypeOK, Points
  <2>2. [pc[r] EXCEPT !.at = pc[r].at + 1] = [stage |-> "writing", at |-> pc[r].at + 1]
    BY <1>1, <2>1 DEF Points
  <2>3. pc' = [pc EXCEPT ![r] = [pc[r] EXCEPT !.at = pc[r].at + 1]]
    BY DEF Write
  <2>4. [stage |-> "writing", at |-> pc[r].at + 1] \in Points
    BY <1>4 DEF Points, Stages
  <2> QED
    BY <1>1, <2>1, <2>2, <2>3, <2>4
<1>6. /\ UNCHANGED <<hashed, received, quiet, published, blob, writing, late, born, astray, crossed, left>>
      /\ part' = pc[r].at + 1 /\ wrong' \subseteq 1..Total
  BY <1>2, <1>3, <1>4, UploadsAssumption DEF Write, rows, claims, history, TypeOK
<1>7. TypeOK'
  BY <1>2, <1>4, <1>5, <1>6 DEF TypeOK, Points, Lengths
<1>8. Full' = Full
  BY <1>6 DEF Full
<1>9. LateFit'
  BY <1>2, <1>3, <1>6, <1>8, LateStep
<1>10. Fits(r)'
  BY <1>2, <1>3, <1>4, <1>5, <1>6, UploadsAssumption
  DEF Fits, Knows, Opens, Writes, Asks, Looks, Moves, Resets, Closes, IsAt, TypeOK, Lengths, Gone
<1>11. RowsFit'
  BY <1>2, <1>3, <1>6 DEF RowsFit
<1>12. ConfirmedIsKept'
  BY <1>2, <1>3, <1>4, <1>6 DEF ConfirmedIsKept, Kept, TypeOK, Lengths, Gone
<1>13. ClosedLeavesNothing'
  BY <1>1, <1>3, <1>6, RowOrLeft DEF ClosedLeavesNothing, Held
<1> QED
  BY <1>1, <1>2, <1>5, <1>6, <1>7, <1>8, <1>9, <1>10, <1>11, <1>12, <1>13, HolderStep

\* What confirm finds, and stores if the row is there.
LEMMA ConfirmKeeps ==
    ASSUME IInv, NEW r \in Request, Confirm(r)
    PROVE  /\ r \in Process /\ pc[r].stage = "writing" /\ pc[r].stage \in Held
           /\ pc[r].at \in 0..Total /\ part = pc[r].at /\ part # Gone /\ blob = Gone
           /\ received = Gone \/ crossed \/ received <= pc[r].at
           /\ received' = IF received = Gone THEN Gone ELSE pc[r].at
           /\ ~published /\ quiet' = FALSE
<1>1. r \in Process /\ pc[r].stage = "writing" /\ pc[r].stage \in Held /\ TypeOK /\ RowsFit
  BY DEF Process, IInv, Confirm, IsAt, Held
<1>2. Writes(r)
  BY <1>1 DEF IInv, Fits
<1> QED
  BY <1>1, <1>2 DEF Writes, IsAt, TypeOK, RowsFit, Confirm, Confirmed, Stored, Gone

\* Whatever becomes of the handler then.
LEMMA ConfirmRow ==
    ASSUME IInv, NEW r \in Request, Confirm(r),
           UNCHANGED <<hashed, published, part, blob, wrong, late, born, astray, crossed, left>>
    PROVE  /\ received' \in Lengths /\ (Full => Full')
           /\ RowsFit' /\ LateFit' /\ ConfirmedIsKept' /\ ClosedLeavesNothing'
<1>1. /\ r \in Process /\ pc[r].stage = "writing" /\ pc[r].stage \in Held
      /\ pc[r].at \in 0..Total /\ part = pc[r].at /\ part # Gone /\ blob = Gone
      /\ received = Gone \/ crossed \/ received <= pc[r].at
      /\ received' = IF received = Gone THEN Gone ELSE pc[r].at
      /\ ~published /\ quiet' = FALSE
  BY ConfirmKeeps
<1>2. /\ TypeOK /\ RowsFit /\ born
      /\ \A l \in late : l.overtaken /\ \E m \in late : m.kind = l.kind
  BY <1>1, AtWork
<1>3. received' \in Lengths
  BY <1>1 DEF Lengths
<1>4. Full => Full'
  BY <1>1, UploadsAssumption DEF Full, Gone
<1>5. LateFit'
  BY <1>1, <1>2, <1>4, LateStep
<1>6. RowsFit'
  BY <1>1, <1>2 DEF RowsFit
<1>7. ConfirmedIsKept'
  BY <1>1, <1>2 DEF ConfirmedIsKept, Kept
<1>8. ClosedLeavesNothing'
  BY <1>1, RowOrLeft DEF ClosedLeavesNothing, Held
<1> QED
  BY <1>3, <1>4, <1>5, <1>6, <1>7, <1>8

LEMMA CheckpointInv == ASSUME IInv, NEW r \in Request, Checkpoint(r) PROVE IInv'
<1>1. UNCHANGED <<hashed, published, part, blob, wrong, writing, late, pc, born, astray, crossed, left>>
  BY DEF Checkpoint, disk, claims, history
<1>2. /\ received' \in Lengths /\ (Full => Full')
      /\ RowsFit' /\ LateFit' /\ ConfirmedIsKept' /\ ClosedLeavesNothing'
  BY <1>1, ConfirmRow DEF Checkpoint
<1>3. /\ r \in Process /\ pc[r].stage = "writing" /\ pc[r].stage \in Held
      /\ pc[r].at \in 0..Total /\ part = pc[r].at
      /\ received' = IF received = Gone THEN Gone ELSE pc[r].at
      /\ quiet' = FALSE
  BY ConfirmKeeps DEF Checkpoint
<1>4. TypeOK /\ writing = r /\ born
  BY <1>3, AtWork
<1>5. TypeOK'
  BY <1>1, <1>2, <1>3, <1>4 DEF TypeOK
<1>6. Fits(r)'
  BY <1>1, <1>3, <1>4 DEF Fits, Knows, Opens, Writes, Asks, Looks, Moves, Resets, Closes, IsAt
<1> QED
  BY <1>1, <1>2, <1>3, <1>4, <1>5, <1>6, HolderStep

LEMMA WroteAllInv == ASSUME IInv, NEW r \in Request, WroteAll(r) PROVE IInv'
<1>1. UNCHANGED <<hashed, published, part, blob, wrong, writing, late, born, astray, crossed, left>>
  BY DEF WroteAll, disk, claims, history
<1>2. /\ received' \in Lengths /\ (Full => Full')
      /\ RowsFit' /\ LateFit' /\ ConfirmedIsKept' /\ ClosedLeavesNothing'
  BY <1>1, ConfirmRow DEF WroteAll
<1>3. /\ r \in Process /\ pc[r].stage = "writing" /\ pc[r].stage \in Held
      /\ received' \in {Total, Gone} /\ quiet' = FALSE
  BY ConfirmKeeps DEF WroteAll
<1>4. TypeOK /\ writing = r /\ born
  BY <1>3, AtWork
<1>5. /\ pc' \in [Process -> Points]
      /\ pc'[r].stage = "look"
      /\ \A q \in Process \ {r} : pc'[q] = pc[q]
  BY <1>3, <1>4, GoMoves DEF WroteAll, Stages
<1>6. TypeOK'
  BY <1>1, <1>2, <1>3, <1>4, <1>5 DEF TypeOK, Points
<1>7. Fits(r)'
  BY <1>1, <1>3, <1>4, <1>5 DEF Fits, Knows, Opens, Writes, Asks, Looks, Moves, Resets, Closes, IsAt, Full
<1> QED
  BY <1>1, <1>2, <1>3, <1>4, <1>5, <1>6, <1>7, HolderStep

LEMMA WroteSomeInv == ASSUME IInv, NEW r \in Request, WroteSome(r) PROVE IInv'
<1>1. UNCHANGED <<hashed, published, part, blob, wrong, late, born, astray, crossed, left>>
  BY DEF WroteSome, disk, history
<1>2. /\ received' \in Lengths /\ (Full => Full')
      /\ RowsFit' /\ LateFit' /\ ConfirmedIsKept' /\ ClosedLeavesNothing'
  BY <1>1, ConfirmRow DEF WroteSome
<1>3. r \in Process /\ pc[r].stage \in Held /\ quiet' = FALSE
  BY ConfirmKeeps DEF WroteSome
<1>4. TypeOK /\ writing = r /\ born
  BY <1>3, AtWork
<1>5. /\ pc' \in [Process -> Points]
      /\ pc'[r].stage = "idle" /\ writing' = NoOne
      /\ \A q \in Process \ {r} : pc'[q] = pc[q]
  BY <1>3, <1>4, EndMoves DEF WroteSome
<1>6. TypeOK'
  BY <1>1, <1>2, <1>3, <1>4, <1>5 DEF TypeOK, Points
<1>7. Fits(r)'
  BY <1>5 DEF Fits, Knows, Held, Opens, Writes, Asks, Looks, Moves, Resets, Closes, IsAt
<1> QED
  BY <1>1, <1>2, <1>3, <1>4, <1>5, <1>6, <1>7, HolderStep DEF Held

-----------------------------------------------------------------------------
(* status, finish.                                                         *)

\* A step of a process that changes neither rows nor bytes, and at most sends
\* something that is late.
LEMMA IdleStep ==
    ASSUME IInv, NEW p \in Process, UNCHANGED <<rows, disk, born, astray, crossed>>,
           pc' \in [Process -> Points], \A q \in Process \ {p} : pc'[q] = pc[q],
           pc'[p].stage \notin Held, pc'[p].stage # "opening", Asks(p)', Knows(p)',
           writing' \in Process \cup {NoOne},
           \A q \in Process \ {p} : writing = q => writing' = q,
           late' \subseteq Statements, LateFit',
           late' = late \/ pc[p].stage \in Held \/ (Unlocked => Unlocked'),
           left' \in BOOLEAN, left \/ Leaves(p) => left'
    PROVE  IInv'
<1>1. UNCHANGED <<hashed, received, quiet, published, part, blob, wrong>>
  BY DEF rows, disk
<1>2. TypeOK'
  BY <1>1 DEF IInv, TypeOK, Points
<1>3. Claims'
  BY DEF IInv, Claims
<1>4. RowsFit' /\ ConfirmedIsKept'
  BY <1>1 DEF IInv, RowsFit, ConfirmedIsKept, Kept, Good
<1>5. Full' = Full /\ Good' = Good
  BY <1>1 DEF Full, Good
<1>6. ASSUME NEW q \in Process PROVE Fits(q)'
  <2>1. CASE q = p
    BY <2>1 DEF Fits, Opens, Writes, Looks, Moves, Resets, Closes, IsAt, Held
  <2>2. CASE q # p
    <3>1. Fits(q) /\ pc'[q] = pc[q]
      BY <2>2 DEF IInv
    <3>2. Opens(q)'
      BY <1>1, <3>1 DEF Fits, Opens, IsAt
    <3>3. Knows(q)' /\ Writes(q)' /\ Asks(q)' /\ Looks(q)'
      BY <1>1, <1>5, <3>1 DEF Fits, Knows, Writes, Asks, Looks, IsAt
    <3>4. Moves(q)' /\ Resets(q)'
      BY <1>1, <1>5, <3>1 DEF Fits, Moves, Resets, IsAt
    <3>5. pc[q].stage \in Held /\ Unlocked => Unlocked'
      BY <2>2, Alone DEF Unlocked
    <3>6. Closes(q)'
      BY <1>1, <3>1, <3>5 DEF Fits, Closes, IsAt, Held
    <3> QED
      BY <3>2, <3>3, <3>4, <3>6 DEF Fits
  <2> QED
    BY <2>1, <2>2
<1>7. ClosedLeavesNothing'
  BY <1>1 DEF IInv, ClosedLeavesNothing, Leaves
<1> QED
  BY <1>2, <1>3, <1>4, <1>6, <1>7 DEF IInv

\* What is late fits as before.
LEMMA LateSame ==
    ASSUME IInv, UNCHANGED <<rows, disk, late, born, crossed>>, left => left',
           writing' \in {writing, NoOne}
    PROVE  LateFit' /\ late' \subseteq Statements
<1>1. UNCHANGED <<hashed, received, part, blob, wrong>>
  BY DEF rows, disk
<1>2. Full' = Full /\ Good' = Good
  BY <1>1 DEF Full, Good
<1>3. \A l \in late : LateFits(l) => LateFits(l)'
  BY <1>1, <1>2 DEF LateFits
<1> QED
  BY <1>3 DEF IInv, LateFit, TypeOK

LEMMA StatusInv == ASSUME IInv, NEW r \in Request, Status(r) PROVE IInv'
<1>1. r \in Process /\ TypeOK /\ pc[r].stage = "idle" /\ born
  BY UploadsAssumption DEF Process, IInv, RowsFit, Status, IsAt, Gone
<1>2. /\ pc' \in [Process -> Points]
      /\ pc'[r].stage = "asked"
      /\ \A q \in Process \ {r} : pc'[q] = pc[q]
  BY <1>1, GoMoves DEF Status, Stages
<1>3. received' = Total /\ born' /\ UNCHANGED <<rows, disk, writing, late, born, astray, crossed, left>>
  BY <1>1 DEF Status, rows, claims, history
<1>4. Asks(r)' /\ Knows(r)' /\ pc'[r].stage \notin Held /\ ~Leaves(r)
  BY <1>1, <1>2, <1>3 DEF Asks, Knows, Full, Held, Leaves
<1>5. LateFit' /\ late' \subseteq Statements
  BY <1>3, LateSame
<1> QED
  BY <1>1, <1>2, <1>3, <1>4, <1>5, IdleStep DEF TypeOK

LEMMA StatusClaimsInv == ASSUME IInv, NEW r \in Request, StatusClaims(r) PROVE IInv'
<1>1. r \in Process /\ TypeOK /\ pc[r].stage = "asked"
  BY DEF Process, IInv, StatusClaims, IsAt
<1>2. /\ pc' \in [Process -> Points]
      /\ pc'[r].stage = "look"
      /\ \A q \in Process \ {r} : pc'[q] = pc[q]
  BY <1>1, GoMoves DEF StatusClaims, Stages
<1>3. /\ writing = NoOne /\ writing' = r /\ late' \subseteq Statements
      /\ \A l \in late' : l.overtaken /\ \E m \in late : m.kind = l.kind
  BY <1>1, ClaimLate DEF StatusClaims
<1>4. /\ UNCHANGED <<hashed, received, quiet, published, part, blob, wrong, born, crossed, left>>
      /\ astray' = (astray \/ received # Total)
  BY DEF StatusClaims, rows, disk
<1>5. born /\ Full /\ Full' = Full /\ Good' = Good
  BY <1>1, <1>4 DEF IInv, Fits, Asks, Knows, IsAt, Full, Good
<1>6. TypeOK'
  BY <1>1, <1>2, <1>3, <1>4 DEF TypeOK, Points
<1>7. Fits(r)'
  BY <1>2, <1>4, <1>5 DEF Fits, Knows, Opens, Writes, Asks, Looks, Moves, Resets, Closes, IsAt
<1>8. RowsFit' /\ ConfirmedIsKept'
  BY <1>4, <1>5 DEF IInv, RowsFit, Full, ConfirmedIsKept, Kept
<1>9. LateFit'
  BY <1>3, <1>4, <1>5, LateStep
<1>10. ClosedLeavesNothing'
  <2>1. (\A q \in Process : ~Leaves(q)') => \A q \in Process : ~Leaves(q)
    BY <1>1, <1>2 DEF Leaves
  <2> QED
    BY <1>4, <2>1 DEF IInv, ClosedLeavesNothing
<1> QED
  BY <1>1, <1>2, <1>3, <1>4, <1>5, <1>6, <1>7, <1>8, <1>9, <1>10, HolderStep

LEMMA LookInv == ASSUME IInv, NEW r \in Request, Look(r) PROVE IInv'
<1>1. r \in Process /\ pc[r].stage = "look" /\ pc[r].stage \in Held /\ received # Gone
  BY DEF Look, IsAt, Held, Process
<1>2. /\ TypeOK /\ RowsFit /\ Fits(r) /\ writing = r /\ born /\ ~published
      /\ \A l \in late : l.overtaken /\ \E m \in late : m.kind = l.kind
  BY <1>1, AtWork DEF RowsFit
<1>3. UNCHANGED <<hashed, received, quiet, published, part, blob, wrong, writing, late, born, astray, crossed, left>>
  BY DEF Look, rows, disk, claims, history
<1>4. Full /\ (astray \/ crossed \/ received \in {Total, Gone})
  BY <1>1, <1>2 DEF Fits, Looks, IsAt
<1>5. PICK st \in {"rename", "commit", "truncate", "damaged"} :
        /\ Go(r, st)
        /\ st = "rename" => part = Total /\ Good
        /\ st = "commit" => part = Gone /\ blob = Total /\ Good
        /\ st = "truncate" => part = Total /\ hashed
        /\ st = "damaged" => part # Total /\ ~(part = Gone /\ blob = Total /\ Good)
  BY DEF Look, Whole, Matches, Moved, Good
<1>6. /\ pc' \in [Process -> Points]
      /\ pc'[r].stage = st
      /\ \A q \in Process \ {r} : pc'[q] = pc[q]
  BY <1>1, <1>2, <1>5, GoMoves DEF Stages
<1>7. TypeOK'
  BY <1>2, <1>3, <1>6 DEF TypeOK, Points
<1>8. Good' = Good /\ Full' = Full /\ Unlocked' = Unlocked
  BY <1>3 DEF Good, Full, Unlocked
<1>9. part = Total => blob = Gone /\ part # Gone
  BY <1>2, UploadsAssumption DEF RowsFit, Gone
<1>10. st = "damaged" => Unlocked /\ (hashed \/ crossed)
  <2>1. st = "damaged" => Unlocked
    BY <1>5 DEF IInv, LateFit, LateFits, Unlocked
  <2>2. ASSUME st = "damaged", ~hashed, ~crossed PROVE FALSE
    <3>1. received = Total /\ ~astray /\ Good
      BY <1>1, <1>2, <1>4, <2>2 DEF Full, RowsFit, Good
    <3>2. Kept
      BY <1>1, <2>2, <3>1 DEF IInv, ConfirmedIsKept
    <3> QED
      BY <1>2, <1>5, <2>2, <3>1, <3>2, UploadsAssumption DEF Kept, TypeOK, Lengths, Gone
  <2> QED
    BY <2>1, <2>2
<1>11. Fits(r)'
  <2>1. Knows(r)' /\ Opens(r)' /\ Writes(r)' /\ Asks(r)' /\ Looks(r)'
    BY <1>2, <1>3, <1>6 DEF Knows, Opens, Writes, Asks, Looks, IsAt
  <2>2. Moves(r)' /\ Resets(r)'
    BY <1>1, <1>3, <1>4, <1>5, <1>6, <1>8, <1>9 DEF Moves, Resets, IsAt
  <2>3. Closes(r)'
    BY <1>2, <1>3, <1>6, <1>8, <1>10 DEF Closes, IsAt
  <2> QED
    BY <2>1, <2>2, <2>3 DEF Fits
<1>12. RowsFit' /\ ConfirmedIsKept' /\ ClosedLeavesNothing'
  BY <1>1, <1>3, <1>8 DEF IInv, RowsFit, ConfirmedIsKept, Kept, ClosedLeavesNothing
<1>13. LateFit'
  BY <1>2, <1>3, <1>8, LateStep
<1> QED
  BY <1>1, <1>2, <1>3, <1>6, <1>7, <1>8, <1>11, <1>12, <1>13, HolderStep

LEMMA RenameInv == ASSUME IInv, NEW r \in Request, Rename(r) PROVE IInv'
<1>1. r \in Process /\ pc[r].stage = "rename" /\ pc[r].stage \in Held
  BY DEF Rename, IsAt, Held, Process
<1>2. Moves(r)
  BY <1>1 DEF IInv, Fits
<1>3. Full /\ (astray \/ crossed \/ received \in {Total, Gone}) /\ Good /\ part = Total
  BY <1>1, <1>2 DEF Moves, IsAt
<1>4. /\ TypeOK /\ RowsFit /\ writing = r /\ born /\ part # Gone /\ ~published
      /\ \A l \in late : l.overtaken /\ \E m \in late : m.kind = l.kind
  BY <1>1, <1>3, AtWork, UploadsAssumption DEF RowsFit, Gone
<1>5. /\ UNCHANGED <<hashed, received, quiet, published, wrong, writing, late, born, astray, crossed, left>>
      /\ part' = Gone /\ blob' = Total
  BY <1>3 DEF Rename, rows, claims, history
<1>6. /\ pc' \in [Process -> Points]
      /\ pc'[r].stage = "commit"
      /\ \A q \in Process \ {r} : pc'[q] = pc[q]
  BY <1>1, <1>4, GoMoves DEF Rename, Stages
<1>7. TypeOK'
  BY <1>4, <1>5, <1>6 DEF TypeOK, Points, Lengths
<1>8. Good' /\ Full' = Full
  BY <1>3, <1>5 DEF Good, Full
<1>9. Fits(r)'
  BY <1>3, <1>4, <1>5, <1>6, <1>8 DEF Fits, Knows, Opens, Writes, Asks, Looks, Moves, Resets, Closes, IsAt
<1>10. RowsFit' /\ ConfirmedIsKept'
  BY <1>3, <1>4, <1>5 DEF RowsFit, ConfirmedIsKept, Kept
<1>11. LateFit'
  BY <1>4, <1>5, <1>8, LateStep
<1>12. ClosedLeavesNothing'
  BY <1>1, <1>4, <1>5, RowOrLeft DEF ClosedLeavesNothing
<1> QED
  BY <1>1, <1>4, <1>5, <1>6, <1>7, <1>8, <1>9, <1>10, <1>11, <1>12, HolderStep

\* The bytes are in place, whole, and the announced file's.
LEMMA CommitKnows ==
    ASSUME IInv, NEW r \in Request, IsAt(r, "commit")
    PROVE  Full /\ part = Gone /\ blob = Total /\ Good
BY DEF IInv, Fits, Moves, IsAt, Process

LEMMA CommitInv == ASSUME IInv, NEW r \in Request, Commit(r) PROVE IInv'
<1>1. r \in Process /\ pc[r].stage \in Held /\ part = Gone /\ blob = Total /\ Good
  BY CommitKnows DEF Commit, IsAt, Held, Process
<1>2. /\ TypeOK /\ RowsFit /\ writing = r /\ born
      /\ \A l \in late : l.overtaken /\ \E m \in late : m.kind = l.kind
  BY <1>1, AtWork
<1>3. /\ UNCHANGED <<hashed, quiet, part, blob, wrong, late, born, astray, crossed, left>>
      /\ published' = TRUE /\ received' = Gone
  BY DEF Commit, disk, history
<1>4. /\ pc' \in [Process -> Points]
      /\ pc'[r].stage = "idle" /\ writing' = NoOne
      /\ \A q \in Process \ {r} : pc'[q] = pc[q]
  BY <1>1, <1>2, EndMoves DEF Commit
<1>5. TypeOK'
  BY <1>2, <1>3, <1>4 DEF TypeOK, Points, Lengths
<1>6. Good' = Good /\ Full'
  BY <1>3 DEF Good, Full
<1>7. Fits(r)' /\ RowsFit' /\ ConfirmedIsKept' /\ ClosedLeavesNothing'
  BY <1>1, <1>2, <1>3, <1>4, <1>6
  DEF Fits, Knows, Held, Opens, Writes, Asks, Looks, Moves, Resets, Closes, IsAt, RowsFit, ConfirmedIsKept,
      ClosedLeavesNothing
<1>8. LateFit'
  BY <1>2, <1>3, <1>6, LateStep
<1> QED
  BY <1>1, <1>2, <1>3, <1>4, <1>5, <1>6, <1>7, <1>8, HolderStep DEF Held

LEMMA TruncateInv == ASSUME IInv, NEW r \in Request, Truncate(r) PROVE IInv'
<1>1. r \in Process /\ pc[r].stage = "truncate" /\ pc[r].stage \in Held
  BY DEF Truncate, IsAt, Held, Process
<1>2. hashed /\ blob = Gone /\ part # Gone
  BY <1>1 DEF IInv, Fits, Resets
<1>3. /\ TypeOK /\ RowsFit /\ writing = r /\ born /\ ~published
      /\ \A l \in late : l.overtaken /\ \E m \in late : m.kind = l.kind
  BY <1>1, <1>2, AtWork DEF RowsFit
<1>4. /\ UNCHANGED <<hashed, received, quiet, published, blob, writing, late, born, crossed, left>>
      /\ part' = 0 /\ wrong' \subseteq 1..Total /\ astray' = TRUE
  BY UploadsAssumption DEF Truncate, SetLen, rows, claims
<1>5. /\ pc' \in [Process -> Points]
      /\ pc'[r].stage = "again"
      /\ \A q \in Process \ {r} : pc'[q] = pc[q]
  BY <1>1, <1>3, GoMoves DEF Truncate, Stages
<1>6. TypeOK'
  BY <1>3, <1>4, <1>5, UploadsAssumption DEF TypeOK, Points, Lengths
<1>7. Fits(r)'
  BY <1>2, <1>3, <1>4, <1>5 DEF Fits, Knows, Opens, Writes, Asks, Looks, Moves, Resets, Closes, IsAt, Gone
<1>8. RowsFit' /\ ConfirmedIsKept'
  BY <1>2, <1>3, <1>4 DEF RowsFit, ConfirmedIsKept
<1>9. Full' = Full
  BY <1>4 DEF Full
<1>10. LateFit'
  BY <1>2, <1>3, <1>4, <1>9, LateStep
<1>11. ClosedLeavesNothing'
  BY <1>1, <1>2, <1>3, <1>4, RowOrLeft DEF ClosedLeavesNothing
<1> QED
  BY <1>1, <1>2, <1>3, <1>4, <1>5, <1>6, <1>7, <1>8, <1>9, <1>10, <1>11, HolderStep

LEMMA SendAgainInv == ASSUME IInv, NEW r \in Request, SendAgain(r) PROVE IInv'
<1>1. r \in Process /\ pc[r].stage = "again" /\ pc[r].stage \in Held
  BY DEF SendAgain, IsAt, Held, Process
<1>2. hashed /\ blob = Gone /\ part = 0
  BY <1>1 DEF IInv, Fits, Resets, IsAt
<1>3. /\ TypeOK /\ RowsFit /\ writing = r /\ born /\ ~published
      /\ \A l \in late : l.overtaken /\ \E m \in late : m.kind = l.kind
  BY <1>1, <1>2, AtWork DEF RowsFit, Gone
<1>4. /\ UNCHANGED <<hashed, published, part, blob, wrong, late, born, crossed, left>>
      /\ received' \in {0, Gone} /\ (received = Gone => received' = Gone)
      /\ received' = Gone => received = Gone
      /\ quiet' = FALSE /\ astray' = FALSE
  BY DEF SendAgain, Stored, disk, Gone
<1>5. /\ pc' \in [Process -> Points]
      /\ pc'[r].stage = "idle" /\ writing' = NoOne
      /\ \A q \in Process \ {r} : pc'[q] = pc[q]
  BY <1>1, <1>3, EndMoves DEF SendAgain
<1>6. TypeOK'
  <2>1. received' \in Lengths
    BY <1>4, UploadsAssumption DEF Lengths
  <2>2. quiet' \in BOOLEAN /\ astray' \in BOOLEAN
    BY <1>4
  <2> QED
    BY <1>3, <1>4, <1>5, <2>1, <2>2 DEF TypeOK, Points
<1>7. Fits(r)' /\ RowsFit' /\ ConfirmedIsKept'
  BY <1>2, <1>3, <1>4, <1>5
  DEF Fits, Knows, Held, Opens, Writes, Asks, Looks, Moves, Resets, Closes, IsAt, RowsFit, ConfirmedIsKept, Kept, Gone
<1>8. Full /\ Full'
  BY <1>2, <1>4 DEF Full
<1>9. LateFit'
  BY <1>2, <1>3, <1>4, <1>8, LateStep DEF Gone
<1>10. ClosedLeavesNothing'
  BY <1>1, <1>2, <1>3, <1>4, RowOrLeft DEF ClosedLeavesNothing, Gone
<1> QED
  BY <1>1, <1>2, <1>3, <1>4, <1>5, <1>6, <1>7, <1>8, <1>9, <1>10, HolderStep DEF Held

-----------------------------------------------------------------------------
(* Giving up.                                                              *)

LEMMA DamagedInv == ASSUME IInv, NEW r \in Request, Damaged(r) PROVE IInv'
<1>1. /\ r \in Process /\ pc[r].stage \in {"damaged", "damaged blob", "damaged row"}
      /\ pc[r].stage \in Held
  BY DEF Damaged, IsAt, Held, Process
<1>2. /\ TypeOK /\ RowsFit /\ writing = r /\ born
      /\ \A l \in late : l.overtaken /\ \E m \in late : m.kind = l.kind
  BY <1>1, AtWork
<1>3. /\ ~published /\ Unlocked /\ (hashed \/ crossed \/ received = Gone)
      /\ pc[r].stage \in {"damaged blob", "damaged row"} => astray /\ part = Gone
      /\ pc[r].stage = "damaged row" => blob = Gone
  BY <1>1 DEF IInv, Fits, Closes, IsAt
<1>4. CASE pc[r].stage = "damaged"
  <2>1. /\ UNCHANGED <<hashed, received, quiet, published, blob, writing, late, born, crossed, left>>
        /\ part' = Gone /\ wrong' \subseteq 1..Total /\ astray' = TRUE /\ Go(r, "damaged blob")
    BY <1>2, <1>4 DEF Damaged, IsAt, RemovePart, rows, claims, TypeOK
  <2>2. /\ pc' \in [Process -> Points]
        /\ pc'[r].stage = "damaged blob"
        /\ \A q \in Process \ {r} : pc'[q] = pc[q]
    BY <1>1, <1>2, <2>1, GoMoves DEF Stages
  <2>3. TypeOK'
    BY <1>2, <2>1, <2>2 DEF TypeOK, Points, Lengths
  <2>4. Full' = Full /\ Unlocked' = Unlocked
    BY <2>1 DEF Full, Unlocked
  <2>5. Fits(r)' /\ RowsFit' /\ ConfirmedIsKept'
    BY <1>2, <1>3, <2>1, <2>2, <2>4
    DEF Fits, Knows, Opens, Writes, Asks, Looks, Moves, Resets, Closes, IsAt, RowsFit, ConfirmedIsKept
  <2>6. LateFit'
    BY <1>2, <1>3, <2>1, <2>4, LateStep
  <2>7. ClosedLeavesNothing'
    BY <1>1, <1>3, <1>4, <2>1, RowOrLeft DEF ClosedLeavesNothing
  <2> QED
    BY <1>1, <1>2, <2>1, <2>2, <2>3, <2>4, <2>5, <2>6, <2>7, HolderStep
<1>5. CASE pc[r].stage = "damaged blob"
  <2>1. /\ UNCHANGED <<hashed, received, quiet, published, part, writing, late, born, astray, crossed, left>>
        /\ blob' = Gone /\ wrong' \subseteq 1..Total /\ Go(r, "damaged row")
    BY <1>2, <1>3, <1>5 DEF Damaged, IsAt, RemoveBlob, DropsBlob, rows, history, TypeOK
  <2>2. /\ pc' \in [Process -> Points]
        /\ pc'[r].stage = "damaged row"
        /\ \A q \in Process \ {r} : pc'[q] = pc[q]
    BY <1>1, <1>2, <2>1, GoMoves DEF Stages
  <2>3. TypeOK'
    BY <1>2, <2>1, <2>2 DEF TypeOK, Points, Lengths
  <2>4. Full' = Full /\ Unlocked' = Unlocked
    BY <2>1 DEF Full, Unlocked
  <2>5. Fits(r)' /\ RowsFit' /\ ConfirmedIsKept' /\ ClosedLeavesNothing'
    BY <1>2, <1>3, <1>5, <2>1, <2>2, <2>4
    DEF Fits, Knows, Opens, Writes, Asks, Looks, Moves, Resets, Closes, IsAt, RowsFit, ConfirmedIsKept,
        ClosedLeavesNothing
  <2>6. LateFit'
    BY <1>2, <1>3, <2>1, <2>4, LateStep
  <2> QED
    BY <1>1, <1>2, <2>1, <2>2, <2>3, <2>4, <2>5, <2>6, HolderStep
<1>6. CASE pc[r].stage = "damaged row"
  <2>1. /\ UNCHANGED <<hashed, quiet, published, part, blob, wrong, late, born, astray, crossed, left>>
        /\ received' = Gone /\ End(r)
    BY <1>6 DEF Damaged, IsAt, disk, history
  <2>2. /\ pc' \in [Process -> Points]
        /\ pc'[r].stage = "idle" /\ writing' = NoOne
        /\ \A q \in Process \ {r} : pc'[q] = pc[q]
    BY <1>1, <1>2, <2>1, EndMoves
  <2>3. TypeOK'
    BY <1>2, <2>1, <2>2 DEF TypeOK, Points, Lengths
  <2>4. Full'
    BY <2>1 DEF Full
  <2>5. Fits(r)' /\ RowsFit' /\ ConfirmedIsKept' /\ ClosedLeavesNothing'
    BY <1>2, <1>3, <1>6, <2>1, <2>2
    DEF Fits, Knows, Held, Opens, Writes, Asks, Looks, Moves, Resets, Closes, IsAt, RowsFit, ConfirmedIsKept,
        ClosedLeavesNothing
  <2>6. LateFit'
    BY <1>2, <1>3, <2>1, <2>4, LateStep
  <2> QED
    BY <1>1, <1>2, <2>1, <2>2, <2>3, <2>4, <2>5, <2>6, HolderStep DEF Held
<1> QED
  BY <1>1, <1>4, <1>5, <1>6

\* The row goes first: cancel's and the sweep's.
LEMMA CloseInv ==
    ASSUME IInv, NEW p \in Process, received # Gone, Claim(p), Unlocked, received' = Gone, Go(p, "remove"),
           UNCHANGED <<hashed, quiet, published, disk, history>>
    PROVE  IInv'
<1>1. TypeOK /\ RowsFit /\ born /\ ~published
  BY DEF IInv, RowsFit
<1>2. /\ writing = NoOne /\ writing' = p /\ late' \subseteq Statements /\ Unlocked'
      /\ \A l \in late' : l.overtaken /\ \E m \in late : m.kind = l.kind
      /\ UNCHANGED <<part, blob, wrong, born, astray, crossed, left>>
  BY <1>1, ClaimLate DEF disk, history
<1>3. /\ pc' \in [Process -> Points]
      /\ pc'[p].stage = "remove"
      /\ \A q \in Process \ {p} : pc'[q] = pc[q]
  BY <1>1, GoMoves DEF Stages
<1>4. TypeOK'
  BY <1>1, <1>2, <1>3 DEF TypeOK, Points, Lengths
<1>5. Fits(p)'
  BY <1>1, <1>2, <1>3 DEF Fits, Knows, Opens, Writes, Asks, Looks, Moves, Resets, Closes, IsAt
<1>6. RowsFit' /\ ConfirmedIsKept'
  BY <1>1, <1>2 DEF RowsFit, ConfirmedIsKept
<1>7. Full'
  BY DEF Full
<1>8. LateFit'
  BY <1>1, <1>2, <1>7, LateStep
<1>9. ClosedLeavesNothing'
  BY <1>3 DEF ClosedLeavesNothing, Leaves
<1> QED
  BY <1>1, <1>2, <1>3, <1>4, <1>5, <1>6, <1>7, <1>8, <1>9, HolderStep

LEMMA CancelInv == ASSUME IInv, NEW r \in Request, Cancel(r) PROVE IInv'
<1>1. r \in Process
  BY DEF Process
<1> QED
  BY <1>1, CloseInv DEF Cancel

LEMMA RemoveInv == ASSUME IInv, NEW p \in Process, Remove(p) PROVE IInv'
<1>1. pc[p].stage \in {"remove", "remove blob"} /\ pc[p].stage \in Held
  BY DEF Remove, IsAt, Held
<1>2. /\ received = Gone /\ ~published /\ Unlocked
      /\ pc[p].stage = "remove blob" => part = Gone
  BY <1>1 DEF IInv, Fits, Closes, IsAt
<1>3. /\ TypeOK /\ RowsFit /\ writing = p /\ born
      /\ \A l \in late : l.overtaken /\ \E m \in late : m.kind = l.kind
  BY <1>1, AtWork
<1>4. CASE pc[p].stage = "remove"
  <2>1. /\ UNCHANGED <<hashed, received, quiet, published, blob, writing, late, born, astray, crossed, left>>
        /\ part' = Gone /\ wrong' \subseteq 1..Total /\ Go(p, "remove blob")
    BY <1>3, <1>4 DEF Remove, IsAt, RemovePart, rows, claims, TypeOK
  <2>2. /\ pc' \in [Process -> Points]
        /\ pc'[p].stage = "remove blob"
        /\ \A q \in Process \ {p} : pc'[q] = pc[q]
    BY <1>3, <2>1, GoMoves DEF Stages
  <2>3. TypeOK'
    BY <1>3, <2>1, <2>2 DEF TypeOK, Points, Lengths
  <2>4. Full' = Full /\ Unlocked' = Unlocked
    BY <2>1 DEF Full, Unlocked
  <2>5. Fits(p)' /\ RowsFit' /\ ConfirmedIsKept'
    BY <1>2, <1>3, <2>1, <2>2, <2>4
    DEF Fits, Knows, Opens, Writes, Asks, Looks, Moves, Resets, Closes, IsAt, RowsFit, ConfirmedIsKept
  <2>6. LateFit'
    BY <1>2, <1>3, <2>1, <2>4, LateStep
  <2>7. ClosedLeavesNothing'
    BY <2>2 DEF ClosedLeavesNothing, Leaves
  <2> QED
    BY <1>1, <1>3, <2>1, <2>2, <2>3, <2>4, <2>5, <2>6, <2>7, HolderStep
<1>5. CASE pc[p].stage = "remove blob"
  <2>1. /\ UNCHANGED <<hashed, received, quiet, published, part, late, born, astray, crossed, left>>
        /\ blob' = Gone /\ wrong' \subseteq 1..Total /\ End(p)
    BY <1>2, <1>3, <1>5 DEF Remove, IsAt, RemoveBlob, DropsBlob, rows, history, TypeOK
  <2>2. /\ pc' \in [Process -> Points]
        /\ pc'[p].stage = "idle" /\ writing' = NoOne
        /\ \A q \in Process \ {p} : pc'[q] = pc[q]
    BY <1>3, <2>1, EndMoves
  <2>3. TypeOK'
    BY <1>3, <2>1, <2>2 DEF TypeOK, Points, Lengths
  <2>4. Full' = Full
    BY <2>1 DEF Full
  <2>5. Fits(p)' /\ RowsFit' /\ ConfirmedIsKept' /\ ClosedLeavesNothing'
    BY <1>2, <1>3, <1>5, <2>1, <2>2
    DEF Fits, Knows, Held, Opens, Writes, Asks, Looks, Moves, Resets, Closes, IsAt, RowsFit, ConfirmedIsKept,
        ClosedLeavesNothing
  <2>6. LateFit'
    BY <1>2, <1>3, <2>1, <2>4, LateStep
  <2> QED
    BY <1>1, <1>3, <2>1, <2>2, <2>3, <2>4, <2>5, <2>6, HolderStep DEF Held
<1> QED
  BY <1>1, <1>4, <1>5

LEMMA SweepSelectInv == ASSUME IInv, SweepSelect PROVE IInv'
<1>1. Sweeper \in Process /\ TypeOK /\ pc[Sweeper].stage = "idle"
  BY DEF Process, IInv, SweepSelect, IsAt
<1>2. /\ pc' \in [Process -> Points]
      /\ pc'[Sweeper].stage = "selected"
      /\ \A q \in Process \ {Sweeper} : pc'[q] = pc[q]
  BY <1>1, GoMoves DEF SweepSelect, Stages
<1>3. UNCHANGED <<rows, disk, writing, late, born, astray, crossed, left>>
  BY DEF SweepSelect, claims, history
<1>4. Asks(Sweeper)' /\ Knows(Sweeper)' /\ pc'[Sweeper].stage \notin Held /\ ~Leaves(Sweeper)
  BY <1>1, <1>2 DEF Asks, Knows, Held, Leaves, IsAt
<1>5. LateFit' /\ late' \subseteq Statements
  BY <1>3, LateSame
<1> QED
  BY <1>1, <1>2, <1>3, <1>4, <1>5, IdleStep DEF TypeOK

LEMMA SweepTakeInv == ASSUME IInv, SweepTake PROVE IInv'
<1>1. Sweeper \in Process /\ TypeOK /\ pc[Sweeper].stage = "selected"
  BY DEF Process, IInv, SweepTake, IsAt
<1>2. CASE MayClaim /\ StillQuiet
  BY <1>1, <1>2, CloseInv DEF SweepTake, StillQuiet
<1>3. CASE ~(MayClaim /\ StillQuiet)
  <2>1. /\ pc' \in [Process -> Points]
        /\ pc'[Sweeper].stage = "idle"
        /\ \A q \in Process \ {Sweeper} : pc'[q] = pc[q]
    BY <1>1, <1>3, GoMoves DEF SweepTake, Stages
  <2>2. UNCHANGED <<rows, disk, writing, late, born, astray, crossed, left>>
    BY <1>3 DEF SweepTake, rows, claims, history
  <2>3. Asks(Sweeper)' /\ Knows(Sweeper)' /\ pc'[Sweeper].stage \notin Held /\ ~Leaves(Sweeper)
    BY <1>1, <2>1 DEF Asks, Knows, Held, Leaves, IsAt
  <2>4. LateFit' /\ late' \subseteq Statements
    BY <2>2, LateSame
  <2> QED
    BY <1>1, <2>1, <2>2, <2>3, <2>4, IdleStep DEF TypeOK
<1> QED
  BY <1>2, <1>3

-----------------------------------------------------------------------------
(* Time, failures, and any step.                                           *)

\* A step that moves no process and changes at most how long ago was the last byte.
LEMMA NothingMoves ==
    ASSUME IInv, quiet' \in BOOLEAN,
           UNCHANGED <<hashed, received, published, disk, claims, pc, history>>
    PROVE  IInv'
<1>1. UNCHANGED <<part, blob, wrong, writing, late, born, astray, crossed, left>>
  BY DEF disk, claims, history
<1>2. TypeOK'
  BY <1>1 DEF IInv, TypeOK
<1>3. Claims'
  BY <1>1 DEF IInv, Claims
<1>4. Full' = Full /\ Good' = Good /\ Unlocked' = Unlocked
  BY <1>1 DEF Full, Good, Unlocked
<1>5. \A p \in Process : Fits(p)'
  BY <1>1, <1>4 DEF IInv, Fits, Knows, Opens, Writes, Asks, Looks, Moves, Resets, Closes, IsAt
<1>6. RowsFit' /\ ConfirmedIsKept' /\ ClosedLeavesNothing'
  BY <1>1 DEF IInv, RowsFit, Good, ConfirmedIsKept, Kept, ClosedLeavesNothing, Leaves
<1>7. \A l \in late : LateFits(l) => LateFits(l)'
  BY <1>1, <1>4 DEF LateFits
<1>8. LateFit'
  BY <1>1, <1>7 DEF IInv, LateFit
<1> QED
  BY <1>2, <1>3, <1>5, <1>6, <1>8 DEF IInv

LEMMA HangUpInv == ASSUME IInv, NEW r \in Request, HangUp(r) PROVE IInv'
<1>1. r \in Process /\ TypeOK
  BY DEF Process, IInv
<1>2. /\ pc' \in [Process -> Points]
      /\ pc'[r].stage = "idle"
      /\ \A q \in Process \ {r} : pc'[q] = pc[q]
      /\ writing' = IF writing = r THEN NoOne ELSE writing
  BY <1>1, EndMoves DEF HangUp
<1>3. writing' \in Process \cup {NoOne} /\ \A q \in Process \ {r} : writing = q => writing' = q
  BY <1>1, <1>2 DEF TypeOK
<1>4. /\ UNCHANGED <<rows, disk, late, born, astray, crossed>>
      /\ left' = (left \/ Leaves(r)) /\ left' \in BOOLEAN
  BY <1>1 DEF HangUp, TypeOK, Leaves
<1>5. Asks(r)' /\ Knows(r)' /\ pc'[r].stage \notin Held /\ pc'[r].stage # "opening"
  BY <1>2 DEF Asks, Knows, Held, IsAt
<1>6. LateFit' /\ late' \subseteq Statements
  BY <1>2, <1>4, LateSame
<1> QED
  BY <1>1, <1>2, <1>3, <1>4, <1>5, <1>6, IdleStep

\* What a statement that is sent becomes.
LEMMA SendsLate ==
    ASSUME IInv, NEW kind \in {"offset", "delete", "commit"}, NEW n \in 0..Total, Sends(kind, n),
           UNCHANGED <<rows, disk, born, crossed>>, born,
           left => left', writing' = NoOne,
           LateFits([kind |-> kind, at |-> n, overtaken |-> FALSE])'
    PROVE  /\ late' \subseteq Statements /\ LateFit'
           /\ Unlocked /\ kind # "commit" => Unlocked'
<1> DEFINE s == [kind |-> kind, at |-> n, overtaken |-> FALSE]
<1>1. late' = late \cup {s} /\ s.kind = kind /\ s \in Statements
  BY DEF Sends, Statements
<1>2. UNCHANGED <<hashed, received, part, blob, wrong>>
  BY DEF rows, disk
<1>3. Full' = Full /\ Good' = Good
  BY <1>2 DEF Full, Good
<1>4. \A l \in late : LateFits(l)'
  BY <1>2, <1>3 DEF IInv, LateFit, LateFits
<1>5. LateFits(s)'
  OBVIOUS
<1>6. LateFit'
  BY <1>1, <1>4, <1>5 DEF LateFit
<1> QED
  BY <1>1, <1>6 DEF IInv, TypeOK, Unlocked

LEMMA CutOffInv == ASSUME IInv, NEW r \in Request, CutOff(r) PROVE IInv'
<1>1. r \in Process /\ pc[r].stage \in {"writing", "again", "damaged row", "commit"} /\ pc[r].stage \in Held
  BY DEF CutOff, IsAt, Held, Process
<1>2. TypeOK /\ RowsFit /\ Fits(r) /\ writing = r /\ born
  BY <1>1, AtWork
<1>3. /\ UNCHANGED <<rows, disk, born, astray, crossed, left>>
      /\ UNCHANGED <<hashed, received, quiet, published, part, blob, wrong>>
  BY DEF CutOff, rows, disk, history
<1>4. /\ pc' \in [Process -> Points]
      /\ pc'[r].stage = "idle" /\ writing' = NoOne
      /\ \A q \in Process \ {r} : pc'[q] = pc[q]
  BY <1>1, <1>2, EndMoves DEF CutOff
<1>5. Full' = Full /\ Good' = Good
  BY <1>3 DEF Full, Good
<1>6. late' \subseteq Statements /\ LateFit'
  <2>1. CASE IsAt(r, "writing") /\ Sends("offset", Confirmed(r))
    <3>1. PICK n \in 0..Total : n = pc[r].at
      BY <1>1, <1>2 DEF TypeOK
    <3>2. LateFits([kind |-> "offset", at |-> n, overtaken |-> FALSE])'
      BY <1>2, <1>3, <2>1, <3>1 DEF Fits, Writes, LateFits, IsAt
    <3>3. Sends("offset", n)
      BY <2>1, <3>1 DEF Confirmed
    <3> QED
      BY <1>2, <1>3, <1>4, <3>2, <3>3, SendsLate
  <2>2. CASE IsAt(r, "again") /\ Sends("offset", 0)
    <3>1. LateFits([kind |-> "offset", at |-> 0, overtaken |-> FALSE])'
      BY <1>2, <1>3, <2>2 DEF Fits, Resets, LateFits, IsAt
    <3>2. 0 \in 0..Total
      BY UploadsAssumption
    <3> QED
      BY <1>2, <1>3, <1>4, <2>2, <3>1, <3>2, SendsLate
  <2>3. CASE IsAt(r, "damaged row") /\ Sends("delete", 0)
    <3>1. LateFits([kind |-> "delete", at |-> 0, overtaken |-> FALSE])'
      BY <1>2, <1>3, <2>3 DEF Fits, Closes, LateFits, IsAt
    <3>2. 0 \in 0..Total
      BY UploadsAssumption
    <3> QED
      BY <1>2, <1>3, <1>4, <2>3, <3>1, <3>2, SendsLate
  <2>4. CASE IsAt(r, "commit") /\ Sends("commit", 0)
    <3>1. LateFits([kind |-> "commit", at |-> 0, overtaken |-> FALSE])'
      BY <1>3, <1>5, <2>4, CommitKnows DEF LateFits
    <3>2. 0 \in 0..Total
      BY UploadsAssumption
    <3> QED
      BY <1>2, <1>3, <1>4, <2>4, <3>1, <3>2, SendsLate
  <2> QED
    BY <2>1, <2>2, <2>3, <2>4 DEF CutOff
<1>7. Asks(r)' /\ Knows(r)' /\ pc'[r].stage \notin Held /\ pc'[r].stage # "opening"
  BY <1>4 DEF Asks, Knows, Held, IsAt
<1>8. \A q \in Process \ {r} : writing = q => writing' = q
  BY <1>2
<1>9. ~Leaves(r)
  BY <1>1 DEF Leaves
<1> QED
  BY <1>1, <1>2, <1>3, <1>4, <1>6, <1>7, <1>8, <1>9, IdleStep DEF TypeOK

LEMMA CancelCutOffInv == ASSUME IInv, NEW r \in Request, CancelCutOff(r) PROVE IInv'
<1>1. r \in Process /\ TypeOK /\ born /\ writing = NoOne /\ pc[r].stage = "idle"
  BY DEF Process, IInv, RowsFit, CancelCutOff, MayClaim, IsAt
<1>2. /\ UNCHANGED <<rows, disk, writing, pc, born, astray, crossed>> /\ left' = TRUE
      /\ Sends("delete", 0)
  BY DEF CancelCutOff
<1>3. LateFits([kind |-> "delete", at |-> 0, overtaken |-> FALSE])'
  BY <1>2 DEF LateFits
<1>4. 0 \in 0..Total
  BY UploadsAssumption
<1>5. late' \subseteq Statements /\ LateFit' /\ (Unlocked => Unlocked')
  BY <1>1, <1>2, <1>3, <1>4, SendsLate
<1>6. pc' \in [Process -> Points] /\ pc'[r].stage = "idle"
  BY <1>1, <1>2 DEF TypeOK, Points
<1>7. Asks(r)' /\ Knows(r)' /\ pc'[r].stage \notin Held
  BY <1>6 DEF Asks, Knows, Held, IsAt
<1> QED
  BY <1>1, <1>2, <1>5, <1>6, <1>7, IdleStep DEF TypeOK

\* A late offset that nobody overtook is what the partial file has.
LEMMA LandsInTime ==
    ASSUME IInv, NEW l \in late, Lands(l), l.kind = "offset", ~l.overtaken, received # Gone
    PROVE  received' = part /\ part \in 0..Total /\ (Full => Full')
<1>1. /\ received' = l.at /\ part = l.at /\ l.at \in 0..Total /\ UNCHANGED <<hashed, part>>
      /\ crossed \/ received <= l.at \/ (l.at = 0 /\ hashed)
      /\ crossed' = crossed
  BY DEF Lands, Stored, IInv, LateFit, LateFits, TypeOK, Statements, disk
<1>2. received \in 0..Total
  BY DEF IInv, TypeOK, Lengths
<1> QED
  BY <1>1, <1>2, UploadsAssumption DEF Full, Gone

LEMMA LandsInv == ASSUME IInv, NEW l \in late, Lands(l) PROVE IInv'
<1>1. /\ TypeOK /\ RowsFit /\ born /\ LateFits(l) /\ l \in Statements
      /\ writing = NoOne \/ l.overtaken
  BY DEF IInv, LateFit, TypeOK
<1>2. /\ UNCHANGED <<hashed, part, blob, wrong, writing, pc, born, left>>
      /\ late' = late \ {l}
  BY DEF Lands, disk
<1>3. Good' = Good /\ (Unlocked => Unlocked')
  BY <1>2 DEF Good, Unlocked
<1>4. /\ l.kind = "offset" =>
           /\ received' = IF received = Gone THEN Gone ELSE l.at
           /\ Unlocked /\ published' = published /\ quiet' = FALSE
           /\ crossed' = (crossed \/ (l.overtaken /\ received # Gone))
           /\ astray' = (astray /\ l.overtaken)
      /\ l.kind = "delete" =>
           Unlocked /\ received' = Gone /\ UNCHANGED <<published, quiet, crossed, astray>>
      /\ l.kind = "commit" =>
           ~Unlocked /\ received' = Gone /\ published' = TRUE /\ UNCHANGED <<quiet, crossed, astray>>
      /\ l.kind \in {"offset", "delete", "commit"} /\ l.at \in 0..Total
  BY <1>1 DEF Lands, Stored, Statements, Unlocked
<1>5. Full => Full'
  <2>1. CASE l.kind = "offset" /\ ~l.overtaken /\ received # Gone
    BY <2>1, LandsInTime
  <2>2. CASE ~(l.kind = "offset" /\ ~l.overtaken /\ received # Gone)
    BY <1>2, <1>4, <2>2 DEF Full
  <2> QED
    BY <2>1, <2>2
<1>6. crossed => crossed'
  BY <1>4
<1>7. received # Gone /\ ~crossed' => (l.kind = "offset" /\ ~l.overtaken) \/ received' = Gone
  BY <1>4
<1>8. l.kind = "offset" /\ ~l.overtaken => \A p \in Process : pc[p].stage \notin Held
  BY <1>1, UploadsAssumption DEF IInv, Claims, Process
<1>9. TypeOK'
  <2>1. received' \in Lengths
    BY <1>4 DEF Lengths
  <2>2. /\ published' \in BOOLEAN /\ quiet' \in BOOLEAN /\ crossed' \in BOOLEAN /\ astray' \in BOOLEAN
        /\ late' \subseteq Statements
    BY <1>1, <1>2, <1>4 DEF TypeOK
  <2> QED
    BY <1>1, <1>2, <2>1, <2>2 DEF TypeOK
<1>10. Claims'
  BY <1>2 DEF IInv, Claims
<1>11. received = Gone => received' = Gone
  BY <1>4
<1>12. RowsFit'
  <2>1. published' => received' = Gone /\ blob' = Total /\ part' = Gone /\ Good'
    BY <1>1, <1>2, <1>3, <1>4, <1>11 DEF RowsFit, LateFits
  <2>2. hashed' \/ crossed' \/ received' = Gone \/ ~astray'
    BY <1>1, <1>2, <1>4, <1>7, <1>11 DEF RowsFit
  <2> QED
    BY <1>1, <1>2, <2>1, <2>2 DEF RowsFit
<1>13. ASSUME NEW p \in Process PROVE Fits(p)'
  <2>1. Fits(p)
    BY DEF IInv
  <2>2. Knows(p)' /\ Opens(p)' /\ Asks(p)'
    BY <1>1, <1>2, <1>5, <2>1 DEF Fits, Knows, Opens, Asks, IsAt
  <2>3. CASE pc[p].stage \notin Held
    BY <1>2, <2>2, <2>3 DEF Fits, Held, Writes, Looks, Moves, Resets, Closes, IsAt
  <2>4. CASE pc[p].stage \in Held
    <3>1. received' = Gone \/ crossed' \/ received' = received
      BY <1>4, <1>7, <1>8, <2>4
    <3>2. astray => astray'
      BY <1>4, <1>8, <2>4
    <3>3. Writes(p)' /\ Resets(p)'
      BY <1>2, <1>6, <2>1, <3>1, <3>2 DEF Fits, Writes, Resets, IsAt
    <3>4. Looks(p)' /\ Moves(p)'
      BY <1>2, <1>3, <1>5, <1>6, <2>1, <3>1, <3>2 DEF Fits, Looks, Moves, IsAt
    <3>5. pc[p].stage \in {"damaged", "damaged blob", "damaged row", "remove", "remove blob"} => l.kind # "commit"
      BY <1>4, <2>1 DEF Fits, Closes
    <3>6. Closes(p)'
      <4> DEFINE st == pc[p].stage
      <4>1. Closes(p) /\ pc'[p].stage = st
        BY <1>2, <2>1 DEF Fits
      <4>2. l.kind # "commit" => published' = published
        BY <1>4
      <4>3. st \in {"damaged", "damaged blob", "damaged row"} =>
              ~published' /\ Unlocked' /\ (hashed' \/ crossed' \/ received' = Gone)
        BY <1>2, <1>3, <1>6, <1>11, <3>5, <4>1, <4>2 DEF Closes
      <4>4. /\ st \in {"damaged blob", "damaged row"} => astray' /\ part' = Gone
            /\ st = "damaged row" => blob' = Gone
            /\ st = "remove blob" => part' = Gone
        BY <1>2, <3>2, <4>1 DEF Closes, IsAt
      <4>5. st \in {"remove", "remove blob"} => received' = Gone /\ ~published' /\ Unlocked'
        BY <1>3, <1>11, <3>5, <4>1, <4>2 DEF Closes
      <4> QED
        BY <4>1, <4>3, <4>4, <4>5 DEF Closes, IsAt
    <3> QED
      BY <2>2, <3>3, <3>4, <3>6 DEF Fits
  <2> QED
    BY <2>3, <2>4
<1>14. LateFit'
  <2> SUFFICES ASSUME NEW m \in late' PROVE LateFits(m)' /\ (writing' = NoOne \/ m.overtaken)
    BY <1>1, <1>2 DEF LateFit
  <2>1. m \in late /\ LateFits(m) /\ (writing = NoOne \/ m.overtaken)
    BY <1>2 DEF IInv, LateFit
  <2>2. m.kind = "commit" => LateFits(m)'
    BY <1>2, <1>3, <1>5, <2>1 DEF LateFits
  <2>3. m.kind = "delete" => LateFits(m)'
    BY <1>2, <2>1 DEF LateFits
  <2>4. m.kind = "offset" => LateFits(m)'
    <3>1. CASE received' = Gone \/ crossed'
      BY <1>2, <2>1, <3>1 DEF LateFits
    <3>2. CASE received' # Gone /\ ~crossed'
      <4>1. received # Gone /\ l.kind = "offset" /\ ~l.overtaken
        BY <1>7, <1>11, <3>2
      <4>2. received' = part /\ part \in 0..Total
        BY <4>1, LandsInTime
      <4> QED
        BY <1>2, <2>1, <4>2 DEF LateFits
    <3> QED
      BY <3>1, <3>2
  <2>5. m.kind \in {"offset", "delete", "commit"}
    BY <1>1, <2>1 DEF TypeOK, Statements
  <2> QED
    BY <1>2, <2>1, <2>2, <2>3, <2>4, <2>5
<1>15. ConfirmedIsKept'
  <2> SUFFICES ASSUME received' # Gone, ~astray', ~crossed' PROVE Kept'
    BY DEF ConfirmedIsKept
  <2>1. received # Gone /\ l.kind = "offset" /\ ~l.overtaken
    BY <1>7, <1>11
  <2>2. received' = part /\ part \in 0..Total
    BY <2>1, LandsInTime
  <2> QED
    BY <1>2, <2>2 DEF Kept
<1>16. ClosedLeavesNothing'
  <2>1. (\A p \in Process : ~Leaves(p)') <=> \A p \in Process : ~Leaves(p)
    BY <1>2 DEF Leaves
  <2>2. CASE l.kind = "offset"
    <3>1. received' = Gone => received = Gone
      BY <1>4, <2>2 DEF Gone
    <3> QED
      BY <1>2, <1>4, <2>1, <2>2, <3>1 DEF IInv, ClosedLeavesNothing
  <2>3. CASE l.kind = "delete"
    BY <1>1, <1>2, <2>3 DEF ClosedLeavesNothing, LateFits
  <2>4. CASE l.kind = "commit"
    BY <1>4, <2>4 DEF ClosedLeavesNothing
  <2> QED
    BY <1>4, <2>2, <2>3, <2>4
<1> QED
  BY <1>9, <1>10, <1>12, <1>13, <1>14, <1>15, <1>16 DEF IInv

LEMMA StopInv == ASSUME IInv, Stop PROVE IInv'
<1>1. /\ UNCHANGED <<rows, disk>>
      /\ UNCHANGED <<hashed, received, quiet, published, part, blob, wrong, late, born, astray, crossed>>
      /\ writing' = NoOne /\ pc' = [p \in Process |-> Idle]
      /\ left' = (left \/ \E p \in Process : Leaves(p))
  BY DEF Stop, rows, disk
<1>2. Idle \in [stage : Stages, at : 0..Total]
  BY UploadsAssumption DEF Idle, Stages
<1>3. TypeOK'
  BY <1>1, <1>2 DEF IInv, TypeOK
<1>4. \A p \in Process : pc'[p].stage = "idle"
  BY <1>1 DEF Idle
<1>5. Claims' /\ \A p \in Process : Fits(p)'
  BY <1>4 DEF Claims, Held, Fits, Knows, Opens, Writes, Asks, Looks, Moves, Resets, Closes, IsAt
<1>6. RowsFit' /\ ConfirmedIsKept' /\ ClosedLeavesNothing'
  BY <1>1 DEF IInv, RowsFit, Good, ConfirmedIsKept, Kept, ClosedLeavesNothing
<1>7. LateFit'
  BY <1>1, LateSame
<1> QED
  BY <1>3, <1>5, <1>6, <1>7 DEF IInv

LEMMA NextInv == ASSUME IInv, [Next]_vars PROVE IInv'
<1>1. ASSUME NEW r \in Request, Appending(r) PROVE IInv'
  BY <1>1, StartInv, StartRowInv, AppendInv, WriteInv, CheckpointInv, WroteAllInv, WroteSomeInv DEF Appending
<1>2. ASSUME NEW r \in Request, Finishing(r) PROVE IInv'
  BY <1>2, StatusInv, StatusClaimsInv, LookInv, RenameInv, CommitInv, TruncateInv, SendAgainInv DEF Finishing
<1>3. ASSUME NEW r \in Request, Damaged(r) \/ Cancel(r) \/ HangUp(r) \/ CutOff(r) \/ CancelCutOff(r) PROVE IInv'
  BY <1>3, DamagedInv, CancelInv, HangUpInv, CutOffInv, CancelCutOffInv
<1>4. ASSUME NEW p \in Process, Remove(p) PROVE IInv'
  BY <1>4, RemoveInv
<1>5. ASSUME NEW l \in late, Lands(l) PROVE IInv'
  BY <1>5, LandsInv
<1>6. CASE SweepSelect \/ SweepTake \/ Stop
  BY <1>6, SweepSelectInv, SweepTakeInv, StopInv
<1>7. CASE DayPasses
  BY <1>7, NothingMoves DEF DayPasses
<1>8. CASE UNCHANGED vars
  BY <1>8, NothingMoves DEF vars, rows, IInv, TypeOK
<1> QED
  BY <1>1, <1>2, <1>3, <1>4, <1>5, <1>6, <1>7, <1>8 DEF Next

LEMMA Invariant == Spec => []IInv
<1>1. IInv /\ [Next]_vars => IInv'
  BY NextInv
<1> QED
  BY InitInv, <1>1, PTL DEF Spec

-----------------------------------------------------------------------------
(* The variables keep their types, for any number of requests and any size  *)
(* (hub/src/api/transfers.rs).                                             *)
THEOREM TypeCorrect == Spec => []TypeOK
<1>1. IInv => TypeOK
  BY DEF IInv
<1> QED
  BY Invariant, <1>1, PTL

(* What confirm stored (uploads.received) is on disk, or in the blob a stop  *)
(* left before the commit, whichever request was cut off where, and also     *)
(* when the statement it had sent runs after it is gone; unless a finish     *)
(* found other bytes than the announced file's, or began on an offset that a *)
(* mismatch had meanwhile set back, or that statement ran after another      *)
(* request had begun on the offset before it.                                *)
THEOREM ConfirmedKept == Spec => []ConfirmedIsKept
<1>1. IInv => ConfirmedIsKept
  BY DEF IInv
<1> QED
  BY Invariant, <1>1, PTL

(* A row of attachments that finish made has a whole blob with the           *)
(* announced bytes, and no cancel or sweep that comes late removes it, not   *)
(* even between a cut finish and the commit it had sent.                     *)
THEOREM PublishedWhole == Spec => []PublishedIsWhole
<1>1. IInv => PublishedIsWhole
  BY DEF IInv, RowsFit, PublishedIsWhole, Good
<1> QED
  BY Invariant, <1>1, PTL

(* remove_upload_bytes leaves no file behind an upload without a row, unless *)
(* the process that was to remove it was stopped.                            *)
THEOREM ClosedLeaves == Spec => []ClosedLeavesNothing
<1>1. IInv => ClosedLeavesNothing
  BY DEF IInv
<1> QED
  BY Invariant, <1>1, PTL

-----------------------------------------------------------------------------
(* Who has the claim is alone with the files.                              *)

\* A step at the files is the one's who has or makes the claim, and moves it.
LEMMA FilesStep ==
    ASSUME IInv, [Next]_vars, NEW p \in Process, pc[p].stage \in Held, pc'[p] = pc[p]
    PROVE  UNCHANGED disk
<1>1. TypeOK /\ writing = p /\ born /\ writing # NoOne
  BY AtWork, UploadsAssumption DEF Process
<1>2. ASSUME NEW q \in Process, pc[q].stage \in Held, pc'[q] # pc[q] PROVE FALSE
  BY <1>1, <1>2 DEF IInv, Claims
<1>3. ASSUME NEW q \in Process, NEW st \in Stages, Go(q, st), pc[q].stage \in Held, pc[q].stage # st PROVE FALSE
  BY <1>1, <1>2, <1>3, GoMoves
<1>4. ASSUME NEW q \in Process, End(q), pc[q].stage \in Held PROVE FALSE
  BY <1>1, <1>2, <1>4, EndMoves DEF Held
<1>5. ASSUME NEW r \in Request, Appending(r) PROVE UNCHANGED disk
  <2>1. ~Start(r) /\ ~Append(r)
    BY <1>1 DEF Start, Append, Claim, MayClaim
  <2>2. CASE Write(r)
    <3>1. r \in Process /\ pc[r].stage \in Held
      BY <2>2 DEF Process, Write, IsAt, Held
    <3>2. pc[r] \in Points /\ pc'[r] = [pc[r] EXCEPT !.at = pc[r].at + 1]
      BY <1>1, <2>2, <3>1 DEF TypeOK, Points, Write
    <3>3. pc'[r].at = pc[r].at + 1 /\ pc[r].at \in Nat
      BY <3>2, UploadsAssumption DEF Points
    <3> QED
      BY <1>2, <3>1, <3>3
  <2> QED
    BY <1>5, <2>1, <2>2 DEF Appending, StartRow, Checkpoint, WroteAll, WroteSome
<1>6. ASSUME NEW r \in Request, Finishing(r) PROVE UNCHANGED disk
  <2>1. ~Rename(r) /\ ~Truncate(r)
    BY <1>3 DEF Process, Rename, Truncate, IsAt, Held, Stages
  <2> QED
    BY <1>6, <2>1 DEF Finishing, Status, StatusClaims, Look, Commit, SendAgain
<1>7. ASSUME NEW r \in Request, Damaged(r) PROVE UNCHANGED disk
  <2>1. r \in Process
    BY DEF Process
  <2>2. ~(IsAt(r, "damaged") /\ Go(r, "damaged blob")) /\ ~(IsAt(r, "damaged blob") /\ Go(r, "damaged row"))
    BY <1>3, <2>1 DEF IsAt, Held, Stages
  <2> QED
    BY <1>7, <2>2 DEF Damaged
<1>8. ASSUME NEW q \in Process, Remove(q) PROVE FALSE
  <2>1. ~(IsAt(q, "remove") /\ Go(q, "remove blob")) /\ ~(IsAt(q, "remove blob") /\ End(q))
    BY <1>3, <1>4 DEF IsAt, Held, Stages
  <2> QED
    BY <1>8, <2>1 DEF Remove
<1>9. ASSUME NEW l \in late, Lands(l) PROVE UNCHANGED disk
  BY <1>9 DEF Lands
<1>10. ASSUME NEW r \in Request, Cancel(r) \/ HangUp(r) \/ CutOff(r) \/ CancelCutOff(r) PROVE UNCHANGED disk
  BY <1>10 DEF Cancel, HangUp, CutOff, CancelCutOff
<1>11. CASE SweepSelect \/ SweepTake \/ DayPasses \/ Stop \/ UNCHANGED vars
  BY <1>11 DEF SweepSelect, SweepTake, DayPasses, Stop, vars
<1> QED
  BY <1>5, <1>6, <1>7, <1>8, <1>9, <1>10, <1>11 DEF Next

(* From its claim to its end a handler or the sweep finds the partial file   *)
(* and the blob as it left them, whatever is sent, cut off or swept          *)
(* meanwhile (Writing).                                                      *)
THEOREM HolderAlone == Spec => AloneOnDisk
<1>1. IInv /\ [Next]_vars =>
        [\A p \in Process : pc[p].stage \in Held /\ pc'[p] = pc[p] => UNCHANGED disk]_vars
  BY FilesStep
<1> QED
  BY Invariant, <1>1, PTL DEF Spec, AloneOnDisk

-----------------------------------------------------------------------------
(* Uploads implements UploadPromise.                                       *)

\* Only an upload that was opened is being completed.
LEMMA CompletingKnown == ASSUME IInv, Completing PROVE born
<1>1. CASE \E p \in Process : pc[p].stage \in {"rename", "commit"}
  BY <1>1, AtWork DEF Held
<1>2. CASE ~Unlocked
  BY <1>2 DEF IInv, LateFit, Unlocked
<1> QED
  BY <1>1, <1>2 DEF Completing

\* A step that leaves row and publication as they are: nothing, or the end of
\* a completion without a row.
LEMMA Rests ==
    ASSUME IInv, UNCHANGED <<hashed, received, published, born, crossed>>,
           Completing' => Completing \/ received # Gone
    PROVE  [Promise!Next]_(Promise!vars)
<1>1. CASE published \/ received # Gone \/ Completing' = Completing
  BY <1>1 DEF Promise!vars
<1>2. CASE ~published /\ received = Gone /\ Completing /\ ~Completing'
  BY <1>2, CompletingKnown DEF Promise!Next, Promise!Close
<1> QED
  BY <1>1, <1>2 DEF Completing

\* One process moves; only a look at a row begins a completion.
LEMMA Moving ==
    ASSUME NEW p \in Process, \A q \in Process \ {p} : pc'[q] = pc[q],
           pc'[p].stage \in {"rename", "commit"} => pc[p].stage \in {"rename", "commit"} \/ received # Gone,
           Unlocked => Unlocked' \/ pc[p].stage = "commit"
    PROVE  Completing' => Completing \/ received # Gone
BY DEF Completing

\* What confirm does to the row.
LEMMA Confirms ==
    ASSUME IInv, NEW r \in Request, Confirm(r), UNCHANGED <<hashed, published, born, crossed, late>>,
           \A q \in Process \ {r} : pc'[q] = pc[q], pc'[r].stage \notin {"rename", "commit"}
    PROVE  [Promise!Next]_(Promise!vars)
<1>1. /\ r \in Process /\ pc[r].at \in 0..Total /\ ~published
      /\ received = Gone \/ crossed \/ received <= pc[r].at
      /\ received' = IF received = Gone THEN Gone ELSE pc[r].at
  BY ConfirmKeeps
<1>2. CASE received = Gone
  <2>1. Unlocked' = Unlocked
    BY DEF Unlocked
  <2> QED
    BY <1>1, <1>2, <2>1, Moving, Rests
<1>3. CASE received # Gone
  <2>1. received \in 0..Total /\ received' # Gone
    BY <1>1, <1>3 DEF IInv, TypeOK, Lengths, Gone
  <2>2. received' \in (IF crossed THEN 0 ELSE received)..Total
    BY <1>1, <1>3, <2>1, UploadsAssumption
  <2> QED
    BY <1>1, <1>3, <2>1, <2>2 DEF Promise!Next, Promise!Confirm
<1> QED
  BY <1>2, <1>3

\* The one that holds or makes the claim takes the row of an upload away.
LEMMA Closing ==
    ASSUME IInv, NEW p \in Process, pc[p].stage \in Held \ {"rename", "commit"} \/ writing = NoOne,
           Unlocked, Unlocked', received' = Gone, UNCHANGED <<hashed, published, born, crossed>>,
           \A q \in Process \ {p} : pc'[q] = pc[q], pc'[p].stage \notin {"rename", "commit"}
    PROVE  [Promise!Next]_(Promise!vars)
<1>1. ~Completing'
  <2>1. \A q \in Process \ {p} : pc'[q].stage \notin {"rename", "commit"}
    BY Alone DEF Held
  <2> QED
    BY <2>1 DEF Completing
<1>2. CASE received = Gone
  BY <1>1, <1>2, Rests
<1>3. CASE received # Gone
  <2>1. born /\ ~published
    BY <1>3 DEF IInv, RowsFit
  <2> QED
    BY <1>1, <1>3, <2>1 DEF Promise!Next, Promise!Close
<1> QED
  BY <1>2, <1>3

LEMMA AppendingMaps == ASSUME IInv, NEW r \in Request, Appending(r) PROVE [Promise!Next]_(Promise!vars)
<1>1. r \in Process /\ TypeOK
  BY DEF Process, IInv
<1>2. CASE Start(r) \/ Write(r)
  <2>1. /\ UNCHANGED <<hashed, received, published, born, crossed, late>>
        /\ \A q \in Process \ {r} : pc'[q] = pc[q]
        /\ pc'[r].stage \in {"opening", "writing"}
    <3>1. CASE Start(r)
      BY <1>1, <3>1, GoMoves DEF Start, rows, claims, history, Stages
    <3>2. CASE Write(r)
      <4>1. pc[r] \in Points /\ pc \in [Process -> Points] /\ pc[r].stage = "writing"
        BY <1>1, <3>2 DEF TypeOK, Points, Write, IsAt
      <4>2. pc' = [pc EXCEPT ![r] = [pc[r] EXCEPT !.at = pc[r].at + 1]]
        BY <3>2 DEF Write
      <4>3. [pc[r] EXCEPT !.at = pc[r].at + 1] = [stage |-> "writing", at |-> pc[r].at + 1]
        BY <4>1 DEF Points
      <4> QED
        BY <1>1, <3>2, <4>1, <4>2, <4>3 DEF Write, rows, claims, history
    <3> QED
      BY <1>2, <3>1, <3>2
  <2>2. Unlocked' = Unlocked
    BY <2>1 DEF Unlocked
  <2> QED
    BY <1>1, <2>1, <2>2, Moving, Rests
<1>3. CASE StartRow(r)
  <2>1. ~born /\ received = Gone /\ ~published /\ ~Completing
    BY <1>1, <1>3, CompletingKnown DEF StartRow, IInv, Fits, Opens, RowsFit
  <2>2. received' = 0 /\ UNCHANGED <<hashed, published, crossed>>
    BY <1>3 DEF StartRow
  <2> QED
    BY <2>1, <2>2 DEF Promise!Next, Promise!Open, Gone
<1>4. CASE Append(r)
  <2>1. received # Gone /\ UNCHANGED <<hashed, received, published, born, crossed>>
    BY <1>4 DEF Append, rows, history
  <2> QED
    BY <2>1, Rests
<1>5. CASE Checkpoint(r)
  <2>1. pc'[r].stage = "writing"
    BY <1>5 DEF Checkpoint, Confirm, IsAt
  <2> QED
    BY <1>5, <2>1, Confirms DEF Checkpoint, claims, history
<1>6. CASE WroteAll(r)
  BY <1>1, <1>6, GoMoves, Confirms DEF WroteAll, claims, history, Stages
<1>7. CASE WroteSome(r)
  BY <1>1, <1>7, EndMoves, Confirms DEF WroteSome, history
<1> QED
  BY <1>2, <1>3, <1>4, <1>5, <1>6, <1>7 DEF Appending

LEMMA FinishingMaps == ASSUME IInv, NEW r \in Request, Finishing(r) PROVE [Promise!Next]_(Promise!vars)
<1>1. r \in Process /\ TypeOK
  BY DEF Process, IInv
<1>2. CASE Status(r) \/ Look(r)
  <2>1. received # Gone /\ UNCHANGED <<hashed, received, published, born, crossed>>
    BY <1>2, UploadsAssumption DEF Status, Look, rows, history, Gone
  <2> QED
    BY <2>1, Rests
<1>3. CASE StatusClaims(r)
  <2>1. /\ UNCHANGED <<hashed, received, published, born, crossed>>
        /\ \A q \in Process \ {r} : pc'[q] = pc[q]
        /\ pc'[r].stage = "look" /\ Unlocked' = Unlocked
    BY <1>1, <1>3, GoMoves, ClaimLate DEF StatusClaims, rows, Stages
  <2> QED
    BY <1>1, <2>1, Moving, Rests
<1>4. CASE Rename(r) \/ Truncate(r)
  <2>1. /\ UNCHANGED <<hashed, received, published, born, crossed, late>>
        /\ \A q \in Process \ {r} : pc'[q] = pc[q]
        /\ pc'[r].stage = "commit" => pc[r].stage = "rename"
        /\ pc'[r].stage # "rename"
    BY <1>1, <1>4, GoMoves DEF Rename, Truncate, rows, claims, history, Stages, IsAt
  <2>2. Unlocked' = Unlocked
    BY <2>1 DEF Unlocked
  <2> QED
    BY <1>1, <2>1, <2>2, Moving, Rests
<1>5. CASE Commit(r)
  <2>1. Full /\ Completing
    BY <1>1, <1>5, CommitKnows DEF Commit, Completing, IsAt
  <2>2. published' = TRUE /\ received' = Gone /\ UNCHANGED <<hashed, born, crossed>>
    BY <1>5 DEF Commit, history
  <2>3. CASE published
    BY <2>2, <2>3 DEF Promise!vars, IInv, TypeOK
  <2>4. CASE ~published
    BY <2>1, <2>2, <2>4 DEF Promise!Next, Promise!Complete, Full
  <2> QED
    BY <2>3, <2>4
<1>6. CASE SendAgain(r)
  <2>1. hashed /\ ~published
    BY <1>1, <1>6 DEF SendAgain, IInv, Fits, Resets, RowsFit, IsAt
  <2>2. UNCHANGED <<hashed, published, born, crossed, late>> /\ received' = Stored(0)
    BY <1>6 DEF SendAgain
  <2>3. CASE received = Gone
    <3>1. (\A q \in Process \ {r} : pc'[q] = pc[q]) /\ pc'[r].stage = "idle" /\ Unlocked' = Unlocked
      BY <1>1, <1>6, <2>2, EndMoves DEF SendAgain, Unlocked
    <3> QED
      BY <1>1, <2>2, <2>3, <3>1, Moving, Rests DEF Stored
  <2>4. CASE received # Gone
    BY <2>1, <2>2, <2>4 DEF Promise!Next, Promise!StartOver, Stored, Gone
  <2> QED
    BY <2>3, <2>4
<1> QED
  BY <1>2, <1>3, <1>4, <1>5, <1>6 DEF Finishing

LEMMA GivingUpMaps ==
    ASSUME IInv, \/ \E r \in Request : Damaged(r) \/ Cancel(r)
                 \/ \E p \in Process : Remove(p)
                 \/ SweepTake
    PROVE  [Promise!Next]_(Promise!vars)
<1> TypeOK
  BY DEF IInv
<1>1. ASSUME NEW p \in Process, RemovePart(p), \E st \in {"damaged blob", "remove blob"} : Go(p, st), left' = left
      PROVE  [Promise!Next]_(Promise!vars)
  <2>1. /\ UNCHANGED <<hashed, received, published, born, crossed, late>>
        /\ \A q \in Process \ {p} : pc'[q] = pc[q]
        /\ pc'[p].stage \notin {"rename", "commit"}
    BY <1>1, GoMoves DEF RemovePart, rows, claims, Stages
  <2>2. Unlocked' = Unlocked
    BY <2>1 DEF Unlocked
  <2> QED
    BY <2>1, <2>2, Moving, Rests
<1>2. ASSUME NEW p \in Process, RemoveBlob(p), Go(p, "damaged row") \/ End(p)
      PROVE  [Promise!Next]_(Promise!vars)
  <2>1. /\ UNCHANGED <<hashed, received, published, born, crossed, late>>
        /\ \A q \in Process \ {p} : pc'[q] = pc[q]
        /\ pc'[p].stage \notin {"rename", "commit"}
    BY <1>2, GoMoves, EndMoves DEF RemoveBlob, rows, history, Stages
  <2>2. Unlocked' = Unlocked
    BY <2>1 DEF Unlocked
  <2> QED
    BY <2>1, <2>2, Moving, Rests
<1>3. ASSUME NEW r \in Request, Damaged(r) PROVE [Promise!Next]_(Promise!vars)
  <2>1. r \in Process
    BY DEF Process
  <2>2. CASE IsAt(r, "damaged row") /\ Unlocked /\ received' = Gone /\ End(r)
             /\ UNCHANGED <<hashed, quiet, published, disk, late, history>>
    <3>1. pc[r].stage \in Held \ {"rename", "commit"} /\ Unlocked'
      BY <2>2 DEF IsAt, Held, Unlocked
    <3> QED
      BY <2>1, <2>2, <3>1, EndMoves, Closing DEF history
  <2> QED
    BY <1>1, <1>2, <1>3, <2>1, <2>2 DEF Damaged, RemovePart
<1>4. ASSUME NEW p \in Process, Claim(p), Unlocked, received' = Gone, Go(p, "remove"),
             UNCHANGED <<hashed, published, history>>
      PROVE  [Promise!Next]_(Promise!vars)
  BY <1>4, GoMoves, ClaimLate, Closing DEF history, Stages
<1>5. ASSUME NEW r \in Request, Cancel(r) PROVE [Promise!Next]_(Promise!vars)
  BY <1>4, <1>5 DEF Cancel, Process
<1>6. ASSUME NEW p \in Process, Remove(p) PROVE [Promise!Next]_(Promise!vars)
  BY <1>1, <1>2, <1>6 DEF Remove, RemovePart
<1>7. CASE SweepTake
  <2>1. Sweeper \in Process
    BY DEF Process
  <2>2. CASE MayClaim /\ StillQuiet
    BY <1>4, <1>7, <2>1, <2>2 DEF SweepTake
  <2>3. CASE ~(MayClaim /\ StillQuiet)
    <3>1. /\ UNCHANGED <<hashed, received, published, born, crossed, late>>
          /\ \A q \in Process \ {Sweeper} : pc'[q] = pc[q]
          /\ pc'[Sweeper].stage = "idle"
      BY <1>7, <2>1, <2>3, GoMoves DEF SweepTake, claims, history, Stages
    <3>2. Unlocked' = Unlocked
      BY <3>1 DEF Unlocked
    <3> QED
      BY <2>1, <3>1, <3>2, Moving, Rests
  <2> QED
    BY <2>2, <2>3
<1> QED
  BY <1>3, <1>5, <1>6, <1>7

LEMMA LandsMaps == ASSUME IInv, NEW l \in late, Lands(l) PROVE [Promise!Next]_(Promise!vars)
<1>1. /\ UNCHANGED <<hashed, pc, born>> /\ late' = late \ {l}
      /\ l.kind \in {"offset", "delete", "commit"} /\ l.at \in 0..Total
  BY DEF Lands, IInv, TypeOK, Statements
<1>2. Unlocked => Unlocked'
  BY <1>1 DEF Unlocked
<1>3. Completing' => Completing
  BY <1>1, <1>2 DEF Completing
<1>4. CASE l.kind = "offset"
  <2>1. /\ received' = Stored(l.at) /\ published' = published
        /\ crossed' = (crossed \/ (l.overtaken /\ received # Gone))
    BY <1>4 DEF Lands
  <2>2. CASE received = Gone
    <3>1. received' = received /\ crossed' = crossed
      BY <2>1, <2>2 DEF Stored, IInv, TypeOK
    <3> QED
      BY <1>1, <1>3, <2>1, <3>1, Rests
  <2>3. CASE received # Gone
    <3>1. received \in 0..Total /\ received' = l.at /\ received' # Gone /\ ~published
      BY <1>1, <2>1, <2>3 DEF Stored, IInv, TypeOK, Lengths, RowsFit, Gone
    <3>2. CASE l.overtaken
      <4>1. crossed' = TRUE
        BY <2>1, <2>3, <3>2
      <4> QED
        BY <1>1, <2>1, <2>3, <3>1, <4>1 DEF Promise!Next, Promise!Cross
    <3>3. CASE ~l.overtaken
      <4>1. crossed' = crossed
        BY <2>1, <3>3 DEF IInv, TypeOK
      <4>2. crossed \/ received <= l.at \/ (l.at = 0 /\ hashed)
        BY <1>4, <2>3, <3>3 DEF IInv, LateFit, LateFits
      <4>3. CASE crossed \/ received <= l.at
        <5>1. received' \in (IF crossed THEN 0 ELSE received)..Total
          BY <1>1, <3>1, <4>3, UploadsAssumption
        <5> QED
          BY <1>1, <2>1, <2>3, <3>1, <4>1, <5>1 DEF Promise!Next, Promise!Confirm
      <4>4. CASE l.at = 0 /\ hashed
        BY <1>1, <2>1, <2>3, <3>1, <4>1, <4>4 DEF Promise!Next, Promise!StartOver
      <4> QED
        BY <4>2, <4>3, <4>4
    <3> QED
      BY <3>2, <3>3
  <2> QED
    BY <2>2, <2>3
<1>5. CASE l.kind = "delete"
  <2>1. received' = Gone /\ UNCHANGED <<published, crossed>>
    BY <1>5 DEF Lands
  <2>2. CASE received = Gone
    BY <1>1, <1>3, <2>1, <2>2, Rests
  <2>3. CASE received # Gone
    <3>1. received \in 0..Total /\ ~published /\ born
      BY <2>3 DEF IInv, TypeOK, Lengths, RowsFit
    <3>2. CASE Completing'
      <4>1. Total \in (IF crossed THEN 0 ELSE received)..Total
        BY <3>1, UploadsAssumption
      <4> QED
        BY <1>1, <2>1, <2>3, <3>1, <3>2, <4>1 DEF Promise!Next, Promise!Confirm
    <3>3. CASE ~Completing'
      BY <1>1, <2>1, <2>3, <3>1, <3>3 DEF Promise!Next, Promise!Close
    <3> QED
      BY <3>2, <3>3
  <2> QED
    BY <2>2, <2>3
<1>6. CASE l.kind = "commit"
  <2>1. received' = Gone /\ published' = TRUE /\ crossed' = crossed
    BY <1>6 DEF Lands
  <2>2. Full /\ Completing
    BY <1>6 DEF IInv, LateFit, LateFits, Completing, Unlocked
  <2>3. CASE published
    BY <1>1, <2>1, <2>3 DEF Promise!vars, IInv, TypeOK
  <2>4. CASE ~published
    BY <1>1, <2>1, <2>2, <2>4 DEF Promise!Next, Promise!Complete, Full
  <2> QED
    BY <2>3, <2>4
<1> QED
  BY <1>1, <1>4, <1>5, <1>6

LEMMA FailingMaps ==
    ASSUME IInv, (\E r \in Request : HangUp(r) \/ CutOff(r) \/ CancelCutOff(r)) \/ Stop
    PROVE  [Promise!Next]_(Promise!vars)
<1> TypeOK
  BY DEF IInv
<1>1. ASSUME NEW r \in Request, HangUp(r) PROVE [Promise!Next]_(Promise!vars)
  <2>1. r \in Process /\ UNCHANGED <<hashed, received, published, born, crossed, late>>
    BY <1>1 DEF Process, HangUp, rows
  <2>2. Unlocked' = Unlocked /\ (\A q \in Process \ {r} : pc'[q] = pc[q]) /\ pc'[r].stage = "idle"
    BY <1>1, <2>1, EndMoves DEF HangUp, Unlocked
  <2> QED
    BY <2>1, <2>2, Moving, Rests
<1>2. ASSUME NEW r \in Request, CutOff(r) PROVE [Promise!Next]_(Promise!vars)
  <2>1. r \in Process /\ UNCHANGED <<hashed, received, published, born, crossed>>
    BY <1>2 DEF Process, CutOff, rows, history
  <2>2. (\A q \in Process \ {r} : pc'[q] = pc[q]) /\ pc'[r].stage = "idle"
    BY <1>2, <2>1, EndMoves DEF CutOff
  <2>3. Unlocked => Unlocked' \/ pc[r].stage = "commit"
    <3> SUFFICES ASSUME pc[r].stage # "commit", NEW m \in late' PROVE m \in late \/ m.kind # "commit"
      BY DEF Unlocked
    <3>1. PICK kind \in {"offset", "delete"} : \E n : Sends(kind, n)
      BY <1>2 DEF CutOff, IsAt
    <3>2. m \in late \/ \E n : m = [kind |-> kind, at |-> n, overtaken |-> FALSE]
      BY <3>1 DEF Sends
    <3> QED
      BY <3>2
  <2> QED
    BY <2>1, <2>2, <2>3, Moving, Rests
<1>3. ASSUME NEW r \in Request, CancelCutOff(r) PROVE [Promise!Next]_(Promise!vars)
  <2>1. UNCHANGED <<hashed, received, published, born, crossed>> /\ received # Gone
    BY <1>3 DEF CancelCutOff, rows
  <2> QED
    BY <2>1, Rests
<1>4. CASE Stop
  <2>1. UNCHANGED <<hashed, received, published, born, crossed, late>>
    BY <1>4 DEF Stop, rows
  <2>2. \A p \in Process : pc'[p].stage = "idle"
    BY <1>4 DEF Stop, Idle
  <2>3. Completing' => Completing
    BY <2>1, <2>2 DEF Completing, Unlocked
  <2> QED
    BY <2>1, <2>3, Rests
<1> QED
  BY <1>1, <1>2, <1>3, <1>4

LEMMA StepMaps == ASSUME IInv, [Next]_vars PROVE [Promise!Next]_(Promise!vars)
<1>1. CASE SweepSelect \/ DayPasses
  <2>1. received # Gone /\ UNCHANGED <<hashed, received, published, born, crossed>>
    BY <1>1 DEF SweepSelect, DayPasses, rows, history
  <2> QED
    BY <2>1, Rests
<1>2. CASE UNCHANGED vars
  <2>1. UNCHANGED <<hashed, received, published, born, crossed, pc, late>>
    BY <1>2 DEF vars, rows, claims, history
  <2>2. Completing' = Completing
    BY <2>1 DEF Completing, Unlocked
  <2> QED
    BY <2>1, <2>2, Rests
<1> QED
  BY <1>1, <1>2, AppendingMaps, FinishingMaps, GivingUpMaps, LandsMaps, FailingMaps DEF Next

(* The code keeps the promise of resumable uploads (docs/v2-additions.md):   *)
(* the confirmed offset never goes back but where a whole file was not the   *)
(* announced one or a dropped request's offset was stored under the one      *)
(* after it, an upload completes once, and an ended one stays ended.         *)
THEOREM Refines == Spec => KeepsPromise
<1>1. Init => Promise!Init
  <2> SUFFICES ASSUME Init PROVE Promise!Init
    OBVIOUS
  <2>1. ~Completing
    BY DEF Init, Idle, Completing, Unlocked
  <2> QED
    BY <2>1 DEF Init, Promise!Init
<1>2. IInv /\ [Next]_vars => [Promise!Next]_(Promise!vars)
  BY StepMaps
<1> QED
  BY Invariant, <1>1, <1>2, PTL DEF Spec, KeepsPromise, Promise!Spec
=============================================================================
