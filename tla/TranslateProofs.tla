--------------------------- MODULE TranslateProofs ---------------------------
(***************************************************************************)
(* Theorems about Translate, for any mail, any number of tasks and tries.  *)
(***************************************************************************)
EXTENDS Translate, TLAPS

LEMMA WorkFields ==
    ASSUME NEW w \in Works
    PROVE  /\ \A s \in {"claimed", "ask", "again", "settle", "taken", "written"} :
                 [w EXCEPT !.stage = s] \in Works /\ [w EXCEPT !.stage = s].m = w.m
           /\ \A n \in 0..Tries : [w EXCEPT !.tries = n] \in Works
           /\ \A s \in Status \cup {NoOutcome} : [w EXCEPT !.status = s] \in Works
           /\ \A c \in 0..1 : [w EXCEPT !.cost = c] \in Works
BY DEF Works

LEMMA Bounds == Workers \in Nat /\ Tries \in Nat /\ Workers > 0 /\ Tries > 0
BY TranslateConstants

LEMMA Spent ==
    ASSUME NEW i, NEW tries, PutsBack(i, tries)
    PROVE  works' = [works EXCEPT ![i] = [[works[i] EXCEPT !.stage = "again"] EXCEPT !.tries = tries]]
BY DEF PutsBack

LEMMA TypeStep ==
    ASSUME TypeOK, Next
    PROVE  TypeOK'
<1> USE DEF TypeOK
<1>1. ASSUME NEW m \in Mail, Send(m) PROVE TypeOK'
  <2>1. [tries |-> 0, due |-> TRUE] \in Jobs
    BY Bounds DEF Jobs
  <2> QED
    BY <1>1, <2>1 DEF Send, Status
<1>2. ASSUME NEW m \in Mail, DeleteLocks(m) \/ DeleteForgets(m) \/ DeleteFails(m) PROVE TypeOK'
  BY <1>2 DEF DeleteLocks, DeleteForgets, DeleteFails, Forgotten
<1>3. ASSUME NEW m \in Mail, JobDue(m) PROVE TypeOK'
  <2>1. [job[m] EXCEPT !.due = TRUE] \in Jobs
    BY <1>3 DEF JobDue, Jobs
  <2> QED
    BY <1>3, <2>1 DEF JobDue
<1>4. ASSUME NEW m \in Mail, NEW i \in 1..Workers, ClaimJob(m, i) PROVE TypeOK'
  <2>1. job[m] \in Jobs /\ [job[m] EXCEPT !.due = FALSE] \in Jobs
    BY <1>4 DEF ClaimJob, Jobs
  <2>2. [m |-> m, tries |-> job[m].tries, stage |-> "claimed", status |-> NoOutcome, cost |-> 0] \in Works
    BY <2>1 DEF Jobs, Works
  <2> QED
    BY <1>4, <2>1, <2>2 DEF ClaimJob
<1>5. ASSUME NEW i \in Busied, Work(i) PROVE TypeOK'
  <2>1. i \in 1..Workers /\ works[i] \in Works
    BY DEF Busied
  <2>2. works[i].m \in Mail /\ works[i].tries \in 0..Tries /\ works[i].status \in Status \cup {NoOutcome}
        /\ works[i].cost \in 0..1
    BY <2>1 DEF Works
  <2>3. ASSUME NEW tries \in 0..Tries, PutsBack(i, tries) PROVE works' \in [1..Workers -> Works \cup {Free}]
    <3> DEFINE w == [works[i] EXCEPT !.stage = "again"]
    <3>0. w \in Works
      BY <2>1, WorkFields
    <3>1. [w EXCEPT !.tries = tries] \in Works
      BY <3>0, WorkFields
    <3>2. works' = [works EXCEPT ![i] = [w EXCEPT !.tries = tries]]
      BY <2>3, Spent
    <3> HIDE DEF w
    <3> QED
      BY <2>1, <3>1, <3>2
  <2>4. ASSUME NEW status \in Status, NEW cost \in 0..1, Settles(i, status, cost)
        PROVE  works' \in [1..Workers -> Works \cup {Free}]
    <3>1. [[[works[i] EXCEPT !.stage = "settle"] EXCEPT !.status = status] EXCEPT !.cost = cost] \in Works
      BY <2>1, WorkFields
    <3>2. works' = [works EXCEPT ![i] = [[[works[i] EXCEPT !.stage = "settle"] EXCEPT !.status = status] EXCEPT !.cost = cost]]
      BY <2>4 DEF Settles
    <3> QED
      BY <2>1, <3>1, <3>2
  <2>5. ASSUME NEW s \in {"claimed", "ask", "again", "settle", "taken", "written"}, Goes(i, s)
        PROVE  works' \in [1..Workers -> Works \cup {Free}]
    BY <2>1, <2>5, WorkFields DEF Goes
  <2>6. Ends(i) => works' \in [1..Workers -> Works \cup {Free}]
    BY DEF Ends
  <2>7. CASE FindsOff(i)
    BY <2>2, <2>3, <2>7 DEF FindsOff
  <2>8. CASE ReadsSpend(i)
    BY <2>4, <2>5, <2>8 DEF ReadsSpend, Status
  <2>9. CASE Answered(i)
    BY <2>4, <2>9 DEF Answered, Status
  <2>10. CASE GivenUp(i)
    BY <2>4, <2>10 DEF GivenUp, Status
  <2>11. CASE Unreachable(i)
    <3>1. Tried(works[i].tries) \in 0..Tries
      BY <2>2, <2>11, Bounds DEF Unreachable, MayRetry, Tried
    <3> QED
      BY <2>3, <2>11, <3>1 DEF Unreachable
  <2>12. CASE NotNow(i)
    BY <2>2, <2>3, <2>12 DEF NotNow
  <2>13. CASE Again(i)
    <3>0. [tries |-> works[i].tries, due |-> FALSE] \in Jobs
      BY <2>2 DEF Jobs
    <3>1. PutBack(job[works[i].m], works[i].tries) \in Jobs \cup {NoJob}
      BY <3>0 DEF PutBack
    <3> QED
      BY <2>6, <2>13, <3>1 DEF Again
  <2>14. CASE SettleTakes(i)
    <3>1. works' \in [1..Workers -> Works \cup {Free}]
      BY <2>5, <2>6, <2>14 DEF SettleTakes
    <3>2. i \in 0..Workers
      BY <2>1, Bounds
    <3>3. locks' \in [Mail -> 0..Workers]
      BY <2>14, <3>2 DEF SettleTakes
    <3> QED
      BY <2>14, <3>1, <3>3 DEF SettleTakes
  <2>15. CASE SettleWrites(i)
    <3>1. works' \in [1..Workers -> Works \cup {Free}]
      BY <2>5, <2>15 DEF SettleWrites
    <3> QED
      BY <2>15, <3>1 DEF SettleWrites
  <2>16. CASE SettleCommits(i)
    <3>1. job' \in [Mail -> Jobs \cup {NoJob}] /\ outcome' \in [Mail -> Status \cup {NoOutcome}]
      BY <2>2, <2>16 DEF SettleCommits, Kept
    <3>2. spend' \in BOOLEAN
      BY <2>16 DEF SettleCommits
    <3>3. charged' \in [Mail -> Nat] /\ locks' \in [Mail -> 0..Workers]
      BY <2>2, <2>16, Bounds DEF SettleCommits
    <3> QED
      BY <2>6, <2>16, <3>1, <3>2, <3>3 DEF SettleCommits
  <2> QED
    BY <1>5, <2>7, <2>8, <2>9, <2>10, <2>11, <2>12, <2>13, <2>14, <2>15, <2>16 DEF Work
<1>6. ASSUME NEW i \in Busied, WorkFails(i) PROVE TypeOK'
  <2>1. 0 \in 0..Workers
    BY Bounds
  <2>2. works' \in [1..Workers -> Works \cup {Free}] /\ locks' \in [Mail -> 0..Workers]
    BY <1>6, <2>1 DEF WorkFails, Ends
  <2> QED
    BY <1>6, <2>2 DEF WorkFails
<1>7. ASSUME Switch \/ ChargedElsewhere \/ Restart PROVE TypeOK'
  <2>1. 0 \in 0..Workers
    BY Bounds
  <2>2. Restart => works' \in [1..Workers -> Works \cup {Free}] /\ locks' \in [Mail -> 0..Workers]
    BY <2>1 DEF Restart
  <2> QED
    BY <1>7, <2>2 DEF Switch, ChargedElsewhere, Restart
<1> QED
  BY <1>1, <1>2, <1>3, <1>4, <1>5, <1>6, <1>7 DEF Next

(* The variables keep their types: a job's tries never pass the last one.   *)
THEOREM TypeCorrect == Spec => []TypeOK
<1>1. Init => TypeOK
  <2> SUFFICES ASSUME Init PROVE TypeOK
    OBVIOUS
  <2>1. spend \in BOOLEAN /\ slow \in BOOLEAN /\ enabled \in BOOLEAN
    BY DEF Init
  <2>2. 0 \in 0..Workers
    BY Bounds
  <2>3. locks \in [Mail -> 0..Workers] /\ charged \in [Mail -> Nat] /\ works \in [1..Workers -> Works \cup {Free}]
    BY <2>2 DEF Init
  <2> QED
    BY <2>1, <2>3 DEF Init, TypeOK
<1>2. TypeOK /\ UNCHANGED vars => TypeOK'
  BY DEF TypeOK, vars
<1> QED
  BY <1>1, <1>2, TypeStep, PTL DEF Spec
-----------------------------------------------------------------------------
(* The inductive invariant.                                                *)

\* A task holds the row of the job it settles until it ends, and only then.
Held ==
    /\ \A m \in Mail : locks[m] # 0 =>
         /\ job[m] # NoJob
         /\ works[locks[m]] # Free /\ works[locks[m]].m = m
         /\ works[locks[m]].stage \in {"taken", "written"}
    /\ \A i \in Busied : works[i].stage \in {"taken", "written"} => locks[works[i].m] = i

\* The message's row is a settle's or a delete's.
RowHeld ==
    /\ \A m \in deleting : copy[m] = "there"
    /\ \A i \in Busied : works[i].stage = "written" => works[i].m \notin deleting

\* A job is of a message without an outcome that was never charged.
JobIsOpen ==
    \A m \in Mail :
        /\ job[m] # NoJob => copy[m] = "there" /\ outcome[m] = NoOutcome /\ charged[m] = 0
        /\ copy[m] = "unsent" => charged[m] = 0
        /\ copy[m] # "there" => outcome[m] = NoOutcome

\* Before the settle a task only gets on with its own work.
Ahead(i) ==
    /\ works[i].stage \notin {"taken", "written"}
    /\ \E w \in Works : /\ w.stage \in {"ask", "again", "settle"} /\ w.m = works[i].m
                        /\ works' = [works EXCEPT ![i] = w]
    /\ UNCHANGED <<copy, job, outcome, locks, deleting, charged>>

LEMMA BusyIsTask ==
    ASSUME TypeOK, NEW i \in Busied
    PROVE  /\ i \in 1..Workers /\ i # 0 /\ works[i] # Free /\ works[i] \in Works /\ works[i].m \in Mail
           /\ works[i].tries \in 0..Tries
<1>1. i \in 1..Workers /\ works[i] # Free /\ works[i] \in Works
  BY DEF Busied, TypeOK
<1> QED
  BY <1>1, Bounds DEF Works

LEMMA WorkCases ==
    ASSUME TypeOK, NEW i \in Busied, Work(i)
    PROVE  Ahead(i) \/ Again(i) \/ SettleTakes(i) \/ SettleWrites(i) \/ SettleCommits(i)
<1>1. works[i] \in Works /\ works[i].tries \in 0..Tries
  BY BusyIsTask
<1>2. ASSUME NEW tries \in 0..Tries, PutsBack(i, tries)
      PROVE  \E w \in Works : w.stage = "again" /\ w.m = works[i].m /\ works' = [works EXCEPT ![i] = w]
  <2> DEFINE v == [works[i] EXCEPT !.stage = "again"]
             w == [v EXCEPT !.tries = tries]
  <2>1. v \in Works /\ v.stage = "again" /\ v.m = works[i].m
    BY <1>1 DEF Works
  <2>2. works' = [works EXCEPT ![i] = w]
    BY <1>2, Spent
  <2> HIDE DEF v
  <2>3. w \in Works /\ w.stage = "again" /\ w.m = works[i].m
    BY <2>1 DEF Works
  <2> HIDE DEF w
  <2> QED
    BY <2>2, <2>3
<1>3. ASSUME NEW status \in Status, NEW cost \in 0..1, Settles(i, status, cost)
      PROVE  \E w \in Works : w.stage = "settle" /\ w.m = works[i].m /\ works' = [works EXCEPT ![i] = w]
  <2> DEFINE v == [works[i] EXCEPT !.stage = "settle"]
             w == [[v EXCEPT !.status = status] EXCEPT !.cost = cost]
  <2>1. v \in Works /\ v.stage = "settle" /\ v.m = works[i].m
    BY <1>1 DEF Works
  <2>2. works' = [works EXCEPT ![i] = w]
    BY <1>3 DEF Settles
  <2> HIDE DEF v
  <2>3. w \in Works /\ w.stage = "settle" /\ w.m = works[i].m
    BY <2>1 DEF Works
  <2> HIDE DEF w
  <2> QED
    BY <2>2, <2>3
<1>4. ASSUME Goes(i, "ask")
      PROVE  \E w \in Works : w.stage = "ask" /\ w.m = works[i].m /\ works' = [works EXCEPT ![i] = w]
  <2> DEFINE w == [works[i] EXCEPT !.stage = "ask"]
  <2>1. w \in Works /\ w.stage = "ask" /\ w.m = works[i].m
    BY <1>1 DEF Works
  <2>2. works' = [works EXCEPT ![i] = w]
    BY <1>4 DEF Goes
  <2> HIDE DEF w
  <2> QED
    BY <2>1, <2>2
<1>5. CASE FindsOff(i)
  BY <1>1, <1>2, <1>5 DEF FindsOff, At, Ahead
<1>6. CASE ReadsSpend(i)
  BY <1>3, <1>4, <1>6 DEF ReadsSpend, At, Ahead, Status
<1>7. CASE Answered(i)
  BY <1>3, <1>7 DEF Answered, At, Ahead, Status
<1>8. CASE GivenUp(i)
  BY <1>3, <1>8 DEF GivenUp, At, Ahead, Status
<1>9. CASE Unreachable(i)
  <2>1. Tried(works[i].tries) \in 0..Tries
    BY <1>1, <1>9, Bounds DEF Unreachable, MayRetry, Tried
  <2> QED
    BY <1>2, <1>9, <2>1 DEF Unreachable, At, Ahead
<1>10. CASE NotNow(i)
  BY <1>1, <1>2, <1>10 DEF NotNow, At, Ahead
<1> QED
  BY <1>5, <1>6, <1>7, <1>8, <1>9, <1>10 DEF Work

LEMMA HeldStep ==
    ASSUME TypeOK, Held, Next
    PROVE  Held'
<1> USE DEF Held
<1>1. TypeOK'
  BY TypeStep
<1>2. ASSUME NEW m \in Mail, Send(m) PROVE Held'
  <2>1. locks' = locks /\ works' = works /\ \A x \in Mail \ {m} : job'[x] = job[x]
    BY <1>2 DEF Send, TypeOK
  <2>2. job[m] # NoJob => job'[m] # NoJob
    <3>1. [tries |-> 0, due |-> TRUE] # NoJob
      <4>1. [tries |-> 0, due |-> TRUE] \in Jobs
        BY Bounds DEF Jobs
      <4> QED
        BY <4>1, TranslateConstants
    <3> QED
      BY <1>2, <3>1 DEF Send, TypeOK
  <2> QED
    BY <2>1, <2>2 DEF Busied
<1>3. ASSUME NEW m \in Mail, DeleteLocks(m) \/ DeleteForgets(m) \/ DeleteFails(m) PROVE Held'
  BY <1>3 DEF DeleteLocks, DeleteForgets, DeleteFails, Forgotten, Busied, TypeOK
<1>4. ASSUME NEW m \in Mail, JobDue(m) PROVE Held'
  BY <1>4 DEF JobDue, Busied, TypeOK
<1>5. ASSUME NEW m \in Mail, NEW i \in 1..Workers, ClaimJob(m, i) PROVE Held'
  <2>1. /\ locks' = locks /\ locks[m] = 0 /\ works[i] = Free
        /\ \A x \in Mail \ {m} : job'[x] = job[x]
        /\ \A j \in 1..Workers \ {i} : works'[j] = works[j]
        /\ works'[i].stage = "claimed"
    BY <1>5 DEF ClaimJob, TypeOK
  <2>2. \A x \in Mail : locks[x] \in 0..Workers
    BY DEF TypeOK
  <2> QED
    BY <2>1, <2>2, Bounds DEF Busied
<1>6. ASSUME NEW i \in Busied, Work(i) PROVE Held'
  <2>1. i \in 1..Workers /\ i # 0 /\ works[i] \in Works /\ works[i].m \in Mail /\ works[i] # Free
    BY BusyIsTask
  <2>2. \A x \in Mail : locks[x] \in 0..Workers
    BY DEF TypeOK
  <2>3. CASE Ahead(i)
    <3>1. PICK w \in Works : w.stage \in {"ask", "again", "settle"} /\ works' = [works EXCEPT ![i] = w]
      BY <2>3 DEF Ahead
    <3>2. works'[i].stage \notin {"taken", "written"} /\ \A j \in 1..Workers \ {i} : works'[j] = works[j]
      BY <2>1, <3>1 DEF TypeOK
    <3> QED
      BY <2>1, <2>2, <2>3, <3>2, Bounds DEF Ahead, Busied
  <2>4. CASE Again(i)
    <3>1. works[i].stage = "again" /\ works'[i] = Free /\ \A j \in 1..Workers \ {i} : works'[j] = works[j]
      BY <2>1, <2>4 DEF Again, At, Ends, TypeOK
    <3>2. locks' = locks /\ locks[works[i].m] = 0 /\ \A x \in Mail \ {works[i].m} : job'[x] = job[x]
      BY <2>4 DEF Again, TypeOK
    <3> QED
      BY <2>1, <2>2, <3>1, <3>2, Bounds DEF Busied
  <2>5. CASE SettleTakes(i)
    <3>1. works[i].stage = "settle" /\ job' = job /\ locks[works[i].m] = 0
      BY <2>5 DEF SettleTakes, At
    <3>2. CASE job[works[i].m] = NoJob
      <4>1. locks' = locks /\ works'[i] = Free /\ \A j \in 1..Workers \ {i} : works'[j] = works[j]
        <5>1. Ends(i) /\ UNCHANGED locks
          BY <2>5, <3>2 DEF SettleTakes, NoLonger
        <5> QED
          BY <2>1, <5>1 DEF Ends, TypeOK
      <4> QED
        BY <2>1, <2>2, <3>1, <4>1, Bounds DEF Busied
    <3>3. CASE job[works[i].m] # NoJob
      <4>1. /\ works'[i] = [works[i] EXCEPT !.stage = "taken"]
            /\ \A j \in 1..Workers \ {i} : works'[j] = works[j]
            /\ locks'[works[i].m] = i /\ \A x \in Mail \ {works[i].m} : locks'[x] = locks[x]
        <5>1. Goes(i, "taken") /\ locks' = [locks EXCEPT ![works[i].m] = i]
          BY <2>5, <3>3 DEF SettleTakes, NoLonger
        <5> QED
          BY <2>1, <5>1 DEF Goes, TypeOK
      <4>2. works'[i].m = works[i].m /\ works'[i].stage = "taken" /\ works'[i] \in Works
        BY <2>1, <4>1 DEF Works
      <4>3. works'[i] # Free
        BY <4>2, TranslateConstants
      <4>11. ASSUME NEW x \in Mail, locks'[x] # 0
            PROVE  /\ job'[x] # NoJob
                   /\ works'[locks'[x]] # Free /\ works'[locks'[x]].m = x
                   /\ works'[locks'[x]].stage \in {"taken", "written"}
        <5>1. CASE x = works[i].m
          BY <3>1, <3>3, <4>1, <4>2, <4>3, <5>1
        <5>2. CASE x # works[i].m
          <6> DEFINE L == locks[x]
          <6>1. /\ locks'[x] = L /\ L \in 1..Workers /\ job'[x] # NoJob /\ works[L] # Free /\ works[L].m = x
                /\ works[L].stage \in {"taken", "written"}
            BY <4>11, <5>2, <2>2, <3>1, <4>1, Bounds
          <6> HIDE DEF L, Held
          <6>2. L # i
            BY <5>2, <6>1
          <6> QED
            BY <6>1, <6>2, <4>1
        <5> QED
          BY <5>1, <5>2
      <4>12. ASSUME NEW j \in Busied', works'[j].stage \in {"taken", "written"}
            PROVE  locks'[works'[j].m] = j
        <5>1. j \in 1..Workers /\ works'[j] # Free
          BY DEF Busied
        <5>2. j # i => j \in Busied /\ works'[j] = works[j] /\ works[j].m \in Mail
          BY <5>1, <2>1, <2>2, <3>1, <3>3, <4>1, <4>2, <4>3, BusyIsTask DEF Busied
        <5> QED
          <6>1. CASE j = i
            BY <6>1, <4>1, <4>2
          <6>2. CASE j # i
            <7>1. locks[works[j].m] = j
              BY <4>12, <5>2, <6>2
            <7>2. works[j].m # works[i].m
              BY <7>1, <3>1, <5>1, Bounds
            <7> QED
              BY <5>2, <6>2, <7>1, <7>2, <4>1
          <6> QED
            BY <6>1, <6>2
      <4> QED
        BY <4>11, <4>12
    <3> QED
      BY <3>2, <3>3
  <2>6. CASE SettleWrites(i)
    <3>1. works[i].stage = "taken" /\ job' = job /\ locks' = locks
      BY <2>6 DEF SettleWrites, At
    <3>2. works'[i] = [works[i] EXCEPT !.stage = "written"] /\ \A j \in 1..Workers \ {i} : works'[j] = works[j]
      BY <2>1, <2>6 DEF SettleWrites, Goes, TypeOK
    <3>3. works'[i].m = works[i].m /\ works'[i].stage = "written" /\ works'[i] \in Works
      BY <2>1, <3>2 DEF Works
    <3>4. works'[i] # Free
      BY <3>3, TranslateConstants
    <3>11. ASSUME NEW x \in Mail, locks'[x] # 0
          PROVE  /\ job'[x] # NoJob
                 /\ works'[locks'[x]] # Free /\ works'[locks'[x]].m = x
                 /\ works'[locks'[x]].stage \in {"taken", "written"}
      <4> DEFINE L == locks[x]
      <4>1. /\ locks'[x] = L /\ L \in 1..Workers /\ job'[x] # NoJob /\ works[L] # Free /\ works[L].m = x
            /\ works[L].stage \in {"taken", "written"}
        BY <3>11, <2>2, <3>1, Bounds
      <4> HIDE DEF L, Held
      <4>2. CASE L = i
        BY <4>1, <4>2, <3>3, <3>4
      <4>3. CASE L # i
        BY <4>1, <4>3, <3>2
      <4> QED
        BY <4>2, <4>3
    <3>12. ASSUME NEW j \in Busied', works'[j].stage \in {"taken", "written"}
          PROVE  locks'[works'[j].m] = j
      <4>1. j \in 1..Workers /\ works'[j] # Free
        BY DEF Busied
      <4>2. j # i => j \in Busied /\ works'[j] = works[j] /\ works[j].m \in Mail
        BY <4>1, <2>1, <2>2, <3>1, <3>2, <3>3, <3>4, BusyIsTask DEF Busied
      <4> QED
        <5>1. CASE j = i
          <6>1. works[i].stage \in {"taken", "written"}
            BY <3>1
          <6> QED
            BY <5>1, <6>1, <3>1, <3>3
        <5>2. CASE j # i
          BY <3>12, <4>2, <5>2, <3>1
        <5> QED
          BY <5>1, <5>2
    <3> QED
      BY <3>11, <3>12
  <2>7. CASE SettleCommits(i)
    <3>1. works[i].stage = "written" /\ works'[i] = Free /\ \A j \in 1..Workers \ {i} : works'[j] = works[j]
      BY <2>1, <2>7 DEF SettleCommits, At, Ends, TypeOK
    <3>2. /\ locks'[works[i].m] = 0
          /\ \A x \in Mail \ {works[i].m} : job'[x] = job[x] /\ locks'[x] = locks[x]
      BY <2>1, <2>7 DEF SettleCommits, TypeOK
    <3>3. \A j \in Busied \ {i} : works[j].stage \in {"taken", "written"} => works[j].m # works[i].m
      BY <2>1, <3>1 DEF Busied
    <3>11. ASSUME NEW x \in Mail, locks'[x] # 0
          PROVE  /\ job'[x] # NoJob
                 /\ works'[locks'[x]] # Free /\ works'[locks'[x]].m = x
                 /\ works'[locks'[x]].stage \in {"taken", "written"}
      BY <3>11, <2>1, <2>2, <3>1, <3>2, <3>3, Bounds
    <3>12. ASSUME NEW j \in Busied', works'[j].stage \in {"taken", "written"}
          PROVE  locks'[works'[j].m] = j
      <4>1. j \in 1..Workers /\ works'[j] # Free
        BY DEF Busied
      <4>2. j # i => j \in Busied /\ works'[j] = works[j] /\ works[j].m \in Mail
        BY <4>1, <2>1, <2>2, <3>1, <3>2, <3>3, BusyIsTask DEF Busied
      <4> QED
        BY <3>12, <4>1, <4>2, <2>1, <2>2, <3>1, <3>2, <3>3, Bounds
    <3> QED
      BY <3>11, <3>12
  <2> QED
    BY <1>6, <2>3, <2>4, <2>5, <2>6, <2>7, WorkCases
<1>7. ASSUME NEW i \in Busied, WorkFails(i) PROVE Held'
  <2>1. i \in 1..Workers /\ i # 0
    BY BusyIsTask
  <2>2. /\ works'[i] = Free /\ \A j \in 1..Workers \ {i} : works'[j] = works[j]
        /\ job' = job /\ \A x \in Mail : locks'[x] = IF locks[x] = i THEN 0 ELSE locks[x]
    BY <1>7, <2>1 DEF WorkFails, Ends, TypeOK
  <2>3. \A x \in Mail : locks[x] \in 0..Workers
    BY DEF TypeOK
  <2>4. \A j \in Busied : works[j].m \in Mail /\ j # 0
    BY BusyIsTask
  <2> QED
    BY <2>1, <2>2, <2>3, <2>4, Bounds DEF Busied
<1>8. ASSUME Switch \/ ChargedElsewhere \/ Restart PROVE Held'
  <2>1. CASE Restart
    BY <2>1 DEF Restart, Busied, TypeOK
  <2>2. CASE Switch \/ ChargedElsewhere
    <3>1. UNCHANGED <<locks, job, works>>
      BY <2>2 DEF Switch, ChargedElsewhere
    <3> QED
      BY <3>1 DEF Busied
  <2> QED
    BY <1>8, <2>1, <2>2
<1> QED
  BY <1>2, <1>3, <1>4, <1>5, <1>6, <1>7, <1>8 DEF Next
LEMMA RowHeldStep ==
    ASSUME TypeOK, RowHeld, Next
    PROVE  RowHeld'
<1> USE DEF RowHeld
<1>1. ASSUME NEW m \in Mail, Send(m) PROVE RowHeld'
  <2>1. deleting' = deleting /\ works' = works /\ copy[m] = "unsent" /\ copy' = [copy EXCEPT ![m] = "there"]
    BY <1>1 DEF Send
  <2> QED
    BY <2>1 DEF Busied, TypeOK
<1>2. ASSUME NEW m \in Mail, DeleteLocks(m) PROVE RowHeld'
  BY <1>2 DEF DeleteLocks, Busied
<1>3. ASSUME NEW m \in Mail, DeleteForgets(m) \/ DeleteFails(m) PROVE RowHeld'
  BY <1>3 DEF DeleteForgets, DeleteFails, Busied, TypeOK
<1>4. ASSUME NEW m \in Mail, JobDue(m) PROVE RowHeld'
  BY <1>4 DEF JobDue, Busied
<1>5. ASSUME NEW m \in Mail, NEW i \in 1..Workers, ClaimJob(m, i) PROVE RowHeld'
  <2>1. /\ UNCHANGED <<copy, deleting>> /\ works'[i].stage = "claimed"
        /\ \A j \in 1..Workers \ {i} : works'[j] = works[j]
    BY <1>5 DEF ClaimJob, TypeOK
  <2> QED
    BY <2>1 DEF Busied
<1>6. ASSUME NEW i \in Busied, Work(i) PROVE RowHeld'
  <2>1. i \in 1..Workers /\ works[i] \in Works
    BY BusyIsTask
  <2>2. UNCHANGED <<copy, deleting>>
    BY <1>6, WorkCases DEF Ahead, Again, SettleTakes, SettleWrites, SettleCommits
  <2>3. ASSUME \A j \in 1..Workers \ {i} : works'[j] = works[j],
               works'[i] = Free \/ works'[i].stage # "written" \/ works'[i].m \notin deleting
        PROVE  RowHeld'
    BY <2>2, <2>3 DEF Busied
  <2>4. CASE Ahead(i)
    <3>1. PICK w \in Works : w.stage \in {"ask", "again", "settle"} /\ works' = [works EXCEPT ![i] = w]
      BY <2>4 DEF Ahead
    <3> QED
      BY <2>1, <2>3, <3>1 DEF TypeOK
  <2>5. CASE Ends(i)
    BY <2>1, <2>3, <2>5 DEF Ends, TypeOK
  <2>6. CASE Goes(i, "taken")
    BY <2>1, <2>3, <2>6 DEF Goes, TypeOK, Works
  <2>7. CASE SettleWrites(i)
    <3>1. works'[i].m = works[i].m
      BY <2>1, <2>7 DEF SettleWrites, Goes, TypeOK, Works
    <3> QED
      BY <2>1, <2>3, <2>7, <3>1 DEF SettleWrites, Goes, TypeOK
  <2> QED
    BY <1>6, <2>4, <2>5, <2>6, <2>7, WorkCases DEF Again, SettleTakes, SettleCommits
<1>7. ASSUME NEW i \in Busied, WorkFails(i) PROVE RowHeld'
  BY <1>7, BusyIsTask DEF WorkFails, Ends, Busied, TypeOK
<1>8. CASE Restart
  BY <1>8 DEF Restart, Busied
<1>9. CASE Switch \/ ChargedElsewhere
  BY <1>9 DEF Switch, ChargedElsewhere, Busied
<1> QED
  BY <1>1, <1>2, <1>3, <1>4, <1>5, <1>6, <1>7, <1>8, <1>9 DEF Next

\* What a step does to the data of one message: nothing, or the send, the
\* delete, or the settle of its job.
Nothing(m) ==
    /\ UNCHANGED <<copy[m], outcome[m], charged[m]>>
    /\ job[m] = NoJob => job'[m] = NoJob
Sent(m) ==
    /\ copy[m] = "unsent" /\ copy'[m] = "there" /\ charged'[m] = 0 /\ outcome[m] = NoOutcome
    /\ outcome'[m] = NoOutcome \/ job'[m] = NoJob
Deleted(m) ==
    /\ copy'[m] = "gone" /\ outcome'[m] = NoOutcome /\ job'[m] = NoJob
    /\ charged'[m] = charged[m] /\ copy[m] = "there"
Settled(m) ==
    /\ copy'[m] = copy[m] /\ job[m] # NoJob /\ job'[m] = NoJob
    /\ charged'[m] \in charged[m]..(charged[m] + 1)

LEMMA MessageSteps ==
    ASSUME TypeOK, Held, RowHeld, JobIsOpen, Next, NEW m \in Mail
    PROVE  Nothing(m) \/ Sent(m) \/ Deleted(m) \/ Settled(m)
<1> USE DEF Nothing
<1>1. ASSUME NEW x \in Mail, Send(x) PROVE Nothing(m) \/ Sent(m)
  <2>1. CASE x # m
    BY <1>1, <2>1 DEF Send, TypeOK
  <2>2. CASE x = m
    <3>1. copy[m] = "unsent" /\ copy'[m] = "there" /\ charged'[m] = charged[m]
      BY <1>1, <2>2 DEF Send, TypeOK
    <3>2. charged[m] = 0 /\ outcome[m] = NoOutcome /\ job[m] = NoJob
      BY <3>1 DEF JobIsOpen
    <3>3. outcome'[m] = NoOutcome \/ job'[m] = NoJob
      BY <1>1, <2>2, <3>2 DEF Send
    <3> QED
      BY <3>1, <3>2, <3>3 DEF Sent
  <2> QED
    BY <2>1, <2>2
<1>2. ASSUME NEW x \in Mail, DeleteLocks(x) \/ DeleteFails(x) PROVE Nothing(m)
  BY <1>2 DEF DeleteLocks, DeleteFails
<1>3. ASSUME NEW x \in Mail, DeleteForgets(x) PROVE Nothing(m) \/ Deleted(m)
  BY <1>3 DEF DeleteForgets, Forgotten, Deleted, RowHeld, TypeOK
<1>4. ASSUME NEW x \in Mail, JobDue(x) PROVE Nothing(m)
  BY <1>4 DEF JobDue, TypeOK
<1>5. ASSUME NEW x \in Mail, NEW i \in 1..Workers, ClaimJob(x, i) PROVE Nothing(m)
  BY <1>5 DEF ClaimJob, TypeOK
<1>6. ASSUME NEW i \in Busied, Work(i) PROVE Nothing(m) \/ Settled(m)
  <2>1. i # 0 /\ works[i] \in Works /\ works[i].m \in Mail
    BY BusyIsTask
  <2>2. CASE Ahead(i) \/ SettleTakes(i) \/ SettleWrites(i)
    BY <2>2 DEF Ahead, SettleTakes, SettleWrites
  <2>3. CASE Again(i)
    BY <2>1, <2>3 DEF Again, PutBack, TypeOK
  <2>4. CASE SettleCommits(i)
    <3>1. CASE works[i].m # m
      BY <2>1, <2>4, <3>1 DEF SettleCommits, TypeOK
    <3>2. CASE works[i].m = m
      <4>1. locks[m] = i
        BY <2>4, <3>2 DEF SettleCommits, At, Held
      <4>2. job[m] # NoJob
        BY <2>1, <4>1 DEF Held
      <4>3. /\ copy'[m] = copy[m] /\ job'[m] = NoJob
            /\ charged'[m] = charged[m] + works[i].cost
        BY <2>4, <3>2 DEF SettleCommits, TypeOK
      <4>4. works[i].cost \in 0..1 /\ charged[m] \in Nat
        BY <2>1 DEF Works, TypeOK
      <4> QED
        BY <4>2, <4>3, <4>4 DEF Settled
    <3> QED
      BY <3>1, <3>2
  <2> QED
    BY <1>6, <2>2, <2>3, <2>4, WorkCases
<1>7. ASSUME NEW i \in Busied, WorkFails(i) PROVE Nothing(m)
  BY <1>7 DEF WorkFails
<1>8. CASE Switch \/ ChargedElsewhere \/ Restart
  BY <1>8 DEF Switch, ChargedElsewhere, Restart
<1> QED
  BY <1>1, <1>2, <1>3, <1>4, <1>5, <1>6, <1>7, <1>8 DEF Next

LEMMA OpenStep ==
    ASSUME TypeOK, Held, RowHeld, JobIsOpen, ChargedOnce, Next
    PROVE  JobIsOpen' /\ ChargedOnce'
<1> SUFFICES ASSUME NEW m \in Mail
             PROVE  /\ job'[m] # NoJob => copy'[m] = "there" /\ outcome'[m] = NoOutcome /\ charged'[m] = 0
                    /\ copy'[m] = "unsent" => charged'[m] = 0
                    /\ copy'[m] # "there" => outcome'[m] = NoOutcome
                    /\ charged'[m] <= 1
  BY DEF JobIsOpen, ChargedOnce
<1>1. charged[m] \in Nat /\ charged[m] <= 1
  BY DEF ChargedOnce, TypeOK
<1>2. CASE Nothing(m)
  BY <1>1, <1>2 DEF Nothing, JobIsOpen
<1>3. CASE Sent(m)
  BY <1>3 DEF Sent
<1>4. CASE Deleted(m)
  BY <1>1, <1>4 DEF Deleted
<1>5. CASE Settled(m)
  BY <1>1, <1>5 DEF Settled, JobIsOpen
<1> QED
  BY <1>2, <1>3, <1>4, <1>5, MessageSteps

IInv == TypeOK /\ Held /\ RowHeld /\ JobIsOpen /\ ChargedOnce

LEMMA InductiveInvariant == Spec => []IInv
<1>1. Init => Held /\ RowHeld /\ JobIsOpen /\ ChargedOnce
  BY DEF Init, Held, RowHeld, JobIsOpen, ChargedOnce, Busied
<1>2. IInv /\ [Next]_vars => Held' /\ RowHeld' /\ JobIsOpen' /\ ChargedOnce'
  <2>1. ASSUME IInv, Next PROVE Held' /\ RowHeld' /\ JobIsOpen' /\ ChargedOnce'
    BY <2>1, HeldStep, RowHeldStep, OpenStep DEF IInv
  <2>2. ASSUME IInv, UNCHANGED vars PROVE Held' /\ RowHeld' /\ JobIsOpen' /\ ChargedOnce'
    BY <2>2 DEF vars, IInv, Held, RowHeld, JobIsOpen, ChargedOnce, Busied
  <2> QED
    BY <2>1, <2>2
<1> QED
  BY <1>1, <1>2, TypeCorrect, PTL DEF Spec, IInv

-----------------------------------------------------------------------------
(* The theorems.                                                           *)

(* A message is charged at most once, whatever leases run out and whichever *)
(* of its tasks settle, put back, fail or are cut off (settle, again).      *)
THEOREM PaidOnce == Spec => []ChargedOnce
<1>1. IInv => ChargedOnce
  BY DEF IInv
<1> QED
  BY <1>1, InductiveInvariant, PTL

(* Of a copy that was deleted neither a translation nor a job is left: the  *)
(* settle holds the job's row, and a job is of a copy that is there.        *)
THEOREM Forgets == Spec => []GoneIsForgotten
<1>1. IInv => GoneIsForgotten
  BY DEF IInv, JobIsOpen, GoneIsForgotten
<1> QED
  BY <1>1, InductiveInvariant, PTL

(* What the reader is shown of a message stays until the copy goes.         *)
THEOREM OutcomesStay == Spec => OutcomeStays
<1> DEFINE Stays == \A m \in Mail : outcome[m] # NoOutcome =>
                        \/ outcome'[m] = outcome[m] /\ job'[m] = NoJob
                        \/ copy'[m] = "gone"
<1>1. ASSUME IInv, Next, NEW m \in Mail, outcome[m] # NoOutcome
      PROVE  (outcome'[m] = outcome[m] /\ job'[m] = NoJob) \/ copy'[m] = "gone"
  <2>1. job[m] = NoJob
    BY <1>1 DEF IInv, JobIsOpen
  <2> QED
    BY <1>1, <2>1, MessageSteps DEF IInv, Nothing, Sent, Deleted, Settled
<1>2. IInv /\ [Next]_vars => [Stays]_vars
  BY <1>1
<1> QED
  BY <1>2, InductiveInvariant, PTL DEF Spec, OutcomeStays
=============================================================================
