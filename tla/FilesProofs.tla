----------------------------- MODULE FilesProofs -----------------------------
(***************************************************************************)
(* Theorems about Files, for any files, messages and sends.                *)
(***************************************************************************)
EXTENDS Files, TLAPS

Sends == [stage : Stages, msg : Message \cup {NoMessage}, files : SUBSET File,
          body : File \cup {NoFile}, own : BOOLEAN]

\* A send under way has its message and names what was minted.
Names(s) ==
    /\ Named(s) \subseteq minted
    /\ send[s].own => send[s].body \in File
    /\ send[s].stage # "idle" => send[s].msg \in Message

\* What the type invariant rests on: an id is used only once it is minted,
\* and the sweep chooses old files.
Minted ==
    /\ \A f \in File \ minted : att[f] = Absent
    /\ \A s \in Sender : Names(s)
    /\ chosen \subseteq aged

Typed == TypeOK /\ Minted

LEMMA IdleSend == Idle \in Sends
BY DEF Idle, Sends, Stages

\* A step that only moves a send on leaves what it names.
LEMMA StageOnly ==
    ASSUME send \in [Sender -> Sends], NEW s \in Sender, NEW x \in Stages,
           send' = [send EXCEPT ![s].stage = x]
    PROVE  /\ send' \in [Sender -> Sends]
           /\ send'[s].stage = x
           /\ \A t \in Sender : /\ send'[t].msg = send[t].msg /\ send'[t].files = send[t].files
                                /\ send'[t].body = send[t].body /\ send'[t].own = send[t].own
           /\ \A t \in Sender \ {s} : send'[t] = send[t]
<1>1. [send[s] EXCEPT !.stage = x] \in Sends
  BY DEF Sends
<1>2. /\ [send[s] EXCEPT !.stage = x].msg = send[s].msg /\ [send[s] EXCEPT !.stage = x].files = send[s].files
      /\ [send[s] EXCEPT !.stage = x].body = send[s].body /\ [send[s] EXCEPT !.stage = x].own = send[s].own
      /\ [send[s] EXCEPT !.stage = x].stage = x
  BY DEF Sends
<1> QED
  BY <1>1, <1>2

\* A send that ends names nothing.
LEMMA EndsIdle ==
    ASSUME send \in [Sender -> Sends], NEW s \in Sender, send' = [send EXCEPT ![s] = Idle]
    PROVE  /\ send' \in [Sender -> Sends]
           /\ send'[s].files = {} /\ send'[s].body = NoFile /\ ~send'[s].own /\ send'[s].stage = "idle"
           /\ \A t \in Sender \ {s} : send'[t] = send[t]
BY IdleSend DEF Idle

\* A send that begins names what it was given.
LEMMA Begins ==
    ASSUME send \in [Sender -> Sends], NEW s \in Sender, NEW r \in Sends, send' = [send EXCEPT ![s] = r]
    PROVE  /\ send' \in [Sender -> Sends] /\ send'[s] = r
           /\ \A t \in Sender \ {s} : send'[t] = send[t]
OBVIOUS

\* What each step does to the sends and to what is named.
LEMMA SendSteps ==
    ASSUME Typed, Next
    PROVE  /\ send' \in [Sender -> Sends] /\ minted \subseteq minted'
           /\ \A s \in Sender : Names(s)'
<1> USE DEF Named, Names
<1>0. send \in [Sender -> Sends] /\ uploaded \subseteq minted /\ minted \subseteq File
  BY DEF Typed, TypeOK, Sends
<1>1. \A s \in Sender : Names(s)
  BY DEF Typed, Minted
<1>2. CASE send' = send /\ minted \subseteq minted'
  BY <1>0, <1>1, <1>2
<1>3. CASE Uploading
  BY <1>2, <1>3 DEF Uploading, UploadMove, UploadInsert, UploadDropped
<1>4. CASE Deleting \/ Sweeping \/ \E f \in File : Age(f)
  BY <1>2, <1>4 DEF Deleting, DeleteCopy, RemoveFile, DeleteDropped, Sweeping, SweepChoose, SweepRemove,
                    SweepDelete, Age
<1>5. CASE Stop
  <2>1. send' = [s \in Sender |-> Idle] /\ minted' = minted
    BY <1>5 DEF Stop
  <2> QED
    BY <2>1, IdleSend DEF Idle
<1>6. ASSUME NEW s \in Sender, NEW m \in Message, NEW fs \in SUBSET uploaded, SendShort(s, m, fs)
      PROVE  /\ send' \in [Sender -> Sends] /\ minted \subseteq minted'
             /\ \A t \in Sender : Names(t)'
  <2>1. Begin(s, m, fs, NoFile, FALSE) /\ minted' = minted
    BY <1>6 DEF SendShort
  <2>2. fs \in SUBSET File /\ fs \subseteq minted
    BY <1>0
  <2>3. /\ send' \in [Sender -> Sends] /\ send'[s].files = fs /\ send'[s].body = NoFile /\ ~send'[s].own
        /\ send'[s].msg = m
        /\ \A t \in Sender \ {s} : send'[t] = send[t]
    <3> DEFINE r == [stage |-> "ready", msg |-> m, files |-> fs, body |-> NoFile, own |-> FALSE]
    <3>1. r \in Sends
      BY <2>2 DEF Sends, Stages
    <3>2. send' = [send EXCEPT ![s] = r]
      BY <2>1 DEF Begin
    <3>3. r.files = fs /\ r.body = NoFile /\ ~r.own /\ r.msg = m
      OBVIOUS
    <3> HIDE DEF r
    <3> QED
      BY <1>0, <3>1, <3>2, <3>3, Begins
  <2> HIDE DEF Named
  <2>4. Named(s)' = fs /\ \A t \in Sender \ {s} : Named(t)' = Named(t)
    BY <2>3 DEF Named
  <2> QED
    BY <1>1, <2>1, <2>2, <2>3, <2>4
<1>7. ASSUME NEW s \in Sender, NEW m \in Message, NEW fs \in SUBSET uploaded, NEW f \in File,
             SendLong(s, m, fs, f) \/ SendUploaded(s, m, fs, f)
      PROVE  /\ send' \in [Sender -> Sends] /\ minted \subseteq minted'
             /\ \A t \in Sender : Names(t)'
  <2>1. PICK own \in BOOLEAN : Begin(s, m, fs, f, own)
    BY <1>7 DEF SendLong, SendUploaded
  <2>2. fs \in SUBSET File /\ fs \subseteq minted
    BY <1>0
  <2>3. f \in minted' /\ minted \subseteq minted'
    BY <1>7 DEF SendLong, SendUploaded, Typed, Minted
  <2>4. /\ send' \in [Sender -> Sends] /\ send'[s].files = fs /\ send'[s].body = f
        /\ send'[s].msg = m
        /\ \A t \in Sender \ {s} : send'[t] = send[t]
    <3> DEFINE r == [stage |-> "ready", msg |-> m, files |-> fs, body |-> f, own |-> own]
    <3>1. r \in Sends
      BY <2>2 DEF Sends, Stages
    <3>2. send' = [send EXCEPT ![s] = r]
      BY <2>1 DEF Begin
    <3>3. r.files = fs /\ r.body = f /\ r.msg = m
      OBVIOUS
    <3> HIDE DEF r
    <3> QED
      BY <1>0, <3>1, <3>2, <3>3, Begins
  <2> HIDE DEF Named
  <2>5. Named(s)' \subseteq fs \cup {f} /\ \A t \in Sender \ {s} : Named(t)' = Named(t)
    BY <2>4 DEF Named
  <2> QED
    BY <1>1, <2>2, <2>3, <2>4, <2>5
<1>8. ASSUME NEW s \in Sender, SendLock(s) \/ SendCommit(s)
      PROVE  /\ send' \in [Sender -> Sends] /\ minted \subseteq minted'
             /\ \A t \in Sender : Names(t)'
  <2>1. PICK x \in Stages : send' = [send EXCEPT ![s].stage = x] /\ minted' = minted
    BY <1>8 DEF SendLock, SendCommit, Stages
  <2>2. send[s].msg \in Message
    BY <1>1, <1>8 DEF SendLock, SendCommit
  <2> HIDE DEF Names, Named
  <2>3. /\ send' \in [Sender -> Sends]
        /\ \A t \in Sender : /\ send'[t].msg = send[t].msg /\ send'[t].files = send[t].files
                             /\ send'[t].body = send[t].body /\ send'[t].own = send[t].own
        /\ \A t \in Sender \ {s} : send'[t] = send[t]
    BY <1>0, <2>1, StageOnly
  <2>4. ASSUME NEW t \in Sender PROVE Names(t)'
    <3>1. Named(t)' = Named(t)
      BY <2>3 DEF Named
    <3> QED
      BY <1>1, <2>1, <2>2, <2>3, <3>1 DEF Names
  <2> QED
    BY <2>1, <2>3, <2>4
<1>9. ASSUME NEW s \in Sender, SendKeep(s) \/ SendEnds(s) \/ SendDropped(s)
      PROVE  /\ send' \in [Sender -> Sends] /\ minted \subseteq minted'
             /\ \A t \in Sender : Names(t)'
  <2>1. send' = [send EXCEPT ![s] = Idle] /\ minted' = minted
    BY <1>9 DEF SendKeep, SendEnds, SendDropped
  <2>2. /\ send' \in [Sender -> Sends]
        /\ send'[s].files = {} /\ send'[s].body = NoFile /\ ~send'[s].own /\ send'[s].stage = "idle"
        /\ \A t \in Sender \ {s} : send'[t] = send[t]
    BY <1>0, <2>1, EndsIdle
  <2> HIDE DEF Names, Named
  <2>3. ASSUME NEW t \in Sender PROVE Names(t)'
    <3>1. CASE t = s
      BY <2>2, <3>1 DEF Named, Names
    <3>2. CASE t # s
      BY <1>1, <2>1, <2>2, <3>2 DEF Named, Names
    <3> QED
      BY <3>1, <3>2
  <2> QED
    BY <2>1, <2>2, <2>3
<1> QED
  BY <1>3, <1>4, <1>5, <1>6, <1>7, <1>8, <1>9 DEF Next, Sending
\* The sets of files a step keeps within what was minted.
SetsTyped ==
    /\ minted \subseteq File /\ blob \subseteq minted /\ aged \subseteq minted
    /\ moved \subseteq minted /\ removing \subseteq minted
    /\ cut \subseteq chosen /\ chosen \subseteq aged
    /\ uploaded \subseteq minted /\ torn \subseteq minted /\ left \subseteq minted
    /\ swept \subseteq aged /\ overtaken \subseteq aged

RowsTyped ==
    /\ att \in [File -> Message \cup {Absent, Unbound}]
    /\ copies \in [Message -> 0..2]
    /\ parts \in [Message -> SUBSET File]
    /\ lock \in [File -> Sender \cup {NoSender}]
    /\ \A f \in File \ minted : att[f] = Absent

LEMMA TypedParts ==
    Typed <=> /\ SetsTyped /\ RowsTyped /\ send \in [Sender -> Sends]
              /\ \A s \in Sender : Names(s)
BY DEF Typed, TypeOK, Minted, SetsTyped, RowsTyped, Sends

LEMMA SetsStep ==
    ASSUME Typed, Next
    PROVE  SetsTyped'
<1>1. SetsTyped /\ RowsTyped /\ \A s \in Sender : Named(s) \subseteq minted /\ OwnBody(s) \subseteq minted
  <2>1. SetsTyped /\ RowsTyped /\ \A s \in Sender : Names(s)
    BY TypedParts
  <2>2. ASSUME NEW s \in Sender, send[s].own PROVE send[s].body \in Named(s)
    BY <2>1, <2>2, FilesAssumption DEF Named, Names
  <2> QED
    BY <2>1, <2>2 DEF OwnBody, Names
<1>2. Absent # Unbound /\ Absent \notin Message /\ MayAge \subseteq File
  BY FilesAssumption
<1> HIDE DEF Typed
<1>3. ASSUME NEW f \in File, UploadMove(f) \/ UploadInsert(f) \/ UploadDropped(f) PROVE SetsTyped'
  BY <1>1, <1>3 DEF UploadMove, UploadInsert, UploadDropped, tables, history, sweep, SetsTyped
<1>12. ASSUME NEW s \in Sender, NEW m \in Message, NEW fs \in SUBSET uploaded, SendShort(s, m, fs)
       PROVE  SetsTyped'
  BY <1>1, <1>12 DEF SendShort, tables, history, sweep, SetsTyped
<1>4. ASSUME NEW s \in Sender, NEW m \in Message, NEW fs \in SUBSET uploaded, NEW f \in File,
             SendLong(s, m, fs, f) \/ SendUploaded(s, m, fs, f)
      PROVE  SetsTyped'
  BY <1>1, <1>4 DEF SendLong, SendUploaded, tables, history, sweep, SetsTyped
<1>5. ASSUME NEW s \in Sender, SendLock(s) \/ SendKeep(s) \/ SendEnds(s) \/ SendDropped(s) PROVE SetsTyped'
  BY <1>1, <1>5 DEF SendLock, SendKeep, SendEnds, SendDropped, tables, history, sweep, SetsTyped
<1>6. ASSUME NEW s \in Sender, SendCommit(s) PROVE SetsTyped'
  BY <1>1, <1>6 DEF SendCommit, tables, history, sweep, SetsTyped
<1>7. ASSUME NEW m \in Message, DeleteCopy(m) PROVE SetsTyped'
  <2>1. Gone(m) \subseteq minted
    BY <1>1, <1>2 DEF Gone, OfMessage, RowsTyped
  <2> QED
    BY <1>1, <1>7, <2>1 DEF DeleteCopy, tables, history, sweep, SetsTyped
<1>8. CASE DeleteDropped \/ \E f \in File : RemoveFile(f)
  BY <1>1, <1>8 DEF RemoveFile, DeleteDropped, tables, history, sweep, SetsTyped
<1>9. ASSUME NEW f \in File, Age(f) PROVE SetsTyped'
  BY <1>1, <1>2, <1>9 DEF Age, tables, history, sweep, SetsTyped, RowsTyped
<1>10. CASE Sweeping
  <2>1. CASE SweepChoose
    <3>1. chosen' \subseteq aged
      BY <2>1 DEF SweepChoose, ForSweep
    <3> QED
      BY <1>1, <2>1, <3>1 DEF SweepChoose, tables, history, SetsTyped
  <2>2. CASE SweepDelete
    BY <1>1, <2>2 DEF SweepDelete, history, SetsTyped
  <2>3. ASSUME NEW f \in File, SweepRemove(f) PROVE SetsTyped'
    BY <1>1, <2>3 DEF SweepRemove, tables, SetsTyped
  <2> QED
    BY <1>10, <2>1, <2>2, <2>3 DEF Sweeping
<1>11. CASE Stop
  <2>1. left' \subseteq minted
    BY <1>1, <1>11 DEF Stop, SetsTyped
  <2> QED
    BY <1>1, <1>11, <2>1 DEF Stop, SetsTyped
<1> QED
  BY <1>3, <1>4, <1>5, <1>6, <1>7, <1>8, <1>9, <1>10, <1>11, <1>12 DEF Next, Uploading, Sending, Deleting

LEMMA RowsStep ==
    ASSUME Typed, Next
    PROVE  RowsTyped'
<1>1. /\ SetsTyped /\ RowsTyped /\ send \in [Sender -> Sends]
      /\ \A s \in Sender : Names(s)
  BY TypedParts
<1>2. CASE UNCHANGED tables /\ minted \subseteq minted'
  BY <1>1, <1>2 DEF tables, RowsTyped
<1>3. ASSUME NEW f \in File, UploadMove(f) \/ Age(f) \/ RemoveFile(f) \/ SweepRemove(f) PROVE RowsTyped'
  BY <1>2, <1>3 DEF UploadMove, Age, RemoveFile, SweepRemove
<1>4. ASSUME NEW f \in File, UploadInsert(f) \/ UploadDropped(f) PROVE RowsTyped'
  <2>1. f \in minted /\ minted' = minted /\ att' \in {att, [att EXCEPT ![f] = Unbound]}
        /\ UNCHANGED <<copies, parts, lock>>
    BY <1>1, <1>4 DEF UploadInsert, UploadDropped, SetsTyped
  <2> QED
    BY <1>1, <2>1 DEF RowsTyped
<1>14. ASSUME NEW s \in Sender, NEW m \in Message, NEW fs \in SUBSET uploaded, SendShort(s, m, fs)
       PROVE  RowsTyped'
  BY <1>2, <1>14 DEF SendShort
<1>5. ASSUME NEW s \in Sender, NEW m \in Message, NEW fs \in SUBSET uploaded, NEW f \in File,
             SendLong(s, m, fs, f) \/ SendUploaded(s, m, fs, f)
      PROVE  RowsTyped'
  BY <1>2, <1>5 DEF SendLong, SendUploaded
<1>6. ASSUME NEW s \in Sender, SendLock(s) PROVE RowsTyped'
  BY <1>1, <1>6 DEF SendLock, RowsTyped
<1>7. ASSUME NEW s \in Sender, SendKeep(s) \/ SendDropped(s) PROVE RowsTyped'
  BY <1>2, <1>7 DEF SendKeep, SendDropped
<1>8. ASSUME NEW s \in Sender, SendEnds(s) PROVE RowsTyped'
  BY <1>1, <1>8 DEF SendEnds, Unlock, RowsTyped
<1>9. ASSUME NEW s \in Sender, SendCommit(s) PROVE RowsTyped'
  <2> DEFINE m == send[s].msg
  <2>1. /\ minted' = minted
        /\ att' = [f \in File |-> IF f \in Named(s) THEN m ELSE att[f]]
        /\ \E sides \in {1, 2} : copies' = [copies EXCEPT ![m] = sides]
        /\ parts' = [parts EXCEPT ![m] = Named(s)]
        /\ lock' = Unlock(s)
    BY <1>9 DEF SendCommit
  <2>2. Named(s) \subseteq minted /\ Named(s) \subseteq File
    BY <1>1 DEF SetsTyped, Names
  <2>3. m \in Message
    BY <1>1, <1>9 DEF SendCommit, Names
  <2>4. QED
    <3> HIDE DEF m
    <3>1. att' \in [File -> Message \cup {Absent, Unbound}] /\ \A f \in File \ minted' : att'[f] = Absent
      BY <1>1, <2>1, <2>2, <2>3 DEF RowsTyped
    <3>2. copies' \in [Message -> 0..2] /\ parts' \in [Message -> SUBSET File]
      BY <1>1, <2>1, <2>2, <2>3 DEF RowsTyped
    <3>3. lock' \in [File -> Sender \cup {NoSender}]
      BY <1>1, <2>1 DEF RowsTyped, Unlock
    <3> QED
      BY <3>1, <3>2, <3>3 DEF RowsTyped
<1>10. ASSUME NEW m \in Message, DeleteCopy(m) PROVE RowsTyped'
  <2>1. /\ minted' = minted /\ lock' = lock
        /\ copies' = [copies EXCEPT ![m] = copies[m] - 1] /\ copies[m] > 0
        /\ parts' \in {parts, [parts EXCEPT ![m] = {}]}
        /\ att' = [f \in File |-> IF f \in Gone(m) THEN Absent ELSE att[f]]
    BY <1>10 DEF DeleteCopy
  <2>2. copies' \in [Message -> 0..2]
    <3>1. copies[m] \in 0..2 /\ copies[m] - 1 \in 0..2
      BY <1>1, <2>1 DEF RowsTyped
    <3> QED
      BY <1>1, <2>1, <3>1 DEF RowsTyped
  <2>3. parts' \in [Message -> SUBSET File]
    BY <1>1, <2>1 DEF RowsTyped
  <2>4. att' \in [File -> Message \cup {Absent, Unbound}] /\ \A f \in File \ minted : att'[f] = Absent
    BY <1>1, <2>1 DEF RowsTyped
  <2> QED
    BY <1>1, <2>1, <2>2, <2>3, <2>4 DEF RowsTyped
<1>11. CASE DeleteDropped \/ SweepChoose
  BY <1>2, <1>11 DEF DeleteDropped, SweepChoose
<1>12. CASE SweepDelete
  BY <1>1, <1>12 DEF SweepDelete, RowsTyped
<1>13. CASE Stop
  BY <1>1, <1>13 DEF Stop, RowsTyped
<1> QED
  BY <1>3, <1>4, <1>5, <1>6, <1>7, <1>8, <1>9, <1>10, <1>11, <1>12, <1>13, <1>14
     DEF Next, Uploading, Sending, Deleting, Sweeping

LEMMA TypeStep ==
    ASSUME Typed, [Next]_vars
    PROVE  Typed'
<1>1. CASE Next
  <2>1. SetsTyped' /\ RowsTyped' /\ send' \in [Sender -> Sends] /\ \A s \in Sender : Names(s)'
    BY <1>1, SendSteps, SetsStep, RowsStep
  <2> QED
    BY <2>1 DEF Typed, TypeOK, Minted, SetsTyped, RowsTyped, Sends
<1>2. CASE UNCHANGED vars
  BY <1>2 DEF vars, tables, history, sweep, Typed, TypeOK, Minted, Names, Named
<1> QED
  BY <1>1, <1>2

LEMMA TypeInit == Init => Typed
<1> SUFFICES ASSUME Init PROVE Typed
  OBVIOUS
<1>1. send \in [Sender -> Sends]
  BY IdleSend DEF Init
<1>2. \A s \in Sender : Names(s)
  BY DEF Init, Names, Named, Idle
<1>3. SetsTyped /\ RowsTyped
  BY DEF Init, SetsTyped, RowsTyped
<1> QED
  BY <1>1, <1>2, <1>3 DEF Typed, TypeOK, Minted, SetsTyped, RowsTyped, Sends

(* The variables have their types: an id is used only once it is minted, the *)
(* sweep works on old files, and a send names what there was.                *)
THEOREM TypeCorrect == Spec => []TypeOK
<1>1. Typed /\ [Next]_vars => Typed'
  BY TypeStep
<1>2. Typed => TypeOK
  BY DEF Typed
<1> QED
  BY <1>1, <1>2, TypeInit, PTL DEF Spec

-----------------------------------------------------------------------------

\* The bytes a send's guard holds before its commit.
Kept(s) == IF send[s].stage \in {"ready", "locked"} THEN OwnBody(s) ELSE {}

\* Rows: a message names its files and its files name it.
Bound ==
    /\ \A m \in Message : copies[m] = 0 => parts[m] = {}
    /\ \A f \in File, m \in Message : att[f] = m => copies[m] > 0 /\ f \in parts[m]
    /\ \A m \in Message : \A f \in parts[m] \ overtaken : att[f] = m /\ f \notin chosen

\* Bodies written by sends: each is one send's alone, and until the commit
\* nothing else in the hub knows it.
Bodies ==
    /\ \A s, t \in Sender : s # t => OwnBody(s) \cap OwnBody(t) = {}
    /\ \A s \in Sender : OwnBody(s) \cap moved = {}
    /\ \A s \in Sender : \A f \in Kept(s) : att[f] = Absent /\ f \in blob /\ f \notin removing \cup chosen

\* Files without a row: uploads not yet stored, and deletions not yet done.
Rowless ==
    /\ \A f \in moved : att[f] = Absent /\ f \in blob /\ f \notin removing \cup chosen
    /\ \A f \in removing : att[f] = Absent

\* Bytes: what a row or a message keeps is there, and what has no row has
\* somebody to remove it.
Bytes ==
    /\ \A f \in File : att[f] = Unbound => f \in torn \cup swept \cup blob
    /\ \A m \in Message : parts[m] \subseteq torn \cup overtaken \cup blob
    /\ cut \cap blob = {}
    /\ \A f \in blob : att[f] = Absent => \/ f \in moved \cup removing \cup left
                                          \/ \E s \in Sender : f \in Kept(s)

Inv == Bound /\ Bodies /\ Rowless /\ Bytes

LEMMA BodyMovesOn ==
    ASSUME send \in [Sender -> Sends], NEW s \in Sender, NEW x \in Stages,
           send' = [send EXCEPT ![s].stage = x]
    PROVE  /\ \A t \in Sender : OwnBody(t)' = OwnBody(t)
           /\ \A t \in Sender \ {s} : Kept(t)' = Kept(t)
           /\ Kept(s)' = IF x \in {"ready", "locked"} THEN OwnBody(s) ELSE {}
BY StageOnly DEF OwnBody, Kept

LEMMA BodyEnds ==
    ASSUME send \in [Sender -> Sends], NEW s \in Sender, send' = [send EXCEPT ![s] = Idle]
    PROVE  /\ \A t \in Sender \ {s} : OwnBody(t)' = OwnBody(t) /\ Kept(t)' = Kept(t)
           /\ OwnBody(s)' = {} /\ Kept(s)' = {}
BY EndsIdle DEF OwnBody, Kept

LEMMA BodyBegins ==
    ASSUME send \in [Sender -> Sends], NEW s \in Sender, NEW m \in Message, NEW fs \in SUBSET File,
           NEW f \in File \cup {NoFile}, NEW own \in BOOLEAN, Begin(s, m, fs, f, own)
    PROVE  /\ \A t \in Sender \ {s} : OwnBody(t)' = OwnBody(t) /\ Kept(t)' = Kept(t)
           /\ OwnBody(s)' = (IF own THEN {f} ELSE {}) /\ Kept(s)' = OwnBody(s)'
<1> DEFINE r == [stage |-> "ready", msg |-> m, files |-> fs, body |-> f, own |-> own]
<1>1. r \in Sends
  BY DEF Sends, Stages
<1>2. send' = [send EXCEPT ![s] = r]
  BY DEF Begin
<1>3. r.body = f /\ r.own = own /\ r.stage = "ready"
  OBVIOUS
<1> HIDE DEF r
<1>4. send'[s] = r /\ \A t \in Sender \ {s} : send'[t] = send[t]
  BY <1>1, <1>2, Begins
<1> QED
  BY <1>3, <1>4 DEF OwnBody, Kept

LEMMA BodyStays ==
    ASSUME send' = send
    PROVE  \A t \in Sender : OwnBody(t)' = OwnBody(t) /\ Kept(t)' = Kept(t)
BY DEF OwnBody, Kept

\* What the steps below take from the types.
LEMMA FileFacts ==
    ASSUME Typed
    PROVE  /\ SetsTyped /\ RowsTyped /\ send \in [Sender -> Sends]
           /\ \A s \in Sender : OwnBody(s) \subseteq minted /\ Kept(s) \subseteq OwnBody(s)
           /\ Unbound \notin Message /\ Absent \notin Message /\ Unbound # Absent
<1>1. SetsTyped /\ RowsTyped /\ send \in [Sender -> Sends] /\ \A s \in Sender : Names(s)
  BY TypedParts
<1>2. ASSUME NEW s \in Sender, send[s].own PROVE send[s].body \in Named(s)
  BY <1>1, <1>2, FilesAssumption DEF Named, Names
<1> QED
  BY <1>1, <1>2, FilesAssumption DEF OwnBody, Kept, Names

FilesInv == Bound /\ Bodies /\ Rowless /\ Bytes

LEMMA UploadInv ==
    ASSUME Typed, FilesInv, NEW f \in File, UploadMove(f) \/ UploadInsert(f) \/ UploadDropped(f)
    PROVE  FilesInv'
<1>1. /\ \A t \in Sender : OwnBody(t)' = OwnBody(t) /\ Kept(t)' = Kept(t)
      /\ UNCHANGED <<copies, parts, removing, chosen, cut, overtaken, left, swept>>
  BY BodyStays DEF UploadMove, UploadInsert, UploadDropped, tables, history, sweep
<1>2. /\ SetsTyped /\ RowsTyped
      /\ \A s \in Sender : OwnBody(s) \subseteq minted /\ Kept(s) \subseteq OwnBody(s)
      /\ Unbound \notin Message /\ Absent \notin Message /\ Unbound # Absent
  BY FileFacts
<1> USE DEF FilesInv, SetsTyped, RowsTyped
<1>3. CASE UploadMove(f)
  <2>1. f \notin minted /\ moved' = moved \cup {f} /\ blob' = blob \cup {f} /\ att' = att /\ torn' = torn
        /\ att[f] = Absent
    BY <1>2, <1>3 DEF UploadMove, tables, history
  <2>2. Bound'
    BY <1>1, <2>1 DEF Bound
  <2>3. Bodies'
    BY <1>1, <1>2, <2>1 DEF Bodies
  <2>4. Rowless'
    BY <1>1, <1>2, <2>1 DEF Rowless
  <2>5. Bytes'
    BY <1>1, <1>2, <2>1 DEF Bytes
  <2> QED
    BY <2>2, <2>3, <2>4, <2>5
<1>4. CASE UploadInsert(f)
  <2>1. f \in moved /\ moved' = moved \ {f} /\ att' = [att EXCEPT ![f] = Unbound] /\ UNCHANGED <<blob, torn>>
        /\ att[f] = Absent /\ f \in blob /\ f \notin removing \cup chosen
    BY <1>4 DEF UploadInsert, Rowless
  <2>2. Bound'
    BY <1>1, <1>2, <2>1 DEF Bound
  <2>3. Bodies'
    BY <1>1, <1>2, <2>1 DEF Bodies
  <2>4. Rowless'
    BY <1>1, <1>2, <2>1 DEF Rowless
  <2>5. Bytes'
    BY <1>1, <1>2, <2>1 DEF Bytes
  <2> QED
    BY <2>2, <2>3, <2>4, <2>5
<1>5. CASE UploadDropped(f)
  <2>1. f \in moved /\ moved' = moved \ {f} /\ blob' = blob \ {f}
        /\ \/ att' = [att EXCEPT ![f] = Unbound] /\ torn' = torn \cup {f}
           \/ UNCHANGED <<att, torn>>
    BY <1>5 DEF UploadDropped
  <2>6. att[f] = Absent /\ f \in blob /\ f \notin removing \cup chosen /\ torn \subseteq torn'
    BY <2>1 DEF Rowless
  <2>7. \A g \in File \ {f} : att'[g] = att[g]
    BY <1>2, <2>1
  <2>8. att'[f] \in {Absent, Unbound} /\ (att'[f] = Unbound => f \in torn')
    BY <1>2, <2>1, <2>6
  <2>9. \A m \in Message : f \notin parts[m] \ overtaken
    BY <1>2, <2>6 DEF Bound
  <2>2. Bound'
    BY <1>1, <1>2, <2>7, <2>8, <2>9 DEF Bound
  <2>3. Bodies'
    BY <1>1, <1>2, <2>1, <2>7 DEF Bodies
  <2>4. Rowless'
    BY <1>1, <1>2, <2>1, <2>6, <2>7 DEF Rowless
  <2>5. Bytes'
    BY <1>1, <1>2, <2>1, <2>6, <2>7, <2>8, <2>9 DEF Bytes
  <2> QED
    BY <2>2, <2>3, <2>4, <2>5
<1> QED
  BY <1>3, <1>4, <1>5

LEMMA BeginInv ==
    ASSUME Typed, FilesInv, NEW s \in Sender, NEW m \in Message, NEW fs \in SUBSET uploaded,
           \/ SendShort(s, m, fs)
           \/ \E f \in File : SendLong(s, m, fs, f) \/ SendUploaded(s, m, fs, f)
    PROVE  FilesInv'
<1>2. /\ SetsTyped /\ RowsTyped /\ send \in [Sender -> Sends]
      /\ \A t \in Sender : OwnBody(t) \subseteq minted /\ Kept(t) \subseteq OwnBody(t)
      /\ Unbound \notin Message /\ Absent \notin Message /\ Unbound # Absent
  BY FileFacts
<1> USE DEF FilesInv, SetsTyped, RowsTyped
<1>1. UNCHANGED <<att, moved, copies, parts, removing, chosen, cut, overtaken, left, swept, torn>>
  BY DEF SendShort, SendLong, SendUploaded, tables, history, sweep
<1>3. Kept(s) = {}
  BY DEF Kept, SendShort, SendLong, SendUploaded
<1>4. PICK f \in File \cup {NoFile}, own \in BOOLEAN :
        /\ Begin(s, m, fs, f, own)
        /\ IF own THEN f \in File \ minted /\ blob' = blob \cup {f} ELSE blob' = blob
  BY DEF SendShort, SendLong, SendUploaded
<1>5. /\ \A t \in Sender \ {s} : OwnBody(t)' = OwnBody(t) /\ Kept(t)' = Kept(t)
      /\ OwnBody(s)' = (IF own THEN {f} ELSE {}) /\ Kept(s)' = OwnBody(s)'
  BY <1>2, <1>4, BodyBegins
<1>6. own => att[f] = Absent /\ f \notin moved \cup removing \cup chosen \cup cut /\ \A t \in Sender : f \notin OwnBody(t)
  BY <1>2, <1>4
<1>7. Bound' /\ Rowless'
  BY <1>1, <1>2, <1>4 DEF Bound, Rowless
<1>8. Bodies'
  BY <1>1, <1>2, <1>4, <1>5, <1>6 DEF Bodies
<1>9. Bytes'
  <2>1. \A g \in blob' : att'[g] = Absent => \/ g \in moved' \cup removing' \cup left'
                                             \/ \E t \in Sender : g \in Kept(t)'
    BY <1>1, <1>3, <1>4, <1>5 DEF Bytes
  <2> QED
    BY <1>1, <1>2, <1>4, <1>6, <2>1 DEF Bytes
<1> QED
  BY <1>7, <1>8, <1>9

LEMMA LockInv ==
    ASSUME Typed, FilesInv, NEW s \in Sender, SendLock(s)
    PROVE  FilesInv'
<1>1. /\ UNCHANGED <<att, moved, copies, parts, removing, chosen, cut, overtaken, left, swept, torn, blob>>
      /\ send' = [send EXCEPT ![s].stage = "locked"] /\ send[s].stage = "ready"
  BY DEF SendLock, history, sweep
<1>2. \A t \in Sender : OwnBody(t)' = OwnBody(t) /\ Kept(t)' = Kept(t)
  <2>1. Kept(s) = OwnBody(s)
    BY <1>1 DEF Kept
  <2> QED
    BY <1>1, <2>1, FileFacts, BodyMovesOn DEF Stages
<1> QED
  BY <1>1, <1>2 DEF FilesInv, Bound, Bodies, Rowless, Bytes

LEMMA CommitInv ==
    ASSUME Typed, FilesInv, NEW s \in Sender, SendCommit(s)
    PROVE  FilesInv'
<1> DEFINE m == send[s].msg
<1>1. /\ UNCHANGED <<moved, removing, chosen, cut, left, swept, torn, blob>>
      /\ send' = [send EXCEPT ![s].stage = "committed"] /\ send[s].stage = "locked"
      /\ copies[m] = 0 /\ Accepted(s)
      /\ att' = [f \in File |-> IF f \in Named(s) THEN m ELSE att[f]]
      /\ \E sides \in {1, 2} : copies' = [copies EXCEPT ![m] = sides]
      /\ parts' = [parts EXCEPT ![m] = Named(s)]
      /\ overtaken' = overtaken \cup (Named(s) \cap (chosen \cup swept))
  BY DEF SendCommit, sweep
<1>2. /\ SetsTyped /\ RowsTyped /\ send \in [Sender -> Sends]
      /\ \A t \in Sender : OwnBody(t) \subseteq minted /\ Kept(t) \subseteq OwnBody(t)
      /\ Unbound \notin Message /\ Absent \notin Message /\ Unbound # Absent
  BY FileFacts
<1>3. m \in Message /\ Named(s) \subseteq File
  BY <1>1, <1>2, TypedParts DEF Names, SetsTyped
<1>4. /\ \A t \in Sender : OwnBody(t)' = OwnBody(t)
      /\ \A t \in Sender \ {s} : Kept(t)' = Kept(t)
      /\ Kept(s) = OwnBody(s) /\ Kept(s)' = {}
  BY <1>1, <1>2, BodyMovesOn DEF Stages, Kept
\* What the send names is unbound, or its own body.
<1>5. \A f \in Named(s) : att[f] = Unbound \/ (f \in OwnBody(s) /\ att[f] = Absent /\ f \in blob)
  <2>1. \A f \in OwnBody(s) : att[f] = Absent /\ f \in blob
    BY <1>4 DEF FilesInv, Bodies
  <2>2. \A f \in Named(s) : f \in Wanted(s) \/ f \in OwnBody(s)
    BY DEF Named, Wanted, OwnBody
  <2>3. \A f \in Named(s) : att[f] # m
    BY <1>1, <1>3 DEF FilesInv, Bound
  <2> QED
    BY <1>1, <2>1, <2>2, <2>3 DEF Accepted, Bindable
<1>13. OwnBody(s) \subseteq Named(s)
  <2>1. send[s].own => send[s].body \in File
    BY TypedParts DEF Names
  <2> QED
    BY <2>1, FilesAssumption DEF OwnBody, Named
<1> HIDE DEF m
<1> USE DEF FilesInv, SetsTyped, RowsTyped
<1>6. /\ copies' \in [Message -> Nat] /\ copies'[m] > 0 /\ \A k \in Message \ {m} : copies'[k] = copies[k]
      /\ parts'[m] = Named(s) /\ \A k \in Message \ {m} : parts'[k] = parts[k]
  BY <1>1, <1>2, <1>3
<1>7. \A f \in File : att'[f] = IF f \in Named(s) THEN m ELSE att[f]
  BY <1>1
<1>8. \A k \in Message \ {m} : \A f \in Named(s) : f \notin parts[k] \ overtaken
  BY <1>2, <1>3, <1>5 DEF Bound
<1>9. Bound'
  <2>1. \A k \in Message : copies'[k] = 0 => parts'[k] = {}
    BY <1>6 DEF Bound
  <2>2. \A f \in File, k \in Message : att'[f] = k => copies'[k] > 0 /\ f \in parts'[k]
    BY <1>1, <1>3, <1>6, <1>7 DEF Bound
  <2>3. \A k \in Message : \A f \in parts'[k] \ overtaken' : att'[f] = k /\ f \notin chosen'
    <3>1. \A f \in Named(s) \ overtaken' : att'[f] = m /\ f \notin chosen'
      BY <1>1, <1>3, <1>7
    <3>2. ASSUME NEW k \in Message \ {m}, NEW f \in parts[k] \ overtaken' PROVE att'[f] = k /\ f \notin chosen'
      <4>1. f \in parts[k] \ overtaken /\ f \in File
        BY <1>1, <1>2, <3>2
      <4> QED
        BY <1>1, <1>7, <1>8, <4>1 DEF Bound
    <3> QED
      BY <1>6, <3>1, <3>2
  <2> QED
    BY <2>1, <2>2, <2>3 DEF Bound
<1>10. Rowless'
  <2>1. \A f \in Named(s) : f \notin moved \cup removing
    BY <1>2, <1>4, <1>5 DEF Rowless, Bodies
  <2> QED
    BY <1>1, <1>2, <1>7, <2>1 DEF Rowless
<1>11. Bodies'
  <2>1. \A t \in Sender \ {s} : Kept(t) \cap Named(s) = {}
    <3>1. \A t \in Sender \ {s} : Kept(t) \cap OwnBody(s) = {}
      BY <1>2 DEF Bodies
    <3>2. \A t \in Sender \ {s} : \A f \in Kept(t) : att[f] # Unbound
      BY <1>2 DEF Bodies
    <3> QED
      BY <1>5, <3>1, <3>2
  <2> QED
    BY <1>1, <1>2, <1>4, <1>7, <2>1 DEF Bodies
<1>12. Bytes'
  <2>1. \A f \in File : att'[f] = Unbound => f \in torn' \cup swept' \cup blob'
    BY <1>1, <1>2, <1>3, <1>7 DEF Bytes
  <2>2. \A k \in Message : parts'[k] \subseteq torn' \cup overtaken' \cup blob'
    <3>1. Named(s) \subseteq torn \cup overtaken' \cup blob
      BY <1>1, <1>3, <1>5 DEF Bytes
    <3> QED
      BY <1>1, <1>6, <3>1 DEF Bytes
  <2>3. \A f \in blob' : att'[f] = Absent => \/ f \in moved' \cup removing' \cup left'
                                             \/ \E t \in Sender : f \in Kept(t)'
    <3>1. ASSUME NEW f \in blob, att'[f] = Absent
          PROVE  f \in moved \cup removing \cup left \/ \E t \in Sender \ {s} : f \in Kept(t)
      <4>1. f \notin Named(s) /\ att[f] = Absent
        BY <1>2, <1>3, <1>7, <3>1
      <4>2. f \notin Kept(s)
        BY <1>4, <1>13, <4>1
      <4> QED
        BY <4>1, <4>2 DEF Bytes
    <3> QED
      BY <1>1, <1>4, <3>1
  <2> QED
    BY <1>1, <2>1, <2>2, <2>3 DEF Bytes
<1> QED
  BY <1>9, <1>10, <1>11, <1>12

LEMMA EndInv ==
    ASSUME Typed, FilesInv, NEW s \in Sender, SendKeep(s) \/ SendEnds(s) \/ SendDropped(s)
    PROVE  FilesInv'
<1>1. /\ UNCHANGED <<att, moved, copies, parts, removing, chosen, cut, overtaken, left, swept>>
      /\ send' = [send EXCEPT ![s] = Idle]
  BY DEF SendKeep, SendEnds, SendDropped, tables, history, sweep
<1>2. /\ SetsTyped /\ RowsTyped /\ send \in [Sender -> Sends]
      /\ \A t \in Sender : OwnBody(t) \subseteq minted /\ Kept(t) \subseteq OwnBody(t)
      /\ Unbound \notin Message /\ Absent \notin Message /\ Unbound # Absent
  BY FileFacts
<1>3. /\ \A t \in Sender \ {s} : OwnBody(t)' = OwnBody(t) /\ Kept(t)' = Kept(t)
      /\ OwnBody(s)' = {} /\ Kept(s)' = {}
  BY <1>1, <1>2, BodyEnds
<1>4. \/ blob' = blob /\ torn' = torn /\ Kept(s) = {}
      \/ blob' = blob \ OwnBody(s) /\ torn' = torn \cup OwnBody(s) /\ Kept(s) = {}
      \/ blob' = blob \ OwnBody(s) /\ torn' = torn /\ Kept(s) = OwnBody(s)
  BY DEF SendKeep, SendEnds, SendDropped, Kept, history
<1>5. \A t \in Sender \ {s} : OwnBody(t) \cap OwnBody(s) = {}
  BY DEF FilesInv, Bodies
<1>6. \A f \in OwnBody(s) : f \notin moved /\ (f \in torn' \/ f \notin blob \ blob' \/ att[f] = Absent)
  BY <1>4 DEF FilesInv, Bodies
<1> USE DEF FilesInv, SetsTyped, RowsTyped
<1>7. Bound'
  BY <1>1 DEF Bound
<1>8. Rowless'
  BY <1>1, <1>4, <1>6 DEF Rowless
<1>9. Bodies'
  BY <1>1, <1>2, <1>3, <1>4, <1>5 DEF Bodies
<1>10. Bytes'
  <2>1. \A f \in File : att'[f] = Unbound => f \in torn' \cup swept' \cup blob'
    BY <1>1, <1>2, <1>4, <1>6 DEF Bytes
  <2>2. \A k \in Message : parts'[k] \subseteq torn' \cup overtaken' \cup blob'
    BY <1>1, <1>2, <1>4, <1>6 DEF Bytes, Bound
  <2>3. \A f \in blob' : att'[f] = Absent => \/ f \in moved' \cup removing' \cup left'
                                             \/ \E t \in Sender : f \in Kept(t)'
    <3>1. \A f \in blob' : f \notin Kept(s)
      BY <1>4
    <3>2. blob' \subseteq blob
      BY <1>4
    <3> QED
      BY <1>1, <1>3, <3>1, <3>2 DEF Bytes
  <2> QED
    BY <1>1, <1>4, <2>1, <2>2, <2>3 DEF Bytes
<1> QED
  BY <1>7, <1>8, <1>9, <1>10

LEMMA DeleteInv ==
    ASSUME Typed, FilesInv, NEW m \in Message, DeleteCopy(m)
    PROVE  FilesInv'
<1>1. /\ UNCHANGED <<moved, chosen, cut, overtaken, left, swept, torn, blob, send>>
      /\ copies[m] > 0 /\ copies' = [copies EXCEPT ![m] = copies[m] - 1]
      /\ parts' = IF copies[m] = 1 THEN [parts EXCEPT ![m] = {}] ELSE parts
      /\ att' = [f \in File |-> IF f \in Gone(m) THEN Absent ELSE att[f]]
      /\ removing' = removing \cup Gone(m)
  BY DEF DeleteCopy, history, sweep
<1>2. /\ SetsTyped /\ RowsTyped
      /\ \A t \in Sender : OwnBody(t)' = OwnBody(t) /\ Kept(t)' = Kept(t)
      /\ Unbound \notin Message /\ Absent \notin Message /\ Unbound # Absent
  BY <1>1, FileFacts, BodyStays
<1>3. \A f \in File : att'[f] = IF f \in Gone(m) THEN Absent ELSE att[f]
  BY <1>1
<1>4. \A f \in Gone(m) : f \in File /\ att[f] = m /\ copies[m] = 1
  BY DEF Gone, OfMessage
<1> USE DEF FilesInv, SetsTyped, RowsTyped
<1>5. CASE copies[m] # 1
  <2>1. Gone(m) = {} /\ parts' = parts /\ removing' = removing
    BY <1>1, <1>5 DEF Gone
  <2>2. att' = att
    BY <1>1, <1>2, <2>1
  <2>3. \A k \in Message : copies'[k] > 0 <=> copies[k] > 0
    BY <1>1, <1>2, <1>5
  <2>4. \A k \in Message : copies'[k] = 0 <=> copies[k] = 0
    BY <1>1, <1>2, <1>5
  <2> QED
    BY <1>1, <1>2, <2>1, <2>2, <2>3, <2>4 DEF Bound, Bodies, Rowless, Bytes
<1>6. CASE copies[m] = 1
  <2>1. /\ \A f \in File : att[f] = m <=> f \in Gone(m)
        /\ copies'[m] = 0 /\ parts'[m] = {}
        /\ \A k \in Message \ {m} : copies'[k] = copies[k] /\ parts'[k] = parts[k]
    BY <1>1, <1>2, <1>6 DEF Gone, OfMessage
  <2>2. Bound'
    BY <1>1, <1>2, <1>3, <2>1 DEF Bound
  <2>3. Bodies'
    BY <1>1, <1>2, <1>3, <1>4 DEF Bodies
  <2>4. Rowless'
    BY <1>1, <1>2, <1>3, <1>4 DEF Rowless
  <2>5. Bytes'
    <3>1. \A f \in blob' : att'[f] = Absent => \/ f \in moved' \cup removing' \cup left'
                                               \/ \E t \in Sender : f \in Kept(t)'
      BY <1>1, <1>2, <1>3 DEF Bytes
    <3> QED
      BY <1>1, <1>2, <1>3, <2>1, <3>1 DEF Bytes
  <2> QED
    BY <2>2, <2>3, <2>4, <2>5
<1> QED
  BY <1>5, <1>6

LEMMA RemoveInv ==
    ASSUME Typed, FilesInv, DeleteDropped \/ \E f \in File : RemoveFile(f)
    PROVE  FilesInv'
<1>1. /\ UNCHANGED <<att, copies, parts, moved, chosen, cut, overtaken, swept, torn, send>>
      /\ removing' \subseteq removing /\ left \subseteq left'
      /\ blob' \subseteq blob /\ blob \ blob' \subseteq removing
      /\ (removing \ removing') \cap blob' \subseteq left'
  BY DEF RemoveFile, DeleteDropped, tables, history, sweep
<1>2. /\ SetsTyped /\ RowsTyped
      /\ \A t \in Sender : OwnBody(t)' = OwnBody(t) /\ Kept(t)' = Kept(t)
      /\ Unbound \notin Message /\ Absent \notin Message /\ Unbound # Absent
  BY <1>1, FileFacts, BodyStays
<1> USE DEF FilesInv, SetsTyped, RowsTyped
<1>3. Bound'
  BY <1>1 DEF Bound
<1>4. Bodies' /\ Rowless'
  BY <1>1, <1>2 DEF Bodies, Rowless
<1>5. Bytes'
  <2>1. \A f \in removing : att[f] = Absent
    BY DEF Rowless
  <2>2. \A f \in File : att'[f] = Unbound => f \in torn' \cup swept' \cup blob'
    BY <1>1, <1>2, <2>1 DEF Bytes
  <2>3. \A k \in Message : parts'[k] \subseteq torn' \cup overtaken' \cup blob'
    BY <1>1, <1>2, <2>1 DEF Bytes, Bound
  <2>4. \A f \in blob' : att'[f] = Absent => \/ f \in moved' \cup removing' \cup left'
                                             \/ \E t \in Sender : f \in Kept(t)'
    BY <1>1, <1>2 DEF Bytes
  <2> QED
    BY <1>1, <2>2, <2>3, <2>4 DEF Bytes
<1> QED
  BY <1>3, <1>4, <1>5

LEMMA SweepInv ==
    ASSUME Typed, FilesInv, Sweeping
    PROVE  FilesInv'
<1>1. UNCHANGED <<copies, parts, moved, removing, overtaken, left, torn, send>>
  BY DEF Sweeping, SweepChoose, SweepRemove, SweepDelete, tables, history
<1>2. /\ SetsTyped /\ RowsTyped
      /\ \A t \in Sender : OwnBody(t)' = OwnBody(t) /\ Kept(t)' = Kept(t)
      /\ \A t \in Sender : OwnBody(t) \subseteq minted /\ Kept(t) \subseteq OwnBody(t)
      /\ Unbound \notin Message /\ Absent \notin Message /\ Unbound # Absent
  BY <1>1, FileFacts, BodyStays
<1> USE DEF FilesInv, SetsTyped, RowsTyped
<1>3. CASE SweepChoose
  <2>1. /\ \A f \in chosen' : f \in File /\ att[f] = Unbound
        /\ UNCHANGED <<att, blob, cut, swept>> /\ cut = {}
    BY <1>2, <1>3 DEF SweepChoose, ForSweep, tables, history
  <2> QED
    BY <1>1, <1>2, <2>1 DEF Bound, Bodies, Rowless, Bytes
<1>4. ASSUME NEW f \in File, SweepRemove(f) PROVE FilesInv'
  <2>1. /\ f \in chosen /\ cut' = cut \cup {f} /\ blob' = blob \ {f} /\ swept' = swept \cup {f}
        /\ UNCHANGED <<att, chosen>>
    BY <1>4 DEF SweepRemove, tables
  <2> QED
    BY <1>1, <1>2, <2>1 DEF Bound, Bodies, Rowless, Bytes
<1>5. CASE SweepDelete
  <2>1. /\ chosen' = {} /\ cut' = {} /\ cut = chosen /\ blob' = blob /\ swept' = swept
        /\ \A f \in File : att'[f] = IF f \in chosen THEN Absent ELSE att[f]
    BY <1>5 DEF SweepDelete, history
  <2>2. Bound'
    BY <1>1, <1>2, <2>1 DEF Bound
  <2>3. Bodies' /\ Rowless'
    BY <1>1, <1>2, <2>1 DEF Bodies, Rowless
  <2>4. \A f \in blob' : att'[f] = Absent => \/ f \in moved' \cup removing' \cup left'
                                             \/ \E t \in Sender : f \in Kept(t)'
    BY <1>1, <1>2, <2>1 DEF Bytes
  <2>5. Bytes'
    BY <1>1, <1>2, <2>1, <2>4 DEF Bytes
  <2> QED
    BY <2>2, <2>3, <2>5
<1> QED
  BY <1>3, <1>4, <1>5 DEF Sweeping

LEMMA StopInv ==
    ASSUME Typed, FilesInv, Stop
    PROVE  FilesInv'
<1>1. /\ UNCHANGED <<att, copies, parts, blob, torn, swept, overtaken>>
      /\ moved' = {} /\ removing' = {} /\ chosen' = {} /\ cut' = {}
      /\ send' = [t \in Sender |-> Idle]
      /\ left \cup moved \cup removing \subseteq left'
      /\ \A t \in Sender : \A f \in File : f \in OwnBody(t) /\ send[t].stage \in {"ready", "locked"} => f \in left'
  BY DEF Stop
<1>2. /\ SetsTyped /\ RowsTyped
      /\ \A t \in Sender : OwnBody(t) \subseteq minted /\ Kept(t) \subseteq OwnBody(t)
  BY FileFacts
<1>3. \A t \in Sender : OwnBody(t)' = {} /\ Kept(t)' = {}
  BY <1>1 DEF OwnBody, Kept, Idle
<1>4. \A t \in Sender : Kept(t) \subseteq left'
  BY <1>1, <1>2 DEF Kept, SetsTyped
<1> QED
  BY <1>1, <1>2, <1>3, <1>4 DEF FilesInv, Bound, Bodies, Rowless, Bytes

LEMMA FilesStep ==
    ASSUME Typed, FilesInv, [Next]_vars
    PROVE  FilesInv'
<1>1. CASE Uploading
  BY <1>1, UploadInv DEF Uploading
<1>2. ASSUME NEW s \in Sender, Sending(s) PROVE FilesInv'
  BY <1>2, BeginInv, LockInv, CommitInv, EndInv DEF Sending
<1>3. CASE Deleting
  BY <1>3, DeleteInv, RemoveInv DEF Deleting
<1>4. CASE (\E f \in File : Age(f)) \/ UNCHANGED vars
  <2>1. UNCHANGED <<att, moved, copies, parts, removing, chosen, cut, overtaken, left, swept, torn, blob, send>>
    BY <1>4 DEF Age, vars, tables, history, sweep
  <2> QED
    BY <2>1, BodyStays DEF FilesInv, Bound, Bodies, Rowless, Bytes
<1> QED
  BY <1>1, <1>2, <1>3, <1>4, SweepInv, StopInv DEF Next

LEMMA FilesInit == Init => FilesInv
<1> SUFFICES ASSUME Init PROVE FilesInv
  OBVIOUS
<1>1. \A s \in Sender : OwnBody(s) = {} /\ Kept(s) = {}
  BY DEF Init, OwnBody, Kept, Idle
<1> QED
  BY <1>1, FilesAssumption DEF Init, FilesInv, Bound, Bodies, Rowless, Bytes

LEMMA Inductive == Spec => [](Typed /\ FilesInv)
<1>1. Typed /\ FilesInv /\ [Next]_vars => Typed' /\ FilesInv'
  BY TypeStep, FilesStep
<1> QED
  BY <1>1, TypeInit, FilesInit, PTL DEF Spec

(* While one side keeps a copy, a message has every file it names, bound to  *)
(* it and whole, whatever uploads, sends, deletions, hang-ups and restarts   *)
(* come in between; the exceptions are the two the property names.           *)
THEOREM FilesKept == Spec => []MessageHasItsFiles
<1>1. Typed /\ FilesInv => MessageHasItsFiles
  BY TypedParts DEF FilesInv, Bound, Bytes, MessageHasItsFiles, RowsTyped
<1> QED
  BY <1>1, Inductive, PTL

(* A file belongs to one message, and its row goes with that message's.      *)
THEOREM OneMessage == Spec => []FilesBelongOnce
<1>1. Typed /\ FilesInv => FilesBelongOnce
  BY TypedParts DEF FilesInv, Bound, FilesBelongOnce, RowsTyped
<1> QED
  BY <1>1, Inductive, PTL

(* No bytes stay behind without a row, but for a stop of the hub or a client *)
(* that hung up between a deletion's commit and its removal.                 *)
THEOREM LeavesNothing == Spec => []NothingLeftBehind
<1>1. Typed /\ FilesInv => NothingLeftBehind
  <2>1. ASSUME NEW s \in Sender, NEW f \in Kept(s) PROVE f \in Underway
    BY DEF Kept, Underway
  <2> QED
    BY <2>1 DEF FilesInv, Bytes, Underway, NothingLeftBehind
<1> QED
  BY <1>1, Inductive, PTL
=============================================================================
