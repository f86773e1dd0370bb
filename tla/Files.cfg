\* The run may end: both messages and all files gone, no id left.
SPECIFICATION Spec
CONSTANTS
    f1 = f1  f2 = f2  m1 = m1  m2 = m2  s1 = s1  s2 = s2
    File = {f1, f2}  Message = {m1, m2}  Sender = {s1, s2}
    NoFile = NoFile  NoMessage = NoMessage  NoSender = NoSender
    Unbound = Unbound  Absent = Absent
    MayAge <- MCF1
    MayHangUp <- MCAll
INVARIANTS MessageHasItsFiles FilesBelongOnce NothingLeftBehind
SYMMETRY MCSymmetry
CHECK_DEADLOCK FALSE
