----------------------------- MODULE MCChangeLog -----------------------------
(* Instances of ChangeLog for TLC.                                         *)
EXTENDS ChangeLog, TLC

Slugs == {1, 2}
Ns == {1, 2}

\* Two messages to the same reader.
FromOne == [m \in Ns |-> 1]
ToOne == [m \in Ns |-> 2]

\* Only the first message gets a receipt or a translation.
Versions21 == [m \in Ns |-> 3 - m]

Versions1 == [m \in Ns |-> 1]

\* Every device belongs to the reader.
OwnerReader == [x \in Device |-> 2]

\* Writers are interchangeable.
WriterSymmetry == Permutations(Writer)
==============================================================================
