---------------------------- MODULE MCRestoredHub ----------------------------
(* An instance of RestoredHub for TLC: two messages to one reader.         *)
EXTENDS RestoredHub

Slugs == {1, 2}
Ns == {1, 2}
FromOne == [m \in Ns |-> 1]
ToOne == [m \in Ns |-> 2]
OwnerReader == [x \in Device |-> 2]
Versions1 == [m \in Ns |-> 1]
==============================================================================
