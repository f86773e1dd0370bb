------------------------------ MODULE MCCustody ------------------------------
(* Small instances of Custody: the mail of "s" to "r".                      *)
EXTENDS Custody, TLC

CONSTANTS Laptop, Phone, Desk1, Desk2

Addresses == {"s", "r"}
FromS == [m \in Mail |-> "s"]
ToR == [m \in Mail |-> "r"]
ROwns == [c \in Poller \cup Device |-> IF c \in {Desk1, Desk2} THEN "s" ELSE "r"]

DeskSymmetry == Permutations({Desk1, Desk2})
=============================================================================
