------------------------------- MODULE MCPush -------------------------------
(* Small instances of Push: two endpoints of one host and one of another.  *)
EXTENDS Push, TLC

CONSTANTS ea, eb, ec, d1, d2

Hosts == [e \in Endpoint |-> IF e = ec THEN "h2" ELSE "h1"]
=============================================================================
