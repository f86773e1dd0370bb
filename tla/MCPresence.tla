------------------------------ MODULE MCPresence ------------------------------
(* A small instance of Presence.                                           *)
EXTENDS Presence
=============================================================================
