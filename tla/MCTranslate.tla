----------------------------- MODULE MCTranslate -----------------------------
(* A small instance of Translate.                                          *)
EXTENDS Translate

CONSTANTS m1
=============================================================================
