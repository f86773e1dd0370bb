------------------------------- MODULE MCFiles -------------------------------
(* Model values for Files.                                                  *)
EXTENDS Files, TLC

CONSTANTS f1, f2, m1, m2, s1, s2

MCNone == {}
MCF1 == {f1}
MCS1F1 == {s1, f1}
MCAll == {f1, f2, s1, s2}
MCSymmetry == Permutations({m1, m2}) \cup Permutations({s1, s2})
=============================================================================
