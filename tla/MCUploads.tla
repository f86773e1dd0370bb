------------------------------ MODULE MCUploads ------------------------------
(* Model values for Uploads.                                                *)
EXTENDS Uploads, TLC

CONSTANTS r1, r2

MCSymmetry == Permutations({r1, r2})
=============================================================================
