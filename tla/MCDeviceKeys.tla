---------------------------- MODULE MCDeviceKeys ----------------------------
(* Small instances of DeviceKeys.                                           *)
EXTENDS DeviceKeys, TLC

CONSTANTS d1, d2, d3, k1, k2

\* Each device makes one key; or two of them make another as well, and the
\* third signs in with the shared secret.
OneEach == Device \X {k1}
TwoChange == {d1, d2} \X {k1, k2}

DeviceSymmetry == Permutations({d2, d3})
KeySymmetry == Permutations({k1, k2})
=============================================================================
