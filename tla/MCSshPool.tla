----------------------------- MODULE MCSshPool -----------------------------
(* Instances of SshPool for TLC. *)
EXTENDS SshPool, TLC

CONSTANTS r1, r2, r3, s1, f1, f2, x1, z1, k1, k2

\* Forwarders only differ by name, and so do keys.
ForwardKeySymmetry == Permutations(Forwarders) \cup Permutations(Keys)
=============================================================================
