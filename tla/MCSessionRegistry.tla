------------------------- MODULE MCSessionRegistry -------------------------
(* Instances of SessionRegistry for TLC. *)
EXTENDS SessionRegistry, TLC

CONSTANTS s1, s2, s3, r1, r2, r3

\* Characters of one, two, three and one byte.
MCStarts == [s \in Sids |-> {1, 2, 4, 7}]

SidSymmetry == Permutations(Sids)
=============================================================================
