---------------------------- MODULE MCOAuthStore ----------------------------
(* Instances of OAuthStore for TLC. *)
EXTENDS OAuthStore, TLC

CONSTANTS a, b, k1, p0, p1, p2, p3, u1

\* Token requests only differ by name.
PairSymmetry == Permutations(Pairs \ {OldPair})
\* Time runs to its bound only in a behaviour without both a mishap and a command.
OneDisturbanceLate == mishaps > 0 /\ commands > 0 => now < MaxTime
=============================================================================
