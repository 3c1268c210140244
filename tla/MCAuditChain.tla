---------------------------- MODULE MCAuditChain ----------------------------
(* Instances of AuditChain for TLC. *)
EXTENDS AuditChain, TLC

CONSTANTS loop, supervisor

Symmetry == Permutations(Writers)
=============================================================================
