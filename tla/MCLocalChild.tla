---------------------------- MODULE MCLocalChild ----------------------------
(* LocalChild and the filter of its monitored children, model-checked in one *)
(* run.  Each behaviour is one of the call with the filter at rest, or one   *)
(* system call's way through the filter with the call at rest: what becomes  *)
(* of a notified call in LocalChild is the same whichever call it is.        *)
EXTENDS LocalChild, SeccompFilter

CONSTANT Parts   \* which of "child" and "filter" are explored
VARIABLE part

\* The system call of a filter at rest.
SomeCall == CHOOSE c \in SysCalls : TRUE

MCInit ==
  /\ part \in Parts
  /\ Init /\ FilterInit
  /\ part = "child" => syscall = SomeCall
  /\ part = "filter" => kind = "exec" /\ armed

MCNext ==
  \/ part = "child" /\ Next /\ UNCHANGED <<part, filterVars>>
  \/ part = "filter" /\ FilterNext /\ UNCHANGED <<part, vars>>

MCSpec ==
  /\ MCInit /\ [][MCNext]_<<part, vars, filterVars>>
  /\ part = "child" => Fairness
=============================================================================
