---------------------------- MODULE MCDeployment ----------------------------
(* The two root-owned programs beside the server, model-checked in one run.  *)
(* They share no state: each behaviour is one of the installer with the      *)
(* evidence at rest or one of the evidence with the installer at rest.       *)
EXTENDS InstallerTransaction, AuditEvidence

CONSTANT Parts   \* which of "installer" and "evidence" are explored
VARIABLE part

deploymentVars == <<part, installerVars, evidenceVars>>

Init ==
  /\ part \in Parts
  /\ InstallerInit /\ EvidenceInit
  /\ part = "evidence" => \A t \in Targets : cur[t] = Absent

Next ==
  \/ part = "installer" /\ InstallerNext /\ UNCHANGED <<part, evidenceVars>>
  \/ part = "evidence" /\ EvidenceNext /\ UNCHANGED <<part, installerVars>>

\* The operator's approvals are explored once an archive may have been pruned.
ApprovedLate == approved.resets \cup approved.heads # {} => rotations > RetainSegments

\* A running installer goes on, and the operator runs --recover again.
Spec ==
  /\ Init /\ [][Next]_deploymentVars
  /\ WF_installerVars(part = "installer" /\ InstallerSteps)
=============================================================================
