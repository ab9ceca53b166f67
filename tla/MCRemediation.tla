---------------------------- MODULE MCRemediation ----------------------------
(***************************************************************************)
(* The remediation alone, to show what its decision lets through.  Of two  *)
(* features x and y an audit finds both as they should be, or both exactly *)
(* collinear and the sign of x unstable.                                   *)
(***************************************************************************)
EXTENDS Remediation

MCAudits ==
    {[score |-> 1, vif |-> [x |-> 2, y |-> 2], flips |-> [x |-> 0, y |-> 0]],
     [score |-> 1, vif |-> [x |-> 100, y |-> 100], flips |-> [x |-> 8, y |-> 0]]}

Spec == RemediationInit /\ [][RemediationNext]_remediationVars
==============================================================================
