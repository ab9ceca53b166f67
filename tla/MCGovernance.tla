----------------------------- MODULE MCGovernance -----------------------------
(***************************************************************************)
(* Two versions of the configuration and code of training.  At most one is *)
(* weak or leaky, so that candidates are registered of either and of both. *)
(***************************************************************************)
EXTENDS Governance

MCFlaws == {f \in [Versions -> {"none", "weak", "leaky"}] : \E v \in Versions : f[v] = "none"}
=============================================================================
