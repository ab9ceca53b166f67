------------------------------ MODULE MCRunStore ------------------------------
(***************************************************************************)
(* A suite of a baseline and one scenario, and three versions of the       *)
(* generator.  The scenario fails validation under the second version.     *)
(***************************************************************************)
EXTENDS RunStore

MCRuns == {"baseline", "stress"}
MCSuiteOrder == <<"baseline", "stress">>
MCValid == [baseline |-> <<TRUE, TRUE, TRUE>>, stress |-> <<TRUE, FALSE, TRUE>>]
=============================================================================
