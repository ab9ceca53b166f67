------------------------------ MODULE MCWarehouse ------------------------------
(***************************************************************************)
(* A suite of a baseline and one scenario, of two tables each, and two     *)
(* versions of the generator.  The scenario fails validation under the     *)
(* second version.                                                         *)
(***************************************************************************)
EXTENDS Warehouse

MCRuns == {"baseline", "stress"}
MCValid == [baseline |-> <<TRUE, TRUE>>, stress |-> <<TRUE, FALSE>>]
=============================================================================
