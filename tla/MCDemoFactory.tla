---------------------------- MODULE MCDemoFactory ----------------------------
(***************************************************************************)
(* Two jobs, the default seed and another one, a package of one table.     *)
(***************************************************************************)
EXTENDS DemoFactory, TLC

CONSTANTS j1, j2

MCJobs == {j1, j2}
JobsAreAlike == Permutations(MCJobs)
=============================================================================
