------------------------------- MODULE Commands -------------------------------
(***************************************************************************)
(* All the components that are side by side: one behaviour is one of them, *)
(* and the others are Off.                                                 *)
(***************************************************************************)
EXTENDS DataCommands, ReleaseCommands, Studies

allVars == <<dataCommandVars, releaseCommandVars, studiesVars>>

AllInit == FocusInit /\ DataCommandInit /\ ReleaseCommandInit /\ StudiesInit

AllNext ==
    \/ DataCommandNext /\ UNCHANGED <<releaseCommandVars, studiesVars>>
    \/ ReleaseCommandNext /\ UNCHANGED <<dataCommandVars, studiesVars>>
    \/ StudiesNext /\ UNCHANGED <<dataCommandVars, releaseCommandVars>>

Acquires ==
    DataCommandMoves("data") /\ Data!Step /\ UNCHANGED <<releaseCommandVars, studiesVars>>

Spec == AllInit /\ [][AllNext]_allVars /\ WF_allVars(Acquires)
==============================================================================
