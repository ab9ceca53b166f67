---------------------------- MODULE PublishedRuns ----------------------------
(***************************************************************************)
(* What the generator promises to whoever reads data/synthetic/: a run     *)
(* appears whole, generated by one version of the code and validated; it   *)
(* may lose its files one by one, and only once it is gone may it appear   *)
(* again; versions only go up.                                             *)
(*                                                                         *)
(* The content of a run is a function of its id and of the version of the  *)
(* generator's code, so a file is represented by that version.             *)
(***************************************************************************)
EXTENDS Directory, Integers

CONSTANTS
    Runs,       \* run ids of one seed, scale and configuration
    Tables,     \* operational tables of a run
    MaxCode,    \* bound: versions of the generator's code
    Valid       \* Valid[r][v]: run r as version v generates it passes validation

ASSUME PublishedAssumption ==
    /\ MaxCode \in Nat \ {0}
    /\ "manifest" \notin Tables
    /\ Valid \in [Runs -> [1..MaxCode -> BOOLEAN]]

OpFiles == Tables \cup {"manifest"}

VARIABLES
    code,       \* version of the installed generator
    op          \* op[r]: the run's final operational directory

publishedVars == <<code, op>>

PublishedInit ==
    /\ code = 1
    /\ op = [r \in Runs |-> NoDir]

NewVersion ==
    /\ code < MaxCode
    /\ code' = code + 1
    /\ UNCHANGED op

Appear(r) ==
    /\ ~op[r].exists
    /\ Valid[r][code]
    /\ op' = [op EXCEPT ![r] = Complete(OpFiles, code)]
    /\ UNCHANGED code

Shrink(r) ==
    /\ op[r].exists
    /\ \E d \in RemoveOne(op[r]) : op' = [op EXCEPT ![r] = d]
    /\ UNCHANGED code

PublishedNext ==
    \/ NewVersion
    \/ \E r \in Runs : Appear(r) \/ Shrink(r)

PublishedSpec == PublishedInit /\ [][PublishedNext]_publishedVars
=============================================================================
