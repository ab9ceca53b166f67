------------------------------ MODULE Cleanup ------------------------------
(***************************************************************************)
(* The removal of tracked run byproducts from the git index               *)
(* (release/cleanup.py): a manifest of what is tracked is built and        *)
(* reviewed, then executed batch by batch with git rm --cached, in a        *)
(* repository where a developer stages, commits and resets. The same check *)
(* of the index guards the staging dry run (release/staging.py).           *)
(*                                                                         *)
(* The index and the last commit are the sets of paths they track.         *)
(***************************************************************************)
EXTENDS FiniteSets, Integers, Sequences, FiniteSetsExt, SequencesExt

CONSTANTS
    Ephemeral,      \* paths under the cleanup's groups
    Sources,        \* other paths
    Order,          \* Ephemeral, sorted
    BatchSize,      \* paths per git rm
    MaxCommits      \* bound on the developer's commits

CleanupAssumption ==
    /\ Ephemeral \cap Sources = {} /\ ToSet(Order) = Ephemeral
    /\ BatchSize \in Nat \ {0} /\ MaxCommits \in Nat

VARIABLES
    head,       \* paths of the last commit
    index,      \* paths of the index
    plan,       \* the manifest's paths, as reviewed
    commits,    \* commits made, at most MaxCommits
    task        \* the running command

cleanupVars == <<head, index, plan, commits, task>>

Idle == [kind |-> "none", at |-> "idle", left |-> <<>>, verdict |-> "none"]

CleanupInit ==
    /\ head \in {Ephemeral \cup Sources, Ephemeral}
    /\ index = head
    /\ plan = {}
    /\ commits = 0
    /\ task = Idle

Staged == (head \ index) \cup (index \ head)
AtStep(at) == task.at = at
End(verdict) == task' = [task EXCEPT !.at = "idle", !.verdict = verdict]

BuildManifest ==
    /\ AtStep("idle")
    /\ plan' = index \cap Ephemeral
    /\ task' = Idle
    /\ UNCHANGED <<head, index, commits>>

(* What is tracked now must be what was reviewed; a dry run ends here. *)
NoDriftSubset == plan \subseteq index           \* a slip: paths tracked since the review pass
NoDrift == index \cap Ephemeral = plan
Begin ==
    /\ AtStep("idle")
    /\ \E kind \in {"dry_run", "execute"} :
          task' = [kind |-> kind,
                   at |-> IF NoDrift /\ kind = "execute" THEN "clean" ELSE "idle",
                   left |-> <<>>,
                   verdict |-> IF ~NoDrift THEN "refused"
                               ELSE IF kind = "dry_run" THEN "dry" ELSE "none"]
    /\ UNCHANGED <<head, index, plan, commits>>

RefuseDirtyIndex ==
    /\ AtStep("clean")
    /\ IF Staged = {}
       THEN task' = [task EXCEPT !.at = "remove", !.left = SelectSeq(Order, LAMBDA p : p \in plan)]
       ELSE End("refused")
    /\ UNCHANGED <<head, index, plan, commits>>

(* git rm fails as a whole: a path is gone, or the index is locked. *)
RemoveBatch ==
    /\ AtStep("remove") /\ task.left # <<>>
    /\ LET n == IF Len(task.left) < BatchSize THEN Len(task.left) ELSE BatchSize
           batch == ToSet(SubSeq(task.left, 1, n))
       IN  \/ /\ batch \subseteq index
              /\ index' = index \ batch
              /\ task' = [task EXCEPT !.left = SubSeq(@, n + 1, Len(@))]
           \/ End("failed") /\ UNCHANGED index
    /\ UNCHANGED <<head, plan, commits>>

MatchesAtLeast == plan \subseteq Staged         \* a slip: what else is staged is not looked at
MatchesPlan == Staged = plan
(* A path that was already gone from disk is taken for one git removed. *)
Verify ==
    /\ AtStep("remove") /\ task.left = <<>>
    /\ \E onDisk \in BOOLEAN : End(IF onDisk /\ MatchesPlan THEN "done" ELSE "failed")
    /\ UNCHANGED <<head, index, plan, commits>>

(* git add --dry-run, between two looks at the index. *)
DryRunStage ==
    /\ AtStep("idle")
    /\ task' = [Idle EXCEPT !.kind = "stage", !.at = IF Staged = {} THEN "staging" ELSE "idle",
                            !.verdict = IF Staged = {} THEN "none" ELSE "refused"]
    /\ UNCHANGED <<head, index, plan, commits>>
WriteStagingPlan ==
    /\ AtStep("staging")
    /\ End(IF Staged = {} THEN "dry" ELSE "failed")
    /\ UNCHANGED <<head, index, plan, commits>>

(* The developer. While a command runs other files are staged, as by an    *)
(* editor; byproducts and commits are left alone: nothing guards those.    *)
(* A verdict is about the index it was given on.                           *)
Developer ==
    /\ \/ \E p \in IF AtStep("idle") THEN Ephemeral \cup Sources ELSE Sources :
             /\ index' = IF p \in index THEN index \ {p} ELSE index \cup {p}
             /\ UNCHANGED <<head, commits>>
       \/ /\ AtStep("idle") /\ index' = head /\ index # head
          /\ UNCHANGED <<head, commits>>
       \/ /\ AtStep("idle") /\ commits < MaxCommits /\ index # head
          /\ head' = index /\ commits' = commits + 1
          /\ UNCHANGED index
    /\ task' = [task EXCEPT !.verdict = "none"]
    /\ UNCHANGED plan

CleanupNext ==
    \/ BuildManifest \/ Begin \/ RefuseDirtyIndex \/ RemoveBatch \/ Verify
    \/ DryRunStage \/ WriteStagingPlan \/ Developer

------------------------------------------------------------------------------
(* A cleanup that reports success leaves a commit that removes all the     *)
(* byproducts that were tracked, which are those reviewed, and touches     *)
(* nothing else, whatever else was staged while its batches ran            *)
(* and whatever an earlier cleanup that failed half-way left behind.       *)
CleanupIsThePlan ==
    (task.kind = "execute" /\ task.verdict = "done") =>
        /\ index = head \ plan
        /\ plan = head \cap Ephemeral
============================================================================
