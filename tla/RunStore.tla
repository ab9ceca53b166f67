------------------------------- MODULE RunStore -------------------------------
(***************************************************************************)
(* generation/orchestrator.py, generation/writers.py and                   *)
(* generation/suite.py: how generated runs reach the disk.                 *)
(*                                                                         *)
(* generate_scenario() writes a run into two private staging directories,  *)
(* one for the operational tables and their manifest and one for the       *)
(* synthetic truth, and promotes them one after the other once validation  *)
(* has passed.  With force it first deletes what is already published.     *)
(* generate_suite() does this for the baseline and every scenario, and     *)
(* writes a suite manifest that names them.                                *)
(*                                                                         *)
(* The content of a run is a function of its id and of the version of the  *)
(* generator's code, so a file is represented by that version; 0 means     *)
(* that there is no such file.  Staging directories are private and        *)
(* discarded by every failure: only the version they hold is kept.         *)
(***************************************************************************)
EXTENDS Directory, Integers, FiniteSets, Sequences

CONSTANTS
    Runs,           \* run ids of one seed, scale and configuration
    SuiteOrder,     \* the runs of the suite, the baseline first
    Tables,         \* operational tables of a run
    MaxCode,        \* bound: versions of the generator's code
    Valid           \* Valid[r][v]: run r as version v generates it passes validation

ASSUME StoreAssumption ==
    /\ MaxCode \in Nat \ {0}
    /\ "manifest" \notin Tables
    /\ SuiteOrder \in Seq(Runs) /\ Len(SuiteOrder) > 0
    /\ Valid \in [Runs -> [1..MaxCode -> BOOLEAN]]

Codes == 1..MaxCode
OpFiles == Tables \cup {"manifest"}
TruthFiles == {"truth_manifest"}

VARIABLES
    code,           \* version of the installed generator
    op,             \* op[r]: the run's final operational directory
    truth,          \* truth[r]: the run's final truth directory
    suiteManifest,  \* the suite manifest: the version it reports on, 0 or -1
    pc,             \* where generate_scenario() stands
    queue,          \* runs this command still has to generate
    force,          \* --force
    suite,          \* the command is generate_suite()
    outcome         \* outcome[r]: how the latest generation of r ended

storeVars == <<code, op, truth, suiteManifest, pc, queue, force, suite, outcome>>

Torn == -1      \* a file truncated by write_text() and not yet rewritten

Init ==
    /\ code = 1
    /\ op = [r \in Runs |-> NoDir]
    /\ truth = [r \in Runs |-> NoDir]
    /\ suiteManifest = 0
    /\ pc = "idle"
    /\ queue = <<>>
    /\ force = FALSE
    /\ suite = FALSE
    /\ outcome = [r \in Runs |-> "none"]

\* The generator changes between two commands.
Upgrade ==
    /\ pc = "idle"
    /\ code < MaxCode
    /\ code' = code + 1
    /\ UNCHANGED <<op, truth, suiteManifest, pc, queue, force, suite, outcome>>

\* `credlens synthetic generate` and `credlens synthetic generate-suite`.
Command(runs, isSuite, forced) ==
    /\ pc = "idle"
    /\ pc' = "begin"
    /\ queue' = runs
    /\ suite' = isSuite
    /\ force' = forced
    /\ UNCHANGED <<code, op, truth, suiteManifest, outcome>>

This == Head(queue)

\* An exception ends the command: the stagings are discarded, the rest of the
\* suite is not generated.
Abort(how) ==
    /\ pc' = "idle"
    /\ queue' = <<>>
    /\ outcome' = [outcome EXCEPT ![This] = how]
    /\ UNCHANGED <<code, suiteManifest, force, suite>>

RefuseExisting ==
    /\ pc = "begin"
    /\ op[This].exists /\ ~force
    /\ Abort("refused")
    /\ UNCHANGED <<op, truth>>

\* Only the operational directory is looked at.
Stage ==
    /\ pc = "begin"
    /\ force \/ ~op[This].exists
    /\ pc' = "staged"
    /\ outcome' = [outcome EXCEPT ![This] = "running"]
    /\ UNCHANGED <<code, op, truth, suiteManifest, queue, force, suite>>

\* A slip: the last run of the queue is taken for one more to come.
AdvancePastEnd ==
    /\ queue' = Tail(queue)
    /\ pc' = IF Len(queue) > 0 THEN "begin" ELSE IF suite THEN "suite" ELSE "idle"
    /\ UNCHANGED <<code, suiteManifest, force, suite>>

\* The command goes on to the next run, to the suite manifest, or ends.
Advance ==
    /\ queue' = Tail(queue)
    /\ pc' = IF Len(queue) > 1 THEN "begin" ELSE IF suite THEN "suite" ELSE "idle"
    /\ UNCHANGED <<code, suiteManifest, force, suite>>

\* A slip: a failed run is promoted like any other.
PassedIgnored(r) == TRUE

Passed(r) == Valid[r][code]

\* A failed run keeps its stagings for diagnosis; the outcome says "failed" and
\* generate_suite() does not look at it.
KeepDiagnostics ==
    /\ pc = "staged"
    /\ ~Passed(This)
    /\ outcome' = [outcome EXCEPT ![This] = "failed"]
    /\ Advance
    /\ UNCHANGED <<op, truth>>

\* A slip: what is published is deleted whether force is given or not.
ClearsTruthUnasked == truth[This].exists

\* A slip: only the operational directory is deleted.
ClearsNoTruth == FALSE

ClearsOp == force /\ op[This].exists
ClearsTruth == force /\ truth[This].exists

ClearOp ==
    /\ pc = "staged"
    /\ Passed(This)
    /\ ClearsOp
    /\ \E d \in RemoveOne(op[This]) : op' = [op EXCEPT ![This] = d]
    /\ UNCHANGED <<code, truth, suiteManifest, pc, queue, force, suite, outcome>>

ClearTruth ==
    /\ pc = "staged"
    /\ Passed(This)
    /\ ~ClearsOp /\ ClearsTruth
    /\ \E d \in RemoveOne(truth[This]) : truth' = [truth EXCEPT ![This] = d]
    /\ UNCHANGED <<code, op, suiteManifest, pc, queue, force, suite, outcome>>

PromoteOp ==
    /\ pc = "staged"
    /\ Passed(This)
    /\ ~ClearsOp /\ ~ClearsTruth
    /\ ~op[This].exists
    /\ op' = [op EXCEPT ![This] = Complete(OpFiles, code)]
    /\ pc' = "promoted"
    /\ UNCHANGED <<code, truth, suiteManifest, queue, force, suite, outcome>>

\* promote_staging() refuses an existing path.
PromoteTruthRefused ==
    /\ pc = "promoted"
    /\ truth[This].exists
    /\ Abort("raised")
    /\ UNCHANGED <<op, truth>>

\* A slip: an existing truth directory is taken for the run's own.
TruthFreeOrThere == TRUE

TruthFree == ~truth[This].exists

TruthPublished(r) ==
    IF truth[r].exists THEN truth[r] ELSE Complete(TruthFiles, code)

PromoteTruth ==
    /\ pc = "promoted"
    /\ TruthFree
    /\ truth' = [truth EXCEPT ![This] = TruthPublished(This)]
    /\ outcome' = [outcome EXCEPT ![This] = "completed"]
    /\ Advance
    /\ UNCHANGED op

\* Path.write_text() truncates the suite manifest and then writes it.
WriteSuiteManifest ==
    /\ pc = "suite"
    /\ suiteManifest' \in {Torn, code}
    /\ pc' = IF suiteManifest' = Torn THEN "suite" ELSE "idle"
    /\ suiteManifest' # suiteManifest \/ pc' = "idle"
    /\ UNCHANGED <<code, op, truth, queue, force, suite, outcome>>

\* The process is killed, or an OSError ends it, between two steps.
Interrupt ==
    /\ pc # "idle"
    /\ pc' = "idle"
    /\ queue' = <<>>
    /\ outcome' = IF pc = "suite" THEN outcome
                  ELSE [outcome EXCEPT ![This] = "interrupted"]
    /\ UNCHANGED <<code, op, truth, suiteManifest, force, suite>>

Generate ==
    \/ Upgrade
    \/ \E forced \in BOOLEAN :
          \/ \E r \in Runs : Command(<<r>>, FALSE, forced)
          \/ Command(SuiteOrder, TRUE, forced)
    \/ RefuseExisting \/ Stage \/ KeepDiagnostics
    \/ ClearOp \/ ClearTruth \/ PromoteOp
    \/ PromoteTruthRefused \/ PromoteTruth
    \/ WriteSuiteManifest \/ Interrupt

StoreSpec == Init /\ [][Generate]_storeVars

-----------------------------------------------------------------------------
(***************************************************************************)
(* Properties.                                                             *)
(***************************************************************************)
IsDir(d, names) ==
    /\ d.exists \in BOOLEAN
    /\ DOMAIN d.files \subseteq (IF d.exists THEN names ELSE {})
    /\ \A f \in DOMAIN d.files : d.files[f] \in 1..code

\* Every variable keeps its type: no file is newer than the generator.
StoreTypeOK ==
    /\ code \in Codes
    /\ DOMAIN op = Runs /\ DOMAIN truth = Runs
    /\ \A r \in Runs : IsDir(op[r], OpFiles) /\ IsDir(truth[r], TruthFiles)
    /\ suiteManifest \in {Torn, 0} \cup 1..code
    /\ pc \in {"idle", "begin", "staged", "promoted", "suite"}
    /\ queue \in Seq(Runs)
    /\ (queue = <<>> <=> pc \in {"idle", "suite"})
    /\ force \in BOOLEAN /\ suite \in BOOLEAN
    /\ outcome \in [Runs -> {"none", "running", "refused", "raised", "interrupted",
                             "failed", "completed"}]

\* writers.py: a run is promoted only once validation succeeds.  Whatever is in
\* a final directory, complete or half deleted, comes from one generation, and
\* one that passed validation.
OnlyValidatedPublished ==
    \A r \in Runs : \A d \in {op[r], truth[r]} : \A f, g \in DOMAIN d.files :
        d.files[f] = d.files[g] /\ Valid[r][d.files[f]]

\* A generation that returned "completed" left the operational tables and the
\* truth of the same generation, both whole, however earlier commands ended.
CompletedRunsPaired ==
    \A r \in Runs : outcome[r] = "completed" =>
        \E v \in Codes : op[r] = Complete(OpFiles, v) /\ truth[r] = Complete(TruthFiles, v)

\* Without --force nothing published is ever changed or removed.
NoForceProtects ==
    [][~force => \A r \in Runs : /\ op[r].exists => op'[r] = op[r]
                                 /\ truth[r].exists => truth'[r] = truth[r]]_storeVars

\* With --force generation never stumbles over what an interrupted command left
\* behind: only a command without it ends in "already exists".
ForceRepairs ==
    [][\A r \in Runs : outcome'[r] # outcome[r] /\ outcome'[r] \in {"refused", "raised"}
                        => ~force]_storeVars

Published == INSTANCE PublishedRuns

\* Step by step, with every interruption, refusal and leftover, the generator
\* shows its readers nothing that PublishedRuns rules out.
ImplementsPublishedRuns == Published!PublishedSpec

\* The docstring of writers.py: "a failed or interrupted run never leaves
\* partial artifacts in the directory a consumer would actually read from".
NoPartialArtifacts ==
    pc = "idle" => \A r \in Runs : op[r].exists => DOMAIN op[r].files = OpFiles
=============================================================================
