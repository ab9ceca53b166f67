----------------------------- MODULE DemoFactory -----------------------------
(***************************************************************************)
(* demo/factory.py, dashboard/demo_package.py and dashboard/bootstrap.py:  *)
(* how the dashboard's demo bundle is prepared.                            *)
(*                                                                         *)
(* prepare_dashboard_demo() runs the whole pipeline in a scratch directory *)
(* named after the seed, then empties the bundle's directory and moves the *)
(* staged files into it one by one.  `credlens demo prepare` calls it, and *)
(* so does every dashboard page that finds no valid bundle; nothing keeps  *)
(* two of them apart, and any of them may be killed.                       *)
(*                                                                         *)
(* The content of a bundle is a function of its seed, so a file is         *)
(* represented by the seed it was made from; 0 is content this factory did *)
(* not make (the tracked files, or `credlens dashboard export-demo`).      *)
(***************************************************************************)
EXTENDS Directory, Integers

CONSTANTS
    Jobs,           \* pages and commands that may be under way at once
    Seeds,
    DefaultSeed,    \* the seed pages prepare with
    Tables,         \* tables of the package
    MaxKills        \* bound: jobs killed

ASSUME DemoAssumption ==
    /\ Seeds \subseteq Nat \ {0}
    /\ DefaultSeed \in Seeds
    /\ MaxKills \in Nat
    /\ Tables \cap {"manifest", "insights", "marker"} = {}

Foreign == 0
PackageFiles == Tables \cup {"manifest", "insights"}
BundleFiles == PackageFiles \cup {"marker"}

VARIABLES
    bundle,     \* the directory the dashboard reads
    scratch,    \* scratch[s]: the staging directory of seed s
    job,        \* job[p]: where p stands, and how its latest run ended
    kills,      \* jobs killed so far
    raced       \* whether two jobs were ever under way together

vars == <<bundle, scratch, job, kills, raced>>

NoJob == [pc |-> "idle", seed |-> 0, page |-> FALSE, children |-> {}, result |-> "none"]

Init ==
    /\ bundle \in {NoDir, Dir(<<>>), Complete({"manifest", "insights"}, Foreign),
                   Complete(PackageFiles, Foreign)}
    /\ scratch = [s \in Seeds |-> NoDir]
    /\ job = [p \in Jobs |-> NoJob]
    /\ kills = 0
    /\ raced = FALSE

Idle(p) == job[p].pc = "idle"

Goes(p, pc) == job' = [job EXCEPT ![p].pc = pc]
Ends(p, result) == job' = [job EXCEPT ![p].pc = "idle", ![p].children = {}, ![p].result = result]

\* An exception inside the try block: the scratch directory goes, then it is raised.
Fails(p, result) ==
    job' = [job EXCEPT ![p].pc = "cleanup", ![p].children = {}, ![p].result = result]

Begins(p, seed, page, pc) ==
    /\ job' = [job EXCEPT ![p] = [pc |-> pc, seed |-> seed, page |-> page,
                                  children |-> {}, result |-> "none"]]
    /\ raced' = (raced \/ \E q \in Jobs \ {p} : ~Idle(q))

Seed(p) == job[p].seed
Scratch(p) == scratch[Seed(p)]

-----------------------------------------------------------------------------
(***************************************************************************)
(* The start of a command, or of a page.                                   *)
(***************************************************************************)

\* validate_demo_package(): every table the manifest names is there and hashes
\* to what it says.  insights.yml is not looked at.
Validates ==
    /\ "manifest" \in DOMAIN bundle.files
    /\ \A t \in Tables : t \in DOMAIN bundle.files
                         /\ bundle.files[t] = bundle.files["manifest"]

MarkedFor(seed) == "marker" \in DOMAIN bundle.files /\ bundle.files["marker"] = seed

\* A slip: the marker is taken for the bundle.
MarkedIsEnough(seed) == MarkedFor(seed)

CompleteAndMatching(seed) == MarkedFor(seed) /\ Validates

\* `credlens demo prepare`
Prepare(p) ==
    /\ Idle(p)
    /\ \E seed \in Seeds, force \in BOOLEAN :
          IF ~force /\ CompleteAndMatching(seed)
          THEN /\ job' = [job EXCEPT ![p] = [NoJob EXCEPT !.seed = seed, !.result = "skipped"]]
               /\ raced' = (raced \/ \E q \in Jobs \ {p} : ~Idle(q))
          ELSE Begins(p, seed, FALSE, "clear")
    /\ UNCHANGED <<bundle, scratch, kills>>

\* _ensure_demo_bundle_exists()
OpenPage(p) ==
    /\ Idle(p)
    /\ Begins(p, DefaultSeed, TRUE, IF Validates THEN "check" ELSE "clear")
    /\ UNCHANGED <<bundle, scratch, kills>>

\* validate_dashboard_source(), and a page or a BootstrapError.
CheckPage(p) ==
    /\ job[p].pc = "check"
    /\ Ends(p, IF Validates THEN "shown" ELSE "refused")
    /\ UNCHANGED <<bundle, scratch, kills, raced>>

-----------------------------------------------------------------------------
(***************************************************************************)
(* The pipeline in its scratch directory.                                  *)
(***************************************************************************)
ClearScratch(p) ==
    /\ job[p].pc = "clear"
    /\ scratch' = [scratch EXCEPT ![Seed(p)] = NoDir]
    /\ Goes(p, "mkdir")
    /\ UNCHANGED <<bundle, kills, raced>>

\* mkdir() refuses an existing directory, outside the try block.
MakeScratch(p) ==
    /\ job[p].pc = "mkdir"
    /\ IF Scratch(p).exists
       THEN Ends(p, "traceback") /\ UNCHANGED scratch
       ELSE scratch' = [scratch EXCEPT ![Seed(p)] = Dir(<<>>)] /\ Goes(p, "pipeline")
    /\ UNCHANGED <<bundle, kills, raced>>

\* A slip: the marker is not among the staged files.
StagedUnmarked(seed) == Complete(PackageFiles, seed)

Staged(seed) == Complete(BundleFiles, seed)

\* The pipeline ends: with a staged bundle, with a build that did not succeed, or
\* with any exception when another job of its seed took the directory away.
Package(p) ==
    /\ job[p].pc = "pipeline"
    /\ Scratch(p).exists
    /\ scratch' = [scratch EXCEPT ![Seed(p)] = Staged(Seed(p))]
    /\ Goes(p, "swap")
    /\ UNCHANGED <<bundle, kills, raced>>

Disturbed(p) ==
    \/ ~Scratch(p).exists
    \/ \E q \in Jobs \ {p} : Seed(q) = Seed(p) /\ job[q].pc = "pipeline"

PipelineFails(p) ==
    /\ job[p].pc = "pipeline"
    /\ \/ Fails(p, "refused")
       \/ Disturbed(p) /\ Fails(p, "traceback")
    /\ UNCHANGED <<bundle, scratch, kills, raced>>

-----------------------------------------------------------------------------
(***************************************************************************)
(* _atomic_replace_dir(): the final directory is emptied and filled again. *)
(***************************************************************************)

\* A slip: whatever is in the directory may be replaced.
MayReplaceAnything == TRUE

MayReplace == DOMAIN bundle.files = {} \/ "marker" \in DOMAIN bundle.files

StartSwap(p) ==
    /\ job[p].pc = "swap"
    /\ MayReplace
    /\ job' = [job EXCEPT ![p].pc = "empty", ![p].children = DOMAIN bundle.files]
    /\ bundle' = [bundle EXCEPT !.exists = TRUE]
    /\ UNCHANGED <<scratch, kills, raced>>

RefuseSwap(p) ==
    /\ job[p].pc = "swap"
    /\ ~MayReplace
    /\ Fails(p, "refused")
    /\ UNCHANGED <<bundle, scratch, kills, raced>>

Without(dir, f) == Dir([g \in DOMAIN dir.files \ {f} |-> dir.files[g]])
With(dir, f, v) == Dir([g \in DOMAIN dir.files \cup {f} |-> IF g = f THEN v ELSE dir.files[g]])

\* The children were listed before, in any order; one may be gone by now.
DeleteChild(p) ==
    /\ job[p].pc = "empty"
    /\ \E f \in job[p].children :
          IF f \in DOMAIN bundle.files
          THEN /\ bundle' = Without(bundle, f)
               /\ job' = [job EXCEPT ![p].children = @ \ {f}]
          ELSE Fails(p, "traceback") /\ UNCHANGED bundle
    /\ UNCHANGED <<scratch, kills, raced>>

StartMove(p) ==
    /\ job[p].pc = "empty"
    /\ job[p].children = {}
    /\ IF Scratch(p).exists
       THEN job' = [job EXCEPT ![p].pc = "move", ![p].children = DOMAIN Scratch(p).files]
       ELSE Fails(p, "traceback")
    /\ UNCHANGED <<bundle, scratch, kills, raced>>

MoveChild(p) ==
    /\ job[p].pc = "move"
    /\ \E f \in job[p].children :
          IF f \in DOMAIN Scratch(p).files
          THEN /\ bundle' = With(bundle, f, Scratch(p).files[f])
               /\ scratch' = [scratch EXCEPT ![Seed(p)] = Without(Scratch(p), f)]
               /\ job' = [job EXCEPT ![p].children = @ \ {f}]
          ELSE Fails(p, "traceback") /\ UNCHANGED <<bundle, scratch>>
    /\ UNCHANGED <<kills, raced>>

\* staging_dir.rmdir()
FinishMove(p) ==
    /\ job[p].pc = "move"
    /\ job[p].children = {}
    /\ Fails(p, IF Scratch(p).exists /\ DOMAIN Scratch(p).files = {} THEN "done" ELSE "traceback")
    /\ UNCHANGED <<bundle, scratch, kills, raced>>

\* The finally clause; rmtree() of a directory that is gone raises as well.
Cleanup(p) ==
    /\ job[p].pc = "cleanup"
    /\ scratch' = [scratch EXCEPT ![Seed(p)] = NoDir]
    /\ IF ~Scratch(p).exists THEN Ends(p, "traceback")
       ELSE IF job[p].page /\ job[p].result = "done" THEN Goes(p, "check")
       ELSE Ends(p, job[p].result)
    /\ UNCHANGED <<bundle, kills, raced>>

Kill(p) ==
    /\ ~Idle(p)
    /\ kills < MaxKills
    /\ kills' = kills + 1
    /\ Ends(p, "killed")
    /\ UNCHANGED <<bundle, scratch, raced>>

Next ==
    \E p \in Jobs :
        \/ Prepare(p) \/ OpenPage(p) \/ CheckPage(p)
        \/ ClearScratch(p) \/ MakeScratch(p) \/ Package(p) \/ PipelineFails(p)
        \/ StartSwap(p) \/ RefuseSwap(p) \/ DeleteChild(p)
        \/ StartMove(p) \/ MoveChild(p) \/ FinishMove(p)
        \/ Cleanup(p) \/ Kill(p)

Spec == Init /\ [][Next]_vars

-----------------------------------------------------------------------------
(***************************************************************************)
(* Properties.                                                             *)
(***************************************************************************)
\* "Never a recursive delete of unrecognized content": however many jobs race
\* and are killed, what this factory did not make is neither deleted nor replaced.
ForeignKept ==
    [][\A f \in DOMAIN bundle.files : bundle.files[f] = Foreign =>
          f \in DOMAIN bundle'.files /\ bundle'.files[f] = Foreign]_bundle

\* Idempotency: a preparation that returns, because it did its work or because
\* it found it done, leaves the tables, the manifest and the marker of its own
\* seed, whatever killed jobs left before.  (Jobs that race are another matter.)
PreparedIsMatching ==
    [][~raced' => \A p \in Jobs :
          job'[p].pc = "idle" /\ job'[p].result \in {"done", "skipped"} /\ job'[p] # job[p] =>
              \A f \in BundleFiles \ {"insights"} :
                  f \in DOMAIN bundle'.files /\ bundle'.files[f] = job'[p].seed]_vars

\* Until a job is killed or two race, the directory is, between jobs, what it
\* was before the factory ran or one whole bundle, also after jobs that failed.
WholeBetweenJobs ==
    ~raced /\ kills = 0 /\ (\A p \in Jobs : Idle(p)) =>
        \/ DOMAIN bundle.files = {}
        \/ \A f \in DOMAIN bundle.files : bundle.files[f] = Foreign
        \/ \E s \in Seeds : bundle = Complete(BundleFiles, s)

\* bootstrap.py: a page raises BootstrapError for anything that should stop it
\* from rendering and never lets a stack trace reach the user.
NoTraceback == \A p \in Jobs : job[p].page => job[p].result # "traceback"
=============================================================================
