-------------------------- MODULE DemoFactoryProofs --------------------------
(***************************************************************************)
(* Theorems about DemoFactory, for any jobs, seeds, tables and number of   *)
(* kills.                                                                  *)
(*                                                                         *)
(* While no two jobs were ever under way together, the one that is knows   *)
(* the directory it empties and fills: what it has still to delete is what *)
(* is there, and what it has still to move is what is not.  That the       *)
(* marker is moved like any other file, in no particular order, is why it  *)
(* takes this much to say when it can be believed.                         *)
(***************************************************************************)
EXTENDS DemoFactory, TLAPS

-----------------------------------------------------------------------------
(***************************************************************************)
(* The inductive invariant.                                                *)
(***************************************************************************)
Places == {"idle", "clear", "mkdir", "pipeline", "swap", "empty", "move", "cleanup", "check"}
Results == {"none", "skipped", "shown", "refused", "traceback", "done", "killed"}

JobType == [pc : Places, seed : Seeds \cup {0}, page : BOOLEAN,
            children : SUBSET BundleFiles, result : Results]

\* A directory of some of the bundle's files.
IsDir(d) ==
    /\ d = [exists |-> d.exists, files |-> [f \in DOMAIN d.files |-> d.files[f]]]
    /\ DOMAIN d.files \subseteq BundleFiles

JobsOK == job \in [Jobs -> JobType] /\ \A p \in Jobs : ~Idle(p) => Seed(p) \in Seeds

DirsOK ==
    /\ IsDir(bundle)
    /\ \A f \in DOMAIN bundle.files : bundle.files[f] \in Seeds \cup {Foreign}
    /\ DOMAIN scratch = Seeds
    /\ \A s \in Seeds : /\ IsDir(scratch[s])
                        /\ \A f \in DOMAIN scratch[s].files : scratch[s].files[f] = s

DemoTypeOK == JobsOK /\ DirsOK /\ kills \in Nat /\ raced \in BOOLEAN

\* A directory with foreign content has no marker, and nobody is replacing it.
ForeignIsSafe ==
    \A f \in DOMAIN bundle.files : bundle.files[f] = Foreign =>
        /\ "marker" \notin DOMAIN bundle.files
        /\ \A p \in Jobs : job[p].pc \notin {"empty", "move"}

Alone == \A p, q \in Jobs : p # q => Idle(p) \/ Idle(q)

\* How far p is with its bundle.
Progress(p) ==
    /\ job[p].pc \in {"swap", "empty"} => Scratch(p) = Staged(Seed(p))
    /\ job[p].pc = "empty" => bundle = Dir([f \in job[p].children |-> bundle.files[f]])
    /\ job[p].pc = "move" =>
          /\ Scratch(p) = Dir([f \in job[p].children |-> Seed(p)])
          /\ bundle = Dir([f \in BundleFiles \ job[p].children |-> Seed(p)])
    /\ job[p].pc = "cleanup" =>
          /\ job[p].result # "skipped"
          /\ job[p].result = "done" => bundle = Complete(BundleFiles, Seed(p))

\* Also what a killed job leaves is of one bundle.
OneContent == \A f, g \in DOMAIN bundle.files : bundle.files[f] = bundle.files[g]

Whole ==
    \/ DOMAIN bundle.files = {}
    \/ \A f \in DOMAIN bundle.files : bundle.files[f] = Foreign
    \/ \E s \in Seeds : bundle = Complete(BundleFiles, s)

DemoInv ==
    /\ DemoTypeOK
    /\ ForeignIsSafe
    /\ ~raced => Alone /\ OneContent /\ \A p \in Jobs : Progress(p)
    /\ ~raced /\ kills = 0 /\ (\A p \in Jobs : job[p].pc \notin {"empty", "move"}) => Whole

-----------------------------------------------------------------------------
(***************************************************************************)
(* Directories.                                                            *)
(***************************************************************************)
LEMMA EmptyDir ==
    /\ DOMAIN << >> = {} /\ << >> = [f \in {} |-> Foreign]
    /\ IsDir(NoDir) /\ DOMAIN NoDir.files = {} /\ ~NoDir.exists
    /\ IsDir(Dir(<<>>)) /\ DOMAIN Dir(<<>>).files = {} /\ Dir(<<>>).exists
<1>1. DOMAIN << >> = {}
  OBVIOUS
<1>2. << >> = [f \in {} |-> Foreign]
  BY <1>1
<1>3. [f \in {} |-> Foreign] = [f \in DOMAIN << >> |-> << >>[f]]
  BY <1>1
<1> QED BY <1>1, <1>2, <1>3 DEF IsDir, NoDir, Dir

LEMMA DirOf ==
    ASSUME NEW S \in SUBSET BundleFiles, NEW files, files = [f \in S |-> files[f]]
    PROVE  IsDir(Dir(files)) /\ Dir(files).files = files /\ Dir(files).exists
BY DEF IsDir, Dir

LEMMA CompleteDir ==
    ASSUME NEW S \in SUBSET BundleFiles, NEW v
    PROVE  /\ IsDir(Complete(S, v)) /\ Complete(S, v).exists
           /\ Complete(S, v).files = [f \in S |-> v]
           /\ DOMAIN Complete(S, v).files = S
           /\ \A f \in S : Complete(S, v).files[f] = v
BY DirOf DEF Complete, Dir

LEMMA WithoutDir ==
    ASSUME NEW d, IsDir(d), NEW f
    PROVE  /\ IsDir(Without(d, f))
           /\ DOMAIN Without(d, f).files = DOMAIN d.files \ {f}
           /\ \A g \in DOMAIN d.files \ {f} : Without(d, f).files[g] = d.files[g]
<1> DEFINE files == [g \in DOMAIN d.files \ {f} |-> d.files[g]]
<1>1. DOMAIN d.files \ {f} \in SUBSET BundleFiles
  BY DEF IsDir
<1>2. Without(d, f) = Dir(files)
  BY DEF Without
<1> QED BY <1>1, <1>2, DirOf

LEMMA WithDir ==
    ASSUME NEW d, IsDir(d), NEW f \in BundleFiles, NEW v
    PROVE  /\ IsDir(With(d, f, v))
           /\ DOMAIN With(d, f, v).files = DOMAIN d.files \cup {f}
           /\ With(d, f, v).files[f] = v
           /\ \A g \in DOMAIN d.files \ {f} : With(d, f, v).files[g] = d.files[g]
<1> DEFINE files == [g \in DOMAIN d.files \cup {f} |-> IF g = f THEN v ELSE d.files[g]]
<1>1. DOMAIN d.files \cup {f} \in SUBSET BundleFiles
  BY DEF IsDir
<1>2. With(d, f, v) = Dir(files)
  BY DEF With
<1>3. IsDir(With(d, f, v)) /\ With(d, f, v).files = files
  BY <1>1, <1>2, DirOf
<1> QED BY <1>3

-----------------------------------------------------------------------------
(***************************************************************************)
(* What an action of p does to the jobs.                                   *)
(***************************************************************************)
Becomes(p, pc, children, result) ==
    /\ job' \in [Jobs -> JobType]
    /\ job'[p] = [pc |-> pc, seed |-> job[p].seed, page |-> job[p].page,
                  children |-> children, result |-> result]
    /\ \A q \in Jobs \ {p} : job'[q] = job[q]

LEMMA GoesTo ==
    ASSUME JobsOK, NEW p \in Jobs, NEW pc \in Places, Goes(p, pc)
    PROVE  Becomes(p, pc, job[p].children, job[p].result)
BY DEF JobsOK, JobType, Goes, Becomes

LEMMA EndsWith ==
    ASSUME JobsOK, NEW p \in Jobs, NEW result \in Results, Ends(p, result)
    PROVE  Becomes(p, "idle", {}, result)
BY DEF JobsOK, JobType, Ends, Becomes, Places

LEMMA FailsWith ==
    ASSUME JobsOK, NEW p \in Jobs, NEW result \in Results, Fails(p, result)
    PROVE  Becomes(p, "cleanup", {}, result)
BY DEF JobsOK, JobType, Fails, Becomes, Places

LEMMA ListsChildren ==
    ASSUME JobsOK, NEW p \in Jobs, NEW pc \in Places, NEW S \in SUBSET BundleFiles,
           job' = [job EXCEPT ![p].pc = pc, ![p].children = S]
    PROVE  Becomes(p, pc, S, job[p].result)
BY DEF JobsOK, JobType, Becomes

LEMMA DropsChild ==
    ASSUME JobsOK, NEW p \in Jobs, NEW f, job' = [job EXCEPT ![p].children = @ \ {f}]
    PROVE  Becomes(p, job[p].pc, job[p].children \ {f}, job[p].result)
BY DEF JobsOK, JobType, Becomes

(***************************************************************************)
(* While jobs do not race, the others are idle, and stay where they are.   *)
(***************************************************************************)
LEMMA OthersAreIdle ==
    ASSUME DemoInv, ~raced, NEW p \in Jobs, ~Idle(p),
           NEW q \in Jobs \ {p}
    PROVE  Idle(q)
BY DEF DemoInv, Alone

LEMMA OneJobMoves ==
    ASSUME DemoInv, NEW p \in Jobs, ~Idle(p), raced' = raced,
           \A q \in Jobs \ {p} : job'[q] = job[q],
           DemoTypeOK', ForeignIsSafe',
           ~raced => Progress(p)' /\ OneContent',
           ~raced /\ kills' = 0 /\ job'[p].pc \notin {"empty", "move"} => Whole'
    PROVE  DemoInv'
<1>1. ASSUME ~raced
      PROVE  Alone' /\ \A q \in Jobs : Progress(q)'
  <2>1. ASSUME NEW q \in Jobs \ {p}
        PROVE  job'[q].pc = "idle"
    BY <1>1, OthersAreIdle DEF Idle
  <2>2. Alone'
    BY <2>1 DEF Alone, Idle
  <2>3. ASSUME NEW q \in Jobs \ {p}
        PROVE  Progress(q)'
    BY <2>1 DEF Progress
  <2> QED BY <1>1, <2>2, <2>3
<1>2. (\A q \in Jobs : job'[q].pc \notin {"empty", "move"}) => job'[p].pc \notin {"empty", "move"}
  OBVIOUS
<1> QED BY <1>1, <1>2 DEF DemoInv
\* An action of p that leaves the bundle as it is, and is not replacing it.
LEMMA QuietStep ==
    ASSUME DemoInv, NEW p \in Jobs, ~Idle(p),
           NEW pc, NEW children, NEW result, Becomes(p, pc, children, result),
           pc \notin {"empty", "move"}, bundle' = bundle, DirsOK',
           kills' \in Nat, kills' >= kills, raced' = raced,
           job[p].pc \in {"empty", "move"} => raced \/ kills' # 0 \/ Whole,
           ~raced => Progress(p)'
    PROVE  DemoInv'
<1>1. DemoTypeOK'
  BY DEF DemoInv, DemoTypeOK, JobsOK, Becomes, Idle, Seed
<1>2. ForeignIsSafe'
  BY DEF DemoInv, ForeignIsSafe, Becomes
<1>3. ASSUME ~raced, kills' = 0
      PROVE  Whole'
  <2>1. kills = 0
    BY <1>3 DEF DemoInv, DemoTypeOK
  <2>2. Whole
    <3>1. CASE job[p].pc \in {"empty", "move"}
      BY <1>3, <3>1
    <3>2. CASE job[p].pc \notin {"empty", "move"}
      BY <1>3, <2>1, <3>2, OthersAreIdle DEF DemoInv, Idle
    <3> QED BY <3>1, <3>2
  <2> QED BY <2>2 DEF Whole
<1>4. ~raced => OneContent'
  BY DEF DemoInv, OneContent
<1> QED BY <1>1, <1>2, <1>3, <1>4, OneJobMoves DEF Becomes

LEMMA DirsStay ==
    ASSUME DirsOK, UNCHANGED <<bundle, scratch>>
    PROVE  DirsOK'
BY DEF DirsOK, IsDir

\* The scratch directory of p becomes d.
LEMMA ScratchDir ==
    ASSUME DirsOK, bundle' = bundle, NEW s \in Seeds, NEW d, IsDir(d),
           \A f \in DOMAIN d.files : d.files[f] = s,
           scratch' = [scratch EXCEPT ![s] = d]
    PROVE  DirsOK'
BY DEF DirsOK, IsDir

-----------------------------------------------------------------------------
(***************************************************************************)
(* The start of a command, or of a page.                                   *)
(***************************************************************************)
\* Nothing but the job of p, which was idle, changes.
LEMMA JobStarts ==
    ASSUME DemoInv, NEW p \in Jobs, Idle(p), UNCHANGED <<bundle, scratch, kills>>,
           raced' = (raced \/ \E q \in Jobs \ {p} : ~Idle(q)),
           NEW j \in JobType, j.pc \in {"idle", "clear", "check"},
           j.pc # "idle" => j.seed \in Seeds,
           job' = [job EXCEPT ![p] = j]
    PROVE  DemoInv'
<1>1. job \in [Jobs -> JobType] /\ job'[p] = j /\ \A q \in Jobs \ {p} : job'[q] = job[q]
  BY DEF DemoInv, DemoTypeOK, JobsOK
<1>2. DemoTypeOK'
  <2>1. JobsOK'
    BY <1>1 DEF DemoInv, DemoTypeOK, JobsOK, Idle, Seed
  <2>2. raced' \in BOOLEAN
    OBVIOUS
  <2> QED BY <2>1, <2>2, DirsStay DEF DemoInv, DemoTypeOK
<1>3. ForeignIsSafe'
  BY <1>1 DEF DemoInv, ForeignIsSafe
<1>4. ASSUME ~raced'
      PROVE  /\ ~raced /\ \A q \in Jobs \ {p} : Idle(q) /\ job'[q].pc = "idle"
             /\ Alone' /\ OneContent' /\ \A q \in Jobs : Progress(q)'
  <2>1. ~raced /\ \A q \in Jobs \ {p} : Idle(q) /\ job'[q].pc = "idle"
    BY <1>1, <1>4 DEF Idle
  <2>2. Alone'
    BY <2>1 DEF Alone, Idle
  <2>3. \A q \in Jobs : Progress(q)'
    BY <1>1, <2>1 DEF Progress
  <2>4. OneContent'
    BY <2>1 DEF DemoInv, OneContent
  <2> QED BY <2>1, <2>2, <2>3, <2>4
<1>5. ASSUME ~raced', kills' = 0
      PROVE  Whole'
  BY <1>4, <1>5 DEF DemoInv, Whole, Idle
<1> QED BY <1>2, <1>3, <1>4, <1>5 DEF DemoInv

LEMMA PrepareKeeps ==
    ASSUME DemoInv, NEW p \in Jobs, Prepare(p)
    PROVE  DemoInv'
<1>1. PICK seed \in Seeds, force \in BOOLEAN :
          IF ~force /\ CompleteAndMatching(seed)
          THEN /\ job' = [job EXCEPT ![p] = [NoJob EXCEPT !.seed = seed, !.result = "skipped"]]
               /\ raced' = (raced \/ \E q \in Jobs \ {p} : ~Idle(q))
          ELSE Begins(p, seed, FALSE, "clear")
  BY DEF Prepare
<1>2. CASE ~force /\ CompleteAndMatching(seed)
  <2> DEFINE j == [NoJob EXCEPT !.seed = seed, !.result = "skipped"]
  <2>1. j \in JobType /\ j.pc = "idle"
    BY DEF NoJob, JobType, Places, Results
  <2> QED BY <1>1, <1>2, <2>1, JobStarts DEF Prepare
<1>3. CASE ~(~force /\ CompleteAndMatching(seed))
  <2> DEFINE j == [pc |-> "clear", seed |-> seed, page |-> FALSE, children |-> {}, result |-> "none"]
  <2>1. j \in JobType /\ j.pc = "clear" /\ j.seed \in Seeds
    BY DEF JobType, Places, Results
  <2> QED BY <1>1, <1>3, <2>1, JobStarts DEF Prepare, Begins
<1> QED BY <1>2, <1>3

LEMMA OpenPageKeeps ==
    ASSUME DemoInv, NEW p \in Jobs, OpenPage(p)
    PROVE  DemoInv'
<1> DEFINE j == [pc |-> IF Validates THEN "check" ELSE "clear", seed |-> DefaultSeed,
                 page |-> TRUE, children |-> {}, result |-> "none"]
<1>1. j \in JobType /\ j.pc \in {"check", "clear"} /\ j.seed \in Seeds
  BY DemoAssumption DEF JobType, Places, Results
<1> QED BY <1>1, JobStarts DEF OpenPage, Begins

-----------------------------------------------------------------------------
(***************************************************************************)
(* The pipeline, and everything else that leaves the bundle alone.         *)
(***************************************************************************)
LEMMA CheckPageKeeps ==
    ASSUME DemoInv, NEW p \in Jobs, CheckPage(p)
    PROVE  DemoInv'
<1>1. PICK result \in Results : Ends(p, result)
  BY DEF CheckPage, Results
<1>2. Becomes(p, "idle", {}, result)
  BY <1>1, EndsWith DEF DemoInv, DemoTypeOK
<1>3. Progress(p)'
  BY <1>2 DEF Progress, Becomes
<1>4. kills \in Nat
  BY DEF DemoInv, DemoTypeOK
<1> QED BY <1>2, <1>3, <1>4, QuietStep, DirsStay DEF CheckPage, Idle, DemoInv, DemoTypeOK

LEMMA KillKeeps ==
    ASSUME DemoInv, NEW p \in Jobs, Kill(p)
    PROVE  DemoInv'
<1>1. Becomes(p, "idle", {}, "killed")
  BY EndsWith DEF Kill, Results, DemoInv, DemoTypeOK
<1>2. Progress(p)'
  BY <1>1 DEF Progress, Becomes
<1>3. kills \in Nat /\ kills' = kills + 1
  BY DEF Kill, DemoInv, DemoTypeOK
<1> QED BY <1>1, <1>2, <1>3, QuietStep, DirsStay DEF Kill, DemoInv, DemoTypeOK

LEMMA ClearScratchKeeps ==
    ASSUME DemoInv, NEW p \in Jobs, ClearScratch(p)
    PROVE  DemoInv'
<1>1. Becomes(p, "mkdir", job[p].children, job[p].result)
  BY GoesTo DEF ClearScratch, Places, DemoInv, DemoTypeOK
<1>2. Progress(p)'
  BY <1>1 DEF Progress, Becomes
<1>3. kills \in Nat /\ ~Idle(p) /\ Seed(p) \in Seeds
  BY DEF ClearScratch, Idle, DemoInv, DemoTypeOK, JobsOK
<1>4. DirsOK'
  BY <1>3, EmptyDir, ScratchDir DEF ClearScratch, DemoInv, DemoTypeOK
<1> QED BY <1>1, <1>2, <1>3, <1>4, QuietStep DEF ClearScratch

LEMMA MakeScratchKeeps ==
    ASSUME DemoInv, NEW p \in Jobs, MakeScratch(p)
    PROVE  DemoInv'
<1>1. kills \in Nat /\ ~Idle(p) /\ Seed(p) \in Seeds
  BY DEF MakeScratch, Idle, DemoInv, DemoTypeOK, JobsOK
<1>2. CASE Scratch(p).exists
  <2>1. Becomes(p, "idle", {}, "traceback")
    BY <1>2, EndsWith DEF MakeScratch, Results, DemoInv, DemoTypeOK
  <2>2. Progress(p)'
    BY <2>1 DEF Progress, Becomes
  <2>3. DirsOK'
    BY <1>2, DirsStay DEF MakeScratch, DemoInv, DemoTypeOK
  <2> QED BY <1>1, <2>1, <2>2, <2>3, QuietStep DEF MakeScratch
<1>3. CASE ~Scratch(p).exists
  <2>1. Becomes(p, "pipeline", job[p].children, job[p].result)
    BY <1>3, GoesTo DEF MakeScratch, Places, DemoInv, DemoTypeOK
  <2>2. Progress(p)'
    BY <2>1 DEF Progress, Becomes
  <2>3. DirsOK'
    BY <1>1, <1>3, EmptyDir, ScratchDir DEF MakeScratch, DemoInv, DemoTypeOK
  <2> QED BY <1>1, <2>1, <2>2, <2>3, QuietStep DEF MakeScratch
<1> QED BY <1>2, <1>3

LEMMA PackageKeeps ==
    ASSUME DemoInv, NEW p \in Jobs, Package(p)
    PROVE  DemoInv'
<1>1. Becomes(p, "swap", job[p].children, job[p].result)
  BY GoesTo DEF Package, Places, DemoInv, DemoTypeOK
<1>2. kills \in Nat /\ ~Idle(p) /\ Seed(p) \in Seeds
  BY DEF Package, Idle, DemoInv, DemoTypeOK, JobsOK
<1>3. Scratch(p)' = Staged(Seed(p)) /\ Seed(p)' = Seed(p)
  BY <1>1, <1>2 DEF Package, Scratch, Seed, Becomes, DemoInv, DemoTypeOK, DirsOK
<1>4. Progress(p)'
  BY <1>1, <1>3 DEF Progress, Becomes, Staged
<1>5. DirsOK'
  <2>1. BundleFiles \in SUBSET BundleFiles
    OBVIOUS
  <2>2. /\ IsDir(Staged(Seed(p)))
        /\ \A f \in DOMAIN Staged(Seed(p)).files : Staged(Seed(p)).files[f] = Seed(p)
    BY <2>1, CompleteDir DEF Staged
  <2> QED BY <1>2, <2>2, ScratchDir DEF Package, DemoInv, DemoTypeOK
<1> QED BY <1>1, <1>2, <1>4, <1>5, QuietStep DEF Package

LEMMA PipelineFailsKeeps ==
    ASSUME DemoInv, NEW p \in Jobs, PipelineFails(p)
    PROVE  DemoInv'
<1>1. PICK result \in {"refused", "traceback"} : Fails(p, result)
  BY DEF PipelineFails
<1>2. Becomes(p, "cleanup", {}, result)
  BY <1>1, FailsWith DEF Results, DemoInv, DemoTypeOK
<1>3. Progress(p)'
  BY <1>2 DEF Progress, Becomes
<1>4. kills \in Nat
  BY DEF DemoInv, DemoTypeOK
<1> QED BY <1>2, <1>3, <1>4, QuietStep, DirsStay DEF PipelineFails, Idle, DemoInv, DemoTypeOK

LEMMA RefuseSwapKeeps ==
    ASSUME DemoInv, NEW p \in Jobs, RefuseSwap(p)
    PROVE  DemoInv'
<1>1. Becomes(p, "cleanup", {}, "refused")
  BY FailsWith DEF RefuseSwap, Results, DemoInv, DemoTypeOK
<1>2. Progress(p)'
  BY <1>1 DEF Progress, Becomes
<1>3. kills \in Nat
  BY DEF DemoInv, DemoTypeOK
<1> QED BY <1>1, <1>2, <1>3, QuietStep, DirsStay DEF RefuseSwap, Idle, DemoInv, DemoTypeOK

LEMMA CleanupKeeps ==
    ASSUME DemoInv, NEW p \in Jobs, Cleanup(p)
    PROVE  DemoInv'
<1>1. kills \in Nat /\ ~Idle(p) /\ Seed(p) \in Seeds /\ job[p].result \in Results
  BY DEF Cleanup, Idle, DemoInv, DemoTypeOK, JobsOK, JobType
<1>2. DirsOK'
  BY <1>1, EmptyDir, ScratchDir DEF Cleanup, DemoInv, DemoTypeOK
<1>3. CASE Goes(p, "check")
  <2>1. Becomes(p, "check", job[p].children, job[p].result)
    BY <1>3, GoesTo DEF Places, DemoInv, DemoTypeOK
  <2>2. Progress(p)'
    BY <2>1 DEF Progress, Becomes
  <2> QED BY <1>1, <1>2, <2>1, <2>2, QuietStep DEF Cleanup
<1>4. CASE \E result \in Results : Ends(p, result)
  <2>1. PICK result \in Results : Ends(p, result)
    BY <1>4
  <2>2. Becomes(p, "idle", {}, result)
    BY <2>1, EndsWith DEF DemoInv, DemoTypeOK
  <2>3. Progress(p)'
    BY <2>2 DEF Progress, Becomes
  <2> QED BY <1>1, <1>2, <2>2, <2>3, QuietStep DEF Cleanup
<1>5. "traceback" \in Results
  BY DEF Results
<1> QED BY <1>1, <1>3, <1>4, <1>5 DEF Cleanup
-----------------------------------------------------------------------------
(***************************************************************************)
(* _atomic_replace_dir().                                                  *)
(***************************************************************************)
LEMMA StartSwapKeeps ==
    ASSUME DemoInv, NEW p \in Jobs, StartSwap(p)
    PROVE  DemoInv'
<1>1. /\ ~Idle(p) /\ Seed(p) \in Seeds /\ DirsOK /\ kills \in Nat
      /\ DOMAIN bundle.files \in SUBSET BundleFiles
  BY DEF StartSwap, Idle, DemoInv, DemoTypeOK, JobsOK, DirsOK, IsDir
<1>2. Becomes(p, "empty", DOMAIN bundle.files, job[p].result)
  BY <1>1, ListsChildren DEF StartSwap, Places, DemoInv, DemoTypeOK
<1>3. bundle' = Dir([f \in DOMAIN bundle.files |-> bundle.files[f]])
  <2>1. PICK e, g : /\ bundle = [exists |-> e, files |-> g]
                    /\ g = [f \in DOMAIN bundle.files |-> bundle.files[f]]
    BY <1>1 DEF DirsOK, IsDir
  <2>2. bundle' = [exists |-> TRUE, files |-> g]
    BY <2>1 DEF StartSwap
  <2> QED BY <2>1, <2>2 DEF Dir
<1>4. bundle'.files = bundle.files
  BY <1>1, <1>3 DEF Dir, DirsOK, IsDir
<1>5. DemoTypeOK'
  <2>1. IsDir(bundle')
    BY <1>1, <1>3, <1>4, DirOf
  <2>2. DirsOK'
    BY <1>1, <1>4, <2>1 DEF DirsOK, IsDir, StartSwap
  <2>3. JobsOK'
    BY <1>1, <1>2 DEF DemoInv, DemoTypeOK, JobsOK, Becomes, Idle, Seed
  <2> QED BY <2>2, <2>3 DEF DemoInv, DemoTypeOK, StartSwap
<1>6. ForeignIsSafe'
  <2>1. \A f \in DOMAIN bundle.files : bundle.files[f] # Foreign
    BY DEF StartSwap, MayReplace, DemoInv, ForeignIsSafe
  <2> QED BY <1>4, <2>1 DEF ForeignIsSafe
<1>7. ASSUME ~raced
      PROVE  Progress(p)'
  <2>1. Scratch(p) = Staged(Seed(p))
    BY <1>7 DEF StartSwap, DemoInv, Progress
  <2>2. Scratch(p)' = Staged(Seed(p)) /\ Seed(p)' = Seed(p)
    BY <1>2, <2>1 DEF StartSwap, Becomes, Scratch, Seed
  <2>3. bundle' = Dir([f \in job'[p].children |-> bundle'.files[f]])
    BY <1>2, <1>3, <1>4 DEF Becomes
  <2> QED BY <1>2, <2>2, <2>3 DEF Progress, Becomes, Staged
<1>8. ~raced => OneContent'
  BY <1>4 DEF DemoInv, OneContent
<1> QED BY <1>1, <1>2, <1>5, <1>6, <1>7, <1>8, OneJobMoves DEF StartSwap, Becomes

\* Nothing foreign is there while p replaces the bundle.
LEMMA NothingForeign ==
    ASSUME DemoInv, NEW p \in Jobs, job[p].pc \in {"empty", "move"}
    PROVE  \A f \in DOMAIN bundle.files : bundle.files[f] # Foreign
BY DEF DemoInv, ForeignIsSafe

\* A replacement that does not find what it listed races.
LEMMA FailedSwap ==
    ASSUME DemoInv, NEW p \in Jobs, job[p].pc \in {"empty", "move"}, raced,
           Fails(p, "traceback"), UNCHANGED <<bundle, scratch, kills, raced>>
    PROVE  DemoInv'
<1>1. Becomes(p, "cleanup", {}, "traceback")
  BY FailsWith DEF Results, DemoInv, DemoTypeOK
<1>2. kills \in Nat /\ ~Idle(p)
  BY DEF DemoInv, DemoTypeOK, Idle
<1> QED BY <1>1, <1>2, QuietStep, DirsStay DEF DemoInv, DemoTypeOK

LEMMA DeleteChildKeeps ==
    ASSUME DemoInv, NEW p \in Jobs, DeleteChild(p)
    PROVE  DemoInv'
<1>1. /\ job[p].pc = "empty" /\ ~Idle(p) /\ Seed(p) \in Seeds /\ DirsOK /\ kills \in Nat
      /\ job[p].children \in SUBSET BundleFiles
  BY DEF DeleteChild, Idle, DemoInv, DemoTypeOK, JobsOK, JobType
<1>2. PICK f \in job[p].children :
          IF f \in DOMAIN bundle.files
          THEN /\ bundle' = Without(bundle, f)
               /\ job' = [job EXCEPT ![p].children = @ \ {f}]
          ELSE Fails(p, "traceback") /\ UNCHANGED bundle
  BY DEF DeleteChild
<1>3. ~raced => bundle = Dir([g \in job[p].children |-> bundle.files[g]])
  BY <1>1 DEF DemoInv, Progress
<1>4. ~raced => DOMAIN bundle.files = job[p].children
  BY <1>3 DEF Dir
<1>5. CASE f \notin DOMAIN bundle.files
  BY <1>1, <1>2, <1>4, <1>5, FailedSwap DEF DeleteChild, DemoInv, DemoTypeOK
<1>6. CASE f \in DOMAIN bundle.files
  <2>1. Becomes(p, "empty", job[p].children \ {f}, job[p].result)
    BY <1>1, <1>2, <1>6, DropsChild DEF DemoInv, DemoTypeOK
  <2>2. /\ IsDir(bundle') /\ DOMAIN bundle'.files = DOMAIN bundle.files \ {f}
        /\ \A g \in DOMAIN bundle.files \ {f} : bundle'.files[g] = bundle.files[g]
    BY <1>1, <1>2, <1>6, WithoutDir DEF DirsOK
  <2>3. DemoTypeOK'
    <3>1. DirsOK'
      BY <1>1, <2>2 DEF DirsOK, IsDir, DeleteChild
    <3>2. JobsOK'
      BY <1>1, <2>1 DEF DemoInv, DemoTypeOK, JobsOK, Becomes, Idle, Seed
    <3> QED BY <3>1, <3>2 DEF DemoInv, DemoTypeOK, DeleteChild
  <2>4. ForeignIsSafe'
    BY <1>1, <2>2, NothingForeign DEF ForeignIsSafe
  <2>5. ASSUME ~raced
        PROVE  Progress(p)'
    <3>1. Scratch(p) = Staged(Seed(p))
      BY <1>1, <2>5 DEF DemoInv, Progress
    <3>2. Scratch(p)' = Staged(Seed(p)) /\ Seed(p)' = Seed(p)
      BY <2>1, <3>1 DEF DeleteChild, Becomes, Scratch, Seed
    <3>3. bundle' = Dir([g \in DOMAIN bundle.files \ {f} |-> bundle.files[g]])
      BY <1>2, <1>6 DEF Without
    <3>4. bundle' = Dir([g \in job'[p].children |-> bundle'.files[g]])
      BY <1>4, <2>1, <2>2, <2>5, <3>3 DEF Becomes
    <3> QED BY <2>1, <3>2, <3>4 DEF Progress, Becomes, Staged
  <2>6. ~raced => OneContent'
    BY <2>2 DEF DemoInv, OneContent
  <2> QED BY <1>1, <2>1, <2>3, <2>4, <2>5, <2>6, OneJobMoves DEF DeleteChild, Becomes
<1> QED BY <1>5, <1>6

LEMMA StartMoveKeeps ==
    ASSUME DemoInv, NEW p \in Jobs, StartMove(p)
    PROVE  DemoInv'
<1>1. /\ job[p].pc = "empty" /\ job[p].children = {} /\ ~Idle(p) /\ Seed(p) \in Seeds
      /\ DirsOK /\ kills \in Nat /\ BundleFiles \in SUBSET BundleFiles
      /\ DOMAIN Scratch(p).files \in SUBSET BundleFiles
  BY DEF StartMove, Idle, DemoInv, DemoTypeOK, JobsOK, DirsOK, IsDir, Scratch
<1>2. ASSUME ~raced
      PROVE  /\ Scratch(p) = Complete(BundleFiles, Seed(p)) /\ Scratch(p).exists
             /\ DOMAIN Scratch(p).files = BundleFiles
             /\ bundle = Dir([f \in {} |-> bundle.files[f]])
  <2>1. Scratch(p) = Complete(BundleFiles, Seed(p))
    BY <1>1, <1>2 DEF DemoInv, Progress, Staged
  <2>2. bundle = Dir([f \in {} |-> bundle.files[f]])
    BY <1>1, <1>2 DEF DemoInv, Progress
  <2>3. /\ Complete(BundleFiles, Seed(p)).exists
        /\ DOMAIN Complete(BundleFiles, Seed(p)).files = BundleFiles
    BY <1>1, CompleteDir
  <2> QED BY <2>1, <2>2, <2>3
<1>3. CASE ~Scratch(p).exists
  BY <1>1, <1>2, <1>3, FailedSwap DEF StartMove, DemoInv, DemoTypeOK
<1>4. CASE Scratch(p).exists
  <2>1. Becomes(p, "move", DOMAIN Scratch(p).files, job[p].result)
    BY <1>1, <1>4, ListsChildren DEF StartMove, Places, DemoInv, DemoTypeOK
  <2>2. DemoTypeOK'
    <3>1. JobsOK'
      BY <1>1, <2>1 DEF DemoInv, DemoTypeOK, JobsOK, Becomes, Idle, Seed
    <3> QED BY <1>1, <3>1, DirsStay DEF DemoInv, DemoTypeOK, StartMove
  <2>3. ForeignIsSafe'
    BY <1>1, NothingForeign DEF ForeignIsSafe, StartMove
  <2>4. ASSUME ~raced
        PROVE  Progress(p)'
    <3>1. Scratch(p)' = Scratch(p) /\ Seed(p)' = Seed(p) /\ job'[p].children = BundleFiles
      BY <1>2, <2>1, <2>4 DEF StartMove, Becomes, Scratch, Seed
    <3>2. Scratch(p) = Dir([f \in BundleFiles |-> Seed(p)])
      BY <1>2, <2>4 DEF Complete
    <3>3. [f \in {} |-> bundle.files[f]] = [f \in BundleFiles \ BundleFiles |-> Seed(p)]
      OBVIOUS
    <3>4. bundle' = Dir([f \in BundleFiles \ BundleFiles |-> Seed(p)])
      BY <1>2, <2>4, <3>3 DEF StartMove
    <3> QED BY <2>1, <3>1, <3>2, <3>4 DEF Progress, Becomes
  <2>5. ~raced => OneContent'
    BY DEF StartMove, DemoInv, OneContent
  <2> QED BY <1>1, <2>1, <2>2, <2>3, <2>4, <2>5, OneJobMoves DEF StartMove, Becomes
<1> QED BY <1>3, <1>4

LEMMA MoveChildKeeps ==
    ASSUME DemoInv, NEW p \in Jobs, MoveChild(p)
    PROVE  DemoInv'
<1>1. /\ job[p].pc = "move" /\ ~Idle(p) /\ Seed(p) \in Seeds /\ DirsOK /\ kills \in Nat
      /\ job[p].children \in SUBSET BundleFiles /\ IsDir(Scratch(p))
      /\ \A f \in DOMAIN Scratch(p).files : Scratch(p).files[f] = Seed(p)
  BY DEF MoveChild, Idle, DemoInv, DemoTypeOK, JobsOK, JobType, DirsOK, Scratch
<1>2. PICK f \in job[p].children :
          IF f \in DOMAIN Scratch(p).files
          THEN /\ bundle' = With(bundle, f, Scratch(p).files[f])
               /\ scratch' = [scratch EXCEPT ![Seed(p)] = Without(Scratch(p), f)]
               /\ job' = [job EXCEPT ![p].children = @ \ {f}]
          ELSE Fails(p, "traceback") /\ UNCHANGED <<bundle, scratch>>
  BY DEF MoveChild
<1>3. ASSUME ~raced
      PROVE  /\ Scratch(p) = Dir([g \in job[p].children |-> Seed(p)])
             /\ bundle = Dir([g \in BundleFiles \ job[p].children |-> Seed(p)])
  BY <1>1, <1>3 DEF DemoInv, Progress
<1>4. ~raced => DOMAIN Scratch(p).files = job[p].children
  BY <1>3 DEF Dir
<1>5. CASE f \notin DOMAIN Scratch(p).files
  BY <1>1, <1>2, <1>4, <1>5, FailedSwap DEF MoveChild, DemoInv, DemoTypeOK
<1>6. CASE f \in DOMAIN Scratch(p).files
  <2>1. Becomes(p, "move", job[p].children \ {f}, job[p].result)
    BY <1>1, <1>2, <1>6, DropsChild DEF DemoInv, DemoTypeOK
  <2>2. bundle' = With(bundle, f, Seed(p)) /\ f \in BundleFiles
    BY <1>1, <1>2, <1>6
  <2>3. /\ IsDir(bundle') /\ DOMAIN bundle'.files = DOMAIN bundle.files \cup {f}
        /\ bundle'.files[f] = Seed(p)
        /\ \A g \in DOMAIN bundle.files \ {f} : bundle'.files[g] = bundle.files[g]
    BY <1>1, <2>2, WithDir DEF DirsOK
  <2>4. /\ DOMAIN scratch' = Seeds /\ scratch'[Seed(p)] = Without(Scratch(p), f)
        /\ \A s \in Seeds \ {Seed(p)} : scratch'[s] = scratch[s]
    BY <1>1, <1>2, <1>6 DEF DirsOK
  <2>5. DemoTypeOK'
    <3>1. /\ IsDir(scratch'[Seed(p)])
          /\ \A g \in DOMAIN scratch'[Seed(p)].files : scratch'[Seed(p)].files[g] = Seed(p)
      BY <1>1, <2>4, WithoutDir
    <3>2. \A s \in Seeds : /\ IsDir(scratch'[s])
                           /\ \A g \in DOMAIN scratch'[s].files : scratch'[s].files[g] = s
      BY <1>1, <2>4, <3>1 DEF DirsOK
    <3>3. \A g \in DOMAIN bundle'.files : bundle'.files[g] \in Seeds \cup {Foreign}
      BY <1>1, <2>3 DEF DirsOK
    <3>4. DirsOK'
      BY <2>3, <2>4, <3>2, <3>3 DEF DirsOK, IsDir
    <3>5. JobsOK'
      BY <1>1, <2>1 DEF DemoInv, DemoTypeOK, JobsOK, Becomes, Idle, Seed
    <3> QED BY <3>4, <3>5 DEF DemoInv, DemoTypeOK, MoveChild
  <2>6. ForeignIsSafe'
    <3>1. Seed(p) # Foreign
      BY <1>1, DemoAssumption DEF Foreign
    <3> QED BY <1>1, <2>3, <3>1, NothingForeign DEF ForeignIsSafe
  <2>7. ASSUME ~raced
        PROVE  Progress(p)'
    <3>1. Seed(p)' = Seed(p) /\ Scratch(p)' = Without(Scratch(p), f)
      BY <1>1, <2>1, <2>4 DEF Becomes, Scratch, Seed
    <3>2. Without(Scratch(p), f) = Dir([g \in job[p].children \ {f} |-> Seed(p)])
      <4>1. [g \in job[p].children \ {f} |-> Scratch(p).files[g]]
              = [g \in job[p].children \ {f} |-> Seed(p)]
        BY <1>1, <1>4, <2>7
      <4> QED BY <1>4, <2>7, <4>1 DEF Without
    <3>3. bundle' = Dir([g \in BundleFiles \ (job[p].children \ {f}) |-> Seed(p)])
      <4>1. DOMAIN bundle.files = BundleFiles \ job[p].children
        BY <1>3, <2>7 DEF Dir
      <4>2. \A g \in DOMAIN bundle.files : bundle.files[g] = Seed(p)
        BY <1>3, <2>7 DEF Dir
      <4>3. DOMAIN bundle.files \cup {f} = BundleFiles \ (job[p].children \ {f})
        BY <1>1, <4>1
      <4>4. [g \in DOMAIN bundle.files \cup {f} |-> IF g = f THEN Seed(p) ELSE bundle.files[g]]
              = [g \in BundleFiles \ (job[p].children \ {f}) |-> Seed(p)]
        BY <4>2, <4>3
      <4> QED BY <2>2, <4>4 DEF With
    <3> QED BY <2>1, <3>1, <3>2, <3>3 DEF Progress, Becomes
  <2>8. ASSUME ~raced
        PROVE  OneContent'
    <3>1. \A g \in DOMAIN bundle.files : bundle.files[g] = Seed(p)
      BY <1>3, <2>8 DEF Dir
    <3> QED BY <2>3, <3>1 DEF OneContent
  <2> QED BY <1>1, <2>1, <2>5, <2>6, <2>7, <2>8, OneJobMoves DEF MoveChild, Becomes
<1> QED BY <1>5, <1>6

LEMMA FinishMoveKeeps ==
    ASSUME DemoInv, NEW p \in Jobs, FinishMove(p)
    PROVE  DemoInv'
<1>1. /\ job[p].pc = "move" /\ job[p].children = {} /\ ~Idle(p) /\ Seed(p) \in Seeds
      /\ DirsOK /\ kills \in Nat
  BY DEF FinishMove, Idle, DemoInv, DemoTypeOK, JobsOK
<1>2. PICK result \in {"done", "traceback"} : Fails(p, result)
  BY DEF FinishMove
<1>3. Becomes(p, "cleanup", {}, result)
  BY <1>2, FailsWith DEF Results, DemoInv, DemoTypeOK
<1>4. ASSUME ~raced
      PROVE  bundle = Complete(BundleFiles, Seed(p))
  <2>1. bundle = Dir([g \in BundleFiles \ {} |-> Seed(p)])
    BY <1>1, <1>4 DEF DemoInv, Progress
  <2>2. BundleFiles \ {} = BundleFiles
    OBVIOUS
  <2> QED BY <2>1, <2>2 DEF Complete
<1>5. ~raced => Progress(p)'
  BY <1>3, <1>4 DEF Progress, Becomes, FinishMove, Seed
<1>6. ~raced => Whole
  BY <1>1, <1>4 DEF Whole
<1> QED BY <1>1, <1>3, <1>5, <1>6, QuietStep, DirsStay DEF FinishMove
-----------------------------------------------------------------------------
(***************************************************************************)
(* The theorems.                                                           *)
(***************************************************************************)
LEMMA InitEstablishes ==
    ASSUME Init
    PROVE  DemoInv
<1>1. JobsOK
  BY DEF Init, NoJob, JobsOK, JobType, Places, Results, Idle, Seed
<1>2. /\ IsDir(bundle)
      /\ \A f \in DOMAIN bundle.files : bundle.files[f] = Foreign
      /\ "marker" \notin DOMAIN bundle.files
  <2>1. ASSUME NEW S \in SUBSET BundleFiles, bundle = Complete(S, Foreign), "marker" \notin S
        PROVE  /\ IsDir(bundle)
               /\ \A f \in DOMAIN bundle.files : bundle.files[f] = Foreign
               /\ "marker" \notin DOMAIN bundle.files
    <3>1. /\ IsDir(Complete(S, Foreign))
          /\ DOMAIN Complete(S, Foreign).files = S
          /\ \A f \in S : Complete(S, Foreign).files[f] = Foreign
      BY CompleteDir
    <3> QED BY <2>1, <3>1
  <2>2. "marker" \notin {"manifest", "insights"} /\ "marker" \notin PackageFiles
    BY DemoAssumption DEF PackageFiles
  <2>3. CASE bundle \in {NoDir, Dir(<<>>)}
    BY <2>3, EmptyDir
  <2>4. CASE bundle = Complete({"manifest", "insights"}, Foreign)
    BY <2>1, <2>2, <2>4 DEF BundleFiles, PackageFiles
  <2>5. CASE bundle = Complete(PackageFiles, Foreign)
    BY <2>1, <2>2, <2>5 DEF BundleFiles
  <2> QED BY <2>3, <2>4, <2>5 DEF Init
<1>3. DirsOK
  BY <1>2, EmptyDir DEF Init, DirsOK
<1>4. ForeignIsSafe /\ Alone /\ OneContent /\ \A p \in Jobs : Progress(p)
  BY <1>2 DEF Init, NoJob, ForeignIsSafe, Alone, OneContent, Idle, Progress
<1>5. Whole
  BY <1>2 DEF Whole
<1> QED BY <1>1, <1>3, <1>4, <1>5 DEF Init, DemoInv, DemoTypeOK

LEMMA StutterKeeps ==
    ASSUME DemoInv, UNCHANGED vars
    PROVE  DemoInv'
<1>1. DemoTypeOK'
  BY DirsStay DEF vars, DemoInv, DemoTypeOK, JobsOK, Idle, Seed
<1>2. Alone => Alone'
  BY DEF vars, Alone, Idle
<1>3. (\A p \in Jobs : Progress(p)) => \A p \in Jobs : Progress(p)'
  BY DEF vars, Progress, Scratch, Seed
<1>4. ForeignIsSafe' /\ (OneContent => OneContent') /\ (Whole => Whole')
  BY DEF vars, DemoInv, ForeignIsSafe, OneContent, Whole
<1> QED BY <1>1, <1>2, <1>3, <1>4 DEF vars, DemoInv

LEMMA NextKeeps ==
    ASSUME DemoInv, [Next]_vars
    PROVE  DemoInv'
<1>1. CASE Next
  <2>1. PICK p \in Jobs :
            \/ Prepare(p) \/ OpenPage(p) \/ CheckPage(p)
            \/ ClearScratch(p) \/ MakeScratch(p) \/ Package(p) \/ PipelineFails(p)
            \/ StartSwap(p) \/ RefuseSwap(p) \/ DeleteChild(p)
            \/ StartMove(p) \/ MoveChild(p) \/ FinishMove(p)
            \/ Cleanup(p) \/ Kill(p)
    BY <1>1 DEF Next
  <2> QED BY <2>1, PrepareKeeps, OpenPageKeeps, CheckPageKeeps, ClearScratchKeeps,
             MakeScratchKeeps, PackageKeeps, PipelineFailsKeeps, StartSwapKeeps,
             RefuseSwapKeeps, DeleteChildKeeps, StartMoveKeeps, MoveChildKeeps,
             FinishMoveKeeps, CleanupKeeps, KillKeeps
<1>2. CASE UNCHANGED vars
  BY <1>2, StutterKeeps
<1> QED BY <1>1, <1>2

THEOREM DemoInvariant == Spec => []DemoInv
<1>1. Init => DemoInv
  BY InitEstablishes
<1>2. DemoInv /\ [Next]_vars => DemoInv'
  BY NextKeeps
<1> QED BY <1>1, <1>2, PTL DEF Spec

\* demo/factory.py: until a job is killed or two race, the directory between
\* jobs is untouched or one whole bundle, also after jobs that failed.
THEOREM BundlesAreWhole == Spec => []WholeBetweenJobs
<1>1. DemoInv => WholeBetweenJobs
  BY DEF DemoInv, WholeBetweenJobs, Whole, Idle
<1> QED BY <1>1, DemoInvariant, PTL

\* _atomic_replace_dir(): content that this factory did not make is neither
\* deleted nor replaced, however many jobs race and are killed.
THEOREM ForeignContentIsKept == Spec => ForeignKept
<1>1. ASSUME DemoInv, [Next]_vars
      PROVE  [\A f \in DOMAIN bundle.files : bundle.files[f] = Foreign =>
                 f \in DOMAIN bundle'.files /\ bundle'.files[f] = Foreign]_bundle
  <2> SUFFICES ASSUME NEW f \in DOMAIN bundle.files, bundle.files[f] = Foreign, bundle' # bundle
               PROVE  f \in DOMAIN bundle'.files /\ bundle'.files[f] = Foreign
    OBVIOUS
  <2>1. PICK p \in Jobs : StartSwap(p) \/ DeleteChild(p) \/ MoveChild(p)
    BY <1>1 DEF Next, vars, Prepare, OpenPage, CheckPage, ClearScratch, MakeScratch, Package,
                PipelineFails, RefuseSwap, StartMove, FinishMove, Cleanup, Kill
  <2>2. \A q \in Jobs : job[q].pc \notin {"empty", "move"}
    BY <1>1 DEF DemoInv, ForeignIsSafe
  <2>3. StartSwap(p)
    BY <2>1, <2>2 DEF DeleteChild, MoveChild
  <2>4. bundle' = [bundle EXCEPT !.exists = TRUE] /\ IsDir(bundle)
    BY <1>1, <2>3 DEF StartSwap, DemoInv, DemoTypeOK, DirsOK
  <2> QED BY <2>4 DEF IsDir
<1> QED BY <1>1, DemoInvariant, PTL DEF Spec, ForeignKept

\* demo/factory.py: a preparation that returns leaves, unless jobs race, the
\* tables, the manifest and the marker of its own seed, whether it did its work
\* or found it done, and whatever killed jobs left before.
THEOREM PreparationsMatch == Spec => PreparedIsMatching
<1>1. ASSUME DemoInv, [Next]_vars, ~raced', NEW p \in Jobs,
             job'[p].pc = "idle", job'[p].result \in {"done", "skipped"}, job'[p] # job[p],
             NEW f \in BundleFiles \ {"insights"}
      PROVE  f \in DOMAIN bundle'.files /\ bundle'.files[f] = job'[p].seed
  <2>1. JobsOK
    BY <1>1 DEF DemoInv, DemoTypeOK
  <2>2. PICK q \in Jobs :
            \/ Prepare(q) \/ OpenPage(q) \/ CheckPage(q)
            \/ ClearScratch(q) \/ MakeScratch(q) \/ Package(q) \/ PipelineFails(q)
            \/ StartSwap(q) \/ RefuseSwap(q) \/ DeleteChild(q)
            \/ StartMove(q) \/ MoveChild(q) \/ FinishMove(q)
            \/ Cleanup(q) \/ Kill(q)
    BY <1>1 DEF Next, vars
  <2>3. CASE Prepare(q)
    <3>1. PICK seed \in Seeds, force \in BOOLEAN :
              IF ~force /\ CompleteAndMatching(seed)
              THEN job' = [job EXCEPT ![q] = [NoJob EXCEPT !.seed = seed, !.result = "skipped"]]
              ELSE Begins(q, seed, FALSE, "clear")
      BY <2>3 DEF Prepare
    <3>2. CASE ~force /\ CompleteAndMatching(seed)
      <4>1. p = q /\ job'[p].seed = seed
        BY <1>1, <2>1, <3>1, <3>2 DEF JobsOK, NoJob
      <4>2. bundle' = bundle /\ OneContent
        <5>1. ~raced
          BY <1>1, <2>3 DEF Prepare, Begins
        <5> QED BY <1>1, <2>3, <5>1 DEF Prepare, DemoInv
      <4>3. /\ "marker" \in DOMAIN bundle.files /\ bundle.files["marker"] = seed
            /\ f \in DOMAIN bundle.files
        BY <3>2 DEF CompleteAndMatching, MarkedFor, Validates, BundleFiles, PackageFiles
      <4> QED BY <4>1, <4>2, <4>3 DEF OneContent
    <3>3. CASE ~(~force /\ CompleteAndMatching(seed))
      BY <1>1, <2>1, <3>1, <3>3 DEF Begins, JobsOK
    <3> QED BY <3>2, <3>3
  <2>4. CASE Cleanup(q)
    <3>1. p = q
      BY <1>1, <2>1, <2>4 DEF Cleanup, Ends, Goes, JobsOK
    <3>2. /\ job[p].pc = "cleanup" /\ bundle' = bundle /\ ~raced
          /\ \/ Ends(p, "traceback") \/ Goes(p, "check") \/ Ends(p, job[p].result)
      BY <1>1, <2>4, <3>1 DEF Cleanup
    <3>3. Ends(p, job[p].result)
      BY <1>1, <2>1, <3>2 DEF Ends, Goes, JobsOK, JobType
    <3>4. job'[p].result = job[p].result /\ job'[p].seed = Seed(p)
      BY <2>1, <3>3 DEF Ends, JobsOK, JobType, Seed
    <3>5. bundle = Complete(BundleFiles, Seed(p))
      BY <1>1, <3>2, <3>4 DEF DemoInv, Progress
    <3> QED BY <3>2, <3>4, <3>5 DEF Complete, Dir
  <2>5. CASE ~Prepare(q) /\ ~Cleanup(q)
    BY <1>1, <2>1, <2>2, <2>5
       DEF OpenPage, CheckPage, ClearScratch, MakeScratch, Package, PipelineFails, StartSwap,
           RefuseSwap, DeleteChild, StartMove, MoveChild, FinishMove, Kill, Begins, Goes, Ends,
           Fails, JobsOK, JobType
  <2> QED BY <2>3, <2>4, <2>5
<1>2. ASSUME DemoInv, [Next]_vars
      PROVE  [~raced' => \A p \in Jobs :
                 job'[p].pc = "idle" /\ job'[p].result \in {"done", "skipped"} /\ job'[p] # job[p] =>
                     \A f \in BundleFiles \ {"insights"} :
                         f \in DOMAIN bundle'.files /\ bundle'.files[f] = job'[p].seed]_vars
  BY <1>1, <1>2
<1> QED BY <1>2, DemoInvariant, PTL DEF Spec, PreparedIsMatching

=============================================================================
