---------------------------- MODULE WarehouseProofs ----------------------------
(***************************************************************************)
(* Theorems about Warehouse, for any runs, suite, tables, number of        *)
(* versions of the generator, outcome of validation and number of builds.  *)
(*                                                                         *)
(* What a reader checks, it checks before it queries, and the runs move on *)
(* between.  The argument is that a run only ages one way: its files are   *)
(* of one version, and once each of them is newer than the one a build     *)
(* recorded, they stay so.  A fact that is not what was recorded was read  *)
(* from such a run, so the reader's check refuses the build whenever it    *)
(* comes.                                                                  *)
(***************************************************************************)
EXTENDS Warehouse, TLAPS

-----------------------------------------------------------------------------
(***************************************************************************)
(* The inductive invariant.                                                *)
(***************************************************************************)
\* Whatever is still to be published of r, or left to be read, is at least as
\* new as v, or newer.
AtLeast(r, v) == v <= code /\ \A f \in DOMAIN op[r].files : v <= op[r].files[f]
Superseded(r, v) == v < code /\ \A f \in DOMAIN op[r].files : v < op[r].files[f]

\* The files of a run come from one version of the generator, not a future one.
RunsOK ==
    /\ code \in Nat \ {0} /\ DOMAIN op = Runs
    /\ \A r \in Runs : \A f \in DOMAIN op[r].files :
          /\ op[r].files[f] \in 1..code
          /\ \A g \in DOMAIN op[r].files : op[r].files[g] = op[r].files[f]

\* Recorded hashes are of runs that were there; a fact is what was recorded, or
\* its run has been superseded for good.
SourcesOK(s) == \A r \in DOMAIN s : r \in Runs /\ s[r] \in Nat /\ AtLeast(r, s[r])
FactsOK(facts, s) ==
    \A x \in DOMAIN facts : /\ x \in Facts(DOMAIN s)
                            /\ facts[x] = s[x[1]] \/ Superseded(x[1], s[x[1]])

BuilderOK ==
    /\ builds \in Nat /\ builder \in {"idle", "dbt", "success", "failed"}
    /\ DOMAIN db = {"build", "facts"} /\ db.build \in 0..builds
    /\ builder # "idle" =>
          /\ manifest.build < builds /\ gate.build < builds /\ db.build \in {0, builds}
          /\ SourcesOK(sources) /\ FactsOK(db.facts, sources)
    /\ builder = "success" => DOMAIN db.facts = Facts(DOMAIN sources)

ManifestOK ==
    /\ manifest.build \in 0..builds
    /\ manifest.status \in {"success", "failed"} =>
          /\ manifest.build > 0 /\ SourcesOK(manifest.sources)
          /\ db.build = manifest.build => FactsOK(db.facts, manifest.sources)
    /\ manifest.status = "success" /\ db.build = manifest.build =>
          DOMAIN db.facts = Facts(DOMAIN manifest.sources)

GateOK ==
    /\ gate.build \in 0..builds
    /\ reader # "idle" => gate.build > 0 /\ SourcesOK(gate.sources)
    /\ reader = "verifying" =>
          /\ asks \in {"analysis", "query"} /\ (asks = "analysis" => gate.status = "success")
          /\ db.build = gate.build =>
                /\ FactsOK(db.facts, gate.sources)
                /\ \A x \in DOMAIN db.facts :
                      x[1] \in unverified \/ db.facts[x] = gate.sources[x[1]]
                /\ gate.status = "success" => DOMAIN db.facts = Facts(DOMAIN gate.sources)

AnswerOK ==
    /\ reader \in {"idle", "verifying", "answered", "reconciling"}
    /\ checks \in BOOLEAN /\ (reader # "reconciling" => checks)
    /\ reader \in {"answered", "reconciling"} /\ answer.build = gate.build =>
          \A x \in DOMAIN answer.facts :
             x \in Facts(DOMAIN gate.sources) /\ answer.facts[x] = gate.sources[x[1]]
    /\ reader = "reconciling" /\ answer.build = gate.build /\ ~checks =>
          \E r \in DOMAIN gate.sources : Superseded(r, gate.sources[r])

WarehouseInv == RunsOK /\ BuilderOK /\ ManifestOK /\ GateOK /\ AnswerOK /\ AnalysisSeesWholeBuild

-----------------------------------------------------------------------------
(***************************************************************************)
(* The published runs.                                                     *)
(***************************************************************************)
LEMMA NoFiles == DOMAIN << >> = {}
OBVIOUS

\* One step of rmtree() leaves no other files than there were.
LEMMA RemoveOneShrinks ==
    ASSUME NEW d, NEW e \in RemoveOne(d)
    PROVE  /\ DOMAIN e.files \subseteq DOMAIN d.files
           /\ \A f \in DOMAIN e.files : e.files[f] = d.files[f]
<1>1. CASE DOMAIN d.files = {}
  BY <1>1, NoFiles DEF RemoveOne, NoDir
<1>2. CASE DOMAIN d.files # {}
  <2>1. PICK g \in DOMAIN d.files : e = Dir([f \in DOMAIN d.files \ {g} |-> d.files[f]])
    BY <1>2 DEF RemoveOne
  <2>2. e.files = [f \in DOMAIN d.files \ {g} |-> d.files[f]]
    BY <2>1 DEF Dir
  <2> QED BY <2>2
<1> QED BY <1>1, <1>2

(***************************************************************************)
(* A file that is there after a step was there before it, or is of the     *)
(* generator's version and so are all files of its run.                    *)
(***************************************************************************)
LEMMA FilesAge ==
    ASSUME RunsOK, PublishedNext
    PROVE  /\ code' \in Nat /\ code <= code' /\ DOMAIN op' = Runs
           /\ \A r \in Runs :
                 \/ /\ DOMAIN op'[r].files \subseteq DOMAIN op[r].files
                    /\ \A f \in DOMAIN op'[r].files : op'[r].files[f] = op[r].files[f]
                 \/ \A f \in DOMAIN op'[r].files : op'[r].files[f] = code
<1>1. CASE NewVersion
  BY <1>1 DEF NewVersion, RunsOK
<1>2. ASSUME NEW r \in Runs, Appear(r)
      PROVE  /\ code' = code /\ DOMAIN op' = Runs
             /\ \A f \in DOMAIN op'[r].files : op'[r].files[f] = code
             /\ \A q \in Runs \ {r} : op'[q] = op[q]
  <2>1. op'[r].files = [f \in OpFiles |-> code]
    BY <1>2 DEF Appear, Complete, Dir, RunsOK
  <2> QED BY <1>2, <2>1 DEF Appear, RunsOK
<1>3. ASSUME NEW r \in Runs, Shrink(r)
      PROVE  /\ code' = code /\ DOMAIN op' = Runs
             /\ DOMAIN op'[r].files \subseteq DOMAIN op[r].files
             /\ \A f \in DOMAIN op'[r].files : op'[r].files[f] = op[r].files[f]
             /\ \A q \in Runs \ {r} : op'[q] = op[q]
  <2>1. PICK d \in RemoveOne(op[r]) : op' = [op EXCEPT ![r] = d]
    BY <1>3 DEF Shrink
  <2> QED BY <1>3, <2>1, RemoveOneShrinks DEF Shrink, RunsOK
<1>4. CASE \E r \in Runs : Appear(r) \/ Shrink(r)
  <2>1. PICK r \in Runs : Appear(r) \/ Shrink(r)
    BY <1>4
  <2>2. CASE Appear(r)
    BY <2>2, <1>2 DEF RunsOK
  <2>3. CASE Shrink(r)
    BY <2>3, <1>3 DEF RunsOK
  <2> QED BY <2>1, <2>2, <2>3
<1> QED BY <1>1, <1>4 DEF PublishedNext

\* What was at least as new as v, or newer, stays so.
Ageing == \A r \in Runs : \A v \in Nat : /\ AtLeast(r, v) => AtLeast(r, v)'
                                         /\ Superseded(r, v) => Superseded(r, v)'

LEMMA RunsOnlyAge ==
    ASSUME RunsOK, PublishedNext
    PROVE  RunsOK' /\ Ageing
<1>1. RunsOK'
  <2>1. code' \in Nat \ {0} /\ DOMAIN op' = Runs
    BY FilesAge DEF RunsOK
  <2>2. ASSUME NEW r \in Runs, NEW f \in DOMAIN op'[r].files
        PROVE  /\ op'[r].files[f] \in 1..code'
               /\ \A g \in DOMAIN op'[r].files : op'[r].files[g] = op'[r].files[f]
    <3>1. CASE /\ DOMAIN op'[r].files \subseteq DOMAIN op[r].files
               /\ \A g \in DOMAIN op'[r].files : op'[r].files[g] = op[r].files[g]
      <4>1. op[r].files[f] \in 1..code
        BY <3>1 DEF RunsOK
      <4>2. op'[r].files[f] \in 1..code'
        BY <3>1, <4>1, FilesAge DEF RunsOK
      <4> QED BY <3>1, <4>2 DEF RunsOK
    <3>2. CASE \A g \in DOMAIN op'[r].files : op'[r].files[g] = code
      BY <3>2, FilesAge DEF RunsOK
    <3> QED BY <3>1, <3>2, FilesAge
  <2> QED BY <2>1, <2>2 DEF RunsOK
<1>2. ASSUME NEW r \in Runs, NEW v \in Nat
      PROVE  /\ AtLeast(r, v) => AtLeast(r, v)'
             /\ Superseded(r, v) => Superseded(r, v)'
  BY FilesAge DEF RunsOK, AtLeast, Superseded
<1> QED BY <1>1, <1>2 DEF Ageing

LEMMA RunsMayStay ==
    ASSUME RunsOK, UNCHANGED publishedVars
    PROVE  RunsOK' /\ Ageing
BY DEF publishedVars, RunsOK, Ageing, AtLeast, Superseded

(***************************************************************************)
(* A file of a run at least as new as v is of v, or its run is superseded. *)
(***************************************************************************)
LEMMA FileIsRecordedOrSuperseded ==
    ASSUME RunsOK, NEW r \in Runs, NEW v \in Nat, AtLeast(r, v), NEW f \in DOMAIN op[r].files
    PROVE  op[r].files[f] = v \/ Superseded(r, v)
<1> DEFINE w == op[r].files[f]
<1>1. w \in Nat /\ v <= w /\ w <= code /\ code \in Nat
  BY DEF RunsOK, AtLeast
<1>2. CASE w = v
  BY <1>2
<1>3. CASE w # v
  <2>1. \A g \in DOMAIN op[r].files : op[r].files[g] = w
    BY DEF RunsOK
  <2> QED BY <1>1, <1>3, <2>1 DEF Superseded
<1> QED BY <1>2, <1>3

\* A source that is intact is not superseded.
LEMMA IntactIsNotSuperseded ==
    ASSUME NEW r, NEW v \in Nat, SourceIntact(r, v)
    PROVE  ~Superseded(r, v)
BY DEF SourceIntact, Superseded, OpFiles
-----------------------------------------------------------------------------
(***************************************************************************)
(* Each part of the invariant stands while the runs age and what it is     *)
(* about does not change.                                                  *)
(***************************************************************************)
LEMMA BuilderStays ==
    ASSUME Ageing, BuilderOK, UNCHANGED <<db, manifest, builder, sources, builds, gate>>
    PROVE  BuilderOK'
<1>1. ASSUME builder # "idle"
      PROVE  SourcesOK(sources)' /\ FactsOK(db.facts, sources)'
  <2>1. SourcesOK(sources) /\ FactsOK(db.facts, sources)
    BY <1>1 DEF BuilderOK
  <2> QED BY <2>1 DEF Ageing, SourcesOK, FactsOK, Facts, AtLeast, Superseded
<1> QED BY <1>1 DEF BuilderOK

LEMMA ManifestStays ==
    ASSUME Ageing, ManifestOK, UNCHANGED <<db, manifest, builds>>
    PROVE  ManifestOK'
<1>1. ASSUME manifest.status \in {"success", "failed"}
      PROVE  /\ SourcesOK(manifest.sources)'
             /\ db.build = manifest.build => FactsOK(db.facts, manifest.sources)'
  <2>1. /\ SourcesOK(manifest.sources)
        /\ db.build = manifest.build => FactsOK(db.facts, manifest.sources)
    BY <1>1 DEF ManifestOK
  <2> QED BY <2>1 DEF Ageing, SourcesOK, FactsOK, Facts, AtLeast, Superseded
<1> QED BY <1>1 DEF ManifestOK

LEMMA GateStays ==
    ASSUME Ageing, GateOK, builds <= builds', builds \in Nat, builds' \in Nat,
           db' = db \/ db'.build = 0 \/ db'.build > builds,
           UNCHANGED <<reader, asks, gate, unverified>>
    PROVE  GateOK'
<1>1. gate'.build \in 0..builds' /\ (reader' # "idle" => gate'.build > 0)
  BY DEF GateOK
<1>2. ASSUME reader # "idle"
      PROVE  SourcesOK(gate.sources)'
  <2>1. SourcesOK(gate.sources)
    BY <1>2 DEF GateOK
  <2> QED BY <2>1 DEF Ageing, SourcesOK, AtLeast
<1>3. ASSUME reader = "verifying", db'.build = gate.build
      PROVE  /\ db' = db
             /\ FactsOK(db.facts, gate.sources)'
  <2>1. db' = db
    BY <1>1, <1>3 DEF GateOK
  <2>2. SourcesOK(gate.sources) /\ FactsOK(db.facts, gate.sources)
    BY <1>3, <2>1 DEF GateOK
  <2> QED BY <2>1, <2>2 DEF Ageing, SourcesOK, FactsOK, Facts, Superseded
<1>4. ASSUME reader = "verifying"
      PROVE  /\ asks \in {"analysis", "query"}
             /\ asks = "analysis" => gate.status = "success"
             /\ db'.build = gate.build =>
                   /\ \A x \in DOMAIN db.facts :
                         x[1] \in unverified \/ db.facts[x] = gate.sources[x[1]]
                   /\ gate.status = "success" => DOMAIN db.facts = Facts(DOMAIN gate.sources)
  BY <1>3, <1>4 DEF GateOK
<1> QED BY <1>1, <1>2, <1>3, <1>4 DEF GateOK, Facts

LEMMA AnswerStays ==
    ASSUME Ageing, GateOK, AnswerOK, UNCHANGED <<gate, reader, answer, checks>>
    PROVE  AnswerOK'
<1>1. ASSUME reader = "reconciling", answer.build = gate.build, ~checks
      PROVE  \E r \in DOMAIN gate.sources : Superseded(r, gate.sources[r])'
  <2>1. SourcesOK(gate.sources)
    BY <1>1 DEF GateOK
  <2>2. PICK r \in DOMAIN gate.sources : Superseded(r, gate.sources[r])
    BY <1>1 DEF AnswerOK
  <2>3. Superseded(r, gate.sources[r])'
    BY <2>1, <2>2 DEF Ageing, SourcesOK, Superseded
  <2> QED BY <2>3
<1> QED BY <1>1 DEF AnswerOK, Facts, Superseded

LEMMA WholeStays ==
    ASSUME AnalysisSeesWholeBuild, UNCHANGED <<reader, asks, answer, gate>>
    PROVE  AnalysisSeesWholeBuild'
BY DEF AnalysisSeesWholeBuild, Facts

\* A step of the runs alone.
LEMMA PublishedKeeps ==
    ASSUME WarehouseInv, PublishedNext, UNCHANGED whVars
    PROVE  WarehouseInv'
<1>1. RunsOK' /\ Ageing
  BY RunsOnlyAge DEF WarehouseInv
<1>2. BuilderOK'
  BY <1>1, BuilderStays DEF WarehouseInv, whVars
<1>3. ManifestOK'
  BY <1>1, ManifestStays DEF WarehouseInv, whVars
<1>4. builds \in Nat
  BY DEF WarehouseInv, BuilderOK
<1>5. GateOK'
  BY <1>1, <1>4, GateStays DEF WarehouseInv, whVars
<1>6. AnswerOK'
  BY <1>1, AnswerStays DEF WarehouseInv, whVars
<1>7. AnalysisSeesWholeBuild'
  BY WholeStays DEF WarehouseInv, whVars
<1> QED BY <1>1, <1>2, <1>3, <1>5, <1>6, <1>7 DEF WarehouseInv
-----------------------------------------------------------------------------
(***************************************************************************)
(* run_build().                                                            *)
(***************************************************************************)
LEMMA StartBuildKeeps ==
    ASSUME WarehouseInv, StartBuild
    PROVE  WarehouseInv'
<1>1. RunsOK' /\ Ageing
  BY RunsMayStay DEF WarehouseInv, StartBuild
<1>2. /\ builds \in Nat /\ builds' = builds + 1
      /\ DOMAIN db' = {"build", "facts"} /\ db'.build = 0 /\ DOMAIN db'.facts = {}
  BY NoFiles DEF WarehouseInv, BuilderOK, StartBuild, NoDb
<1>3. SourcesOK(sources)'
  <2>1. PICK selected \in Selections :
            /\ \A r \in selected : Loadable(r)
            /\ sources' = [r \in selected |-> op[r].files["manifest"]]
    BY DEF StartBuild
  <2>2. selected \subseteq Runs
    BY WarehouseAssumption DEF Selections
  <2>3. \A r \in selected : /\ op[r].files["manifest"] \in Nat
                            /\ AtLeast(r, op[r].files["manifest"])
    BY <2>1, <2>2 DEF WarehouseInv, RunsOK, Loadable, AtLeast
  <2> QED BY <2>1, <2>2, <2>3 DEF SourcesOK, AtLeast, StartBuild, publishedVars
<1>4. BuilderOK'
  <2>1. manifest.build < builds' /\ gate.build < builds'
    BY <1>2 DEF WarehouseInv, ManifestOK, GateOK
  <2>2. FactsOK(db.facts, sources)'
    BY <1>2 DEF FactsOK
  <2> QED BY <1>2, <1>3, <2>1, <2>2 DEF BuilderOK, StartBuild
<1>5. ManifestOK'
  <2>1. ASSUME manifest.status \in {"success", "failed"}
        PROVE  manifest.build > 0 /\ SourcesOK(manifest.sources)'
    <3>1. manifest.build > 0 /\ SourcesOK(manifest.sources)
      BY <2>1 DEF WarehouseInv, ManifestOK
    <3> QED BY <1>1, <3>1 DEF Ageing, SourcesOK, AtLeast, StartBuild
  <2> QED BY <1>2, <2>1 DEF WarehouseInv, ManifestOK, StartBuild
<1>6. GateOK'
  BY <1>1, <1>2, GateStays DEF WarehouseInv, StartBuild
<1>7. AnswerOK'
  BY <1>1, AnswerStays DEF WarehouseInv, StartBuild
<1>8. AnalysisSeesWholeBuild'
  BY WholeStays DEF WarehouseInv, StartBuild
<1> QED BY <1>1, <1>4, <1>5, <1>6, <1>7, <1>8 DEF WarehouseInv

(***************************************************************************)
(* What dbt and its failures do to the database they do under the number   *)
(* of a build that no manifest and no reader has yet.                      *)
(***************************************************************************)
LEMMA RunningBuildIsNew ==
    ASSUME WarehouseInv, builder # "idle", db'.build = builds,
           UNCHANGED <<publishedVars, manifest, builds, reader, asks, gate, unverified, answer, checks>>
    PROVE  RunsOK' /\ ManifestOK' /\ GateOK' /\ AnswerOK' /\ AnalysisSeesWholeBuild'
<1>1. RunsOK' /\ Ageing
  BY RunsMayStay DEF WarehouseInv
<1>2. builds \in Nat /\ manifest.build < builds /\ gate.build < builds
  BY DEF WarehouseInv, BuilderOK
<1>3. ManifestOK'
  <2>1. ASSUME manifest.status \in {"success", "failed"}
        PROVE  manifest.build > 0 /\ SourcesOK(manifest.sources)'
    <3>1. manifest.build > 0 /\ SourcesOK(manifest.sources)
      BY <2>1 DEF WarehouseInv, ManifestOK
    <3> QED BY <1>1, <3>1 DEF Ageing, SourcesOK, AtLeast
  <2>2. manifest.build \in 0..builds
    BY DEF WarehouseInv, ManifestOK
  <2> QED BY <1>2, <2>1, <2>2 DEF ManifestOK
<1>4. GateOK'
  <2>1. gate.build \in 0..builds /\ (reader # "idle" => gate.build > 0)
    BY DEF WarehouseInv, GateOK
  <2>2. ASSUME reader # "idle"
        PROVE  SourcesOK(gate.sources)'
    <3>1. SourcesOK(gate.sources)
      BY <2>2 DEF WarehouseInv, GateOK
    <3> QED BY <1>1, <3>1 DEF Ageing, SourcesOK, AtLeast
  <2>3. reader = "verifying" =>
            asks \in {"analysis", "query"} /\ (asks = "analysis" => gate.status = "success")
    BY DEF WarehouseInv, GateOK
  <2> QED BY <1>2, <2>1, <2>2, <2>3 DEF GateOK
<1>5. AnswerOK'
  BY <1>1, AnswerStays DEF WarehouseInv
<1>6. AnalysisSeesWholeBuild'
  BY WholeStays DEF WarehouseInv
<1> QED BY <1>1, <1>3, <1>4, <1>5, <1>6

\* A fact is read from the parquet file of a recorded source as it is now.
LEMMA MaterialiseKeeps ==
    ASSUME WarehouseInv, Materialise
    PROVE  WarehouseInv'
<1>1. PICK x \in Pending :
          /\ x[2] \in DOMAIN op[x[1]].files
          /\ db' = [build |-> builds,
                    facts |-> [y \in DOMAIN db.facts \cup {x} |->
                                 IF y = x THEN op[x[1]].files[x[2]] ELSE db.facts[y]]]
  BY DEF Materialise
<1>2. RunsOK' /\ ManifestOK' /\ GateOK' /\ AnswerOK' /\ AnalysisSeesWholeBuild'
  BY <1>1, RunningBuildIsNew DEF Materialise
<1>3. SourcesOK(sources) /\ FactsOK(db.facts, sources) /\ RunsOK
  BY DEF WarehouseInv, BuilderOK, Materialise
<1>4. x[1] \in DOMAIN sources /\ x \in Facts(DOMAIN sources)
  BY DEF Pending, Facts
<1>5. op[x[1]].files[x[2]] = sources[x[1]] \/ Superseded(x[1], sources[x[1]])
  BY <1>1, <1>3, <1>4, FileIsRecordedOrSuperseded DEF SourcesOK
<1>6. FactsOK(db'.facts, sources)
  BY <1>1, <1>3, <1>4, <1>5 DEF FactsOK
<1>7. SourcesOK(sources)' /\ FactsOK(db.facts, sources)'
  BY <1>3, <1>6 DEF Materialise, publishedVars, SourcesOK, FactsOK, AtLeast, Superseded, Facts
<1>8. BuilderOK'
  BY <1>1, <1>7 DEF WarehouseInv, BuilderOK, Materialise
<1> QED BY <1>2, <1>8 DEF WarehouseInv

LEMMA DbtFailsKeeps ==
    ASSUME WarehouseInv, DbtFails
    PROVE  WarehouseInv'
<1>1. db'.build = builds /\ db'.facts = db.facts
  BY DEF DbtFails, WarehouseInv, BuilderOK
<1>2. RunsOK' /\ ManifestOK' /\ GateOK' /\ AnswerOK' /\ AnalysisSeesWholeBuild'
  BY <1>1, RunningBuildIsNew DEF DbtFails
<1>3. SourcesOK(sources) /\ FactsOK(db.facts, sources)
  BY DEF WarehouseInv, BuilderOK, DbtFails
<1>4. SourcesOK(sources)' /\ FactsOK(db.facts, sources)'
  BY <1>1, <1>3 DEF DbtFails, publishedVars, SourcesOK, FactsOK, AtLeast, Superseded, Facts
<1>5. BuilderOK'
  BY <1>1, <1>4 DEF WarehouseInv, BuilderOK, DbtFails
<1> QED BY <1>2, <1>5 DEF WarehouseInv

LEMMA DbtSucceedsKeeps ==
    ASSUME WarehouseInv, DbtSucceeds
    PROVE  WarehouseInv'
<1>1. RunsOK' /\ Ageing /\ builds \in Nat
  BY RunsMayStay DEF WarehouseInv, DbtSucceeds, BuilderOK
<1>2. SourcesOK(sources) /\ FactsOK(db.facts, sources)
  BY DEF WarehouseInv, BuilderOK, DbtSucceeds
<1>3. DOMAIN db.facts = Facts(DOMAIN sources)
  BY <1>2 DEF DbtSucceeds, Pending, FactsOK
<1>4. SourcesOK(sources)' /\ FactsOK(db.facts, sources)'
  BY <1>2 DEF DbtSucceeds, publishedVars, SourcesOK, FactsOK, AtLeast, Superseded, Facts
<1>5. BuilderOK'
  BY <1>3, <1>4 DEF WarehouseInv, BuilderOK, DbtSucceeds, Facts
<1>6. ManifestOK' /\ GateOK' /\ AnswerOK' /\ AnalysisSeesWholeBuild'
  BY <1>1, ManifestStays, GateStays, AnswerStays, WholeStays DEF WarehouseInv, DbtSucceeds
<1> QED BY <1>1, <1>5, <1>6 DEF WarehouseInv

LEMMA WriteManifestKeeps ==
    ASSUME WarehouseInv, WriteManifest
    PROVE  WarehouseInv'
<1>1. RunsOK' /\ Ageing /\ builds \in Nat
  BY RunsMayStay DEF WarehouseInv, WriteManifest, BuilderOK
<1>2. /\ SourcesOK(sources) /\ FactsOK(db.facts, sources) /\ builds > 0
      /\ builder = "success" => DOMAIN db.facts = Facts(DOMAIN sources)
  BY DEF WarehouseInv, BuilderOK, ManifestOK, WriteManifest
<1>3. /\ manifest'.build = builds /\ manifest'.status = builder
      /\ manifest'.sources = sources
  BY DEF WriteManifest, Recorded
<1>4. SourcesOK(manifest.sources)' /\ FactsOK(db.facts, manifest.sources)'
  BY <1>2, <1>3 DEF WriteManifest, publishedVars, SourcesOK, FactsOK, AtLeast, Superseded, Facts
<1>5. ManifestOK'
  BY <1>1, <1>2, <1>3, <1>4 DEF ManifestOK, WriteManifest, Facts
<1>6. BuilderOK'
  BY DEF WarehouseInv, BuilderOK, WriteManifest
<1>7. GateOK' /\ AnswerOK' /\ AnalysisSeesWholeBuild'
  BY <1>1, GateStays, AnswerStays, WholeStays DEF WarehouseInv, WriteManifest
<1> QED BY <1>1, <1>5, <1>6, <1>7 DEF WarehouseInv

LEMMA BuildInterruptedKeeps ==
    ASSUME WarehouseInv, BuildInterrupted
    PROVE  WarehouseInv'
<1>1. RunsOK' /\ Ageing /\ builds \in Nat
  BY RunsMayStay DEF WarehouseInv, BuildInterrupted, BuilderOK
<1>2. BuilderOK'
  BY DEF WarehouseInv, BuilderOK, BuildInterrupted
<1>3. ManifestOK'
  <2>1. CASE UNCHANGED manifest
    BY <1>1, <2>1, ManifestStays DEF WarehouseInv, BuildInterrupted
  <2>2. CASE manifest' = [build |-> builds, status |-> "torn", sources |-> <<>>]
    BY <1>1, <2>2 DEF ManifestOK, BuildInterrupted
  <2> QED BY <2>1, <2>2 DEF BuildInterrupted
<1>4. GateOK' /\ AnswerOK' /\ AnalysisSeesWholeBuild'
  BY <1>1, GateStays, AnswerStays, WholeStays DEF WarehouseInv, BuildInterrupted
<1> QED BY <1>1, <1>2, <1>3, <1>4 DEF WarehouseInv
-----------------------------------------------------------------------------
(***************************************************************************)
(* The readers.                                                            *)
(***************************************************************************)
LEMMA LoadBuildKeeps ==
    ASSUME WarehouseInv, LoadBuild
    PROVE  WarehouseInv'
<1>1. RunsOK' /\ Ageing /\ builds \in Nat
  BY RunsMayStay DEF WarehouseInv, LoadBuild, BuilderOK
<1>2. /\ asks' \in {"analysis", "query"}
      /\ manifest.status \in {"success", "failed"}
      /\ asks' = "analysis" => manifest.status = "success"
  BY DEF LoadBuild, Usable
<1>3. /\ manifest.build \in 0..builds /\ manifest.build > 0 /\ SourcesOK(manifest.sources)
      /\ db.build = manifest.build => FactsOK(db.facts, manifest.sources)
      /\ manifest.status = "success" /\ db.build = manifest.build =>
            DOMAIN db.facts = Facts(DOMAIN manifest.sources)
  BY <1>2 DEF WarehouseInv, ManifestOK
<1>4. SourcesOK(gate.sources)'
  BY <1>3 DEF LoadBuild, publishedVars, SourcesOK, AtLeast
<1>5. ASSUME db.build = manifest.build
      PROVE  /\ FactsOK(db.facts, gate.sources)'
             /\ \A x \in DOMAIN db.facts : x[1] \in unverified'
  BY <1>3, <1>5 DEF LoadBuild, publishedVars, FactsOK, Superseded, Facts
<1>6. GateOK'
  <2>1. gate' = manifest /\ db' = db /\ builds' = builds /\ reader' = "verifying"
    BY DEF LoadBuild
  <2>2. /\ gate'.build \in 0..builds' /\ gate'.build > 0
        /\ asks' = "analysis" => gate'.status = "success"
    BY <1>2, <1>3, <2>1
  <2>3. ASSUME db'.build = gate'.build
        PROVE  /\ FactsOK(db.facts, gate.sources)'
               /\ \A x \in DOMAIN db'.facts :
                     x[1] \in unverified' \/ db'.facts[x] = gate'.sources[x[1]]
               /\ gate'.status = "success" => DOMAIN db'.facts = Facts(DOMAIN gate'.sources)
    BY <1>3, <1>5, <2>1, <2>3
  <2> QED BY <1>2, <1>4, <2>1, <2>2, <2>3 DEF GateOK, Facts
<1>7. BuilderOK'
  <2>1. gate'.build = manifest.build
    BY DEF LoadBuild
  <2>2. ASSUME builder # "idle"
        PROVE  SourcesOK(sources)' /\ FactsOK(db.facts, sources)'
    <3>1. SourcesOK(sources) /\ FactsOK(db.facts, sources)
      BY <2>2 DEF WarehouseInv, BuilderOK
    <3> QED BY <3>1 DEF LoadBuild, publishedVars, SourcesOK, FactsOK, AtLeast, Superseded, Facts
  <2> QED BY <2>1, <2>2 DEF WarehouseInv, BuilderOK, LoadBuild, Facts
<1>8. ManifestOK'
  BY <1>1, ManifestStays DEF WarehouseInv, LoadBuild
<1>9. AnswerOK' /\ AnalysisSeesWholeBuild'
  BY DEF WarehouseInv, AnswerOK, AnalysisSeesWholeBuild, LoadBuild
<1> QED BY <1>1, <1>6, <1>7, <1>8, <1>9 DEF WarehouseInv

LEMMA CloseReaderKeeps ==
    ASSUME WarehouseInv, CloseReader
    PROVE  WarehouseInv'
<1>1. RunsOK' /\ Ageing /\ builds \in Nat
  BY RunsMayStay DEF WarehouseInv, CloseReader, BuilderOK
<1>2. gate'.build = 0
  BY DEF CloseReader, NoManifest
<1>3. BuilderOK'
  <2>1. ASSUME builder # "idle"
        PROVE  builds > 0 /\ SourcesOK(sources)' /\ FactsOK(db.facts, sources)'
    <3>1. SourcesOK(sources) /\ FactsOK(db.facts, sources)
      BY <2>1 DEF WarehouseInv, BuilderOK
    <3>2. builds > 0
      BY <2>1 DEF WarehouseInv, BuilderOK, ManifestOK
    <3> QED BY <3>1, <3>2
            DEF CloseReader, publishedVars, SourcesOK, FactsOK, AtLeast, Superseded, Facts
  <2> QED BY <1>2, <2>1 DEF WarehouseInv, BuilderOK, CloseReader, Facts
<1>4. ManifestOK'
  BY <1>1, ManifestStays DEF WarehouseInv, CloseReader
<1>5. GateOK'
  BY <1>1, <1>2 DEF GateOK, CloseReader
<1>6. AnswerOK' /\ AnalysisSeesWholeBuild'
  BY DEF AnswerOK, AnalysisSeesWholeBuild, CloseReader
<1> QED BY <1>1, <1>3, <1>4, <1>5, <1>6 DEF WarehouseInv

\* The facts of a source that is intact are the recorded ones.
LEMMA VerifyKeeps ==
    ASSUME WarehouseInv, NEW r, Verify(r)
    PROVE  WarehouseInv'
<1>1. RunsOK' /\ Ageing /\ builds \in Nat
  BY RunsMayStay DEF WarehouseInv, Verify, BuilderOK
<1>2. BuilderOK' /\ ManifestOK' /\ AnswerOK' /\ AnalysisSeesWholeBuild'
  BY <1>1, BuilderStays, ManifestStays, AnswerStays, WholeStays DEF WarehouseInv, Verify
<1>3. /\ gate.build \in 0..builds /\ gate.build > 0 /\ SourcesOK(gate.sources)
      /\ asks \in {"analysis", "query"} /\ (asks = "analysis" => gate.status = "success")
  BY DEF WarehouseInv, GateOK, Verify
<1>4. ASSUME db.build = gate.build
      PROVE  /\ FactsOK(db.facts, gate.sources)
             /\ \A x \in DOMAIN db.facts :
                   x[1] \in unverified' \/ db.facts[x] = gate.sources[x[1]]
             /\ gate.status = "success" => DOMAIN db.facts = Facts(DOMAIN gate.sources)
  <2>1. /\ FactsOK(db.facts, gate.sources)
        /\ \A x \in DOMAIN db.facts :
              x[1] \in unverified \/ db.facts[x] = gate.sources[x[1]]
        /\ gate.status = "success" => DOMAIN db.facts = Facts(DOMAIN gate.sources)
    BY <1>4 DEF WarehouseInv, GateOK, Verify
  <2>2. ASSUME NEW x \in DOMAIN db.facts, x[1] = r
        PROVE  db.facts[x] = gate.sources[r]
    <3>1. r \in DOMAIN gate.sources /\ (db.facts[x] = gate.sources[r] \/ Superseded(r, gate.sources[r]))
      BY <2>1, <2>2 DEF FactsOK, Facts
    <3>2. ~Superseded(r, gate.sources[r])
      BY <1>3, <3>1, IntactIsNotSuperseded DEF SourcesOK, Verify
    <3> QED BY <3>1, <3>2
  <2> QED BY <2>1, <2>2 DEF Verify
<1>5. GateOK'
  <2>1. SourcesOK(gate.sources)'
    BY <1>3 DEF Verify, publishedVars, SourcesOK, AtLeast
  <2>2. db.build = gate.build => FactsOK(db.facts, gate.sources)'
    BY <1>4 DEF Verify, publishedVars, FactsOK, Superseded, Facts
  <2> QED BY <1>3, <1>4, <2>1, <2>2 DEF GateOK, Verify, Facts
<1> QED BY <1>1, <1>2, <1>5 DEF WarehouseInv

\* With every source verified the facts are the recorded ones.
LEMMA VerifiedFacts ==
    ASSUME WarehouseInv, reader = "verifying", unverified = {}, db.build = gate.build
    PROVE  /\ \A x \in DOMAIN db.facts : /\ x \in Facts(DOMAIN gate.sources)
                                         /\ db.facts[x] = gate.sources[x[1]]
           /\ asks = "analysis" => DOMAIN db.facts = Facts(DOMAIN gate.sources)
BY DEF WarehouseInv, GateOK, FactsOK

LEMMA QueryKeeps ==
    ASSUME WarehouseInv, Query
    PROVE  WarehouseInv'
<1>1. RunsOK' /\ Ageing /\ builds \in Nat
  BY RunsMayStay DEF WarehouseInv, Query, BuilderOK
<1>2. BuilderOK' /\ ManifestOK'
  BY <1>1, BuilderStays, ManifestStays DEF WarehouseInv, Query
<1>3. GateOK'
  BY DEF WarehouseInv, GateOK, Query, publishedVars, SourcesOK, AtLeast
<1>4. AnswerOK'
  BY VerifiedFacts DEF WarehouseInv, AnswerOK, Query, Facts
<1>5. AnalysisSeesWholeBuild'
  BY VerifiedFacts DEF AnalysisSeesWholeBuild, Query, Facts
<1> QED BY <1>1, <1>2, <1>3, <1>4, <1>5 DEF WarehouseInv

LEMMA OpenReconciliationKeeps ==
    ASSUME WarehouseInv, OpenReconciliation
    PROVE  WarehouseInv'
<1>1. RunsOK' /\ Ageing /\ builds \in Nat
  BY RunsMayStay DEF WarehouseInv, OpenReconciliation, BuilderOK
<1>2. BuilderOK' /\ ManifestOK'
  BY <1>1, BuilderStays, ManifestStays DEF WarehouseInv, OpenReconciliation
<1>3. GateOK'
  BY DEF WarehouseInv, GateOK, OpenReconciliation, publishedVars, SourcesOK, AtLeast
<1>4. AnswerOK'
  BY VerifiedFacts DEF WarehouseInv, AnswerOK, OpenReconciliation, Facts
<1>5. AnalysisSeesWholeBuild'
  BY DEF AnalysisSeesWholeBuild, OpenReconciliation
<1> QED BY <1>1, <1>2, <1>3, <1>4, <1>5 DEF WarehouseInv

\* A fact that no longer agrees with its file is of a run that is superseded.
LEMMA CompareKeeps ==
    ASSUME WarehouseInv, NEW r, Compare(r)
    PROVE  WarehouseInv'
<1>1. CASE CloseReader
  BY <1>1, CloseReaderKeeps
<1>2. CASE /\ checks' = (checks /\ Agrees(r))
           /\ unverified' = unverified \ {r}
           /\ UNCHANGED <<publishedVars, db, manifest, builder, sources, builds, reader,
                          asks, gate, answer>>
  <2>1. RunsOK' /\ Ageing /\ builds \in Nat
    BY <1>2, RunsMayStay DEF WarehouseInv, BuilderOK
  <2>2. BuilderOK' /\ ManifestOK' /\ AnalysisSeesWholeBuild'
    BY <1>2, <2>1, BuilderStays, ManifestStays, WholeStays DEF WarehouseInv
  <2>3. reader = "reconciling" /\ Comparable(r)
    BY DEF Compare
  <2>4. GateOK'
    BY <1>2, <2>3 DEF WarehouseInv, GateOK, publishedVars, SourcesOK, AtLeast
  <2>5. ASSUME answer.build = gate.build, ~Agrees(r)
        PROVE  r \in DOMAIN gate.sources /\ Superseded(r, gate.sources[r])
    <3>1. PICK t \in Tables : answer.facts[<<r, t>>] # op[r].files[t]
      BY <2>5 DEF Agrees
    <3>2. <<r, t>> \in DOMAIN answer.facts /\ t \in DOMAIN op[r].files
      BY <2>3 DEF Comparable
    <3>3. r \in DOMAIN gate.sources /\ answer.facts[<<r, t>>] = gate.sources[r]
      BY <2>3, <2>5, <3>2 DEF WarehouseInv, AnswerOK, Facts
    <3>4. r \in Runs /\ gate.sources[r] \in Nat /\ AtLeast(r, gate.sources[r]) /\ RunsOK
      BY <2>3, <3>3 DEF WarehouseInv, GateOK, SourcesOK
    <3> QED BY <3>1, <3>2, <3>3, <3>4, FileIsRecordedOrSuperseded
  <2>6. ASSUME answer.build = gate.build, ~checks'
        PROVE  \E q \in DOMAIN gate.sources : Superseded(q, gate.sources[q])
    <3>1. CASE checks
      BY <1>2, <2>5, <2>6, <3>1
    <3>2. CASE ~checks
      BY <2>3, <2>6, <3>2 DEF WarehouseInv, AnswerOK
    <3> QED BY <3>1, <3>2
  <2>7. checks' \in BOOLEAN
    BY <1>2
  <2>8. AnswerOK'
    <3>1. ASSUME answer.build = gate.build, ~checks'
          PROVE  \E q \in DOMAIN gate.sources' : Superseded(q, gate.sources[q])'
      BY <1>2, <2>6, <3>1 DEF publishedVars, Superseded
    <3> QED BY <1>2, <2>3, <2>7, <3>1 DEF WarehouseInv, AnswerOK, Facts
  <2> QED BY <2>1, <2>2, <2>4, <2>8 DEF WarehouseInv
<1> QED BY <1>1, <1>2 DEF Compare
-----------------------------------------------------------------------------
(***************************************************************************)
(* The theorems.                                                           *)
(***************************************************************************)
LEMMA InitEstablishes ==
    ASSUME WarehouseInit
    PROVE  WarehouseInv
<1>1. RunsOK
  BY NoFiles DEF WarehouseInit, PublishedInit, RunsOK, NoDir
<1>2. DOMAIN db = {"build", "facts"} /\ db.build = 0 /\ DOMAIN db.facts = {}
  BY NoFiles DEF WarehouseInit, NoDb
<1>3. BuilderOK
  BY <1>2 DEF WarehouseInit, BuilderOK
<1>4. ManifestOK /\ GateOK /\ AnswerOK /\ AnalysisSeesWholeBuild
  BY DEF WarehouseInit, NoManifest, ManifestOK, GateOK, AnswerOK, AnalysisSeesWholeBuild
<1> QED BY <1>1, <1>3, <1>4 DEF WarehouseInv

LEMMA NextKeeps ==
    ASSUME WarehouseInv, [Next]_vars
    PROVE  WarehouseInv'
<1>1. CASE PublishedNext /\ UNCHANGED whVars
  BY <1>1, PublishedKeeps
<1>2. CASE StartBuild
  BY <1>2, StartBuildKeeps
<1>3. CASE Materialise
  BY <1>3, MaterialiseKeeps
<1>4. CASE DbtFails
  BY <1>4, DbtFailsKeeps
<1>5. CASE DbtSucceeds
  BY <1>5, DbtSucceedsKeeps
<1>6. CASE WriteManifest
  BY <1>6, WriteManifestKeeps
<1>7. CASE BuildInterrupted
  BY <1>7, BuildInterruptedKeeps
<1>8. CASE LoadBuild
  BY <1>8, LoadBuildKeeps
<1>9. CASE Query
  BY <1>9, QueryKeeps
<1>10. CASE OpenReconciliation
  BY <1>10, OpenReconciliationKeeps
<1>11. CASE Done
  BY <1>11, CloseReaderKeeps DEF Done
<1>12. ASSUME NEW r \in Runs, Verify(r) \/ Refuse(r) \/ Compare(r) \/ CannotCompare(r)
       PROVE  WarehouseInv'
  BY <1>12, VerifyKeeps, CompareKeeps, CloseReaderKeeps DEF Refuse, CannotCompare
<1>13. CASE UNCHANGED vars
  <2>1. RunsOK' /\ Ageing /\ builds \in Nat
    BY <1>13, RunsMayStay DEF WarehouseInv, BuilderOK, vars
  <2> QED BY <1>13, <2>1, BuilderStays, ManifestStays, GateStays, AnswerStays, WholeStays
          DEF WarehouseInv, vars, whVars
<1> QED BY <1>1, <1>2, <1>3, <1>4, <1>5, <1>6, <1>7, <1>8, <1>9, <1>10, <1>11, <1>12, <1>13
        DEF Next

THEOREM WarehouseInvariant == Spec => []WarehouseInv
<1>1. WarehouseInit => WarehouseInv
  BY InitEstablishes
<1>2. WarehouseInv /\ [Next]_vars => WarehouseInv'
  BY NextKeeps
<1> QED BY <1>1, <1>2, PTL DEF Spec

\* integrity.py and reconciliation.py: whatever is regenerated, rebuilt or
\* interrupted beside it, a reader that passed the source check gets the facts
\* that the build recorded, and a reconciliation that reports a mismatch has
\* met a source that is no longer the recorded one.
THEOREM AnswersMatchTheRecord == Spec => []AnswerMatchesRecord
<1>1. WarehouseInv => AnswerMatchesRecord
  <2> SUFFICES ASSUME WarehouseInv, reader \in {"answered", "reconciling"},
                      answer.build = gate.build
               PROVE  /\ \A x \in DOMAIN answer.facts :
                            /\ x[1] \in DOMAIN gate.sources
                            /\ answer.facts[x] = gate.sources[x[1]]
                      /\ ~checks =>
                            \E r \in DOMAIN gate.sources : ~SourceIntact(r, gate.sources[r])
    BY DEF AnswerMatchesRecord
  <2>1. ASSUME NEW x \in DOMAIN answer.facts
        PROVE  x[1] \in DOMAIN gate.sources /\ answer.facts[x] = gate.sources[x[1]]
    BY DEF WarehouseInv, AnswerOK, Facts
  <2>2. ASSUME ~checks
        PROVE  \E r \in DOMAIN gate.sources : ~SourceIntact(r, gate.sources[r])
    <3>1. PICK r \in DOMAIN gate.sources : Superseded(r, gate.sources[r])
      BY <2>2 DEF WarehouseInv, AnswerOK
    <3>2. gate.sources[r] \in Nat
      BY <3>1 DEF WarehouseInv, GateOK, SourcesOK
    <3> QED BY <3>1, <3>2, IntactIsNotSuperseded
  <2> QED BY <2>1, <2>2
<1> QED BY <1>1, WarehouseInvariant, PTL

\* analysis/validation.py: an analysis sees every fact table of every source of
\* the build whose manifest it checked, although a failed or interrupted build
\* leaves only some of them in the database.
THEOREM AnalysesSeeTheWholeBuild == Spec => []AnalysisSeesWholeBuild
<1>1. WarehouseInv => AnalysisSeesWholeBuild
  BY DEF WarehouseInv
<1> QED BY <1>1, WarehouseInvariant, PTL
=============================================================================
