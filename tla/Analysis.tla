------------------------------ MODULE Analysis ------------------------------
(***************************************************************************)
(* What is made of a warehouse build: credlens analysis run and reproduce   *)
(* (analysis/runner.py, provenance.py, insights.py), the demo package       *)
(* exported from its output (dashboard/demo_package.py), and the pages of   *)
(* the dashboard, which read builds and packages through caches             *)
(* (dashboard/data_access.py).                                              *)
(*                                                                         *)
(* The content of a file is the number of the build it was computed from;   *)
(* the fingerprint of a build is that number.  Builds replace each other    *)
(* between commands: what happens to a command while its build is replaced  *)
(* is the subject of the module Warehouse.                                  *)
(***************************************************************************)
EXTENDS Integers, FiniteSets

CONSTANTS
    MaxBuilds,      \* bound: builds under the one id, each forced over the last
    MaxSweeps,      \* bound: multi-seed sweeps written to the shared report
    MaxRuns         \* bound: analyses begun

AnalysisAssumption == MaxBuilds \in Nat \ {0} /\ MaxSweeps \in Nat /\ MaxRuns \in Nat

VARIABLES
    build, sweep,   \* the present build and robustness report; 0: none
    out,            \* the analysis directory: tables, manifest.json, insights.yml
    run,            \* the running analysis
    verdict,        \* what the last reproduction compared, and its result
    demo,           \* the demo package
    caches,         \* of the dashboard server
    page            \* the page shown last

analysisVars == <<build, sweep, out, run, verdict, demo, caches, page>>
warehouse == <<build, sweep>>
dashboard == <<caches, page>>

None == [fp |-> 0]
NoRun == [at |-> "idle", number |-> 0]
Builds == 1..MaxBuilds

AnalysisInit ==
    /\ build = 1 /\ sweep = 0
    /\ out = [tables |-> 0, manifest |-> None, insights |-> None]
    /\ run = NoRun
    /\ verdict = [result |-> "none"]
    /\ demo = None
    /\ caches = [manifest |-> 0, tables |-> [b \in Builds |-> 0],
                 package |-> [b \in Builds |-> 0]]
    /\ page = [mode |-> "none"]

Idle == run.at = "idle"

Rebuild ==
    /\ Idle /\ build < MaxBuilds
    /\ build' = build + 1
    /\ UNCHANGED <<sweep, out, run, verdict, demo, dashboard>>

(* analysis robustness writes one report, not tied to any build.            *)
SweepSeeds ==
    /\ Idle /\ sweep < MaxSweeps
    /\ sweep' = sweep + 1
    /\ UNCHANGED <<build, out, run, verdict, demo, dashboard>>

------------------------------------------------------------------------------
(* analysis run: over an earlier output only with --force.  The build is    *)
(* validated first, its fingerprint goes to the manifest.                   *)
BeginAnalysis ==
    /\ Idle /\ run.number < MaxRuns
    /\ \E force, insights \in BOOLEAN :
          /\ out.manifest = None \/ force
          /\ run' = [at |-> "tables", number |-> run.number + 1, insights |-> insights, fp |-> build]
    /\ UNCHANGED <<warehouse, out, verdict, demo, dashboard>>

(* Tables, figures and reports are written over the earlier ones.           *)
WriteOutputs ==
    /\ run.at = "tables"
    /\ run' = [run EXCEPT !.at = "manifest"]
    /\ out' = [out EXCEPT !.tables = build]
    /\ UNCHANGED <<warehouse, verdict, demo, dashboard>>

Recorded == [fp |-> run.fp, tables |-> out.tables, asked |-> run.insights, insights |-> None]
(* a slip: the manifest is written once, after the insights               *)
ManifestAtTheEnd == IF run.insights THEN out.manifest ELSE Recorded
FirstManifest == Recorded

WriteManifest ==
    /\ run.at = "manifest"
    /\ run' = [run EXCEPT !.at = IF run.insights THEN "insights" ELSE "idle"]
    /\ out' = [out EXCEPT !.manifest = FirstManifest]
    /\ UNCHANGED <<warehouse, verdict, demo, dashboard>>

(* generate_insights() cites the manifest it finds beside the tables, and   *)
(* the sweep if there is one.                                               *)
Insights(fp, tables) == [fp |-> fp, tables |-> tables, sweep |-> sweep]

WriteInsights ==
    /\ run.at = "insights" /\ out.manifest # None
    /\ run' = [run EXCEPT !.at = "final"]
    /\ out' = [out EXCEPT !.insights = Insights(out.manifest.fp, out.tables)]
    /\ UNCHANGED <<warehouse, verdict, demo, dashboard>>

(* Insights that cannot be generated are a warning in the manifest.         *)
FailInsights ==
    /\ run.at = "insights"
    /\ run' = [run EXCEPT !.at = "idle"]
    /\ UNCHANGED <<warehouse, out, verdict, demo, dashboard>>

RewriteManifest ==
    /\ run.at = "final"
    /\ run' = [run EXCEPT !.at = "idle"]
    /\ out' = [out EXCEPT !.manifest = [Recorded EXCEPT !.insights = out.insights]]
    /\ UNCHANGED <<warehouse, verdict, demo, dashboard>>

Kill ==
    /\ ~Idle
    /\ run' = [run EXCEPT !.at = "idle"]
    /\ UNCHANGED <<warehouse, out, verdict, demo, dashboard>>

(* analysis reproduce runs the build again, with the parameters recorded,   *)
(* into a directory of its own, and compares hash with hash: whatever the   *)
(* reproduction wrote must have been recorded.                              *)
MatchesTables(original, again) == original.tables = again.tables    \* a slip: reports are not compared
Matches(original, again) ==
    /\ original.tables = again.tables
    /\ again.insights # None => original.insights = again.insights

Reproduce ==
    /\ Idle /\ out.manifest # None
    /\ \E generated \in BOOLEAN :
          LET again == [tables |-> build,
                        insights |-> IF out.manifest.asked /\ generated
                                     THEN Insights(build, build) ELSE None]
          IN  verdict' = [result |-> IF Matches(out.manifest, again) THEN "match" ELSE "mismatch",
                          original |-> out.manifest, fp |-> build, with |-> sweep,
                          generated |-> again.insights # None]
    /\ UNCHANGED <<warehouse, out, run, demo, dashboard>>

------------------------------------------------------------------------------
(* dashboard export-demo: the tables of the analysis, whatever build they   *)
(* are of, one more table of the build named, and the insights.             *)
ExportDemo ==
    /\ Idle /\ out.manifest # None
    /\ \E force \in BOOLEAN : demo = None \/ force
    /\ demo' = [fp |-> out.manifest.fp, tables |-> out.tables, segments |-> build]
    /\ UNCHANGED <<warehouse, out, run, verdict, dashboard>>

StartServer ==
    /\ Idle
    /\ caches' = [manifest |-> 0, tables |-> [b \in Builds |-> 0], package |-> [b \in Builds |-> 0]]
    /\ page' = [mode |-> "none"]
    /\ UNCHANGED <<warehouse, out, run, verdict, demo>>

Cached(entry, content) == IF entry # 0 THEN entry ELSE content

(* A page over the build: the build is validated and the answer dropped;    *)
(* its manifest is cached by the build's id, its tables by the fingerprint  *)
(* that manifest shows.                                                     *)
RenderBuild ==
    /\ Idle
    /\ LET fp == Cached(caches.manifest, build)
           shown == Cached(caches.tables[fp], build)
       IN  /\ caches' = [caches EXCEPT !.manifest = fp, !.tables[fp] = shown]
           /\ page' = [mode |-> "warehouse", fp |-> fp, tables |-> shown, of |-> build]
    /\ UNCHANGED <<warehouse, out, run, verdict, demo>>

(* A page over the package: its manifest is read anew, its tables are       *)
(* cached by the fingerprint in it.                                         *)
PackageKeyByDirectory == 1              \* a slip: the key of the cache is the directory alone
PackageKey == demo.fp

RenderPackage ==
    /\ Idle /\ demo # None
    /\ LET shown == Cached(caches.package[PackageKey], demo.tables)
       IN  /\ caches' = [caches EXCEPT !.package[PackageKey] = shown]
           /\ page' = [mode |-> "demo", fp |-> demo.fp, tables |-> shown, of |-> demo.tables]
    /\ UNCHANGED <<warehouse, out, run, verdict, demo>>

AnalysisNext ==
    \/ Rebuild \/ SweepSeeds
    \/ BeginAnalysis \/ WriteOutputs \/ WriteManifest \/ WriteInsights \/ FailInsights
    \/ RewriteManifest \/ Kill \/ Reproduce
    \/ ExportDemo \/ StartServer \/ RenderBuild \/ RenderPackage

Spec == AnalysisInit /\ [][AnalysisNext]_analysisVars

------------------------------------------------------------------------------
(* Insights cite the build their numbers were computed from, although they  *)
(* outlive the tables beside them: killed analyses, and analyses over the   *)
(* same directory without insights or whose insights fail.                  *)
InsightsCiteTheirBuild == out.insights # None => out.insights.fp = out.insights.tables

(* A reproduction that matches has read the data of the original, and where *)
(* it generated insights, the same sweep.                                   *)
MatchReproduces ==
    verdict.result = "match" =>
        /\ verdict.original.tables = verdict.fp
        /\ verdict.generated => /\ verdict.original.insights # None
                                /\ verdict.original.insights.sweep = verdict.with

(* data_access.py: the key of a cache holds the fingerprint of the package, *)
(* so that a page never keeps showing another one's tables.  Packages       *)
(* exported over an analysis that was killed carry an earlier fingerprint.  *)
PackagePageIsCurrent == page.mode = "demo" /\ page.fp = page.of => page.tables = page.of
==============================================================================
