------------------------------ MODULE Warehouse ------------------------------
(***************************************************************************)
(* warehouse/sources.py, warehouse/build.py, warehouse/integrity.py,       *)
(* warehouse/reconciliation.py and analysis/validation.py: a warehouse     *)
(* build over the published runs, and the readers that gate on it.         *)
(*                                                                         *)
(* run_build() resolves its sources, deletes the database an earlier build *)
(* left under force, lets dbt materialise the fact tables one by one from  *)
(* the parquet files that are on disk at that moment, and writes the build *)
(* manifest.  A reader loads the manifest, checks that the build           *)
(* succeeded, re-verifies every recorded source against the disk, and only *)
(* then queries the database; a named query asks the same of the sources   *)
(* but not of the build, and so does a reconciliation, which then compares *)
(* the database with the parquet files as they are now.  Runs appear,      *)
(* vanish and reappear beside both, as PublishedRuns lets them.            *)
(***************************************************************************)
EXTENDS PublishedRuns, Sequences

CONSTANTS
    Suite,      \* the runs the suite manifest names
    MaxBuilds   \* bound: commands that get as far as running dbt

ASSUME WarehouseAssumption == Suite \subseteq Runs /\ MaxBuilds \in Nat

VARIABLES
    db,         \* the database: the build that made it, and its fact tables
    manifest,   \* build_manifest.json
    builder,    \* where run_build() stands
    sources,    \* the selected runs and the content hash recorded for each
    builds,     \* dbt invocations so far
    reader,     \* where the reader stands
    asks,       \* what it runs: an analysis, a named query, a reconciliation
    gate,       \* the manifest the reader loaded
    unverified, \* sources the reader has not verified (compared) yet
    answer,     \* what the reader got out of the database
    checks      \* of a reconciliation: did every check pass so far

whVars == <<db, manifest, builder, sources, builds, reader, asks, gate, unverified, answer,
            checks>>
vars == <<publishedVars, whVars>>

NoDb == [build |-> 0, facts |-> <<>>]
NoManifest == [build |-> 0, status |-> "none", sources |-> <<>>]

WarehouseInit ==
    /\ PublishedInit
    /\ db = NoDb
    /\ manifest = NoManifest
    /\ builder = "idle"
    /\ sources = <<>>
    /\ builds = 0
    /\ reader = "idle"
    /\ asks = "query"
    /\ gate = NoManifest
    /\ unverified = {}
    /\ answer = NoDb
    /\ checks = TRUE

-----------------------------------------------------------------------------
(***************************************************************************)
(* run_build().                                                            *)
(***************************************************************************)

\* _load_one_run(): the run's directory exists, its manifest says "completed"
\* and it has an operational/ directory.  No table file is looked at.
Loadable(r) ==
    /\ "manifest" \in DOMAIN op[r].files
    /\ Valid[r][op[r].files["manifest"]]
    /\ DOMAIN op[r].files \cap Tables # {}

\* resolve_sources() for a run id, or for a suite id whose manifest can be read
\* (generate_suite() may have written it at any time before).
Selections == {{r} : r \in Runs} \cup {Suite}

MayBuild(forced) == forced \/ (db.build = 0 /\ manifest.build = 0)

\* Under force the database goes, the old manifest stays until the new one is
\* written.
StartBuild ==
    /\ builder = "idle"
    /\ builds < MaxBuilds
    /\ \E selected \in Selections, forced \in BOOLEAN :
          /\ \A r \in selected : Loadable(r)
          /\ MayBuild(forced)
          /\ sources' = [r \in selected |-> op[r].files["manifest"]]
    /\ builds' = builds + 1
    /\ db' = NoDb
    /\ builder' = "dbt"
    /\ UNCHANGED <<publishedVars, manifest, reader, asks, gate, unverified, answer, checks>>

Facts(selected) == selected \X Tables
Pending == Facts(DOMAIN sources) \ DOMAIN db.facts

\* dbt materialises one fact table from the parquet file as it is now.
Materialise ==
    /\ builder = "dbt"
    /\ \E x \in Pending :
          /\ x[2] \in DOMAIN op[x[1]].files
          /\ db' = [build |-> builds,
                    facts |-> [y \in DOMAIN db.facts \cup {x} |->
                                 IF y = x THEN op[x[1]].files[x[2]] ELSE db.facts[y]]]
    /\ UNCHANGED <<publishedVars, manifest, builder, sources, builds, reader, asks, gate, unverified, answer, checks>>

\* A source file is gone, or a dbt test fails: dbt reports no success.
DbtFails ==
    /\ builder = "dbt"
    /\ \/ \E x \in Pending : x[2] \notin DOMAIN op[x[1]].files
       \/ Pending = {}
    /\ builder' = "failed"
    /\ db' = [db EXCEPT !.build = builds]
    /\ UNCHANGED <<publishedVars, manifest, sources, builds, reader, asks, gate, unverified, answer, checks>>

DbtSucceeds ==
    /\ builder = "dbt"
    /\ Pending = {}
    /\ builder' = "success"
    /\ UNCHANGED <<publishedVars, db, manifest, sources, builds, reader, asks, gate, unverified, answer, checks>>

Recorded == sources

WriteManifest ==
    /\ builder \in {"success", "failed"}
    /\ manifest' = [build |-> builds, status |-> builder, sources |-> Recorded]
    /\ builder' = "idle"
    /\ sources' = <<>>
    /\ UNCHANGED <<publishedVars, db, builds, reader, asks, gate, unverified, answer, checks>>

\* The build is killed, perhaps while write_text() has the manifest truncated.
BuildInterrupted ==
    /\ builder # "idle"
    /\ builder' = "idle"
    /\ sources' = <<>>
    /\ \/ UNCHANGED manifest
       \/ /\ builder \in {"success", "failed"}
          /\ manifest' = [build |-> builds, status |-> "torn", sources |-> <<>>]
    /\ UNCHANGED <<publishedVars, db, builds, reader, asks, gate, unverified, answer, checks>>

-----------------------------------------------------------------------------
(***************************************************************************)
(* validate_build_for_analysis() and the query that follows it.            *)
(***************************************************************************)

\* A slip: an analysis, like a named query, does not look at final_status.
UsableWhateverStatus(kind, m) == m.status \in {"success", "failed"}

Usable(kind, m) ==
    m.status \in (IF kind = "analysis" THEN {"success"} ELSE {"success", "failed"})

LoadBuild ==
    /\ reader = "idle"
    /\ asks' \in {"analysis", "query"}
    /\ Usable(asks', manifest)
    /\ reader' = "verifying"
    /\ gate' = manifest
    /\ unverified' = DOMAIN manifest.sources
    /\ UNCHANGED <<publishedVars, db, manifest, builder, sources, builds, answer, checks>>

\* The sources of a build are listed in one order, and taken in that order.
NextSource == CHOOSE r \in unverified : TRUE

\* A slip: the recorded global_content_hash is not compared.
SourceIntactByItself(r, hash) ==
    /\ DOMAIN op[r].files = OpFiles
    /\ \A t \in Tables : op[r].files[t] = op[r].files["manifest"]

\* _check_one_source(): the manifest still records the hash the build saw, and
\* every table is there and hashes to what the manifest says of it.
SourceIntact(r, hash) ==
    /\ DOMAIN op[r].files = OpFiles
    /\ op[r].files["manifest"] = hash
    /\ \A t \in Tables : op[r].files[t] = op[r].files["manifest"]

\* The reader forgets what it loaded: it was refused, or it is done.
CloseReader ==
    /\ reader' = "idle"
    /\ asks' = "query"
    /\ gate' = NoManifest
    /\ unverified' = {}
    /\ answer' = NoDb
    /\ checks' = TRUE
    /\ UNCHANGED <<publishedVars, db, manifest, builder, sources, builds>>

Verify(r) ==
    /\ reader = "verifying" /\ r \in unverified /\ r = NextSource
    /\ SourceIntact(r, gate.sources[r])
    /\ unverified' = unverified \ {r}
    /\ UNCHANGED <<publishedVars, db, manifest, builder, sources, builds, reader, asks, gate, answer, checks>>

\* RawIntegrityError.
Refuse(r) ==
    /\ reader = "verifying" /\ r \in unverified /\ r = NextSource
    /\ ~SourceIntact(r, gate.sources[r])
    /\ CloseReader

\* DuckDB lets no other process in while dbt writes.
Query ==
    /\ reader = "verifying"
    /\ unverified = {}
    /\ db.build # 0 /\ builder # "dbt"
    /\ reader' = "answered"
    /\ answer' = db
    /\ UNCHANGED <<publishedVars, db, manifest, builder, sources, builds, asks, gate, unverified, checks>>

-----------------------------------------------------------------------------
(***************************************************************************)
(* run_reconciliation().                                                   *)
(***************************************************************************)

\* It asks the same of the manifest and of the sources as a named query, so the
\* two are told apart only here.  The connection stays open: a rebuild that
\* deletes the file meanwhile does not change what it reads.
OpenReconciliation ==
    /\ reader = "verifying"
    /\ unverified = {}
    /\ asks = "query" /\ asks' = "reconcile"
    /\ db.build # 0 /\ builder # "dbt"
    /\ reader' = "reconciling"
    /\ answer' = db
    /\ unverified' = DOMAIN gate.sources
    /\ UNCHANGED <<publishedVars, db, manifest, builder, sources, builds, gate, checks>>

\* A check of each kind passes if the fact table has what the parquet file of
\* the run has now, to the cent.
Comparable(r) ==
    \A t \in Tables : t \in DOMAIN op[r].files /\ <<r, t>> \in DOMAIN answer.facts
Agrees(r) == \A t \in Tables : answer.facts[<<r, t>>] = op[r].files[t]

\* A failed check does not stop the others; with the last one passed the
\* reader has nothing left to say.
Compare(r) ==
    /\ reader = "reconciling" /\ r \in unverified /\ r = NextSource
    /\ Comparable(r)
    /\ IF unverified = {r} /\ checks /\ Agrees(r)
       THEN CloseReader
       ELSE /\ checks' = (checks /\ Agrees(r))
            /\ unverified' = unverified \ {r}
            /\ UNCHANGED <<publishedVars, db, manifest, builder, sources, builds, reader,
                           asks, gate, answer>>

\* A parquet file or a fact table is missing: an exception nobody catches.
CannotCompare(r) ==
    /\ reader = "reconciling" /\ r \in unverified /\ r = NextSource
    /\ ~Comparable(r)
    /\ CloseReader

Done == reader # "idle" /\ CloseReader

-----------------------------------------------------------------------------
Next ==
    \/ PublishedNext /\ UNCHANGED whVars
    \/ StartBuild \/ Materialise \/ DbtFails \/ DbtSucceeds
    \/ WriteManifest \/ BuildInterrupted
    \/ LoadBuild \/ Query \/ OpenReconciliation \/ Done
    \/ \E r \in Runs : Verify(r) \/ Refuse(r) \/ Compare(r) \/ CannotCompare(r)

Spec == WarehouseInit /\ [][Next]_vars

-----------------------------------------------------------------------------
(***************************************************************************)
(* Properties.                                                             *)
(***************************************************************************)
\* integrity.py: "the warehouse is technically mutable" never becomes "and
\* nobody would notice".  Runs may be regenerated, by the same or by a newer
\* generator, while the build runs and while it is read: what a reader gets out
\* of the build whose manifest it checked is what that manifest records; and a
\* reconciliation that reports a mismatch has met a source that is no longer
\* the recorded one, never an error of the build.
AnswerMatchesRecord ==
    reader \in {"answered", "reconciling"} /\ answer.build = gate.build =>
        /\ \A x \in DOMAIN answer.facts :
              /\ x[1] \in DOMAIN gate.sources
              /\ answer.facts[x] = gate.sources[x[1]]
        /\ ~checks =>
              \E r \in DOMAIN gate.sources : ~SourceIntact(r, gate.sources[r])

\* An analysis of the build whose manifest it checked sees every fact table of
\* every source, although a failed or interrupted build leaves only some.
AnalysisSeesWholeBuild ==
    reader = "answered" /\ asks = "analysis" /\ answer.build = gate.build =>
        DOMAIN answer.facts = Facts(DOMAIN gate.sources)

\* analysis/validation.py passes a build as "complete, trustworthy" only.
TrustedBuildIsComplete ==
    reader = "answered" /\ asks = "analysis" =>
        DOMAIN answer.facts = Facts(DOMAIN gate.sources)
=============================================================================
