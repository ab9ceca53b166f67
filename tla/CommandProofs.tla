----------------------------- MODULE CommandProofs -----------------------------
(***************************************************************************)
(* Theorems about the components of DataCommands and ReleaseCommands, for  *)
(* every value of their constants.                                         *)
(*                                                                         *)
(* Only the component in focus moves, and focus never changes: each of the *)
(* components is argued alone, with an inductive invariant of its own      *)
(* files, and a lemma that says how a step of the whole is one of its own. *)
(***************************************************************************)
EXTENDS DataCommands, ReleaseCommands, TLAPS, FiniteSetTheorems, WellFoundedInduction

(* A step of the whole leaves the focus, and is one of the component that  *)
(* has it, or leaves its variables.                                        *)
LEMMA DataMoves ==
    ASSUME [DataCommandNext]_dataCommandVars
    PROVE  /\ focus' = focus
           /\ focus = "data" => Data!Next \/ UNCHANGED dataVars
           /\ focus = "intake" => Gate!IntakeNext \/ UNCHANGED intakeVars
           /\ focus = "split" => Split!SplitsNext \/ UNCHANGED splitVars
           /\ focus = "analysis" => Analysed!AnalysisNext \/ UNCHANGED analysisVars
BY SMT DEF DataCommandNext, DataCommandMoves, dataCommandVars,
           dataVars, intakeVars, splitVars, analysisVars

-----------------------------------------------------------------------------
(***************************************************************************)
(* The analysis.  Builds only replace each other between commands, so what *)
(* a running analysis has written is of one build; and an analysis that    *)
(* was killed leaves tables that are newer than their manifest, never      *)
(* older, which is why a cached page of a package cannot be stale.         *)
(***************************************************************************)
AnalysisTypeOK ==
    /\ build \in 1..AnalysisMaxBuilds
    /\ DOMAIN out = {"tables", "manifest", "insights"} /\ out.tables \in 0..build
    /\ analysis.at \in {"idle", "tables", "manifest", "insights", "final"}
    /\ DOMAIN caches = {"manifest", "tables", "package"}
    /\ caches.package \in [1..AnalysisMaxBuilds -> 0..AnalysisMaxBuilds]

WritesOfOneBuild ==
    /\ ~Analysed!Idle => DOMAIN analysis = {"at", "number", "insights", "fp"} /\ analysis.fp = build
    /\ analysis.at \in {"manifest", "insights", "final"} => out.tables = build
    /\ analysis.at \in {"insights", "final"} => out.manifest.fp = build
    /\ analysis.at = "final" => out.insights.fp = build

TablesNeverOlder ==
    /\ out.manifest # Analysed!None => out.manifest.fp \in 1..out.tables
    /\ demo # Analysed!None => demo.fp \in 1..demo.tables /\ demo.tables \in 1..out.tables
    /\ \A b \in 1..AnalysisMaxBuilds :
          caches.package[b] # 0 => /\ b <= caches.package[b]
                                   /\ demo # Analysed!None /\ caches.package[b] <= demo.tables

AnalysisInv ==
    /\ AnalysisTypeOK /\ WritesOfOneBuild /\ TablesNeverOlder
    /\ Analysed!InsightsCiteTheirBuild
    /\ Analysed!MatchReproduces
    /\ Analysed!PackagePageIsCurrent

LEMMA AnalysisStarts ==
    ASSUME Analysed!AnalysisInit
    PROVE  AnalysisInv
BY DataCommandsAssumption DEF Analysed!AnalysisAssumption, Analysed!AnalysisInit, Analysed!NoRun,
   Analysed!Idle, Analysed!None, Analysed!Builds, AnalysisInv, AnalysisTypeOK, WritesOfOneBuild,
   TablesNeverOlder, Analysed!InsightsCiteTheirBuild, Analysed!MatchReproduces,
   Analysed!PackagePageIsCurrent

LEMMA AnalysisKeeps ==
    ASSUME AnalysisInv, Analysed!AnalysisNext
    PROVE  AnalysisInv'
<1> USE DEF AnalysisInv, AnalysisTypeOK, WritesOfOneBuild, TablesNeverOlder,
        Analysed!InsightsCiteTheirBuild, Analysed!MatchReproduces,
        Analysed!PackagePageIsCurrent, Analysed!warehouse, Analysed!dashboard, Analysed!Idle,
        Analysed!None
<1>0. AnalysisMaxBuilds \in Nat \ {0}
  BY DataCommandsAssumption DEF Analysed!AnalysisAssumption
<1>1. CASE Analysed!Rebuild
  <2>1. /\ build' = build + 1 /\ build < AnalysisMaxBuilds /\ analysis.at = "idle"
        /\ UNCHANGED <<out, analysis, verdict, demo, caches, page>>
    BY <1>1 DEF Analysed!Rebuild
  <2> QED BY <1>0, <2>1
<1>2. CASE Analysed!SweepSeeds
  BY <1>2 DEF Analysed!SweepSeeds
<1>3. CASE Analysed!BeginAnalysis
  BY <1>3 DEF Analysed!BeginAnalysis
<1>4. CASE Analysed!WriteOutputs
  BY <1>4 DEF Analysed!WriteOutputs
<1>5. CASE Analysed!WriteManifest
  BY <1>5 DEF Analysed!WriteManifest, Analysed!FirstManifest, Analysed!Recorded
<1>6. CASE Analysed!WriteInsights
  BY <1>6 DEF Analysed!WriteInsights, Analysed!Insights
<1>7. CASE Analysed!FailInsights \/ Analysed!Kill
  BY <1>7 DEF Analysed!FailInsights, Analysed!Kill
<1>8. CASE Analysed!RewriteManifest
  BY <1>8 DEF Analysed!RewriteManifest, Analysed!Recorded
<1>9. CASE Analysed!Reproduce
  <2>1. UNCHANGED <<build, sweep, out, analysis, demo, caches, page>>
    BY <1>9 DEF Analysed!Reproduce
  <2>2. PICK generated \in BOOLEAN :
           LET again == [tables |-> build,
                         insights |-> IF out.manifest.asked /\ generated
                                      THEN Analysed!Insights(build, build) ELSE Analysed!None]
           IN  verdict' = [result |-> IF Analysed!Matches(out.manifest, again) THEN "match" ELSE "mismatch",
                           original |-> out.manifest, fp |-> build, with |-> sweep,
                           generated |-> again.insights # Analysed!None]
    BY <1>9 DEF Analysed!Reproduce
  <2> DEFINE again == [tables |-> build,
                       insights |-> IF out.manifest.asked /\ generated
                                    THEN Analysed!Insights(build, build) ELSE Analysed!None]
  <2>3. /\ verdict'.original = out.manifest /\ verdict'.fp = build /\ verdict'.with = sweep
        /\ verdict'.generated = (again.insights # Analysed!None)
        /\ verdict'.result = "match" => Analysed!Matches(out.manifest, again)
    BY <2>2
  <2>4. again.tables = build /\ (again.insights # Analysed!None => again.insights.sweep = sweep)
    BY DEF Analysed!Insights
  <2>5. Analysed!MatchReproduces'
    <3> HIDE DEF again
    <3> QED BY <2>3, <2>4 DEF Analysed!Matches
  <2> QED BY <2>1, <2>5
<1>10. CASE Analysed!ExportDemo
  <2>1. /\ UNCHANGED <<build, sweep, out, analysis, verdict, caches, page>>
        /\ out.manifest # Analysed!None
        /\ demo' = [fp |-> out.manifest.fp, tables |-> out.tables, segments |-> build]
    BY <1>10 DEF Analysed!ExportDemo
  <2>2. demo'.fp = out.manifest.fp /\ demo'.tables = out.tables /\ demo' # Analysed!None
    BY <2>1
  <2>3. TablesNeverOlder'
    BY <1>0, <2>1, <2>2
  <2> QED BY <2>1, <2>3
<1>11. CASE Analysed!StartServer
  <2>1. /\ UNCHANGED <<build, sweep, out, analysis, verdict, demo>>
        /\ caches'.package = [b \in 1..AnalysisMaxBuilds |-> 0]
        /\ DOMAIN caches' = {"manifest", "tables", "package"}
        /\ page' = [mode |-> "none"]
    BY <1>11 DEF Analysed!StartServer, Analysed!Builds
  <2> QED BY <1>0, <2>1
<1>12. CASE Analysed!RenderBuild
  BY <1>12 DEF Analysed!RenderBuild, Analysed!Cached
<1>13. CASE Analysed!RenderPackage
  <2> DEFINE held == caches.package[demo.fp]
             shown == IF held # 0 THEN held ELSE demo.tables
  <2>1. /\ UNCHANGED <<build, sweep, out, analysis, verdict, demo>>
        /\ demo # Analysed!None
        /\ caches' = [caches EXCEPT !.package[demo.fp] = shown]
        /\ page' = [mode |-> "demo", fp |-> demo.fp, tables |-> shown, of |-> demo.tables]
    BY <1>13 DEF Analysed!RenderPackage, Analysed!Cached, Analysed!PackageKey
  <2>2. /\ demo.fp \in 1..demo.tables /\ demo.tables \in 1..AnalysisMaxBuilds
        /\ demo.fp \in 1..AnalysisMaxBuilds /\ held \in 0..AnalysisMaxBuilds
    BY <1>0, <2>1
  <2>3. shown \in demo.fp..demo.tables
    BY <2>1, <2>2
  <2>4. /\ DOMAIN caches' = DOMAIN caches
        /\ caches'.package = [caches.package EXCEPT ![demo.fp] = shown]
        /\ page'.fp = demo.fp /\ page'.of = demo.tables /\ page'.tables = shown
    BY <2>1
  <2> HIDE DEF shown
  <2>5. AnalysisTypeOK' /\ TablesNeverOlder'
    BY <1>0, <2>1, <2>2, <2>3, <2>4
  <2>6. Analysed!PackagePageIsCurrent'
    BY <2>2, <2>3, <2>4
  <2> QED BY <2>1, <2>5, <2>6
<1> QED BY <1>1, <1>2, <1>3, <1>4, <1>5, <1>6, <1>7, <1>8, <1>9, <1>10, <1>11, <1>12, <1>13
        DEF Analysed!AnalysisNext

(* The invariant of the analysis, for any number of builds and analyses.   *)
THEOREM AnalysisInvariant == DataCommandSpec => [](focus = "analysis" => AnalysisInv)
<1>1. DataCommandInit => (focus = "analysis" => AnalysisInv)
  BY AnalysisStarts DEF DataCommandInit, AnalysisInit
<1>2. (focus = "analysis" => AnalysisInv) /\ [DataCommandNext]_dataCommandVars
        => (focus = "analysis" => AnalysisInv)'
  <2> SUFFICES ASSUME focus = "analysis" => AnalysisInv,
                      [DataCommandNext]_dataCommandVars, focus' = "analysis"
               PROVE  AnalysisInv'
    OBVIOUS
  <2>1. CASE Analysed!AnalysisNext
    BY <2>1, DataMoves, AnalysisKeeps
  <2>2. CASE UNCHANGED analysisVars
    BY <2>2, DataMoves DEF analysisVars, AnalysisInv, AnalysisTypeOK, WritesOfOneBuild,
       TablesNeverOlder, Analysed!InsightsCiteTheirBuild, Analysed!MatchReproduces,
       Analysed!PackagePageIsCurrent, Analysed!Idle
  <2> QED BY <2>1, <2>2, DataMoves
<1> QED BY <1>1, <1>2, PTL DEF DataCommandSpec

(* Insights cite the build they were computed from, a reproduction that    *)
(* matches has read the data and the sweep of the original, and a page     *)
(* over a package shows that package, however many analyses were killed    *)
(* and packages exported over one another.                                 *)
THEOREM AnalysesAreTraceable == DataCommandSpec => []AnalysisIsTraceable
<1>1. (focus = "analysis" => AnalysisInv) => AnalysisIsTraceable
  BY DEF AnalysisIsTraceable, AnalysisInv
<1> QED BY <1>1, AnalysisInvariant, PTL

-----------------------------------------------------------------------------
(***************************************************************************)
(* The intake.  The batch itself never changes, so that the quarantine and *)
(* the scores are those of one set of violations.                          *)
(***************************************************************************)
OutRows ==
    {p \in DOMAIN raw.rows :
        raw.rows[p].id \in Gate!QuarantinedIds(raw.rows, Gate!CheckRows(raw.rows))}

RowsTypeOK(rows) ==
    \E n \in Nat \ {0} : rows \in [1..n -> Gate!Row]

DividedByOneCheck ==
    /\ RowsTypeOK(raw.rows)
    /\ intake \in {"audit", "strict", "quarantine", "score", "done", "died", "blocked"}
    /\ intake \in {"audit", "strict", "quarantine", "score", "blocked"} => scored = {}
    /\ intake \in {"audit", "strict", "quarantine", "blocked"} => quarantine = {}
    /\ intake \in {"quarantine", "score", "done", "died"} =>
          /\ Gate!CheckSchema(raw) = {}
          /\ profile.rates = Gate!DataQuality(Gate!CheckRows(raw.rows))
    /\ intake = "strict" /\ Gate!CheckSchema(raw) = {} =>
          profile.rates = Gate!DataQuality(Gate!CheckRows(raw.rows))
    /\ intake \in {"score", "done", "died"} => quarantine = OutRows
    /\ intake \in {"done", "died"} =>
          scored = Gate!CleanRows(raw.rows, Gate!CheckRows(raw.rows))

(* What the checks say of a row of a batch.                                *)
LEMMA FoundRows ==
    ASSUME NEW rows, RowsTypeOK(rows), NEW p \in DOMAIN rows
    PROVE  LET Found(kind) == <<kind, p>> \in Gate!CheckRows(rows)
           IN  /\ Found("non_finite_value") <=>
                     \/ rows[p].status \in {"missing", "text"} \/ rows[p].amount = "infinite"
               /\ Found("domain_violation") <=> rows[p].status = "unknown"
               /\ Found("range_violation") <=> rows[p].amount \in {"impossible", "infinite"}
               /\ Found("duplicate_id") <=> \E q \in 1 .. p - 1 : rows[q].id = rows[p].id
BY DEF Gate!CheckRows, Gate!Duplicated, Gate!NonFinite, Gate!OutOfDomain, Gate!OutOfRange

(* The rows of a batch that nothing was found in, and no other row of      *)
(* their identifier, are fit to be scored.                                 *)
LEMMA CleanRowsAreFit ==
    ASSUME NEW rows, RowsTypeOK(rows), NEW p \in Gate!CleanRows(rows, Gate!CheckRows(rows))
    PROVE  /\ rows[p].status = "known" /\ rows[p].amount = "usual"
           /\ \A q \in DOMAIN rows \ {p} : rows[q].id # rows[p].id
<1>1. PICK n \in Nat \ {0} : rows \in [1..n -> Gate!Row]
  BY DEF RowsTypeOK
<1>2. p \in 1..n /\ \A v \in Gate!CheckRows(rows) : rows[v[2]].id # rows[p].id
  BY <1>1 DEF Gate!CleanRows, Gate!QuarantinedIds
<1>3. \A kind : <<kind, p>> \notin Gate!CheckRows(rows)
  BY <1>2
<1>4. rows[p].status \in {"known", "unknown", "missing", "text"}
      /\ rows[p].amount \in {"usual", "infinite", "impossible"}
  BY <1>1, <1>2, DataCommandsAssumption DEF Gate!Row, Gate!IntakeAssumption
<1>5. rows[p].status = "known" /\ rows[p].amount = "usual"
  BY <1>1, <1>2, <1>3, <1>4, FoundRows
<1>6. ASSUME NEW q \in DOMAIN rows, q # p, rows[q].id = rows[p].id
      PROVE  FALSE
  <2>1. CASE q < p
    <3>1. <<"duplicate_id", p>> \in Gate!CheckRows(rows)
      BY <1>1, <1>2, <1>6, <2>1 DEF Gate!CheckRows, Gate!Duplicated
    <3> QED BY <1>3, <3>1
  <2>2. CASE p < q
    <3>1. <<"duplicate_id", q>> \in Gate!CheckRows(rows)
      BY <1>1, <1>2, <1>6, <2>2 DEF Gate!CheckRows, Gate!Duplicated
    <3>2. rows[<<"duplicate_id", q>>[2]].id # rows[p].id
      BY <1>2, <3>1
    <3> QED BY <1>6, <3>2
  <2> QED BY <1>1, <1>2, <1>6, <2>1, <2>2
<1> QED BY <1>5, <1>6

(* Cardinality means the same in every module.                             *)
LEMMA GateCardinality == \A S : Gate!Cardinality(S) = Cardinality(S)
BY DEF Gate!Cardinality, Cardinality

(* A violation shows in the profile.                                       *)
LEMMA FoundIsCounted ==
    ASSUME NEW rows, RowsTypeOK(rows), Gate!CheckRows(rows) # {}
    PROVE  LET rates == Gate!DataQuality(Gate!CheckRows(rows))
           IN  \E rate \in DOMAIN rates : rates[rate] > 0
<1> DEFINE found == Gate!CheckRows(rows)
           Of(kind) == {v \in found : v[1] = kind}
           kinds == {"non_finite_value", "duplicate_id", "domain_violation", "range_violation"}
<1>1. PICK n \in Nat \ {0} : rows \in [1..n -> Gate!Row]
  BY DEF RowsTypeOK
<1>2. found \subseteq kinds \X (1..n)
  BY <1>1 DEF Gate!CheckRows, Gate!Duplicated, Gate!NonFinite, Gate!OutOfDomain, Gate!OutOfRange
<1>3. PICK kind \in kinds : Of(kind) # {}
  <2>1. PICK v : v \in found
    OBVIOUS
  <2>2. v[1] \in kinds
    BY <1>2, <2>1
  <2> HIDE DEF found, kinds
  <2> QED BY <2>1, <2>2
<1>4. Cardinality(Of(kind)) > 0
  <2>1. IsFiniteSet({kind} \X (1..n))
    <3>1. IsFiniteSet({kind})
      BY FS_Singleton
    <3>2. IsFiniteSet(1..n)
      BY FS_Interval
    <3> QED BY <3>1, <3>2, FS_Product
  <2>2. Of(kind) \subseteq {kind} \X (1..n)
    BY <1>2
  <2>3. IsFiniteSet(Of(kind))
    BY <2>1, <2>2, FS_Subset
  <2> QED BY <1>3, <2>3, FS_EmptySet, FS_CardinalityType
<1> DEFINE rates == Gate!DataQuality(found)
<1> HIDE DEF found
<1>5. rates = [missingness |-> Cardinality(Of("non_finite_value")),
               duplicates |-> Cardinality(Of("duplicate_id")),
               domain |-> Cardinality(Of("domain_violation")),
               range |-> Cardinality(Of("range_violation"))]
  BY GateCardinality DEF Gate!DataQuality
<1> HIDE DEF rates, Of
<1>6. \E rate \in DOMAIN rates : rates[rate] > 0
  BY <1>3, <1>4, <1>5
<1> QED BY <1>6 DEF found, rates

LEMMA IntakeStarts ==
    ASSUME Gate!IntakeInit
    PROVE  DividedByOneCheck
<1>1. RowsTypeOK(raw.rows)
  <2>1. raw.rows \in UNION {[1 .. n -> Gate!Row] : n \in 1 .. IntakeMaxRows}
    BY DEF Gate!IntakeInit
  <2>2. PICK n \in 1 .. IntakeMaxRows : raw.rows \in [1..n -> Gate!Row]
    BY <2>1
  <2> QED BY <2>2, DataCommandsAssumption DEF RowsTypeOK, Gate!IntakeAssumption
<1> QED BY <1>1 DEF Gate!IntakeInit, Gate!NotScored, DividedByOneCheck

LEMMA IntakeKeeps ==
    ASSUME DividedByOneCheck, Gate!IntakeNext
    PROVE  DividedByOneCheck'
<1> USE DEF DividedByOneCheck
<1>1. CASE Gate!AuditBatch
  <2>1. /\ UNCHANGED <<raw, scored, quarantine>> /\ intake = "audit" /\ intake' = "strict"
        /\ Gate!CheckSchema(raw) = {} => profile'.rates = Gate!DataQuality(Gate!CheckRows(raw.rows))
    BY <1>1 DEF Gate!AuditBatch
  <2> QED BY <2>1
<1>2. CASE Gate!BlockBatch
  BY <1>2 DEF Gate!BlockBatch
<1>3. CASE Gate!AdmitBatch
  <2>1. Gate!CheckRows(raw.rows) = {} => OutRows = {}
    BY DEF OutRows, Gate!QuarantinedIds
  <2>2. /\ UNCHANGED <<raw, profile, scored, quarantine>> /\ intake = "strict"
        /\ intake' = IF Gate!CheckRows(raw.rows) = {} THEN "score" ELSE "quarantine"
        /\ Gate!CheckSchema(raw) = {} /\ OutRows' = OutRows
    BY <1>3 DEF Gate!AdmitBatch, OutRows
  <2> QED BY <2>1, <2>2
<1>4. CASE Gate!WriteQuarantine
  <2>1. /\ UNCHANGED <<raw, profile, scored>> /\ intake = "quarantine" /\ intake' = "score"
        /\ quarantine' = OutRows /\ OutRows' = OutRows
    BY <1>4 DEF Gate!WriteQuarantine, OutRows
  <2> QED BY <2>1
<1>5. CASE Gate!ScoreBatch
  <2>1. /\ UNCHANGED <<raw, profile, quarantine>> /\ intake = "score" /\ intake' \in {"died", "done"}
        /\ scored' = Gate!CleanRows(raw.rows, Gate!CheckRows(raw.rows)) /\ OutRows' = OutRows
    BY <1>5 DEF Gate!ScoreBatch, OutRows
  <2> QED BY <2>1
<1> QED BY <1>1, <1>2, <1>3, <1>4, <1>5 DEF Gate!IntakeNext

(* The invariant of the intake, for batches of any size and rows of any    *)
(* identifiers.                                                            *)
THEOREM IntakeInvariant == DataCommandSpec => [](focus = "intake" => DividedByOneCheck)
<1>1. DataCommandInit => (focus = "intake" => DividedByOneCheck)
  BY IntakeStarts DEF DataCommandInit, IntakeInit
<1>2. (focus = "intake" => DividedByOneCheck) /\ [DataCommandNext]_dataCommandVars
        => (focus = "intake" => DividedByOneCheck)'
  <2> SUFFICES ASSUME focus = "intake" => DividedByOneCheck,
                      [DataCommandNext]_dataCommandVars, focus' = "intake"
               PROVE  DividedByOneCheck'
    OBVIOUS
  <2>1. CASE Gate!IntakeNext
    BY <2>1, DataMoves, IntakeKeeps
  <2>2. CASE UNCHANGED intakeVars
    BY <2>2, DataMoves DEF intakeVars, DividedByOneCheck, OutRows
  <2> QED BY <2>1, <2>2, DataMoves
<1> QED BY <1>1, <1>2, PTL DEF DataCommandSpec

LEMMA BatchesArePartitioned ==
    ASSUME DividedByOneCheck
    PROVE  Gate!BatchIsPartitioned
<1> USE DEF DividedByOneCheck
<1>1. intake = "blocked" => scored = {} /\ quarantine = {}
  OBVIOUS
<1>2. ASSUME intake \in {"done", "died"}
      PROVE  /\ scored \cup quarantine = DOMAIN raw.rows
             /\ scored \cap quarantine = {}
             /\ quarantine # {} => \E rate \in DOMAIN profile.rates : profile.rates[rate] > 0
  <2>1. /\ scored = Gate!CleanRows(raw.rows, Gate!CheckRows(raw.rows))
        /\ quarantine = OutRows
        /\ profile.rates = Gate!DataQuality(Gate!CheckRows(raw.rows))
    BY <1>2
  <2>2. quarantine # {} => Gate!CheckRows(raw.rows) # {}
    BY <2>1 DEF OutRows, Gate!QuarantinedIds
  <2>3. quarantine # {} => \E rate \in DOMAIN profile.rates : profile.rates[rate] > 0
    BY <2>1, <2>2, FoundIsCounted
  <2> QED BY <2>1, <2>3 DEF OutRows, Gate!CleanRows
<1>3. ASSUME NEW p \in scored
      PROVE  /\ raw.rows[p].status = "known" /\ raw.rows[p].amount = "usual"
             /\ \A q \in DOMAIN raw.rows \ {p} : raw.rows[q].id # raw.rows[p].id
  <2>1. scored = Gate!CleanRows(raw.rows, Gate!CheckRows(raw.rows))
    BY <1>3
  <2> QED BY <1>3, <2>1, CleanRowsAreFit
<1> QED BY <1>1, <1>2, <1>3 DEF Gate!BatchIsPartitioned

(* Each of the six probes spoils a clean sample in a way the contract      *)
(* notices, and the four that spoil a row spoil nothing of the schema.     *)
LEMMA SelfTestsAccept ==
    ASSUME DividedByOneCheck
    PROVE  Gate!SelfTestAccepts
<1> DEFINE rows == raw.rows
<1> SUFFICES ASSUME Len(rows) > 1, Gate!CheckSchema(raw) = {}, Gate!CheckRows(rows) = {}
             PROVE  Gate!SelfTest(rows)
  BY DEF Gate!SelfTestAccepts
<1>1. PICK n \in Nat \ {0} : rows \in [1..n -> Gate!Row]
  BY DEF DividedByOneCheck, RowsTypeOK
<1>2. Len(rows) = n /\ n > 1 /\ 1 \in 1..n /\ n \in 1..n
  BY <1>1
<1>3. \A p \in 1..n : rows[p].status = "known" /\ rows[p].amount = "usual"
  <2>1. 1..n = Gate!CleanRows(rows, Gate!CheckRows(rows))
    BY <1>1 DEF Gate!CleanRows, Gate!QuarantinedIds
  <2> QED BY <1>1, <2>1, CleanRowsAreFit DEF RowsTypeOK
<1>4. \A p \in 1..n : DOMAIN rows[p] = {"id", "status", "amount"}
  BY <1>1 DEF Gate!Row
<1> HIDE DEF rows
<1>5. ASSUME NEW kind \in {"missing_required_column", "unexpected_extra_column"}
      PROVE  Gate!CheckSchema(Gate!Probe(kind, rows)) # {}
  BY DEF Gate!CheckSchema, Gate!Probe
<1>6. ASSUME NEW kind \in {"domain_violation", "non_finite_value", "range_violation",
                           "duplicate_id"}
      PROVE  LET probe == Gate!Probe(kind, rows)
             IN  /\ Gate!CheckSchema(probe) = {}
                 /\ Gate!QuarantinedIds(probe.rows, Gate!CheckRows(probe.rows)) # {}
  <2> DEFINE probe == Gate!Probe(kind, rows)
  <2>1. probe.schema = "complete"
    BY DEF Gate!Probe
  <2>2. /\ DOMAIN probe.rows = 1..n
        /\ \A p \in 1..n : probe.rows[p].status # "text"
        /\ \/ kind = "domain_violation" /\ probe.rows[1].status = "unknown"
           \/ kind = "non_finite_value" /\ probe.rows[1].status = "missing"
           \/ kind = "range_violation" /\ probe.rows[1].amount = "impossible"
           \/ kind = "duplicate_id" /\ probe.rows[n].id = probe.rows[1].id
    BY <1>1, <1>2, <1>3, <1>4, <1>6 DEF Gate!Probe
  <2> HIDE DEF probe
  <2>3. Gate!CheckSchema(probe) = {}
    BY <2>1, <2>2 DEF Gate!CheckSchema, Gate!WrongDtype
  <2>4. Gate!CheckRows(probe.rows) # {}
    <3>1. CASE kind = "domain_violation"
      <4>1. 1 \in Gate!OutOfDomain(probe.rows)
        BY <1>2, <2>2, <3>1 DEF Gate!OutOfDomain
      <4>2. <<"domain_violation", 1>> \in Gate!CheckRows(probe.rows)
        BY <4>1 DEF Gate!CheckRows
      <4> QED BY <4>2
    <3>2. CASE kind = "non_finite_value"
      <4>1. 1 \in Gate!NonFinite(probe.rows)
        BY <1>2, <2>2, <3>2 DEF Gate!NonFinite
      <4>2. <<"non_finite_value", 1>> \in Gate!CheckRows(probe.rows)
        BY <4>1 DEF Gate!CheckRows
      <4> QED BY <4>2
    <3>3. CASE kind = "range_violation"
      <4>1. 1 \in Gate!OutOfRange(probe.rows)
        BY <1>2, <2>2, <3>3 DEF Gate!OutOfRange
      <4>2. <<"range_violation", 1>> \in Gate!CheckRows(probe.rows)
        BY <4>1 DEF Gate!CheckRows
      <4> QED BY <4>2
    <3>4. CASE kind = "duplicate_id"
      <4>1. n \in Gate!Duplicated(probe.rows)
        BY <1>2, <2>2, <3>4 DEF Gate!Duplicated
      <4>2. <<"duplicate_id", n>> \in Gate!CheckRows(probe.rows)
        BY <4>1 DEF Gate!CheckRows
      <4> QED BY <4>2
    <3> QED BY <1>6, <3>1, <3>2, <3>3, <3>4
  <2>5. Gate!QuarantinedIds(probe.rows, Gate!CheckRows(probe.rows)) # {}
    BY <2>4 DEF Gate!QuarantinedIds
  <2> QED BY <2>3, <2>5 DEF probe
<1> QED BY <1>5, <1>6 DEF Gate!SelfTest

-----------------------------------------------------------------------------
(***************************************************************************)
(* The splits.  A split table is written once, whole or torn, and never    *)
(* again: whatever version of the dataset is there, every model learns and *)
(* every command reads rows by the names of that one table.                *)
(***************************************************************************)
TableRows(part) == IF splitTable = Split!Absent THEN {} ELSE Split!Named(splitTable[1], part)

AgreesWithTable(split) ==
    /\ splitTable # Split!Absent
    /\ \A i \in DOMAIN split : i \in DOMAIN splitTable[1] /\ split[i] = splitTable[1][i]

LearnedByTable(learnt) ==
    /\ learnt.fitted \subseteq TableRows("train")
    /\ learnt.chosen \subseteq TableRows("train") \cup TableRows("validation")

SplitTypeOK ==
    /\ DOMAIN modelCommand = {"name", "step", "split", "model"}
    /\ modelCommand.name \in {"none", "create-split", "train"}
    /\ modelCommand.step \in {"none", "write", "fit", "dump", "record"}
    /\ modelCommand.name = "none" <=> modelCommand.step = "none"
    /\ DOMAIN monitored = {"performance", "batches"}

OneTableForAll ==
    /\ modelCommand.step = "write" => splitTable = Split!Absent
    /\ modelCommand.step = "fit" => AgreesWithTable(modelCommand.split)
    /\ modelCommand.step = "dump" => LearnedByTable(modelCommand.model)
    /\ LearnedByTable(model)
    /\ evaluation.test \subseteq TableRows("test")
    /\ evaluation.validation \subseteq TableRows("validation")
    /\ monitored.performance \subseteq TableRows("validation")
    /\ \A p \in DOMAIN monitored.batches : monitored.batches[p] \subseteq TableRows("test")

BatchesApart ==
    \A p \in DOMAIN monitored.batches : \A q \in 1 .. p - 1 :
        monitored.batches[p] \cap monitored.batches[q] = {}

SplitInv == SplitTypeOK /\ OneTableForAll /\ BatchesApart

(* Parts of one table have no row in common.                               *)
LEMMA PartsApart ==
    /\ TableRows("test") \cap (TableRows("train") \cup TableRows("validation")) = {}
    /\ TableRows("train") \cap TableRows("validation") = {}
BY DEF TableRows, Split!Named

(* What agrees with the table has its names.                               *)
LEMMA NamedByTable ==
    ASSUME NEW split, AgreesWithTable(split), NEW part
    PROVE  Split!Named(split, part) \subseteq TableRows(part)
BY DEF AgreesWithTable, TableRows, Split!Named

LEMMA AppliedTableAgrees ==
    ASSUME NEW rows, Split!Applicable(rows)
    PROVE  AgreesWithTable(Split!ApplyTable(rows))
BY DEF Split!Applicable, Split!ApplyTable, AgreesWithTable

LEMMA TrainedByTable ==
    ASSUME NEW split, AgreesWithTable(split)
    PROVE  LearnedByTable(Split!Trained(split))
<1>1. /\ Split!Trained(split).fitted = Split!Named(split, "train")
      /\ Split!Trained(split).chosen = Split!Named(split, "train") \cup Split!Named(split, "validation")
  BY DEF Split!Trained, Split!CompareCalibration, Split!TuneCandidate, Split!FitModel
<1> QED BY <1>1, NamedByTable DEF LearnedByTable

(* Slices of one partition have no row in common: the position of a row    *)
(* among the sorted ones is a single number.                               *)
LEMMA SlicesApart ==
    ASSUME NEW p \in Nat, NEW q \in 1 .. p - 1
    PROVE  Split!SliceOfPartition(p) \cap Split!SliceOfPartition(q) = {}
<1>1. SplitBatchRows \in Nat
  BY DataCommandsAssumption DEF Split!SplitsAssumption
<1>2. q * SplitBatchRows <= (p - 1) * SplitBatchRows
  <2>1. (p - 1) * SplitBatchRows = q * SplitBatchRows + (p - 1 - q) * SplitBatchRows
    BY <1>1
  <2>2. (p - 1 - q) * SplitBatchRows \in Nat
    <3>1. p - 1 - q \in Nat
      OBVIOUS
    <3> QED BY <1>1, <3>1
  <2>3. q * SplitBatchRows \in Int
    BY <1>1
  <2> QED BY <2>1, <2>2, <2>3
<1> DEFINE low == (p - 1) * SplitBatchRows
           high == q * SplitBatchRows
<1>3. low \in Int /\ high \in Int
  BY <1>1
<1>4. \A i \in Split!SliceOfPartition(p) : Split!SortedPosition(i) \in low + 1 .. p * SplitBatchRows
  BY DEF Split!SliceOfPartition
<1>5. \A i \in Split!SliceOfPartition(q) : Split!SortedPosition(i) \in (q - 1) * SplitBatchRows + 1 .. high
  BY DEF Split!SliceOfPartition
<1> QED BY <1>2, <1>3, <1>4, <1>5

LEMMA SplitStarts ==
    ASSUME Split!SplitsInit
    PROVE  SplitInv
BY DEF Split!SplitsInit, Split!NoModel, Split!NoEvaluation, Split!NoneMonitored, Split!NoCommand,
   Split!Absent, SplitInv, SplitTypeOK, OneTableForAll, BatchesApart, LearnedByTable, TableRows

(* A table that is there stays: what was read by it was read by the table   *)
(* that is there now.                                                      *)
LEMMA TableRowsKept ==
    ASSUME splitTable' = splitTable \/ splitTable = Split!Absent
    PROVE  /\ TableRows("train") \subseteq TableRows("train")'
           /\ TableRows("validation") \subseteq TableRows("validation")'
           /\ TableRows("test") \subseteq TableRows("test")'
BY DEF TableRows

LEMMA SplitKeeps ==
    ASSUME SplitInv, Split!SplitsNext
    PROVE  SplitInv'
<1>0. SplitTypeOK /\ OneTableForAll /\ BatchesApart
  BY DEF SplitInv
\* What a command has under way is all that changes, and the table at most.
<1>1. ASSUME UNCHANGED <<model, evaluation, monitored>>, SplitTypeOK',
             splitTable' = splitTable \/ splitTable = Split!Absent,
             \/ modelCommand'.step \in {"none", "record"}
             \/ modelCommand'.step = "write" /\ splitTable' = Split!Absent
             \/ modelCommand'.step = "fit" /\ AgreesWithTable(modelCommand.split)'
             \/ modelCommand'.step = "dump" /\ LearnedByTable(modelCommand.model)'
      PROVE  SplitInv'
  <2>1. OneTableForAll'
    BY <1>0, <1>1, TableRowsKept DEF OneTableForAll, LearnedByTable
  <2> QED BY <1>0, <1>1, <2>1 DEF SplitInv, BatchesApart
<1>2. CASE Split!FetchFile \/ Split!FetchEntry \/ Split!PinContract
  <2>1. UNCHANGED <<splitTable, model, evaluation, monitored, modelCommand>>
    BY <1>2 DEF Split!FetchFile, Split!FetchEntry, Split!PinContract
  <2> QED BY <1>0, <2>1 DEF SplitInv, SplitTypeOK, OneTableForAll, BatchesApart, LearnedByTable,
             AgreesWithTable, TableRows
<1>3. CASE Split!BeginCreateSplit
  <2>1. /\ UNCHANGED <<splitTable, model, evaluation, monitored>> /\ splitTable = Split!Absent
        /\ DOMAIN modelCommand' = {"name", "step", "split", "model"}
        /\ modelCommand'.name = "create-split" /\ modelCommand'.step = "write"
    BY <1>3 DEF Split!BeginCreateSplit, Split!keepModel, Split!NoCommand
  <2> QED BY <1>0, <1>1, <2>1 DEF SplitTypeOK
<1>4. CASE Split!BeginTrain
  <2>1. UNCHANGED <<splitTable, model, evaluation, monitored>>
    BY <1>4 DEF Split!BeginTrain, Split!keepModel
  <2>2. PICK split \in Split!TrainSplits(Split!Rows) :
           modelCommand' = [Split!NoCommand EXCEPT
                               !.name = "train", !.split = split,
                               !.step = IF splitTable = Split!Absent THEN "write" ELSE "fit"]
    BY <1>4 DEF Split!BeginTrain
  <2>3. /\ DOMAIN modelCommand' = {"name", "step", "split", "model"}
        /\ modelCommand'.name = "train" /\ modelCommand'.split = split
        /\ modelCommand'.step = IF splitTable = Split!Absent THEN "write" ELSE "fit"
    BY <2>2 DEF Split!NoCommand
  <2>4. splitTable # Split!Absent => AgreesWithTable(split)
    BY AppliedTableAgrees DEF Split!TrainSplits
  <2>5. splitTable # Split!Absent => AgreesWithTable(modelCommand.split)'
    BY <2>1, <2>3, <2>4 DEF AgreesWithTable
  <2>6. SplitTypeOK'
    BY <1>0, <2>1, <2>3 DEF SplitTypeOK
  <2> QED BY <1>1, <2>1, <2>3, <2>5, <2>6
<1>5. CASE Split!WriteSplitTable
  <2>1. /\ UNCHANGED <<model, evaluation, monitored>> /\ modelCommand.step = "write"
        /\ splitTable' = <<modelCommand.split>>
        /\ modelCommand' = IF modelCommand.name = "train" THEN [modelCommand EXCEPT !.step = "fit"]
                           ELSE Split!NoCommand
    BY <1>5 DEF Split!WriteSplitTable, Split!keepModel
  <2>2. splitTable = Split!Absent
    BY <1>0, <2>1 DEF OneTableForAll
  <2>3. SplitTypeOK' /\ modelCommand'.step \in {"none", "fit"}
        /\ (modelCommand'.step = "fit" => modelCommand'.split = modelCommand.split)
    BY <1>0, <2>1 DEF SplitTypeOK, Split!NoCommand
  <2>4. splitTable' # Split!Absent /\ splitTable'[1] = modelCommand.split
    BY <2>1 DEF Split!Absent
  <2>5. modelCommand'.step = "fit" => AgreesWithTable(modelCommand.split)'
    BY <2>3, <2>4 DEF AgreesWithTable, Split!Absent
  <2> QED BY <1>1, <2>1, <2>2, <2>3, <2>5
<1>6. CASE Split!Fit
  <2>1. /\ UNCHANGED <<splitTable, model, evaluation, monitored>> /\ modelCommand.step = "fit"
        /\ modelCommand' = [modelCommand EXCEPT !.step = "dump",
                                                !.model = Split!Trained(modelCommand.split)]
    BY <1>6 DEF Split!Fit, Split!keepModel
  <2>2. SplitTypeOK' /\ modelCommand'.step = "dump"
        /\ modelCommand'.model = Split!Trained(modelCommand.split)
    BY <1>0, <2>1 DEF SplitTypeOK
  <2>3. LearnedByTable(Split!Trained(modelCommand.split))
    BY <1>0, <2>1, TrainedByTable DEF OneTableForAll
  <2>4. LearnedByTable(modelCommand.model)'
    BY <2>1, <2>2, <2>3 DEF LearnedByTable, TableRows
  <2> QED BY <1>1, <2>1, <2>2, <2>4
<1>7. CASE Split!DumpModel
  <2>1. /\ UNCHANGED <<splitTable, evaluation, monitored>> /\ modelCommand.step = "dump"
        /\ model' = modelCommand.model
        /\ modelCommand' = [modelCommand EXCEPT !.step = "record"]
    BY <1>7 DEF Split!DumpModel
  <2>2. SplitTypeOK' /\ modelCommand'.step = "record"
    BY <1>0, <2>1 DEF SplitTypeOK
  <2>3. LearnedByTable(modelCommand.model) /\ UNCHANGED <<TableRows("train"), TableRows("validation"), TableRows("test")>>
    BY <1>0, <2>1 DEF OneTableForAll, TableRows
  <2>4. LearnedByTable(model)'
    BY <2>1, <2>3 DEF LearnedByTable
  <2>5. OneTableForAll'
    BY <1>0, <2>1, <2>2, <2>3, <2>4 DEF OneTableForAll
  <2> QED BY <1>0, <2>1, <2>2, <2>5 DEF SplitInv, BatchesApart
<1>8. CASE Split!RecordExperiment
  <2>1. /\ UNCHANGED <<splitTable, model, evaluation, monitored>> /\ modelCommand' = Split!NoCommand
    BY <1>8 DEF Split!RecordExperiment
  <2> QED BY <1>0, <1>1, <2>1 DEF SplitTypeOK, Split!NoCommand
<1>9. CASE Split!KillModelCommand
  <2>1. /\ UNCHANGED <<model, evaluation, monitored>> /\ modelCommand' = Split!NoCommand
        /\ modelCommand.step = "write" \/ UNCHANGED splitTable
    BY <1>9 DEF Split!KillModelCommand, Split!keepModel
  <2>2. splitTable' = splitTable \/ splitTable = Split!Absent
    BY <1>0, <2>1 DEF OneTableForAll
  <2> QED BY <1>0, <1>1, <2>1, <2>2 DEF SplitTypeOK, Split!NoCommand
\* The commands that read the rows the table names.
<1>10. ASSUME Split!Usable
       PROVE  \A part : Split!Named(Split!ApplyTable(Split!Rows), part) \subseteq TableRows(part)
  BY <1>10, AppliedTableAgrees, NamedByTable DEF Split!Usable
<1>11. CASE Split!Evaluate
  <2>1. /\ UNCHANGED <<splitTable, model, monitored, modelCommand>> /\ Split!Usable
        /\ evaluation' = [test |-> Split!Named(Split!ApplyTable(Split!Rows), "test"),
                          validation |-> Split!Named(Split!ApplyTable(Split!Rows), "validation")]
    BY <1>11 DEF Split!Evaluate, Split!OperatingPoints
  <2>2. evaluation'.test \subseteq TableRows("test") /\ evaluation'.validation \subseteq TableRows("validation")
    BY <1>10, <2>1
  <2>3. SplitTypeOK' /\ BatchesApart'
    BY <1>0, <2>1 DEF SplitTypeOK, BatchesApart
  <2>4. OneTableForAll'
    BY <1>0, <2>1, <2>2 DEF OneTableForAll, LearnedByTable, AgreesWithTable, TableRows
  <2> QED BY <2>3, <2>4 DEF SplitInv
<1>12. CASE Split!PerformanceReference
  <2>1. /\ UNCHANGED <<splitTable, model, evaluation, modelCommand>> /\ Split!Usable
        /\ monitored' = [monitored EXCEPT
                            !.performance = Split!Named(Split!ApplyTable(Split!Rows), "validation")]
    BY <1>12 DEF Split!PerformanceReference
  <2>2. /\ DOMAIN monitored' = DOMAIN monitored /\ monitored'.batches = monitored.batches
        /\ monitored'.performance \subseteq TableRows("validation")
    BY <1>0, <1>10, <2>1 DEF SplitTypeOK
  <2>3. SplitTypeOK' /\ BatchesApart'
    BY <1>0, <2>1, <2>2 DEF SplitTypeOK, BatchesApart
  <2>4. OneTableForAll'
    BY <1>0, <2>1, <2>2 DEF OneTableForAll, LearnedByTable, AgreesWithTable, TableRows
  <2> QED BY <2>3, <2>4 DEF SplitInv
<1>13. CASE Split!BuildBatches
  <2>1. /\ UNCHANGED <<splitTable, model, evaluation, modelCommand>> /\ Split!Usable
        /\ monitored' = [monitored EXCEPT
                            !.batches = [p \in 1 .. SplitNBatches |-> Split!SliceOfPartition(p)]]
    BY <1>13 DEF Split!BuildBatches
  <2>2. /\ DOMAIN monitored' = DOMAIN monitored /\ monitored'.performance = monitored.performance
        /\ monitored'.batches = [p \in 1 .. SplitNBatches |-> Split!SliceOfPartition(p)]
    BY <1>0, <2>1 DEF SplitTypeOK
  <2>3. \A p \in 1 .. SplitNBatches : Split!SliceOfPartition(p) \subseteq TableRows("test")
    BY <1>10, <2>1 DEF Split!SliceOfPartition, Split!TestRows
  <2>4. SplitTypeOK'
    BY <1>0, <2>1, <2>2 DEF SplitTypeOK
  <2>5. BatchesApart'
    <3> SUFFICES ASSUME NEW p \in 1 .. SplitNBatches, NEW q \in 1 .. p - 1
                 PROVE  monitored'.batches[p] \cap monitored'.batches[q] = {}
      BY <2>2 DEF BatchesApart
    <3>1. SplitNBatches \in Nat
      BY DataCommandsAssumption DEF Split!SplitsAssumption
    <3>2. monitored'.batches[p] = Split!SliceOfPartition(p)
          /\ monitored'.batches[q] = Split!SliceOfPartition(q)
      BY <2>2, <3>1
    <3> QED BY <3>1, <3>2, SlicesApart
  <2>6. OneTableForAll'
    BY <1>0, <2>1, <2>2, <2>3 DEF OneTableForAll, LearnedByTable, AgreesWithTable, TableRows
  <2> QED BY <2>4, <2>5, <2>6 DEF SplitInv
<1> QED BY <1>2, <1>3, <1>4, <1>5, <1>6, <1>7, <1>8, <1>9, <1>11, <1>12, <1>13 DEF Split!SplitsNext

(* The invariant of the splits, for any versions of the dataset, any       *)
(* shares, and any number and size of batches.                             *)
THEOREM SplitInvariant == DataCommandSpec => [](focus = "split" => SplitInv)
<1>1. DataCommandInit => (focus = "split" => SplitInv)
  BY SplitStarts DEF DataCommandInit, SplitInit
<1>2. (focus = "split" => SplitInv) /\ [DataCommandNext]_dataCommandVars
        => (focus = "split" => SplitInv)'
  <2> SUFFICES ASSUME focus = "split" => SplitInv,
                      [DataCommandNext]_dataCommandVars, focus' = "split"
               PROVE  SplitInv'
    OBVIOUS
  <2>1. CASE Split!SplitsNext
    BY <2>1, DataMoves, SplitKeeps
  <2>2. CASE UNCHANGED splitVars
    BY <2>2, DataMoves DEF splitVars, SplitInv, SplitTypeOK, OneTableForAll, BatchesApart,
       LearnedByTable, AgreesWithTable, TableRows
  <2> QED BY <2>1, <2>2, DataMoves
<1> QED BY <1>1, <1>2, PTL DEF DataCommandSpec

(* The rows a model is judged on were neither fitted nor chosen on, those  *)
(* that set thresholds and the performance reference were not fitted on,   *)
(* and monitoring batches overlap neither the training nor one another.    *)
LEMMA RowsUnseen ==
    ASSUME SplitInv
    PROVE  Split!TestRowsUnseen
<1>1. /\ LearnedByTable(model) /\ BatchesApart
      /\ evaluation.test \subseteq TableRows("test")
      /\ evaluation.validation \subseteq TableRows("validation")
      /\ monitored.performance \subseteq TableRows("validation")
      /\ \A p \in DOMAIN monitored.batches : monitored.batches[p] \subseteq TableRows("test")
  BY DEF SplitInv, OneTableForAll
<1> QED BY <1>1, PartsApart DEF Split!TestRowsUnseen, LearnedByTable, BatchesApart

(* No row a model is judged or monitored on was learned from, however      *)
(* training is killed or repeated and the dataset replaced; and a batch    *)
(* that is let in is divided into rows fit to be scored, each once, and    *)
(* rows in quarantine, which the self-test of the gate would notice.       *)
THEOREM ModelDataAreSound == DataCommandSpec => []ModelDataIsSound
<1>1. (focus = "split" => SplitInv) /\ (focus = "intake" => DividedByOneCheck) => ModelDataIsSound
  BY RowsUnseen, BatchesArePartitioned, SelfTestsAccept DEF ModelDataIsSound
<1> QED BY <1>1, SplitInvariant, IntakeInvariant, PTL

-----------------------------------------------------------------------------
(***************************************************************************)
(* The raw data.  First the calendar: the windows of a series follow one   *)
(* another without a gap, and so do the periods they touch, whatever the   *)
(* length of a window and of a period.                                     *)
(***************************************************************************)
LEMMA Floor ==
    ASSUME NEW a \in Int, NEW p \in Nat \ {0}
    PROVE  a \div p \in Int /\ p * (a \div p) <= a /\ a < p * (a \div p) + p
OBVIOUS

LEMMA Multiples ==
    ASSUME NEW p \in Nat \ {0}, NEW x \in Int, NEW y \in Int, x < y
    PROVE  p * x \in Int /\ p * y \in Int /\ p * x + p <= p * y
<1>1. p * (y - x - 1) \in Nat
  <2>1. y - x - 1 \in Nat
    OBVIOUS
  <2> QED BY <2>1
<1>2. p * (y - x - 1) = p * y - p * x - p
  OBVIOUS
<1>3. p * y \in Int /\ p * x \in Int
  OBVIOUS
<1> QED BY <1>1, <1>2, <1>3

LEMMA QuotientsAreMonotone ==
    ASSUME NEW a \in Int, NEW b \in Int, NEW p \in Nat \ {0}, a <= b
    PROVE  a \div p <= b \div p
<1> DEFINE x == b \div p
           y == a \div p
<1>1. x \in Int /\ b < p * x + p /\ y \in Int /\ p * y <= a
  BY Floor
<1> HIDE DEF x, y
<1>2. SUFFICES ASSUME x < y PROVE FALSE
  BY <1>1 DEF x, y
<1>3. p * x \in Int /\ p * y \in Int /\ p * x + p <= p * y
  BY <1>1, <1>2, Multiples
<1> QED BY <1>1, <1>3

LEMMA QuotientsAreContiguous ==
    ASSUME NEW a \in Int, NEW p \in Nat \ {0}
    PROVE  (a + 1) \div p <= a \div p + 1
<1> DEFINE x == a \div p + 1
           y == (a + 1) \div p
<1>1. x \in Int /\ a < p * (x - 1) + p /\ y \in Int /\ p * y <= a + 1
  <2>1. x - 1 = a \div p
    OBVIOUS
  <2> QED BY <2>1, Floor
<1> HIDE DEF x, y
<1>2. SUFFICES ASSUME x < y PROVE FALSE
  BY <1>1 DEF x, y
<1>3. p * x \in Int /\ p * y \in Int /\ p * x + p <= p * y /\ p * (x - 1) + p = p * x
  BY <1>1, <1>2, Multiples
<1> QED BY <1>1, <1>3

LEMMA Calendar ==
    ASSUME NEW day \in Nat \ {0}, NEW end \in Nat, day <= end
    PROVE  /\ Data!PeriodOf(day - 1) \in Nat /\ Data!PeriodOf(day) \in Nat \ {0}
           /\ Data!PeriodOf(end) \in Nat
           /\ Data!PeriodOf(day - 1) <= Data!PeriodOf(day)
           /\ Data!PeriodOf(day) <= Data!PeriodOf(day - 1) + 1
           /\ Data!PeriodOf(day) <= Data!PeriodOf(end)
           /\ Data!PeriodOf(0) = 0
<1>1. RawPeriodDays \in Nat \ {0}
  BY DataCommandsAssumption DEF Data!AcquisitionAssumption
<1> DEFINE Q(d) == (d - 1) \div RawPeriodDays
<1>2. \A d \in Nat : Q(d) \in Int /\ Data!PeriodOf(d) = Q(d) + 1
  BY <1>1, Floor DEF Data!PeriodOf
<1>3. Q(0) = -1 /\ Q(1) = 0
  <2>1. ASSUME NEW q \in Int, NEW a \in {-1, 0}, RawPeriodDays * q <= a, a < RawPeriodDays * q + RawPeriodDays
        PROVE  q = a
    <3>1. q > a => FALSE
      <4>1. RawPeriodDays * 0 = 0 /\ RawPeriodDays * (-1) = - RawPeriodDays
        BY <1>1
      <4> QED BY <1>1, <2>1, <4>1, Multiples
    <3>2. q < a => FALSE
      <4>1. RawPeriodDays * 0 = 0 /\ RawPeriodDays * (-1) = - RawPeriodDays
        BY <1>1
      <4> QED BY <1>1, <2>1, <4>1, Multiples
    <3> QED BY <3>1, <3>2
  <2>2. Q(0) = -1
    BY <1>1, <2>1, Floor
  <2>3. Q(1) = 0
    BY <1>1, <2>1, Floor
  <2> QED BY <2>2, <2>3
<1>4. \A d, e \in Nat : d <= e => Q(d) <= Q(e)
  BY <1>1, QuotientsAreMonotone
<1>5. Q(day) <= Q(day - 1) + 1
  <2>1. (day - 1 - 1) + 1 = day - 1 /\ day - 1 - 1 \in Int
    OBVIOUS
  <2> QED BY <1>1, <2>1, QuotientsAreContiguous
<1> HIDE DEF Q
<1>6. /\ Q(0) <= Q(day - 1) /\ Q(1) <= Q(day) /\ Q(day - 1) <= Q(day) /\ Q(day) <= Q(end)
      /\ day - 1 \in Nat /\ day \in Nat /\ 0 \in Nat /\ 1 \in Nat
  BY <1>4
<1> QED BY <1>2, <1>3, <1>5, <1>6

(***************************************************************************)
(* Induction over 0..n, for a property given as the set of its instances.  *)
(***************************************************************************)
LEMMA LeastElement ==
    ASSUME NEW S \in SUBSET Nat, S # {}
    PROVE  \E m \in S : \A n \in S : m <= n
<1>1. IsWellFoundedOn(OpToRel(<, Nat), Nat)
  BY NatLessThanWellFounded
<1>2. PICK m \in S : \A n \in S : ~(<<n, m>> \in OpToRel(<, Nat))
  BY <1>1, WFMin
<1>3. \A n \in S : ~(n < m)
  BY <1>2 DEF OpToRel
<1> QED BY <1>3

LEMMA UpToInduction ==
    ASSUME NEW n \in Nat, NEW S, 0 \in S,
           \A k \in 0..n : k \in S /\ k + 1 <= n => k + 1 \in S
    PROVE  \A k \in 0..n : k \in S
<1>1. SUFFICES ASSUME NEW b \in 0..n, b \notin S PROVE FALSE
  OBVIOUS
<1> DEFINE Bad == {k \in Nat : k <= n /\ k \notin S}
<1>2. Bad \in SUBSET Nat /\ Bad # {}
  BY <1>1
<1>3. PICK m \in Bad : \A k \in Bad : m <= k
  <2> HIDE DEF Bad
  <2> QED BY <1>2, LeastElement
<1>4. m # 0 /\ m - 1 \in 0..n /\ m - 1 \in S
  BY <1>3
<1> QED BY <1>3, <1>4

(***************************************************************************)
(* Deduplication: what is kept of a series are its observations, each      *)
(* once, in their order.                                                   *)
(***************************************************************************)
Observation == [period : Nat, version : Nat \ {0}]

Keep(before, o) == IF \E i \in 1..Len(before) : before[i] = o THEN before ELSE Append(before, o)

LEMMA KeepType ==
    ASSUME NEW before \in Seq(Observation), NEW o \in Observation
    PROVE  Keep(before, o) \in Seq(Observation)
BY DEF Keep

LEMMA DeduplicateDef ==
    ASSUME NEW obs \in Seq(Observation)
    PROVE  \E kept \in [0..Len(obs) -> Seq(Observation)] :
              /\ kept[0] = <<>>
              /\ \A k \in 1..Len(obs) : kept[k] = Keep(kept[k - 1], obs[k])
              /\ Data!Deduplicate(obs) = kept[Len(obs)]
<1> DEFINE n == Len(obs)
           Upto(m, f) == /\ f[0] = <<>>
                         /\ \A k \in 1..m : f[k] = Keep(f[k - 1], obs[k])
           Good == {m \in 0..n : \E f \in [0..m -> Seq(Observation)] : Upto(m, f)}
<1>0. n \in Nat /\ \A k \in 1..n : obs[k] \in Observation
  OBVIOUS
<1>1. 0 \in Good
  <2> DEFINE f == [k \in 0..0 |-> <<>>]
  <2>1. f \in [0..0 -> Seq(Observation)] /\ Upto(0, f)
    OBVIOUS
  <2> HIDE DEF f, Upto
  <2> QED BY <1>0, <2>1
<1>2. \A m \in 0..n : m \in Good /\ m + 1 <= n => m + 1 \in Good
  <2> SUFFICES ASSUME NEW m \in 0..n, m \in Good, m + 1 <= n PROVE m + 1 \in Good
    OBVIOUS
  <2>1. PICK f \in [0..m -> Seq(Observation)] : Upto(m, f)
    OBVIOUS
  <2> DEFINE last == Keep(f[m], obs[m + 1])
             g == [k \in 0..(m + 1) |-> IF k = m + 1 THEN last ELSE f[k]]
  <2>0. m \in 0..m /\ m + 1 \in 1..n /\ m \in Nat
    BY <1>0
  <2>2. last \in Seq(Observation)
    <3>1. f[m] \in Seq(Observation) /\ obs[m + 1] \in Observation
      BY <1>0, <2>0
    <3> QED BY <3>1, KeepType
  <2> HIDE DEF last, n
  <2>3. g \in [0..(m + 1) -> Seq(Observation)]
    BY <2>2
  <2>4. \A k \in 1..m : g[k] = f[k] /\ g[k - 1] = f[k - 1]
    <3> SUFFICES ASSUME NEW k \in 1..m PROVE g[k] = f[k] /\ g[k - 1] = f[k - 1]
      OBVIOUS
    <3>1. /\ k \in 0..(m + 1) /\ k - 1 \in 0..(m + 1) /\ k # m + 1 /\ k - 1 # m + 1
      BY <2>0
    <3> QED BY <3>1
  <2>5. g[m + 1] = last /\ g[m] = f[m] /\ g[0] = f[0]
    OBVIOUS
  <2> HIDE DEF g
  <2>6. Upto(m + 1, g)
    <3>1. ASSUME NEW k \in 1..(m + 1) PROVE g[k] = Keep(g[k - 1], obs[k])
      <4>1. CASE k = m + 1
        BY <2>0, <2>5, <4>1 DEF last
      <4>2. CASE k # m + 1
        BY <2>0, <2>1, <2>4, <4>2
      <4> QED BY <4>1, <4>2
    <3> QED BY <2>1, <2>5, <3>1
  <2> HIDE DEF Upto
  <2> QED BY <1>0, <2>3, <2>6
<1>3. \A m \in 0..n : m \in Good
  <2> HIDE DEF Good, n
  <2> QED BY <1>0, <1>1, <1>2, UpToInduction
<1>4. n \in Good
  <2> HIDE DEF Good
  <2> QED BY <1>0, <1>3
<1>5. PICK f \in [0..n -> Seq(Observation)] : Upto(n, f)
  BY <1>4
<1> DEFINE Body(h) == [k \in 0..n |-> IF k = 0 THEN <<>> ELSE Keep(h[k - 1], obs[k])]
           kept == CHOOSE h : h = Body(h)
<1>6. f = Body(f)
  BY <1>5
<1>7. kept = Body(kept)
  BY <1>6
<1>8. Data!Deduplicate(obs) = kept[n]
  BY DEF Data!Deduplicate, Data!Contains, Keep
<1> HIDE DEF kept
<1>9. kept[0] = <<>> /\ \A k \in 1..n : kept[k] = Keep(kept[k - 1], obs[k])
  BY <1>0, <1>7
<1> DEFINE Typed == {k \in 0..n : kept[k] \in Seq(Observation)}
<1>10. 0 \in Typed /\ \A k \in 0..n : k \in Typed /\ k + 1 <= n => k + 1 \in Typed
  <2>1. 0 \in Typed
    <3>1. <<>> \in Seq(Observation) /\ 0 \in 0..n
      BY <1>0
    <3>2. kept[0] \in Seq(Observation)
      BY <1>9, <3>1
    <3> QED BY <3>1, <3>2
  <2>2. ASSUME NEW k \in 0..n, kept[k] \in Seq(Observation), k + 1 <= n
        PROVE  kept[k + 1] \in Seq(Observation)
    <3>1. k + 1 \in 1..n /\ (k + 1) - 1 = k /\ obs[k + 1] \in Observation
      BY <1>0, <2>2
    <3> QED BY <1>9, <2>2, <3>1, KeepType
  <2> QED BY <1>0, <2>1, <2>2
<1>11. \A k \in 0..n : k \in Typed
  <2> HIDE DEF Typed, n
  <2> QED BY <1>0, <1>10, UpToInduction
<1>12. kept \in [0..n -> Seq(Observation)]
  BY <1>7, <1>11
<1> QED BY <1>8, <1>9, <1>12

Ordered(obs) == \A i, j \in 1..Len(obs) : i < j => obs[i].period <= obs[j].period
Elements(obs) == {obs[i] : i \in 1..Len(obs)}

\* c is what is kept of the first k observations.
KeptOf(c, obs, k) ==
    /\ \A i \in 1..Len(c) : \E j \in 1..k : c[i] = obs[j]
    /\ \A j \in 1..k : \E i \in 1..Len(c) : c[i] = obs[j]
    /\ \A i, j \in 1..Len(c) : i < j => c[i].period <= c[j].period /\ c[i] # c[j]

LEMMA KeepOneMore ==
    ASSUME NEW obs \in Seq(Observation), Ordered(obs), NEW k \in Nat, k + 1 \in 1..Len(obs),
           NEW c \in Seq(Observation), KeptOf(c, obs, k)
    PROVE  KeptOf(Keep(c, obs[k + 1]), obs, k + 1)
<1> DEFINE o == obs[k + 1]
           d == Keep(c, o)
<1>1. o \in Observation /\ \A j \in 1..k : obs[j].period <= o.period
  <2>1. \A j \in 1..k : j \in 1..Len(obs) /\ j < k + 1
    OBVIOUS
  <2> QED BY <2>1 DEF Ordered
<1> HIDE DEF o, d
<1>2. CASE \E i \in 1..Len(c) : c[i] = o
  <2>1. d = c
    BY <1>2 DEF Keep, d
  <2>2. \A j \in 1..(k + 1) : j \in 1..k \/ j = k + 1
    OBVIOUS
  <2>3. \A j \in 1..k : j \in 1..(k + 1)
    OBVIOUS
  <2>4. \A i \in 1..Len(c) : \E j \in 1..(k + 1) : c[i] = obs[j]
    BY <2>3 DEF KeptOf
  <2>5. \A j \in 1..(k + 1) : \E i \in 1..Len(c) : c[i] = obs[j]
    BY <1>2, <2>2 DEF KeptOf, o
  <2>6. KeptOf(c, obs, k + 1)
    BY <2>4, <2>5 DEF KeptOf
  <2> QED BY <2>1, <2>6 DEF d, o
<1>3. CASE ~\E i \in 1..Len(c) : c[i] = o
  <2>1. d = Append(c, o)
    BY <1>3 DEF Keep, d
  <2>2. /\ Len(d) = Len(c) + 1 /\ Len(c) \in Nat /\ d[Len(c) + 1] = o
        /\ \A i \in 1..Len(c) : d[i] = c[i]
    BY <1>1, <2>1
  <2>3. \A i \in 1..Len(c) : c[i].period <= o.period /\ c[i] # o
    BY <1>1, <1>3 DEF KeptOf
  <2>4. \A i \in 1..Len(d) : i \in 1..Len(c) \/ i = Len(c) + 1
    BY <2>2
  <2>5. ASSUME NEW i \in 1..Len(d) PROVE \E j \in 1..(k + 1) : d[i] = obs[j]
    <3>1. CASE i = Len(c) + 1
      BY <2>2, <3>1 DEF o
    <3>2. CASE i \in 1..Len(c)
      <4>1. PICK j \in 1..k : c[i] = obs[j]
        BY <3>2 DEF KeptOf
      <4> QED BY <2>2, <3>2, <4>1
    <3> QED BY <2>4, <3>1, <3>2
  <2>6. ASSUME NEW j \in 1..(k + 1) PROVE \E i \in 1..Len(d) : d[i] = obs[j]
    <3>1. CASE j = k + 1
      BY <2>2, <3>1 DEF o
    <3>2. CASE j \in 1..k
      <4>1. PICK i \in 1..Len(c) : c[i] = obs[j]
        BY <3>2 DEF KeptOf
      <4> QED BY <2>2, <4>1
    <3> QED BY <3>1, <3>2
  <2>7. ASSUME NEW i \in 1..Len(d), NEW j \in 1..Len(d), i < j
        PROVE  d[i].period <= d[j].period /\ d[i] # d[j]
    <3>1. i \in 1..Len(c)
      BY <2>2, <2>7
    <3>2. CASE j = Len(c) + 1
      BY <2>2, <2>3, <3>1, <3>2
    <3>3. CASE j \in 1..Len(c)
      BY <2>2, <2>7, <3>1, <3>3 DEF KeptOf
    <3> QED BY <2>4, <3>2, <3>3
  <2> QED BY <2>5, <2>6, <2>7 DEF KeptOf, d, o
<1> QED BY <1>2, <1>3

LEMMA DeduplicateKeeps ==
    ASSUME NEW obs \in Seq(Observation), Ordered(obs)
    PROVE  LET c == Data!Deduplicate(obs)
           IN  /\ c \in Seq(Observation) /\ Elements(c) = Elements(obs) /\ Ordered(c)
               /\ \A i, j \in 1..Len(c) : i < j => c[i] # c[j]
<1> DEFINE n == Len(obs)
<1>1. PICK kept \in [0..n -> Seq(Observation)] :
              /\ kept[0] = <<>>
              /\ \A k \in 1..n : kept[k] = Keep(kept[k - 1], obs[k])
              /\ Data!Deduplicate(obs) = kept[n]
  BY DeduplicateDef
<1> DEFINE Good == {k \in 0..n : KeptOf(kept[k], obs, k)}
<1>2. n \in Nat /\ 0 \in 0..n /\ n \in 0..n
  OBVIOUS
<1>3. KeptOf(kept[0], obs, 0)
  BY <1>1 DEF KeptOf
<1>4. ASSUME NEW k \in 0..n, KeptOf(kept[k], obs, k), k + 1 <= n
      PROVE  k + 1 \in 0..n /\ KeptOf(kept[k + 1], obs, k + 1)
  <2>1. k \in Nat /\ k + 1 \in 1..n /\ k + 1 \in 0..n /\ (k + 1) - 1 = k
    BY <1>2, <1>4
  <2>2. kept[k + 1] = Keep(kept[k], obs[k + 1]) /\ kept[k] \in Seq(Observation)
    BY <1>1, <2>1
  <2> QED BY <1>4, <2>1, <2>2, KeepOneMore
<1>5. \A k \in 0..n : k \in Good
  <2>1. 0 \in Good /\ \A k \in 0..n : k \in Good /\ k + 1 <= n => k + 1 \in Good
    BY <1>2, <1>3, <1>4
  <2> HIDE DEF Good, n
  <2> QED BY <1>2, <2>1, UpToInduction
<1> DEFINE c == Data!Deduplicate(obs)
<1>6. c \in Seq(Observation) /\ KeptOf(c, obs, n)
  BY <1>1, <1>2, <1>5
<1> HIDE DEF c
<1>7. Elements(c) = Elements(obs)
  <2>1. \A i \in 1..Len(c) : \E j \in 1..Len(obs) : c[i] = obs[j]
    BY <1>6 DEF KeptOf
  <2>2. \A j \in 1..Len(obs) : \E i \in 1..Len(c) : c[i] = obs[j]
    BY <1>6 DEF KeptOf
  <2>3. \A x : x \in Elements(c) <=> \E i \in 1..Len(c) : x = c[i]
    BY DEF Elements
  <2>4. \A x : x \in Elements(obs) <=> \E i \in 1..Len(obs) : x = obs[i]
    BY DEF Elements
  <2>5. \A x : x \in Elements(c) <=> x \in Elements(obs)
    BY <2>1, <2>2, <2>3, <2>4
  <2> QED BY <2>5
<1> QED BY <1>6, <1>7 DEF Ordered, KeptOf, c

(***************************************************************************)
(* Two complete series of which neither has an older value than the other  *)
(* are the same: with one version for all, a series is its periods.        *)
(***************************************************************************)
Complete(c) ==
    /\ c \in Seq(Observation)
    /\ {c[i].period : i \in 1..Len(c)} = 1..Data!PeriodOf(RawLastDay)
    /\ \A i, j \in 1..Len(c) : i < j => c[i].period <= c[j].period /\ c[i] # c[j]

Older(c, d) == \A i \in 1..Len(c), j \in 1..Len(d) : c[i].version <= d[j].version

LEMMA OneVersionOneSeries ==
    ASSUME NEW c, Complete(c), NEW v \in Nat, \A i \in 1..Len(c) : c[i].version = v
    PROVE  c = [i \in 1..Data!PeriodOf(RawLastDay) |-> [period |-> i, version |-> v]]
<1> DEFINE n == Len(c)
           last == Data!PeriodOf(RawLastDay)
<1>1. c \in [1..n -> Observation] /\ n \in Nat
  BY DEF Complete
<1>2. last \in Nat
  <2>1. RawLastDay \in Nat \ {0}
    BY DataCommandsAssumption DEF Data!AcquisitionAssumption
  <2> QED BY <2>1, Calendar
<1>3. \A i \in 1..n : c[i].period \in 1..last /\ c[i] = [period |-> c[i].period, version |-> v]
  BY <1>1 DEF Complete, Observation
<1>4. \A p \in 1..last : \E i \in 1..n : c[i].period = p
  BY DEF Complete
<1>5. \A i, j \in 1..n : i < j => c[i].period < c[j].period
  <2> SUFFICES ASSUME NEW i \in 1..n, NEW j \in 1..n, i < j PROVE c[i].period < c[j].period
    OBVIOUS
  <2>1. c[i].period <= c[j].period /\ c[i] # c[j]
    BY DEF Complete
  <2>2. c[i].period # c[j].period
    BY <1>3, <2>1
  <2>3. c[i].period \in Nat /\ c[j].period \in Nat
    BY <1>1 DEF Observation
  <2> QED BY <2>1, <2>2, <2>3
\* The periods rise from 1 and leave none out: position and period agree.
<1> DEFINE Good == {k \in 0..n : \A i \in 1..k : c[i].period = i}
<1> HIDE DEF n, last
<1>6. ASSUME NEW k \in 0..n, \A i \in 1..k : c[i].period = i, k + 1 <= n
      PROVE  c[k + 1].period = k + 1
  <2>1. k + 1 \in 1..n
    BY <1>1, <1>6
  <2>2. c[k + 1].period >= k + 1
    <3>1. CASE k = 0
      <4>1. c[k + 1].period \in 1..last
        BY <1>3, <2>1
      <4> QED BY <1>2, <3>1, <4>1
    <3>2. CASE k # 0
      <4>1. k \in 1..k /\ k \in 1..n
        BY <1>1, <3>2
      <4>2. c[k].period = k /\ c[k].period < c[k + 1].period
        BY <1>5, <1>6, <2>1, <4>1
      <4> QED BY <1>1, <1>2, <1>3, <2>1, <4>1, <4>2
    <3> QED BY <3>1, <3>2
  <2>3. k + 1 \in 1..last
    <3>1. c[k + 1].period \in 1..last /\ k \in Nat
      BY <1>1, <1>3, <2>1
    <3> QED BY <1>2, <2>2, <3>1
  <2>4. PICK i \in 1..n : c[i].period = k + 1
    BY <1>4, <2>3
  <2>5. i >= k + 1
    <3>1. i \in 1..k => c[i].period = i
      BY <1>6
    <3> QED BY <1>1, <2>4, <3>1
  <2>6. i > k + 1 => c[k + 1].period < c[i].period
    BY <1>5, <2>1
  <2> QED BY <1>1, <1>3, <2>1, <2>2, <2>4, <2>5, <2>6
<1>7. \A k \in 0..n : k \in Good
  <2>1. 0 \in Good
    BY <1>1
  <2>2. ASSUME NEW k \in 0..n, k \in Good, k + 1 <= n
        PROVE  k + 1 \in Good
    <3>1. c[k + 1].period = k + 1
      BY <1>6, <2>2
    <3>2. \A i \in 1..(k + 1) : i \in 1..k \/ i = k + 1
      BY <1>1
    <3> QED BY <1>1, <2>2, <3>1, <3>2
  <2> HIDE DEF Good
  <2> QED BY <1>1, <2>1, <2>2, UpToInduction
<1>8. \A i \in 1..n : c[i].period = i
  BY <1>1, <1>7
<1>9. n = last
  <2>1. n <= last
    BY <1>1, <1>2, <1>3, <1>8
  <2>2. last <= n
    <3>1. CASE last = 0
      BY <1>1, <3>1
    <3>2. CASE last # 0
      <4>1. PICK i \in 1..n : c[i].period = last
        BY <1>2, <1>4, <3>2
      <4> QED BY <1>1, <1>8, <4>1
    <3> QED BY <3>1, <3>2
  <2> QED BY <1>1, <1>2, <2>1, <2>2
<1>10. \A i \in 1..n : c[i] = [period |-> i, version |-> v]
  BY <1>3, <1>8
<1> QED BY <1>1, <1>9, <1>10 DEF n, last

LEMMA NeitherOlder ==
    ASSUME NEW c, NEW d, Complete(c), Complete(d), Older(c, d), Older(d, c)
    PROVE  c = d
<1>1. /\ \A i \in 1..Len(c) : c[i].version \in Nat
      /\ \A i \in 1..Len(d) : d[i].version \in Nat
  <2>1. c \in [1..Len(c) -> Observation] /\ d \in [1..Len(d) -> Observation]
    BY DEF Complete
  <2> QED BY <2>1 DEF Observation
<1>2. RawLastDay \in Nat \ {0}
  BY DataCommandsAssumption DEF Data!AcquisitionAssumption
<1>3. 1 \in 1..Data!PeriodOf(RawLastDay)
  BY <1>2, Calendar
<1>4. PICK k \in 1..Len(c) : c[k].period = 1
  BY <1>3 DEF Complete
<1>5. PICK l \in 1..Len(d) : d[l].period = 1
  BY <1>3 DEF Complete
<1> DEFINE v == c[k].version
<1>6. d[l].version = v /\ v \in Nat
  BY <1>1, <1>4, <1>5 DEF Older
<1>7. \A i \in 1..Len(c) : c[i].version = v
  <2> SUFFICES ASSUME NEW i \in 1..Len(c) PROVE c[i].version = v
    OBVIOUS
  <2>1. c[i].version <= d[l].version /\ d[l].version <= c[i].version
    BY <1>5 DEF Older
  <2> QED BY <1>1, <1>6, <2>1
<1>8. \A i \in 1..Len(d) : d[i].version = v
  <2> SUFFICES ASSUME NEW i \in 1..Len(d) PROVE d[i].version = v
    OBVIOUS
  <2>1. d[i].version <= c[k].version /\ c[k].version <= d[i].version
    BY <1>4 DEF Older
  <2> QED BY <1>1, <1>6, <2>1
<1> HIDE DEF v
<1> QED BY <1>6, <1>7, <1>8, OneVersionOneSeries

(***************************************************************************)
(* What is recorded of a file never was newer than what is on disk: the    *)
(* versions a server publishes only grow, and a command keeps the disk to  *)
(* itself.  An audit may record counts of a content that is newer than the *)
(* hash beside them; were the disk ever to hold the content of that hash   *)
(* again, nothing newer can have been there in between.                    *)
(***************************************************************************)
Series(f) == RawKind[f[1]] = "series"
Download(v) == <<[period |-> 0, version |-> v]>>
Content(f, c) == IF Series(f) THEN Complete(c) ELSE \E v \in Nat \ {0} : c = Download(v)

UpTo(c, v) == \A i \in 1..Len(c) : c[i].version <= v
NotNewer(c, d) == c = d \/ Older(c, d)
RecordOlder(e, d) == Older(e.sha, d) /\ Older(e.audited, d)

\* An entry of file f, beside the content and the published version.
EntryOK(f, e, content, version) ==
    /\ e = [sha |-> e.sha, audited |-> e.audited]
    /\ e.sha = Data!NoFile \/ Content(f, e.sha)
    /\ e.audited = Data!NoFile \/ Content(f, e.audited)
    /\ e.sha = Data!NoFile => e.audited = Data!NoFile
    /\ UpTo(e.sha, version) /\ UpTo(e.audited, version)
    /\ e.audited # Data!NoFile => NotNewer(e.sha, e.audited)
    /\ content \notin {Data!NoFile, Data!Torn} =>
          NotNewer(e.sha, content) /\ NotNewer(e.audited, content)

EntriesOK(entries, contents, newest) ==
    /\ DOMAIN entries = Data!Files
    /\ \A f \in Data!Files : EntryOK(f, entries[f], contents[f], newest[f[1]])
    /\ \A s \in RawSources : RawKind[s] = "archive" =>
          entries[<<s, "file">>].sha = entries[<<s, "member">>].sha

ContentsOK(contents, newest) ==
    /\ DOMAIN contents = Data!Files
    /\ \A f \in Data!Files :
          /\ \/ contents[f] = Data!NoFile
             \/ ~Series(f) /\ contents[f] = Data!Torn
             \/ Content(f, contents[f])
          /\ UpTo(contents[f], newest[f[1]])

LEMMA FilesOfSources ==
    /\ \A s \in RawSources : <<s, "file">> \in Data!Files
    /\ \A s \in RawSources : RawKind[s] = "archive" => <<s, "member">> \in Data!Files
    /\ \A f \in Data!Files : f[1] \in RawSources /\ f \in {<<f[1], "file">>, <<f[1], "member">>}
BY DEF Data!Files

LEMMA Days == RawLastDay \in Nat \ {0} /\ 1 \in 1..Data!PeriodOf(RawLastDay)
<1>1. RawLastDay \in Nat \ {0}
  BY DataCommandsAssumption DEF Data!AcquisitionAssumption
<1> QED BY <1>1, Calendar

\* A content has versions, and is never empty.
LEMMA ContentType ==
    ASSUME NEW f, NEW c, Content(f, c)
    PROVE  /\ c # Data!NoFile /\ c # Data!Torn
           /\ \A i \in 1..Len(c) : c[i].version \in Nat \ {0}
<1>1. CASE Series(f)
  <2>1. Complete(c)
    BY <1>1 DEF Content
  <2>2. c \in [1..Len(c) -> Observation] /\ c \in Seq(Observation)
    BY <2>1 DEF Complete
  <2>3. PICK i \in 1..Len(c) : c[i].period = 1
    BY <2>1, Days DEF Complete
  <2>4. c # Data!NoFile
    BY <2>3 DEF Data!NoFile
  <2>5. \A k \in 1..Len(c) : c[k].version \in Nat \ {0}
    BY <2>2 DEF Observation
  <2>6. c # Data!Torn
    <3>1. c[i].version # 0
      BY <2>5
    <3> QED BY <2>3, <3>1 DEF Data!Torn
  <2> QED BY <2>4, <2>5, <2>6
<1>2. CASE ~Series(f)
  <2>1. PICK v \in Nat \ {0} : c = Download(v)
    BY <1>2 DEF Content
  <2>2. Len(c) = 1 /\ c[1] = [period |-> 0, version |-> v]
    BY <2>1 DEF Download
  <2>3. c # Data!NoFile
    BY <2>2 DEF Data!NoFile
  <2>4. c # Data!Torn
    <3>1. Data!Torn[1].version = 0 /\ c[1].version = v
      BY <2>2 DEF Data!Torn
    <3> QED BY <3>1
  <2> QED BY <2>2, <2>3, <2>4
<1> QED BY <1>1, <1>2

LEMMA SameContent ==
    ASSUME NEW f, NEW c, NEW d, Content(f, c), Content(f, d), NotNewer(c, d), NotNewer(d, c)
    PROVE  c = d
<1>1. SUFFICES ASSUME Older(c, d), Older(d, c) PROVE c = d
  BY DEF NotNewer
<1>2. CASE Series(f)
  BY <1>1, <1>2, NeitherOlder DEF Content
<1>3. CASE ~Series(f)
  <2>1. PICK v \in Nat \ {0}, w \in Nat \ {0} : c = Download(v) /\ d = Download(w)
    BY <1>3 DEF Content
  <2>2. v <= w /\ w <= v
    BY <1>1, <2>1 DEF Older, Download
  <2> QED BY <2>1, <2>2
<1> QED BY <1>2, <1>3

LEMMA UpToGrows ==
    ASSUME NEW f, NEW c, c = Data!NoFile \/ Content(f, c),
           NEW v \in Nat, NEW w \in Nat, v <= w, UpTo(c, v)
    PROVE  UpTo(c, w)
<1>1. \A i \in 1..Len(c) : c[i].version \in Nat
  BY ContentType DEF Data!NoFile
<1> QED BY <1>1 DEF UpTo

\* An entry stays sound when its server publishes more, and when its file
\* goes, is torn, or gives way to a content no older than all it records.
LEMMA EntryKept ==
    ASSUME NEW f, NEW e, NEW c, NEW d, NEW v \in Nat, NEW w \in Nat, EntryOK(f, e, c, v), v <= w,
           d = c \/ d \in {Data!NoFile, Data!Torn} \/ RecordOlder(e, d)
    PROVE  EntryOK(f, e, d, w)
<1>1. UpTo(e.sha, w) /\ UpTo(e.audited, w)
  BY UpToGrows DEF EntryOK
<1> QED BY <1>1 DEF EntryOK, RecordOlder, NotNewer

\* What is published now is no older than anything recorded.
LEMMA RecordsBelowPublished ==
    ASSUME NEW f, NEW e, NEW c, NEW v \in Nat, EntryOK(f, e, c, v), NEW d, \A i \in 1..Len(d) : d[i].version = v
    PROVE  RecordOlder(e, d)
BY DEF EntryOK, RecordOlder, Older, UpTo

\* An entry made of the content that is on disk.
LEMMA FreshEntry ==
    ASSUME NEW f, NEW c, NEW v \in Nat, Content(f, c), UpTo(c, v)
    PROVE  EntryOK(f, [sha |-> c, audited |-> Data!NoFile], c, v)
BY DEF EntryOK, NotNewer, Older, UpTo, Data!NoFile

LEMMA NoEntrySound ==
    ASSUME NEW f, NEW c, NEW v
    PROVE  EntryOK(f, Data!NoEntry, c, v)
BY DEF EntryOK, NotNewer, Older, UpTo, Data!NoFile, Data!NoEntry

LEMMA NoEntriesSound ==
    ASSUME NEW contents, NEW newest
    PROVE  EntriesOK(Data!NoEntries, contents, newest)
BY NoEntrySound, FilesOfSources DEF EntriesOK, Data!NoEntries

\* An entry that is one records a hash.
LEMMA EntryHasHash ==
    ASSUME NEW f, NEW e, NEW c, NEW v, EntryOK(f, e, c, v)
    PROVE  e # Data!NoEntry <=> e.sha # Data!NoFile
<1>1. e.sha = Data!NoFile => e.audited = Data!NoFile
  BY DEF EntryOK
<1>2. e = [sha |-> e.sha, audited |-> e.audited]
  BY DEF EntryOK
<1> QED BY <1>1, <1>2 DEF Data!NoEntry

(* One set of entries laid over another: an archive and its member are     *)
(* recorded together, so that they are taken from the same one.            *)
LEMMA OverlaySound ==
    ASSUME NEW old, NEW new, NEW contents, NEW newest,
           EntriesOK(old, contents, newest), EntriesOK(new, contents, newest)
    PROVE  EntriesOK(Data!Overlay(old, new), contents, newest)
<1> DEFINE m == Data!Overlay(old, new)
<1>1. \A f \in Data!Files : m[f] = IF new[f] # Data!NoEntry THEN new[f] ELSE old[f]
  BY DEF Data!Overlay
<1>2. DOMAIN m = Data!Files
  BY DEF Data!Overlay
<1>3. \A f \in Data!Files : new[f] # Data!NoEntry <=> new[f].sha # Data!NoFile
  BY EntryHasHash DEF EntriesOK
<1> HIDE DEF m
<1>4. ASSUME NEW s \in RawSources, RawKind[s] = "archive"
      PROVE  m[<<s, "file">>].sha = m[<<s, "member">>].sha
  <2>1. <<s, "file">> \in Data!Files /\ <<s, "member">> \in Data!Files
    BY <1>4, FilesOfSources
  <2>2. /\ new[<<s, "file">>].sha = new[<<s, "member">>].sha
        /\ old[<<s, "file">>].sha = old[<<s, "member">>].sha
    BY <1>4 DEF EntriesOK
  <2> QED BY <1>1, <1>3, <2>1, <2>2
<1> QED BY <1>1, <1>2, <1>4 DEF EntriesOK, m

\* All entries stay sound, under the same conditions as one.
LEMMA EntriesKept ==
    ASSUME NEW entries, NEW c, NEW d, NEW v \in [RawSources -> Nat], NEW w \in [RawSources -> Nat],
           EntriesOK(entries, c, v), \A s \in RawSources : v[s] <= w[s],
           \A f \in Data!Files : \/ d[f] = c[f] \/ d[f] \in {Data!NoFile, Data!Torn}
                                 \/ RecordOlder(entries[f], d[f])
    PROVE  EntriesOK(entries, d, w)
<1>1. ASSUME NEW f \in Data!Files PROVE EntryOK(f, entries[f], d[f], w[f[1]])
  <2>1. f[1] \in RawSources
    BY FilesOfSources
  <2>2. EntryOK(f, entries[f], c[f], v[f[1]]) /\ v[f[1]] \in Nat /\ w[f[1]] \in Nat /\ v[f[1]] <= w[f[1]]
    BY <2>1 DEF EntriesOK
  <2>3. d[f] = c[f] \/ d[f] \in {Data!NoFile, Data!Torn} \/ RecordOlder(entries[f], d[f])
    OBVIOUS
  <2> QED BY <2>2, <2>3, EntryKept
<1> QED BY <1>1 DEF EntriesOK

(* The order in which the series are asked is some order of all of them.   *)
LEMMA AllSeries ==
    ASSUME NEW S \in SUBSET RawSources
    PROVE  Data!SetToSeq(S) \in Seq(RawSources)
<1>1. IsFiniteSet(S)
  <2>1. IsFiniteSet(RawSources)
    <3>1. Data!IsFiniteSet(RawSources)
      BY DataCommandsAssumption DEF Data!AcquisitionAssumption
    <3> QED BY <3>1, Zenon DEF Data!IsFiniteSet, IsFiniteSet
  <2> QED BY <2>1, FS_Subset
<1> DEFINE n == Cardinality(S)
<1>2. Data!Cardinality(S) = n
  BY DEF Data!Cardinality, Cardinality
<1>3. n \in Nat /\ ExistsBijection(1..n, S)
  BY <1>1, FS_CardinalityType
<1> HIDE DEF n
<1>4. \E f \in [1..n -> S] : \A a, b \in DOMAIN f : f[a] = f[b] => a = b
  BY <1>3 DEF ExistsBijection, Bijection, Injection, IsInjective
<1>5. Data!SetToSeq(S) \in [1..n -> S]
  BY <1>2, <1>4 DEF Data!SetToSeq, Data!IsInjective
<1>6. Data!SetToSeq(S) \in Seq(S)
  BY <1>3, <1>5
<1> QED BY <1>6

-----------------------------------------------------------------------------
(***************************************************************************)
(* The invariant of the raw data: what a running command has fetched, what *)
(* it has written of it, and what it is about to record.                   *)
(***************************************************************************)
Asking == {"request", "backoff"}
Unpacking == {"extract", "inflate"}
Fetching == {"next"} \cup Asking \cup Unpacking

FetchFields == {"pc", "todo", "force", "attempt", "day", "got", "entries", "new", "failed"}

WindowsOK(got, day, version) ==
    /\ got \in Seq(Observation) /\ day \in 1..(RawLastDay + 1)
    /\ Ordered(got) /\ UpTo(got, version)
    /\ {got[i].period : i \in 1..Len(got)} = 1..Data!PeriodOf(day - 1)

AskingOK(job, entries, newest) ==
    LET s == job.todo[1]
        f == <<s, "file">>
    IN  /\ job.todo # <<>> /\ job.entries = Data!NoEntries
        /\ RawKind[s] \in {"archive", "series"}
        /\ RawKind[s] = "series" => /\ WindowsOK(job.got, job.day, newest[s])
                                    /\ RecordOlder(entries[f], job.got)
                                    /\ RecordOlder(job.new[f], job.got)

UnpackingOK(job, entries, contents) ==
    LET s == job.todo[1]
        f == <<s, "file">>
        m == <<s, "member">>
    IN  /\ job.todo # <<>> /\ RawKind[s] = "archive"
        /\ Content(f, contents[f])
        /\ job.entries = [Data!NoEntries EXCEPT ![f] = [sha |-> contents[f], audited |-> Data!NoFile]]
        /\ RecordOlder(entries[m], contents[f])
        /\ RecordOlder(job.new[m], contents[f])

JobOK(job, entries, contents, newest) ==
    /\ job.pc \in Fetching \cup {"idle", "rows", "metrics"}
    /\ job.pc \in Fetching =>
          /\ DOMAIN job = FetchFields
          /\ job.todo \in Seq(RawSources)
          /\ EntriesOK(job.new, contents, newest)
    /\ job.pc \in Asking => AskingOK(job, entries, newest)
    /\ job.pc \in Unpacking => UnpackingOK(job, entries, contents)
    /\ job.pc = "rows" =>
          /\ DOMAIN job = {"pc", "code", "audits", "rows"}
          /\ EntriesOK(job.rows, contents, newest)

DataInv ==
    /\ registry \subseteq RawSources
    /\ published \in [RawSources -> Nat \ {0}]
    /\ ContentsOK(disk, published)
    /\ EntriesOK(rawManifest, disk, published)
    /\ JobOK(fetch, rawManifest, disk, published)

LEMMA DataStarts ==
    ASSUME Data!Init
    PROVE  DataInv
<1>1. registry \subseteq RawSources
  BY DataCommandsAssumption DEF Data!Init, Data!AcquisitionAssumption
<1>2. published \in [RawSources -> Nat \ {0}]
  BY DEF Data!Init
<1>3. ContentsOK(disk, published)
  BY DEF Data!Init, ContentsOK, UpTo, Data!NoFile
<1>4. EntriesOK(rawManifest, disk, published)
  BY NoEntriesSound DEF Data!Init
<1>5. JobOK(fetch, rawManifest, disk, published)
  BY DEF Data!Init, Data!Exit, JobOK, Fetching, Asking, Unpacking
<1> QED BY <1>1, <1>2, <1>3, <1>4, <1>5 DEF DataInv

\* A command that ended, or goes on to its next target, leaves nothing open.
LEMMA JobNext ==
    ASSUME NEW job, NEW entries, NEW contents, NEW newest,
           \/ job.pc \in {"idle", "metrics"}
           \/ /\ job.pc = "next"
              /\ DOMAIN job = FetchFields
              /\ job.todo \in Seq(RawSources) /\ EntriesOK(job.new, contents, newest)
           \/ /\ job.pc = "rows" /\ DOMAIN job = {"pc", "code", "audits", "rows"}
              /\ EntriesOK(job.rows, contents, newest)
    PROVE  JobOK(job, entries, contents, newest)
BY DEF JobOK, Fetching, Asking, Unpacking

\* The steps of a fetch that only change what is under way.
LEMMA BookkeepingKeeps ==
    ASSUME DataInv, Data!BeginFetch \/ Data!Refuse \/ Data!Ask \/ Data!Fail \/ Data!Retry
    PROVE  DataInv'
<1>0. /\ registry \subseteq RawSources /\ published \in [RawSources -> Nat \ {0}]
      /\ ContentsOK(disk, published) /\ EntriesOK(rawManifest, disk, published)
      /\ JobOK(fetch, rawManifest, disk, published)
  BY DEF DataInv
<1>1. UNCHANGED <<registry, published, disk, rawManifest>>
  BY DEF Data!BeginFetch, Data!Begin, Data!Refuse, Data!Ask, Data!Fail, Data!AttemptFails, Data!Retry
<1>2. SUFFICES JobOK(fetch', rawManifest, disk, published)
  BY <1>0, <1>1 DEF DataInv
<1>3. CASE Data!BeginFetch
  <2>1. PICK force \in BOOLEAN, targets \in {<<s>> : s \in registry}
                                     \cup {Data!SetToSeq(Data!Series \cap registry)} :
           fetch' = [pc |-> "next", todo |-> targets, force |-> force, attempt |-> 1, day |-> 1,
                     got |-> <<>>, entries |-> Data!NoEntries, new |-> Data!NoEntries,
                     failed |-> FALSE]
    BY <1>3 DEF Data!BeginFetch, Data!Begin
  <2>2. targets \in Seq(RawSources)
    <3>1. CASE targets \in {<<s>> : s \in registry}
      <4>1. PICK s \in registry : targets = <<s>>
        BY <3>1
      <4>2. s \in RawSources
        BY <1>0
      <4> QED BY <4>1, <4>2
    <3>2. CASE targets = Data!SetToSeq(Data!Series \cap registry)
      <4>1. Data!Series \cap registry \in SUBSET RawSources
        BY <1>0
      <4> QED BY <3>2, <4>1, AllSeries
    <3> QED BY <2>1, <3>1, <3>2
  <2>3. /\ fetch'.pc = "next" /\ fetch'.todo = targets /\ fetch'.new = Data!NoEntries
        /\ DOMAIN fetch' = FetchFields
    BY <2>1 DEF FetchFields
  <2> QED BY <2>2, <2>3, JobNext, NoEntriesSound
<1>4. ASSUME fetch.pc \in Fetching, fetch.todo # <<>>, fetch' = Data!GiveUp
      PROVE  JobOK(fetch', rawManifest, disk, published)
  <2>1. /\ DOMAIN fetch = FetchFields
        /\ fetch.todo \in Seq(RawSources) /\ EntriesOK(fetch.new, disk, published)
    BY <1>0, <1>4 DEF JobOK
  <2>2. fetch'.pc = "next" /\ fetch'.todo = Tail(fetch.todo) /\ fetch'.new = fetch.new
        /\ DOMAIN fetch' = DOMAIN fetch
    BY <1>4, <2>1 DEF Data!GiveUp
  <2>3. Tail(fetch.todo) \in Seq(RawSources)
    BY <1>4, <2>1
  <2> QED BY <2>1, <2>2, <2>3, JobNext
<1>5. CASE Data!Refuse
  BY <1>4, <1>5 DEF Data!Refuse, Fetching
<1>6. CASE Data!Ask
  <2> DEFINE s == fetch.todo[1]
             f == <<s, "file">>
  <2>1. /\ fetch.pc = "next" /\ fetch.todo # <<>> /\ RawKind[s] \in {"archive", "series"}
        /\ fetch' = [fetch EXCEPT !.pc = "request", !.attempt = 1, !.day = 1,
                                  !.got = <<>>, !.entries = Data!NoEntries]
    BY <1>6 DEF Data!Ask, Data!Source
  <2>2. /\ DOMAIN fetch = FetchFields
        /\ fetch.todo \in Seq(RawSources) /\ EntriesOK(fetch.new, disk, published)
    BY <1>0, <2>1 DEF JobOK, Fetching
  <2>3. /\ fetch'.pc = "request" /\ fetch'.day = 1 /\ fetch'.got = <<>> /\ fetch'.entries = Data!NoEntries
        /\ DOMAIN fetch' = DOMAIN fetch /\ fetch'.todo = fetch.todo /\ fetch'.new = fetch.new
    BY <2>1, <2>2
  <2>4. WindowsOK(<<>>, 1, published[s])
    <3>1. Data!PeriodOf(1 - 1) = 0
      BY Days, Calendar
    <3>2. 1 \in 1..(RawLastDay + 1)
      BY Days
    <3>3. <<>> \in Seq(Observation) /\ Len(<<>>) = 0
      OBVIOUS
    <3> QED BY <3>1, <3>2, <3>3 DEF WindowsOK, Ordered, UpTo
  <2>5. RecordOlder(rawManifest[f], <<>>) /\ RecordOlder(fetch.new[f], <<>>)
    BY DEF RecordOlder, Older
  <2>6. AskingOK(fetch', rawManifest, published)
    BY <2>1, <2>3, <2>4, <2>5 DEF AskingOK
  <2> QED BY <2>2, <2>3, <2>6 DEF JobOK, Fetching, Asking, Unpacking
<1>7. ASSUME fetch.pc \in Asking, fetch'.pc \in Asking, DOMAIN fetch' = DOMAIN fetch,
             \A field \in DOMAIN fetch \ {"pc", "attempt"} : fetch'[field] = fetch[field]
      PROVE  JobOK(fetch', rawManifest, disk, published)
  <2>1. /\ DOMAIN fetch = FetchFields
        /\ fetch.todo \in Seq(RawSources) /\ EntriesOK(fetch.new, disk, published)
        /\ AskingOK(fetch, rawManifest, published)
    BY <1>0, <1>7 DEF JobOK, Fetching
  <2>2. /\ fetch'.todo = fetch.todo /\ fetch'.new = fetch.new /\ fetch'.entries = fetch.entries
        /\ fetch'.got = fetch.got /\ fetch'.day = fetch.day
    BY <1>7, <2>1 DEF FetchFields
  <2>3. AskingOK(fetch', rawManifest, published)
    BY <2>1, <2>2 DEF AskingOK
  <2> QED BY <1>7, <2>1, <2>2, <2>3 DEF JobOK, Fetching, Asking, Unpacking
<1>8. CASE Data!Fail
  <2>1. /\ fetch.pc = "request"
        /\ \/ fetch' = Data!GiveUp
           \/ fetch' = [fetch EXCEPT !.pc = "backoff", !.attempt = Data!NextAttempt]
    BY <1>8 DEF Data!Fail, Data!AttemptFails
  <2>2. /\ fetch.todo # <<>>
        /\ DOMAIN fetch = FetchFields
    BY <1>0, <2>1 DEF JobOK, AskingOK, Fetching, Asking
  <2>3. CASE fetch' = Data!GiveUp
    BY <1>4, <2>1, <2>2, <2>3 DEF Fetching, Asking
  <2>4. CASE fetch' = [fetch EXCEPT !.pc = "backoff", !.attempt = Data!NextAttempt]
    <3>1. /\ fetch'.pc = "backoff" /\ DOMAIN fetch' = DOMAIN fetch
          /\ \A field \in DOMAIN fetch \ {"pc", "attempt"} : fetch'[field] = fetch[field]
      BY <2>2, <2>4 DEF FetchFields
    <3> QED BY <1>7, <2>1, <3>1 DEF Asking
  <2> QED BY <2>1, <2>3, <2>4
<1>9. CASE Data!Retry
  <2>1. fetch.pc = "backoff" /\ fetch' = [fetch EXCEPT !.pc = "request"]
    BY <1>9 DEF Data!Retry
  <2>2. DOMAIN fetch = FetchFields
    BY <1>0, <2>1 DEF JobOK, Fetching, Asking
  <2>3. /\ fetch'.pc = "request" /\ DOMAIN fetch' = DOMAIN fetch
        /\ \A field \in DOMAIN fetch \ {"pc", "attempt"} : fetch'[field] = fetch[field]
    BY <2>1, <2>2
  <2> QED BY <1>7, <2>1, <2>3 DEF Asking
<1> QED BY <1>3, <1>5, <1>6, <1>8, <1>9

\* A file written, or gone.
LEMMA Installed ==
    ASSUME NEW contents, NEW newest, ContentsOK(contents, newest), NEW f \in Data!Files, NEW c,
           c = Data!NoFile \/ (~Series(f) /\ c = Data!Torn) \/ Content(f, c), UpTo(c, newest[f[1]]),
           NEW new, new = [contents EXCEPT ![f] = c]
    PROVE  ContentsOK(new, newest)
<1>1. DOMAIN contents = Data!Files
  BY DEF ContentsOK
<1>2. DOMAIN new = Data!Files /\ \A g \in Data!Files : new[g] = IF g = f THEN c ELSE contents[g]
  BY <1>1
<1> QED BY <1>2 DEF ContentsOK

\* What is recorded, beside a file written or gone.
LEMMA RecordedBeside ==
    ASSUME NEW contents, NEW newest \in [RawSources -> Nat \ {0}], ContentsOK(contents, newest),
           NEW f \in Data!Files, NEW c, NEW new, new = [contents EXCEPT ![f] = c],
           NEW entries, EntriesOK(entries, contents, newest),
           c \in {Data!NoFile, Data!Torn} \/ RecordOlder(entries[f], c)
    PROVE  EntriesOK(entries, new, newest)
<1>1. DOMAIN contents = Data!Files
  BY DEF ContentsOK
<1>2. \A g \in Data!Files : new[g] = IF g = f THEN c ELSE contents[g]
  BY <1>1
<1>3. newest \in [RawSources -> Nat] /\ \A s \in RawSources : newest[s] <= newest[s]
  OBVIOUS
<1>4. \A g \in Data!Files : \/ new[g] = contents[g] \/ new[g] \in {Data!NoFile, Data!Torn}
                            \/ RecordOlder(entries[g], new[g])
  BY <1>2
<1> QED BY <1>3, <1>4, EntriesKept

\* What the invariant says of a running fetch.
LEMMA FetchUnderWay ==
    ASSUME DataInv, fetch.pc \in Asking \cup Unpacking
    PROVE  /\ fetch.todo[1] \in RawSources /\ fetch.todo # <<>> /\ fetch.todo \in Seq(RawSources)
           /\ Tail(fetch.todo) \in Seq(RawSources)
           /\ DOMAIN fetch = FetchFields
           /\ EntriesOK(fetch.new, disk, published)
           /\ fetch.pc \in Asking => AskingOK(fetch, rawManifest, published)
           /\ fetch.pc \in Unpacking => UnpackingOK(fetch, rawManifest, disk)
<1>1. JobOK(fetch, rawManifest, disk, published)
  BY DEF DataInv
<1>2. fetch.todo \in Seq(RawSources) /\ fetch.todo # <<>>
  BY <1>1 DEF JobOK, Fetching, AskingOK, UnpackingOK
<1>3. fetch.todo[1] \in RawSources /\ Tail(fetch.todo) \in Seq(RawSources)
  BY <1>2
<1> QED BY <1>1, <1>2, <1>3 DEF JobOK, Fetching

\* A target is done with, whether its entries are recorded or given up.
LEMMA TargetDone ==
    ASSUME DataInv, fetch.pc \in Asking \cup Unpacking,
           NEW contents, NEW entries, EntriesOK(fetch.new, contents, published),
           \/ fetch' = Data!GiveUp
           \/ fetch' = Data!Done(entries) /\ EntriesOK(entries, contents, published)
    PROVE  JobOK(fetch', rawManifest', contents, published)
<1>1. Tail(fetch.todo) \in Seq(RawSources) /\ DOMAIN fetch = FetchFields
  BY FetchUnderWay
<1>2. CASE fetch' = Data!GiveUp
  <2>1. /\ fetch'.pc = "next" /\ DOMAIN fetch' = FetchFields
        /\ fetch'.todo = Tail(fetch.todo) /\ fetch'.new = fetch.new
    BY <1>1, <1>2 DEF Data!GiveUp, FetchFields
  <2> QED BY <1>1, <2>1, JobNext
<1>3. CASE fetch' = Data!Done(entries) /\ EntriesOK(entries, contents, published)
  <2>1. /\ fetch'.pc = "next" /\ DOMAIN fetch' = FetchFields
        /\ fetch'.todo = Tail(fetch.todo) /\ fetch'.new = Data!Overlay(fetch.new, entries)
    BY <1>1, <1>3 DEF Data!Done, FetchFields
  <2>2. EntriesOK(fetch'.new, contents, published)
    BY <1>3, <2>1, OverlaySound
  <2> QED BY <1>1, <2>1, <2>2, JobNext
<1> QED BY <1>2, <1>3

LEMMA DownloadKeeps ==
    ASSUME DataInv, Data!DownloadArchive
    PROVE  DataInv'
<1> DEFINE s == fetch.todo[1]
           f == <<s, "file">>
           m == <<s, "member">>
           c == Download(published[s])
<1>1. /\ fetch.pc = "request" /\ RawKind[s] = "archive"
      /\ disk' = [disk EXCEPT ![f] = c]
      /\ fetch' = [fetch EXCEPT !.pc = "extract",
                     !.entries = [@ EXCEPT ![f] = [sha |-> disk'[f], audited |-> Data!NoFile]]]
      /\ UNCHANGED <<registry, published, rawManifest>>
  BY DEF Data!DownloadArchive, Data!Install, Data!Entry, Data!Source, Download
<1>2. /\ fetch.todo # <<>> /\ fetch.todo \in Seq(RawSources) /\ s \in RawSources
      /\ DOMAIN fetch = FetchFields /\ EntriesOK(fetch.new, disk, published)
      /\ fetch.entries = Data!NoEntries
  BY <1>1, FetchUnderWay DEF Asking, AskingOK
<1>3. f \in Data!Files /\ m \in Data!Files /\ f[1] = s /\ m[1] = s
  BY <1>1, <1>2, FilesOfSources
<1>4. /\ published \in [RawSources -> Nat \ {0}] /\ published[s] \in Nat \ {0}
      /\ ContentsOK(disk, published) /\ EntriesOK(rawManifest, disk, published)
  BY <1>2 DEF DataInv
<1>5. Content(f, c) /\ \A i \in 1..Len(c) : c[i].version = published[s]
  BY <1>1, <1>4 DEF Content, Series, Download
<1>6. UpTo(c, published[s])
  BY <1>4, <1>5 DEF UpTo
<1> HIDE DEF c, s, f, m
<1>7. ASSUME NEW entries, EntriesOK(entries, disk, published)
      PROVE  RecordOlder(entries[f], c) /\ RecordOlder(entries[m], c)
  <2>1. /\ EntryOK(f, entries[f], disk[f], published[s])
        /\ EntryOK(m, entries[m], disk[m], published[s])
    BY <1>3, <1>7 DEF EntriesOK
  <2> QED BY <1>4, <1>5, <2>1, RecordsBelowPublished
<1>8. /\ ContentsOK(disk', published) /\ disk'[f] = c
      /\ EntriesOK(rawManifest, disk', published) /\ EntriesOK(fetch.new, disk', published)
  <2>1. /\ disk' = [disk EXCEPT ![f] = c] /\ UpTo(c, published[f[1]])
        /\ RecordOlder(rawManifest[f], c) /\ RecordOlder(fetch.new[f], c)
    BY <1>1, <1>2, <1>3, <1>4, <1>6, <1>7
  <2>2. disk'[f] = c
    BY <1>3, <1>4, <2>1 DEF ContentsOK
  <2>3. ContentsOK(disk', published)
    BY <1>3, <1>4, <1>5, <2>1, Installed
  <2>4. EntriesOK(rawManifest, disk', published)
    BY <1>3, <1>4, <2>1, RecordedBeside
  <2>5. EntriesOK(fetch.new, disk', published)
    BY <1>2, <1>3, <1>4, <2>1, RecordedBeside
  <2> QED BY <2>2, <2>3, <2>4, <2>5
<1>9. /\ fetch'.pc = "extract" /\ fetch'.todo = fetch.todo /\ fetch'.new = fetch.new
      /\ DOMAIN fetch' = FetchFields
      /\ fetch'.entries = [Data!NoEntries EXCEPT ![f] = [sha |-> disk'[f], audited |-> Data!NoFile]]
  BY <1>1, <1>2 DEF FetchFields
<1>10. UnpackingOK(fetch', rawManifest, disk')
  BY <1>1, <1>2, <1>4, <1>5, <1>7, <1>8, <1>9 DEF UnpackingOK, s, f, m
<1>11. JobOK(fetch', rawManifest, disk', published)
  BY <1>2, <1>8, <1>9, <1>10 DEF JobOK, Fetching, Asking, Unpacking
<1> QED BY <1>1, <1>8, <1>11 DEF DataInv

\* One more window: it begins where the last one ended.
Extended(got, s, day) == got \o Data!Answer(s, day, Data!WindowEnd(day))

LEMMA OneMoreWindow ==
    ASSUME NEW s \in RawSources, published \in [RawSources -> Nat \ {0}],
           NEW day \in 1..RawLastDay, NEW got, WindowsOK(got, day, published[s])
    PROVE  /\ WindowsOK(Extended(got, s, day), Data!WindowEnd(day) + 1, published[s])
           /\ \A i \in 1..Len(Extended(got, s, day)) :
                 \/ i \in 1..Len(got) /\ Extended(got, s, day)[i] = got[i]
                 \/ Extended(got, s, day)[i].version = published[s]
<1> DEFINE end == Data!WindowEnd(day)
           more == Extended(got, s, day)
           first == Data!PeriodOf(day)
           last == Data!PeriodOf(end)
           before == Data!PeriodOf(day - 1)
           answer == Data!Answer(s, day, end)
           v == published[s]
<1>1. /\ RawLastDay \in Nat \ {0} /\ RawWindowDays \in Nat \ {0} /\ day \in Nat \ {0}
  BY DataCommandsAssumption DEF Data!AcquisitionAssumption
<1>2. end \in Nat /\ day <= end /\ end <= RawLastDay
  BY <1>1 DEF Data!WindowEnd
<1> HIDE DEF end
<1>3. /\ before \in Nat /\ first \in Nat \ {0} /\ last \in Nat
      /\ before <= first /\ first <= before + 1 /\ first <= last
  BY <1>1, <1>2, Calendar
<1>4. v \in Nat \ {0}
  OBVIOUS
<1>5. answer = [i \in 1..(last - first + 1) |-> [period |-> first + i - 1, version |-> v]]
  BY DEF Data!Answer
<1> HIDE DEF first, last, before, answer, v
<1>6. /\ answer \in Seq(Observation) /\ Len(answer) = last - first + 1
      /\ \A i \in 1..Len(answer) : answer[i] = [period |-> first + i - 1, version |-> v]
  <2>1. last - first + 1 \in Nat
    BY <1>3
  <2>2. \A i \in 1..(last - first + 1) : [period |-> first + i - 1, version |-> v] \in Observation
    BY <1>3, <1>4 DEF Observation
  <2>3. answer \in Seq(Observation) /\ Len(answer) = last - first + 1
    BY <1>5, <2>1, <2>2
  <2> QED BY <1>5, <2>3
<1>7. /\ got \in Seq(Observation) /\ Ordered(got) /\ UpTo(got, v)
      /\ {got[i].period : i \in 1..Len(got)} = 1..before
  BY DEF WindowsOK, before, v
<1>8. /\ more \in Seq(Observation) /\ Len(more) = Len(got) + Len(answer)
      /\ Len(got) \in Nat /\ Len(answer) \in Nat
      /\ \A i \in 1..Len(got) : more[i] = got[i]
      /\ \A i \in 1..Len(answer) : more[Len(got) + i] = answer[i]
  <2>1. more = got \o answer
    BY DEF Extended, answer, end
  <2> HIDE DEF more
  <2> QED BY <1>6, <1>7, <2>1
<1> HIDE DEF more
<1>9. ASSUME NEW i \in 1..Len(more), i \notin 1..Len(got)
      PROVE  /\ i - Len(got) \in 1..Len(answer)
             /\ more[i].period = first + (i - Len(got)) - 1 /\ more[i].version = v
  <2>1. i - Len(got) \in 1..Len(answer) /\ Len(got) + (i - Len(got)) = i
    BY <1>8, <1>9
  <2>2. more[i] = answer[i - Len(got)]
    BY <1>8, <2>1
  <2>3. answer[i - Len(got)] = [period |-> first + (i - Len(got)) - 1, version |-> v]
    BY <1>6, <2>1
  <2> QED BY <2>1, <2>2, <2>3
<1>10. \A i \in 1..Len(got) : got[i].period \in 1..before
  BY <1>7
<1>11. Ordered(more)
  <2> SUFFICES ASSUME NEW i \in 1..Len(more), NEW j \in 1..Len(more), i < j
               PROVE  more[i].period <= more[j].period
    BY DEF Ordered
  <2>1. CASE j \in 1..Len(got)
    <3>1. i \in 1..Len(got)
      BY <1>8, <2>1
    <3>2. got[i].period <= got[j].period
      BY <1>7, <2>1, <3>1 DEF Ordered
    <3>3. more[i] = got[i] /\ more[j] = got[j]
      BY <1>8, <2>1, <3>1
    <3> QED BY <3>2, <3>3
  <2>2. CASE j \notin 1..Len(got)
    <3>1. more[j].period = first + (j - Len(got)) - 1 /\ j - Len(got) \in 1..Len(answer)
      BY <1>9, <2>2
    <3>2. CASE i \in 1..Len(got)
      <4>1. more[i].period \in 1..before
        BY <1>8, <1>10, <3>2
      <4>2. j - Len(got) \in Nat \ {0}
        BY <1>8, <3>1
      <4>3. more[i].period <= first /\ first <= first + (j - Len(got)) - 1
        BY <1>3, <4>1, <4>2
      <4>4. more[i].period \in Nat /\ more[j].period \in Nat
        BY <1>3, <3>1, <4>1, <4>2
      <4> QED BY <1>3, <3>1, <4>2, <4>3, <4>4
    <3>3. CASE i \notin 1..Len(got)
      <4>1. more[i].period = first + (i - Len(got)) - 1
        BY <1>9, <3>3
      <4> QED BY <1>3, <1>8, <3>1, <4>1
    <3> QED BY <3>2, <3>3
  <2> QED BY <2>1, <2>2
<1>12. UpTo(more, v)
  <2> SUFFICES ASSUME NEW i \in 1..Len(more) PROVE more[i].version <= v
    BY DEF UpTo
  <2>1. CASE i \in 1..Len(got)
    BY <1>7, <1>8, <2>1 DEF UpTo
  <2>2. CASE i \notin 1..Len(got)
    BY <1>4, <1>9, <2>2
  <2> QED BY <2>1, <2>2
<1>13. {more[i].period : i \in 1..Len(more)} = 1..last
  <2>1. ASSUME NEW i \in 1..Len(more) PROVE more[i].period \in 1..last
    <3>1. CASE i \in 1..Len(got)
      <4>1. more[i].period \in 1..before
        BY <1>8, <1>10, <3>1
      <4> QED BY <1>3, <4>1
    <3>2. CASE i \notin 1..Len(got)
      BY <1>3, <1>6, <1>8, <1>9, <3>2
    <3> QED BY <3>1, <3>2
  <2>2. ASSUME NEW p \in 1..last PROVE \E i \in 1..Len(more) : more[i].period = p
    <3>1. CASE p <= before
      <4>1. p \in 1..before
        BY <1>3, <3>1
      <4>2. PICK i \in 1..Len(got) : got[i].period = p
        BY <1>7, <4>1
      <4>3. i \in 1..Len(more)
        BY <1>8
      <4>4. more[i] = got[i]
        BY <1>8
      <4> QED BY <4>2, <4>3, <4>4
    <3>2. CASE p > before
      <4>1. p - first + 1 \in 1..Len(answer)
        BY <1>3, <1>6, <3>2
      <4>2. /\ Len(got) + (p - first + 1) \in 1..Len(more)
            /\ more[Len(got) + (p - first + 1)] = answer[p - first + 1]
        BY <1>8, <4>1
      <4>3. answer[p - first + 1].period = p
        <5>1. answer[p - first + 1].period = first + (p - first + 1) - 1
          BY <1>6, <4>1
        <5> QED BY <1>3, <5>1
      <4> QED BY <4>2, <4>3
    <3> QED BY <1>3, <3>1, <3>2
  <2> QED BY <2>1, <2>2
<1>14. end + 1 \in 1..(RawLastDay + 1) /\ end + 1 - 1 = end
  BY <1>1, <1>2
<1>15. WindowsOK(more, end + 1, v)
  <2>1. Data!PeriodOf((end + 1) - 1) = last
    BY <1>2, <1>14 DEF last
  <2> QED BY <1>8, <1>11, <1>12, <1>13, <1>14, <2>1 DEF WindowsOK
<1>16. \A i \in 1..Len(more) : \/ i \in 1..Len(got) /\ more[i] = got[i]
                               \/ more[i].version = v
  BY <1>8, <1>9
<1> QED BY <1>15, <1>16 DEF v, more, end

LEMMA WindowKeeps ==
    ASSUME DataInv, Data!FetchWindow
    PROVE  DataInv'
<1> DEFINE s == fetch.todo[1]
           f == <<s, "file">>
           end == Data!WindowEnd(fetch.day)
           more == Extended(fetch.got, s, fetch.day)
<1>1. /\ fetch.pc = "request" /\ RawKind[s] = "series" /\ fetch.day <= RawLastDay
      /\ fetch' = [fetch EXCEPT !.got = more, !.day = end + 1, !.attempt = 1]
      /\ UNCHANGED <<registry, published, disk, rawManifest>>
  BY DEF Data!FetchWindow, Data!Source, Extended
<1>2. /\ fetch.todo # <<>> /\ fetch.todo \in Seq(RawSources) /\ s \in RawSources
      /\ DOMAIN fetch = FetchFields /\ EntriesOK(fetch.new, disk, published)
      /\ fetch.entries = Data!NoEntries /\ WindowsOK(fetch.got, fetch.day, published[s])
      /\ RecordOlder(rawManifest[f], fetch.got) /\ RecordOlder(fetch.new[f], fetch.got)
  BY <1>1, FetchUnderWay DEF Asking, AskingOK
<1>3. f \in Data!Files /\ f[1] = s
  BY <1>2, FilesOfSources
<1>4. /\ published \in [RawSources -> Nat \ {0}] /\ published[s] \in Nat \ {0}
      /\ EntriesOK(rawManifest, disk, published)
  BY <1>2 DEF DataInv
<1>5. fetch.day \in 1..RawLastDay
  BY <1>1, <1>2, Days DEF WindowsOK
<1>6. /\ WindowsOK(more, end + 1, published[s])
      /\ \A i \in 1..Len(more) : \/ i \in 1..Len(fetch.got) /\ more[i] = fetch.got[i]
                                 \/ more[i].version = published[s]
  BY <1>2, <1>4, <1>5, OneMoreWindow
<1>7. /\ fetch'.pc = "request" /\ fetch'.todo = fetch.todo /\ fetch'.new = fetch.new
      /\ fetch'.entries = fetch.entries /\ fetch'.got = more /\ fetch'.day = end + 1
      /\ DOMAIN fetch' = FetchFields
  BY <1>1, <1>2 DEF FetchFields
<1> HIDE DEF more, end, s, f
<1>8. ASSUME NEW entries, EntriesOK(entries, disk, published), RecordOlder(entries[f], fetch.got)
      PROVE  RecordOlder(entries[f], more)
  <2>1. EntryOK(f, entries[f], disk[f], published[s])
    BY <1>3, <1>8 DEF EntriesOK
  <2>2. UpTo(entries[f].sha, published[s]) /\ UpTo(entries[f].audited, published[s])
    BY <2>1 DEF EntryOK
  <2> QED BY <1>6, <1>8, <2>2 DEF RecordOlder, Older, UpTo
<1>9. AskingOK(fetch', rawManifest, published)
  BY <1>1, <1>2, <1>4, <1>6, <1>7, <1>8 DEF AskingOK, s, f
<1>10. JobOK(fetch', rawManifest, disk, published)
  BY <1>2, <1>7, <1>9 DEF JobOK, Fetching, Asking, Unpacking
<1> QED BY <1>1, <1>10 DEF DataInv

\* Once every day was asked for, what is kept of the answers is complete.
LEMMA StoreKeeps ==
    ASSUME DataInv, Data!StoreSeries
    PROVE  DataInv'
<1> DEFINE s == fetch.todo[1]
           f == <<s, "file">>
           c == Data!Deduplicate(fetch.got)
           fresh == [Data!NoEntries EXCEPT ![f] = [sha |-> disk'[f], audited |-> Data!NoFile]]
<1>1. /\ fetch.pc = "request" /\ RawKind[s] = "series" /\ fetch.day > RawLastDay
      /\ \/ fetch' = Data!GiveUp /\ UNCHANGED disk
         \/ disk' = [disk EXCEPT ![f] = c] /\ fetch' = Data!Done(fresh)
      /\ UNCHANGED <<registry, published, rawManifest>>
  BY DEF Data!StoreSeries, Data!Source, Data!Install, Data!Entry
<1>2. /\ fetch.todo # <<>> /\ s \in RawSources
      /\ EntriesOK(fetch.new, disk, published) /\ WindowsOK(fetch.got, fetch.day, published[s])
      /\ RecordOlder(rawManifest[f], fetch.got) /\ RecordOlder(fetch.new[f], fetch.got)
      /\ fetch.pc \in Asking \cup Unpacking
  BY <1>1, FetchUnderWay DEF Asking, AskingOK
<1>3. f \in Data!Files /\ f[1] = s
  BY <1>2, FilesOfSources
<1>4. /\ published \in [RawSources -> Nat \ {0}] /\ published[s] \in Nat \ {0}
      /\ ContentsOK(disk, published) /\ EntriesOK(rawManifest, disk, published)
  BY <1>2 DEF DataInv
<1>5. CASE fetch' = Data!GiveUp /\ UNCHANGED disk
  <2>1. JobOK(fetch', rawManifest', disk, published)
    BY <1>2, <1>5, TargetDone
  <2> QED BY <1>1, <1>5, <2>1 DEF DataInv
<1>6. CASE disk' = [disk EXCEPT ![f] = c] /\ fetch' = Data!Done(fresh)
  <2>1. fetch.day - 1 = RawLastDay /\ fetch.got \in Seq(Observation) /\ Ordered(fetch.got)
    <3>1. /\ fetch.day \in 1..(RawLastDay + 1) /\ fetch.got \in Seq(Observation)
          /\ Ordered(fetch.got)
      BY <1>2 DEF WindowsOK
    <3>2. fetch.day > RawLastDay /\ RawLastDay \in Nat
      BY <1>1, Days
    <3> QED BY <3>1, <3>2
  <2>2. /\ c \in Seq(Observation) /\ Elements(c) = Elements(fetch.got) /\ Ordered(c)
        /\ \A i, j \in 1..Len(c) : i < j => c[i] # c[j]
    BY <2>1, DeduplicateKeeps
  <2>3. {fetch.got[i].period : i \in 1..Len(fetch.got)} = 1..Data!PeriodOf(RawLastDay)
    BY <1>2, <2>1 DEF WindowsOK
  <2> HIDE DEF c, s, f
  <2>4. /\ \A i \in 1..Len(c) : \E j \in 1..Len(fetch.got) : c[i] = fetch.got[j]
        /\ \A j \in 1..Len(fetch.got) : \E i \in 1..Len(c) : c[i] = fetch.got[j]
    <3>1. \A i \in 1..Len(c) : c[i] \in Elements(fetch.got)
      BY <2>2 DEF Elements
    <3>2. \A j \in 1..Len(fetch.got) : fetch.got[j] \in Elements(c)
      BY <2>2 DEF Elements
    <3> QED BY <3>1, <3>2 DEF Elements
  <2>5. {c[i].period : i \in 1..Len(c)} = 1..Data!PeriodOf(RawLastDay)
    <3>1. \A i \in 1..Len(c) : c[i].period \in {fetch.got[j].period : j \in 1..Len(fetch.got)}
      BY <2>4
    <3>2. \A j \in 1..Len(fetch.got) : fetch.got[j].period \in {c[i].period : i \in 1..Len(c)}
      BY <2>4
    <3> QED BY <2>3, <3>1, <3>2
  <2>6. Content(f, c)
    BY <1>1, <1>3, <2>2, <2>5 DEF Content, Series, Complete, Ordered, s
  <2>7. UpTo(c, published[s])
    BY <1>2, <2>4 DEF WindowsOK, UpTo
  <2>8. \A entries : RecordOlder(entries[f], fetch.got) => RecordOlder(entries[f], c)
    BY <2>4 DEF RecordOlder, Older
  <2>9. /\ disk' = [disk EXCEPT ![f] = c] /\ UpTo(c, published[f[1]])
        /\ RecordOlder(rawManifest[f], c) /\ RecordOlder(fetch.new[f], c)
    BY <1>2, <1>3, <1>6, <2>7, <2>8 DEF s, f
  <2>10. disk'[f] = c
    BY <1>3, <1>4, <2>9 DEF ContentsOK
  <2>11. ContentsOK(disk', published)
    BY <1>3, <1>4, <2>6, <2>9, Installed
  <2>12. EntriesOK(rawManifest, disk', published)
    BY <1>3, <1>4, <2>9, RecordedBeside
  <2>13. EntriesOK(fetch.new, disk', published)
    BY <1>2, <1>3, <1>4, <2>9, RecordedBeside
  <2>14. EntriesOK(fresh, disk', published)
    <3>1. EntryOK(f, [sha |-> c, audited |-> Data!NoFile], c, published[s])
      BY <1>4, <2>6, <2>7, FreshEntry
    <3>2. \A g \in Data!Files : fresh[g] = IF g = f THEN [sha |-> c, audited |-> Data!NoFile]
                                                    ELSE Data!NoEntry
      BY <2>10 DEF Data!NoEntries
    <3>3. DOMAIN fresh = Data!Files
      BY DEF Data!NoEntries
    <3> HIDE DEF fresh
    <3>4. ASSUME NEW t \in RawSources, RawKind[t] = "archive"
          PROVE  fresh[<<t, "file">>].sha = fresh[<<t, "member">>].sha
      <4>1. <<t, "file">> \in Data!Files /\ <<t, "member">> \in Data!Files /\ t # s
        BY <1>1, <3>4, FilesOfSources DEF s
      <4> QED BY <3>2, <4>1 DEF f
    <3> QED BY <1>3, <2>10, <3>1, <3>2, <3>3, <3>4, NoEntrySound DEF EntriesOK
  <2>15. JobOK(fetch', rawManifest', disk', published)
    BY <1>2, <1>6, <2>13, <2>14, TargetDone
  <2> QED BY <1>1, <2>11, <2>12, <2>15 DEF DataInv
<1> QED BY <1>1, <1>5, <1>6

\* A member is torn while it is written, and then the archive's content.
LEMMA MemberKeeps ==
    ASSUME DataInv, Data!OpenMember \/ Data!WriteMember
    PROVE  DataInv'
<1> DEFINE s == fetch.todo[1]
           f == <<s, "file">>
           m == <<s, "member">>
           fresh == [fetch.entries EXCEPT ![m] = [sha |-> disk'[m], audited |-> Data!NoFile]]
<1>1. /\ fetch.pc \in Unpacking
      /\ \/ fetch' = Data!GiveUp /\ UNCHANGED disk
         \/ disk' = [disk EXCEPT ![m] = Data!Torn] /\ fetch' = [fetch EXCEPT !.pc = "inflate"]
         \/ disk' = [disk EXCEPT ![m] = disk[f]] /\ fetch' = Data!Done(fresh)
      /\ UNCHANGED <<registry, published, rawManifest>>
  BY DEF Data!OpenMember, Data!RefuseMember, Data!WriteMember, Data!Source, Data!Install, Data!Entry, Unpacking
<1>2. /\ fetch.todo # <<>> /\ fetch.todo \in Seq(RawSources) /\ s \in RawSources
      /\ DOMAIN fetch = FetchFields /\ EntriesOK(fetch.new, disk, published)
      /\ UnpackingOK(fetch, rawManifest, disk) /\ RawKind[s] = "archive"
      /\ fetch.pc \in Asking \cup Unpacking
  BY <1>1, FetchUnderWay DEF UnpackingOK
<1>3. f \in Data!Files /\ m \in Data!Files /\ f[1] = s /\ m[1] = s /\ f # m
  BY <1>2, FilesOfSources
<1>4. /\ published \in [RawSources -> Nat \ {0}] /\ published[s] \in Nat \ {0}
      /\ ContentsOK(disk, published) /\ EntriesOK(rawManifest, disk, published)
  BY <1>2 DEF DataInv
<1>5. CASE fetch' = Data!GiveUp /\ UNCHANGED disk
  <2>1. JobOK(fetch', rawManifest', disk, published)
    BY <1>2, <1>5, TargetDone
  <2> QED BY <1>1, <1>5, <2>1 DEF DataInv
<1>6. CASE disk' = [disk EXCEPT ![m] = Data!Torn] /\ fetch' = [fetch EXCEPT !.pc = "inflate"]
  <2>1. ~Series(m) /\ UpTo(Data!Torn, published[m[1]]) /\ disk'[f] = disk[f]
    <3>1. ~Series(m)
      BY <1>2, <1>3 DEF Series
    <3>2. UpTo(Data!Torn, published[m[1]])
      BY <1>3, <1>4 DEF UpTo, Data!Torn
    <3> QED BY <1>3, <1>4, <1>6, <3>1, <3>2 DEF ContentsOK
  <2> HIDE DEF m
  <2>2. ContentsOK(disk', published)
    BY <1>3, <1>4, <1>6, <2>1, Installed
  <2>3. EntriesOK(rawManifest, disk', published) /\ EntriesOK(fetch.new, disk', published)
    BY <1>2, <1>3, <1>4, <1>6, RecordedBeside
  <2>4. /\ fetch'.pc = "inflate" /\ fetch'.todo = fetch.todo /\ fetch'.new = fetch.new
        /\ DOMAIN fetch' = FetchFields /\ fetch'.entries = fetch.entries
    BY <1>2, <1>6 DEF FetchFields
  <2>5. UnpackingOK(fetch', rawManifest', disk')
    BY <1>1, <1>2, <2>1, <2>4 DEF UnpackingOK
  <2>6. JobOK(fetch', rawManifest', disk', published)
    BY <1>2, <2>3, <2>4, <2>5 DEF JobOK, Fetching, Asking, Unpacking
  <2> QED BY <1>1, <2>2, <2>3, <2>6 DEF DataInv
<1>7. CASE disk' = [disk EXCEPT ![m] = disk[f]] /\ fetch' = Data!Done(fresh)
  <2> DEFINE c == disk[f]
             e == [sha |-> c, audited |-> Data!NoFile]
  <2>1. /\ Content(f, c) /\ RecordOlder(rawManifest[m], c) /\ RecordOlder(fetch.new[m], c)
        /\ fetch.entries = [Data!NoEntries EXCEPT ![f] = e]
    BY <1>2 DEF UnpackingOK
  <2>2. Content(m, c)
    BY <1>3, <2>1 DEF Content, Series
  <2>3. UpTo(c, published[s])
    BY <1>3, <1>4 DEF ContentsOK
  <2>4. disk'[m] = c /\ disk'[f] = c
    BY <1>3, <1>4, <1>7 DEF ContentsOK
  <2>5. /\ \A g \in Data!Files : fresh[g] = IF g \in {f, m} THEN e ELSE Data!NoEntry
        /\ DOMAIN fresh = Data!Files
    BY <1>3, <2>1, <2>4 DEF Data!NoEntries
  <2> HIDE DEF m, f, c, s, e, fresh
  <2>6. disk' = [disk EXCEPT ![m] = c] /\ UpTo(c, published[m[1]])
    BY <1>3, <1>7, <2>3 DEF c
  <2>7. ContentsOK(disk', published)
    BY <1>3, <1>4, <2>2, <2>6, Installed
  <2>8. EntriesOK(rawManifest, disk', published)
    BY <1>3, <1>4, <2>1, <2>6, RecordedBeside
  <2>9. EntriesOK(fetch.new, disk', published)
    BY <1>2, <1>3, <1>4, <2>1, <2>6, RecordedBeside
  <2>10. EntriesOK(fresh, disk', published)
    <3>1. EntryOK(f, e, c, published[s])
      BY <1>4, <2>1, <2>3, FreshEntry DEF e
    <3>2. EntryOK(m, e, c, published[s])
      BY <1>4, <2>2, <2>3, FreshEntry DEF e
    <3>3. ASSUME NEW t \in RawSources, RawKind[t] = "archive"
          PROVE  fresh[<<t, "file">>].sha = fresh[<<t, "member">>].sha
      <4>1. <<t, "file">> \in Data!Files /\ <<t, "member">> \in Data!Files
        BY <3>3, FilesOfSources
      <4>2. <<t, "file">> \in {f, m} <=> t = s
        BY DEF f, m
      <4>3. <<t, "member">> \in {f, m} <=> t = s
        BY DEF f, m
      <4> QED BY <2>5, <4>1, <4>2, <4>3
    <3> QED BY <1>3, <2>4, <2>5, <3>1, <3>2, <3>3, NoEntrySound DEF EntriesOK
  <2>11. JobOK(fetch', rawManifest', disk', published)
    BY <1>2, <1>7, <2>9, <2>10, TargetDone
  <2> QED BY <1>1, <2>7, <2>8, <2>11 DEF DataInv
<1> QED BY <1>1, <1>5, <1>6, <1>7

\* The manifest is emptied, and written again with the rows made for it.
LEMMA ManifestKeeps ==
    ASSUME DataInv, Data!CloseFetch \/ Data!WriteRows \/ Data!WriteMetrics \/ Data!Stop
    PROVE  DataInv'
<1>0. /\ ContentsOK(disk, published) /\ EntriesOK(rawManifest, disk, published)
      /\ JobOK(fetch, rawManifest, disk, published)
  BY DEF DataInv
<1>1. UNCHANGED <<registry, published, disk>>
  BY DEF Data!CloseFetch, Data!WriteRows, Data!WriteMetrics, Data!Stop
<1>2. SUFFICES EntriesOK(rawManifest', disk, published) /\ JobOK(fetch', rawManifest', disk, published)
  BY <1>0, <1>1 DEF DataInv
<1>3. ASSUME NEW code, fetch' = Data!Exit(code)
      PROVE  JobOK(fetch', rawManifest', disk, published)
  <2>1. fetch'.pc = "idle"
    BY <1>3 DEF Data!Exit
  <2> QED BY <2>1, JobNext
<1>4. CASE Data!CloseFetch
  <2>1. fetch.pc = "next" /\ EntriesOK(fetch.new, disk, published)
    BY <1>0, <1>4 DEF Data!CloseFetch, JobOK, Fetching
  <2>2. EntriesOK(Data!Overlay(rawManifest, fetch.new), disk, published)
    BY <1>0, <2>1, OverlaySound
  <2>3. PICK code : \/ fetch' = Data!Exit(code) /\ UNCHANGED rawManifest
                    \/ /\ rawManifest' = Data!NoEntries
                       /\ fetch' = [pc |-> "rows", code |-> code, audits |-> {},
                                    rows |-> Data!Overlay(rawManifest, fetch.new)]
    BY <1>4 DEF Data!CloseFetch, Data!Merge
  <2>4. CASE fetch' = Data!Exit(code) /\ UNCHANGED rawManifest
    BY <1>0, <1>3, <2>4
  <2>5. CASE /\ rawManifest' = Data!NoEntries
             /\ fetch' = [pc |-> "rows", code |-> code, audits |-> {},
                          rows |-> Data!Overlay(rawManifest, fetch.new)]
    <3>1. /\ fetch'.pc = "rows" /\ DOMAIN fetch' = {"pc", "code", "audits", "rows"}
          /\ fetch'.rows = Data!Overlay(rawManifest, fetch.new)
      BY <2>5
    <3>2. JobOK(fetch', rawManifest', disk, published)
      BY <2>2, <3>1, JobNext
    <3> QED BY <2>5, <3>2, NoEntriesSound
  <2> QED BY <2>3, <2>4, <2>5
<1>5. CASE Data!WriteRows
  <2>1. /\ fetch.pc = "rows" /\ EntriesOK(fetch.rows, disk, published) /\ rawManifest' = fetch.rows
        /\ fetch' = Data!Exit(fetch.code) \/ fetch'.pc = "metrics"
    BY <1>0, <1>5 DEF Data!WriteRows, JobOK
  <2>2. JobOK(fetch', rawManifest', disk, published)
    BY <1>3, <2>1, JobNext
  <2> QED BY <2>1, <2>2
<1>6. CASE Data!WriteMetrics \/ Data!Stop
  <2>1. UNCHANGED rawManifest /\ \E code : fetch' = Data!Exit(code)
    BY <1>6 DEF Data!WriteMetrics, Data!Stop
  <2> QED BY <1>0, <1>3, <2>1
<1> QED BY <1>4, <1>5, <1>6

\* An audit notes of a file what is on disk, which is no older than its hash.
LEMMA AuditKeeps ==
    ASSUME DataInv, NEW targets, targets \subseteq registry, Data!BeginAudit(targets)
    PROVE  DataInv'
<1> DEFINE audits == {s \in targets : rawManifest[Data!Audited(s)] # Data!NoEntry}
           looked == {Data!Audited(s) : s \in audits}
           rows == [f \in Data!Files |-> IF f \in looked
                                         THEN [rawManifest[f] EXCEPT !.audited = disk[f]]
                                         ELSE rawManifest[f]]
<1>1. /\ \A s \in audits : disk[Data!Audited(s)] # Data!NoFile /\ disk[Data!Audited(s)] # Data!Torn
      /\ rawManifest' = Data!NoEntries
      /\ fetch' = [pc |-> "rows", code |-> 0, audits |-> audits, rows |-> rows]
      /\ UNCHANGED <<registry, published, disk>>
  BY DEF Data!BeginAudit, Data!Exists
<1>2. /\ registry \subseteq RawSources /\ published \in [RawSources -> Nat \ {0}]
      /\ ContentsOK(disk, published) /\ EntriesOK(rawManifest, disk, published)
  BY DEF DataInv
<1> HIDE DEF audits
<1>3. ASSUME NEW f \in looked
      PROVE  disk[f] # Data!NoFile /\ disk[f] # Data!Torn /\ rawManifest[f] # Data!NoEntry
  <2>1. PICK s \in audits : f = Data!Audited(s)
    OBVIOUS
  <2> QED BY <1>1, <2>1 DEF audits
<1> HIDE DEF looked
<1>4. ASSUME NEW f \in Data!Files
      PROVE  EntryOK(f, rows[f], disk[f], published[f[1]]) /\ rows[f].sha = rawManifest[f].sha
  <2> DEFINE e == rawManifest[f]
             v == published[f[1]]
  <2>1. EntryOK(f, e, disk[f], v)
    BY <1>2 DEF EntriesOK
  <2>2. e = [sha |-> e.sha, audited |-> e.audited]
    BY <2>1 DEF EntryOK
  <2>3. CASE f \notin looked
    BY <2>1, <2>3
  <2>4. CASE f \in looked
    <3>1. rows[f] = [sha |-> e.sha, audited |-> disk[f]]
      BY <2>2, <2>4
    <3>2. disk[f] \notin {Data!NoFile, Data!Torn} /\ e # Data!NoEntry
      BY <1>3, <2>4
    <3>3. Content(f, disk[f]) /\ UpTo(disk[f], v)
      BY <1>2, <3>2 DEF ContentsOK
    <3>4. e.sha # Data!NoFile /\ NotNewer(e.sha, disk[f]) /\ Content(f, e.sha) /\ UpTo(e.sha, v)
      BY <2>1, <3>2, EntryHasHash DEF EntryOK
    <3>5. EntryOK(f, [sha |-> e.sha, audited |-> disk[f]], disk[f], v)
      BY <3>2, <3>3, <3>4 DEF EntryOK, NotNewer
    <3> QED BY <3>1, <3>5
  <2> QED BY <2>3, <2>4
<1>5. DOMAIN rows = Data!Files
  OBVIOUS
<1> HIDE DEF rows
<1>6. EntriesOK(rows, disk, published)
  <2>1. ASSUME NEW s \in RawSources, RawKind[s] = "archive"
        PROVE  rows[<<s, "file">>].sha = rows[<<s, "member">>].sha
    <3>1. <<s, "file">> \in Data!Files /\ <<s, "member">> \in Data!Files
      BY <2>1, FilesOfSources
    <3>2. rawManifest[<<s, "file">>].sha = rawManifest[<<s, "member">>].sha
      BY <1>2, <2>1 DEF EntriesOK
    <3> QED BY <1>4, <3>1, <3>2
  <2> QED BY <1>4, <1>5, <2>1 DEF EntriesOK
<1>7. /\ fetch'.pc = "rows" /\ DOMAIN fetch' = {"pc", "code", "audits", "rows"}
      /\ fetch'.rows = rows
  BY <1>1
<1>8. JobOK(fetch', rawManifest', disk, published)
  BY <1>6, <1>7, JobNext
<1> QED BY <1>1, <1>2, <1>8, NoEntriesSound DEF DataInv

\* A server publishes while a command runs: nothing held is newer than that.
LEMMA PublishKeeps ==
    ASSUME DataInv, Data!Publish
    PROVE  DataInv'
<1>0. /\ registry \subseteq RawSources /\ published \in [RawSources -> Nat \ {0}]
      /\ ContentsOK(disk, published) /\ EntriesOK(rawManifest, disk, published)
      /\ JobOK(fetch, rawManifest, disk, published)
  BY DEF DataInv
<1>1. UNCHANGED <<registry, disk, rawManifest, fetch>>
  BY DEF Data!Publish
<1>2. PICK s \in registry : published' = [published EXCEPT ![s] = @ + 1]
  BY DEF Data!Publish
<1>3. /\ published' \in [RawSources -> Nat \ {0}]
      /\ \A t \in RawSources : published[t] <= published'[t]
  BY <1>0, <1>2
<1>4. ASSUME NEW entries, EntriesOK(entries, disk, published)
      PROVE  EntriesOK(entries, disk, published')
  <2>1. published \in [RawSources -> Nat] /\ published' \in [RawSources -> Nat]
    BY <1>0, <1>3
  <2>2. \A f \in Data!Files : disk[f] = disk[f]
    OBVIOUS
  <2> QED BY <1>3, <1>4, <2>1, <2>2, EntriesKept
<1>5. ContentsOK(disk, published')
  <2>1. ASSUME NEW f \in Data!Files PROVE UpTo(disk[f], published'[f[1]])
    <3>1. f[1] \in RawSources
      BY FilesOfSources
    <3>2. /\ published[f[1]] \in Nat /\ published'[f[1]] \in Nat /\ published[f[1]] <= published'[f[1]]
          /\ UpTo(disk[f], published[f[1]])
      BY <1>0, <1>3, <3>1 DEF ContentsOK
    <3>3. CASE disk[f] = Data!Torn
      BY <3>2, <3>3 DEF UpTo, Data!Torn
    <3>4. CASE disk[f] = Data!NoFile \/ Content(f, disk[f])
      BY <3>2, <3>4, UpToGrows
    <3> QED BY <1>0, <3>3, <3>4 DEF ContentsOK
  <2> QED BY <1>0, <2>1 DEF ContentsOK
<1>6. JobOK(fetch, rawManifest, disk, published')
  <2>1. fetch.pc \in Fetching => EntriesOK(fetch.new, disk, published')
    BY <1>0, <1>4 DEF JobOK
  <2>2. fetch.pc = "rows" => EntriesOK(fetch.rows, disk, published')
    BY <1>0, <1>4 DEF JobOK
  <2>3. ASSUME fetch.pc \in Asking PROVE AskingOK(fetch, rawManifest, published')
    <3>1. AskingOK(fetch, rawManifest, published) /\ fetch.todo[1] \in RawSources
      BY <2>3, FetchUnderWay
    <3>2. ASSUME RawKind[fetch.todo[1]] = "series"
          PROVE  WindowsOK(fetch.got, fetch.day, published'[fetch.todo[1]])
      <4>1. WindowsOK(fetch.got, fetch.day, published[fetch.todo[1]])
        BY <3>1, <3>2 DEF AskingOK
      <4>2. \A i \in 1..Len(fetch.got) : fetch.got[i].version \in Nat
        <5>1. fetch.got \in [1..Len(fetch.got) -> Observation]
          BY <4>1 DEF WindowsOK
        <5> QED BY <5>1 DEF Observation
      <4>3. UpTo(fetch.got, published'[fetch.todo[1]])
        <5>1. /\ published[fetch.todo[1]] \in Nat /\ published'[fetch.todo[1]] \in Nat
              /\ published[fetch.todo[1]] <= published'[fetch.todo[1]]
          BY <1>0, <1>3, <3>1
        <5> QED BY <4>1, <4>2, <5>1 DEF WindowsOK, UpTo
      <4> QED BY <4>1, <4>3 DEF WindowsOK
    <3> QED BY <3>1, <3>2 DEF AskingOK
  <2> QED BY <1>0, <2>1, <2>2, <2>3 DEF JobOK
<1> QED BY <1>0, <1>1, <1>3, <1>4, <1>5, <1>6 DEF DataInv

LEMMA DeletionKeeps ==
    ASSUME DataInv, Data!DeleteRaw
    PROVE  DataInv'
<1>0. /\ published \in [RawSources -> Nat \ {0}]
      /\ ContentsOK(disk, published) /\ EntriesOK(rawManifest, disk, published)
  BY DEF DataInv
<1>1. fetch.pc = "idle" /\ UNCHANGED <<registry, published, rawManifest, fetch>>
  BY DEF Data!DeleteRaw, Data!Idle
<1>2. PICK f \in Data!Files : disk' = [disk EXCEPT ![f] = Data!NoFile]
  BY DEF Data!DeleteRaw
<1>3. UpTo(Data!NoFile, published[f[1]])
  BY DEF UpTo, Data!NoFile
<1>4. ContentsOK(disk', published)
  BY <1>0, <1>2, <1>3, Installed
<1>5. EntriesOK(rawManifest, disk', published)
  BY <1>0, <1>2, RecordedBeside
<1>6. JobOK(fetch, rawManifest, disk', published)
  BY <1>1, JobNext
<1> QED BY <1>1, <1>4, <1>5, <1>6 DEF DataInv

LEMMA DataKeeps ==
    ASSUME DataInv, Data!Next
    PROVE  DataInv'
<1>1. CASE Data!Audit
  <2>1. PICK targets : targets \subseteq registry /\ Data!BeginAudit(targets)
    BY <1>1 DEF Data!Audit
  <2> QED BY <2>1, AuditKeeps
<1>2. CASE ~Data!Audit
  BY <1>2, BookkeepingKeeps, DownloadKeeps, WindowKeeps, StoreKeeps, MemberKeeps, ManifestKeeps,
     PublishKeeps, DeletionKeeps DEF Data!Next, Data!Step
<1> QED BY <1>1, <1>2

(* The invariant of the raw data, for every calendar, window and number of *)
(* retries, whatever is published, deleted, refused or killed.             *)
THEOREM DataInvariant == DataCommandSpec => [](focus = "data" => DataInv)
<1>1. FocusInit /\ DataCommandInit => (focus = "data" => DataInv)
  BY DataStarts DEF DataCommandInit, DataInit
<1>2. (focus = "data" => DataInv) /\ [DataCommandNext]_dataCommandVars => (focus = "data" => DataInv)'
  <2> SUFFICES ASSUME focus = "data" => DataInv, [DataCommandNext]_dataCommandVars, focus' = "data"
               PROVE  DataInv'
    OBVIOUS
  <2>1. DataInv /\ (Data!Next \/ UNCHANGED dataVars)
    BY DataMoves
  <2>2. CASE UNCHANGED dataVars
    BY <2>1, <2>2 DEF DataInv, dataVars
  <2> QED BY <2>1, <2>2, DataKeeps
<1> QED BY <1>1, <1>2, PTL DEF DataCommandSpec

\* What verifies is what was downloaded: the hashes of an archive and of its
\* member were recorded together, of one content.
LEMMA VerifiedIsOneDownload ==
    ASSUME DataInv
    PROVE  Data!VerifiedSourceIsOneDownload
<1> SUFFICES ASSUME NEW s \in RawSources, RawKind[s] = "archive", Data!VerifiesOK(s)
             PROVE  disk[<<s, "member">>] = disk[<<s, "file">>]
  BY DEF Data!VerifiedSourceIsOneDownload
<1> DEFINE f == <<s, "file">>
           m == <<s, "member">>
<1>1. f \in Data!Files /\ m \in Data!Files /\ f \in Data!FilesOf(s) /\ m \in Data!FilesOf(s)
  BY FilesOfSources DEF Data!FilesOf
<1>2. \A g \in Data!FilesOf(s) : g \in {f, m}
  BY FilesOfSources DEF Data!FilesOf
<1>3. rawManifest[f].sha = rawManifest[m].sha
  BY DEF DataInv, EntriesOK
<1> HIDE DEF f, m
<1>4. \A g \in {f, m} : rawManifest[g] # Data!NoEntry <=> rawManifest[g].sha # Data!NoFile
  BY <1>1, EntryHasHash DEF DataInv, EntriesOK
<1>5. rawManifest[f] # Data!NoEntry /\ rawManifest[m] # Data!NoEntry
  BY <1>2, <1>3, <1>4 DEF Data!VerifiesOK
<1>6. rawManifest[f].sha = disk[f] /\ rawManifest[m].sha = disk[m]
  BY <1>1, <1>5 DEF Data!VerifiesOK
<1> QED BY <1>3, <1>6 DEF f, m

(* Raw data is what is recorded, whatever happens in between.              *)
(* (RawDataIsWhatIsRecorded)                                               *)
THEOREM RawDataAreRecorded == DataCommandSpec => []RawDataIsWhatIsRecorded
<1>1. (focus = "data" => DataInv) => RawDataIsWhatIsRecorded
  <2> SUFFICES ASSUME DataInv
               PROVE  /\ Data!VerifiedSourceIsOneDownload
                      /\ Data!AuditedContentVerified
                      /\ Data!SeriesComplete
    BY DEF RawDataIsWhatIsRecorded
  <2>1. Data!AuditedContentVerified
    <3> SUFFICES ASSUME NEW f \in Data!Files, rawManifest[f].audited # Data!NoFile,
                        rawManifest[f].sha = disk[f]
                 PROVE  rawManifest[f].audited = rawManifest[f].sha
      BY DEF Data!AuditedContentVerified
    <3>1. EntryOK(f, rawManifest[f], disk[f], published[f[1]])
      BY DEF DataInv, EntriesOK
    <3>2. Content(f, rawManifest[f].sha) /\ Content(f, rawManifest[f].audited)
      BY <3>1 DEF EntryOK
    <3>3. disk[f] \notin {Data!NoFile, Data!Torn}
      BY <3>2, ContentType
    <3>4. /\ NotNewer(rawManifest[f].sha, rawManifest[f].audited)
          /\ NotNewer(rawManifest[f].audited, rawManifest[f].sha)
      BY <3>1, <3>3 DEF EntryOK
    <3> QED BY <3>2, <3>4, SameContent
  <2>2. Data!SeriesComplete
    <3> SUFFICES ASSUME NEW s \in Data!Series, disk[<<s, "file">>] # Data!NoFile
                 PROVE  Complete(disk[<<s, "file">>])
      BY DEF Data!SeriesComplete, Data!Exists, Complete
    <3>1. <<s, "file">> \in Data!Files /\ Series(<<s, "file">>)
      BY FilesOfSources DEF Data!Series, Series
    <3> QED BY <3>1 DEF DataInv, ContentsOK, Content
  <2> QED BY <2>1, <2>2, VerifiedIsOneDownload
<1> QED BY <1>1, DataInvariant, PTL

-----------------------------------------------------------------------------
(* A step of the whole leaves the focus, and is one of the component that  *)
(* has it, or leaves its variables.                                        *)
LEMMA ReleaseMoves ==
    ASSUME [ReleaseCommandNext]_releaseCommandVars
    PROVE  /\ focus' = focus
           /\ focus = "remediation" => Remedied!RemediationNext \/ UNCHANGED remediationVars
           /\ focus # "remediation" => UNCHANGED remediationVars
           /\ focus = "monitoring" => Monitored!MonitoringNext \/ UNCHANGED monitoringVars
           /\ focus = "release" => Released!ReleaseNext \/ UNCHANGED releaseVars
           /\ focus = "cleanup" => Cleaned!CleanupNext \/ UNCHANGED cleanupVars
BY SMT DEF ReleaseCommandNext, ReleaseCommandMoves, releaseCommandVars,
           remediationVars, monitoringVars, releaseVars, cleanupVars

-----------------------------------------------------------------------------
(***************************************************************************)
(* The cleanup.  While its batches run nobody commits, and the byproducts  *)
(* are left alone: what is staged in the end is compared with a plan that  *)
(* is still all the commit has of them.                                    *)
(***************************************************************************)
CleanupTypeOK ==
    /\ head \subseteq CleanupEphemeral \cup CleanupSources
    /\ index \subseteq CleanupEphemeral \cup CleanupSources
    /\ plan \subseteq CleanupEphemeral
    /\ DOMAIN task = {"kind", "at", "left", "verdict"}
    /\ task.kind \in {"none", "dry_run", "execute", "stage"}
    /\ task.at \in {"idle", "clean", "remove", "staging"}
    /\ task.verdict \in {"none", "refused", "dry", "failed", "done"}

RemovesWhatWasReviewed ==
    /\ task.at \in {"clean", "remove"} => task.verdict = "none"
    /\ task.at = "clean" => index \cap CleanupEphemeral = plan
    /\ task.at = "remove" => head \cap CleanupEphemeral = plan

CleanupInv == CleanupTypeOK /\ RemovesWhatWasReviewed /\ Cleaned!CleanupIsThePlan

LEMMA CleanupStarts ==
    ASSUME Cleaned!CleanupInit
    PROVE  CleanupInv
BY DEF Cleaned!CleanupInit, Cleaned!Idle, CleanupInv, CleanupTypeOK, RemovesWhatWasReviewed,
       Cleaned!CleanupIsThePlan

LEMMA CleanupKeeps ==
    ASSUME CleanupInv, Cleaned!CleanupNext
    PROVE  CleanupInv'
<1> USE DEF CleanupInv, CleanupTypeOK, RemovesWhatWasReviewed, Cleaned!CleanupIsThePlan
<1>0. CleanupEphemeral \cap CleanupSources = {}
  BY ReleaseCommandsAssumption DEF Cleaned!CleanupAssumption
<1>1. CASE Cleaned!BuildManifest
  BY <1>1 DEF Cleaned!BuildManifest, Cleaned!Idle
<1>2. CASE Cleaned!Begin
  BY <1>2 DEF Cleaned!Begin, Cleaned!NoDrift
<1>3. CASE Cleaned!RefuseDirtyIndex
  <2>1. CASE Cleaned!Staged = {}
    <3>1. head = index
      BY <2>1 DEF Cleaned!Staged
    <3> QED BY <1>3, <2>1, <3>1 DEF Cleaned!RefuseDirtyIndex, Cleaned!AtStep
  <2>2. CASE Cleaned!Staged # {}
    BY <1>3, <2>2 DEF Cleaned!RefuseDirtyIndex, Cleaned!AtStep, Cleaned!End
  <2> QED BY <2>1, <2>2
<1>4. CASE Cleaned!RemoveBatch
  <2>1. index' \subseteq index /\ head' = head /\ plan' = plan /\ task.at = "remove"
    BY <1>4 DEF Cleaned!RemoveBatch, Cleaned!AtStep
  <2>2. /\ DOMAIN task' = DOMAIN task /\ task'.kind = task.kind
        /\ \/ task'.at = "remove" /\ task'.verdict = task.verdict
           \/ task'.at = "idle" /\ task'.verdict = "failed"
    BY <1>4, <2>1 DEF Cleaned!RemoveBatch, Cleaned!AtStep, Cleaned!End
  <2> QED BY <2>1, <2>2
<1>5. CASE Cleaned!Verify
  <2>1. /\ task.at = "remove" /\ head' = head /\ index' = index /\ plan' = plan
        /\ DOMAIN task' = DOMAIN task /\ task'.kind = task.kind /\ task'.at = "idle"
        /\ \/ task'.verdict = "done" /\ Cleaned!Staged = plan
           \/ task'.verdict = "failed"
    BY <1>5 DEF Cleaned!Verify, Cleaned!AtStep, Cleaned!End, Cleaned!MatchesPlan
  <2>2. Cleaned!Staged = plan => index = head \ plan
    BY <2>1 DEF Cleaned!Staged
  <2> QED BY <2>1, <2>2
<1>6. CASE Cleaned!DryRunStage
  BY <1>6 DEF Cleaned!DryRunStage, Cleaned!Idle
<1>7. CASE Cleaned!WriteStagingPlan
  BY <1>7 DEF Cleaned!WriteStagingPlan, Cleaned!AtStep, Cleaned!End
<1>8. CASE Cleaned!Developer
  <2>1. /\ plan' = plan /\ DOMAIN task' = DOMAIN task /\ task'.kind = task.kind
        /\ task'.at = task.at /\ task'.verdict = "none"
    BY <1>8 DEF Cleaned!Developer
  <2>2. CASE task.at = "idle"
    BY <1>8, <2>1, <2>2 DEF Cleaned!Developer
  <2>3. CASE task.at # "idle"
    <3>1. head' = head
      BY <1>8, <2>3 DEF Cleaned!Developer, Cleaned!AtStep
    <3>2. PICK p \in CleanupSources :
              index' = IF p \in index THEN index \ {p} ELSE index \cup {p}
      BY <1>8, <2>3 DEF Cleaned!Developer, Cleaned!AtStep
    <3>3. index' \cap CleanupEphemeral = index \cap CleanupEphemeral
      BY <1>0, <3>2
    <3> QED BY <2>1, <2>3, <3>1, <3>2, <3>3
  <2> QED BY <2>2, <2>3
<1> QED BY <1>1, <1>2, <1>3, <1>4, <1>5, <1>6, <1>7, <1>8 DEF Cleaned!CleanupNext

(* The invariant of the cleanup, for any sets of byproducts and of other   *)
(* paths and any size of a batch.                                          *)
THEOREM CleanupInvariant == ReleaseCommandSpec => [](focus = "cleanup" => CleanupInv)
<1>1. ReleaseCommandInit => (focus = "cleanup" => CleanupInv)
  BY CleanupStarts DEF ReleaseCommandInit, CleanupInit
<1>2. (focus = "cleanup" => CleanupInv) /\ [ReleaseCommandNext]_releaseCommandVars => (focus = "cleanup" => CleanupInv)'
  <2> SUFFICES ASSUME focus = "cleanup" => CleanupInv, [ReleaseCommandNext]_releaseCommandVars, focus' = "cleanup"
               PROVE  CleanupInv'
    OBVIOUS
  <2>1. CASE Cleaned!CleanupNext
    BY <2>1, ReleaseMoves, CleanupKeeps
  <2>2. CASE UNCHANGED cleanupVars
    BY <2>2, ReleaseMoves DEF cleanupVars, CleanupInv, CleanupTypeOK, RemovesWhatWasReviewed,
       Cleaned!CleanupIsThePlan
  <2> QED BY <2>1, <2>2, ReleaseMoves
<1> QED BY <1>1, <1>2, PTL DEF ReleaseCommandSpec

(* A cleanup that reports success leaves a commit that removes all the     *)
(* byproducts that were tracked, which are those reviewed, and nothing     *)
(* else, whatever is staged while its batches run and whatever an earlier  *)
(* cleanup that failed half-way left behind.                               *)
THEOREM CleanupsAreThePlan == ReleaseCommandSpec => []CleanupIsThePlan
<1>1. (focus = "cleanup" => CleanupInv) => CleanupIsThePlan
  BY DEF CleanupIsThePlan, CleanupInv
<1> QED BY <1>1, CleanupInvariant, PTL

-----------------------------------------------------------------------------
(***************************************************************************)
(* The remediation.  While one runs the tables of the original model are   *)
(* left alone, so that the decision and the manifest read the same rows of *)
(* them; and what the record of the final model says is of the pipeline    *)
(* the very same command has dumped.                                       *)
(***************************************************************************)
Upto == 0..remediation.number
Deciding == {"decide", "artifact", "manifest"}
Comparing == Deciding \cup {"compare"}
RemediationSteps ==
    Comparing \cup {"idle", "stability", "record stability", "final", "record final", "transition"}

RemediationTypeOK ==
    /\ v1 \in Seq(Nat)
    /\ v1Tables \in [{"pareto", "classification"} -> 0..Len(v1)]
    /\ DOMAIN remediation = {"number", "at", "verdict"}
    /\ remediation.number \in Nat /\ remediation.at \in RemediationSteps
    /\ pipeline \in [{"stability", "final"} -> Upto]
    /\ DOMAIN record = {"stability", "final"}
    /\ artifact \in Upto

\* What is recorded of an audit.
AsRecorded(audit) ==
    [by |-> remediation.number, vif |-> Remedied!VifTable(audit),
     score |-> audit.score, flips |-> audit.flips, found |-> audit]

\* The command that compares has dumped and audited the final model itself.
AuditedByCommand ==
    /\ remediation.at \in Comparing \cup {"record final"} =>
          pipeline["final"] = remediation.number
    /\ remediation.at \in Comparing =>
          \E audit \in RemediationAudits : record["final"] = AsRecorded(audit)
    /\ remediation.at \in Deciding => v1Tables["pareto"] # 0

\* What it is about to register has been found good enough.
FoundGood ==
    /\ remediation.at \in {"artifact", "manifest", "transition"} =>
          remediation.verdict = "remediation_candidate"
    /\ remediation.at \in {"artifact", "manifest"} =>
          Remedied!Verdict(record["final"], Remedied!Original) = "remediation_candidate"
    /\ remediation.at = "manifest" => artifact = remediation.number

\* What a decision excludes: a finite inflation at the threshold, and flips
\* of one sign that alone bring the mean to its limit.
RemediesTheStructure(audit) ==
    \A f \in Remedied!Features :
        /\ audit.vif[f] \notin RemediationActionThreshold..(RemediationInfinite - 1)
        /\ audit.flips[f] < 2 * RemediationMaxFlipRate

\* A manifest speaks of the artifact it was written for, which may be gone.
ManifestIsAudited ==
    modelManifest # Remedied!NoManifest =>
        /\ modelManifest.metrics = modelManifest.hash
        /\ RemediesTheStructure(modelManifest.found)
        /\ modelManifest.found.score \in
              (modelManifest.against - RemediationTolerance)..(modelManifest.against + RemediationTolerance)

States == {"experiment", "remediation_candidate", "validation_failed", "challenger"}
Transitions == [from : States, to : States]
HistoryIsChained ==
    /\ DOMAIN lifecycle = {"log", "torn"}
    /\ lifecycle.torn \in BOOLEAN
    /\ lifecycle.log \in Seq(Transitions)
    /\ Remedied!Chained(lifecycle.log)

RemediationInv ==
    /\ RemediationTypeOK
    /\ AuditedByCommand
    /\ FoundGood
    /\ ManifestIsAudited
    /\ HistoryIsChained

LEMMA RemediationStarts ==
    ASSUME Remedied!RemediationInit
    PROVE  RemediationInv
<1>0. RemediationScores \subseteq Nat
  BY ReleaseCommandsAssumption DEF Remedied!RemediationAssumption
<1>1. PICK s \in RemediationScores : v1 = <<s>>
  BY DEF Remedied!RemediationInit
<1>2. v1 \in Seq(Nat) /\ Len(v1) = 1
  BY <1>0, <1>1
<1>3. RemediationTypeOK
  BY <1>2 DEF Remedied!RemediationInit, Remedied!NoCommand, Remedied!Tables, Remedied!Reduced,
     RemediationTypeOK, Upto, RemediationSteps
<1>4. AuditedByCommand /\ FoundGood /\ ManifestIsAudited
  BY DEF Remedied!RemediationInit, Remedied!NoCommand, AuditedByCommand, FoundGood,
     ManifestIsAudited, Comparing, Deciding
<1>5. HistoryIsChained
  BY DEF Remedied!RemediationInit, HistoryIsChained, Remedied!Chained
<1> QED BY <1>3, <1>4, <1>5 DEF RemediationInv

(* A decision for a model keeps its score within the tolerance, either     *)
(* way, and excludes what the table of its audit shows of its features.    *)
LEMMA CandidateIsClose ==
    ASSUME NEW audit \in RemediationAudits, NEW original \in Nat,
           Remedied!Verdict(AsRecorded(audit), original) = "remediation_candidate"
    PROVE  /\ RemediesTheStructure(audit)
           /\ audit.score \in (original - RemediationTolerance)..(original + RemediationTolerance)
<1> DEFINE row == AsRecorded(audit)
<1>1. /\ ~Remedied!Inflated(row) /\ ~Remedied!MeanAtLeast(row, RemediationMaxFlipRate)
      /\ ~(row.score - original > RemediationTolerance)
      /\ ~(original - row.score > RemediationTolerance)
  BY DEF Remedied!Verdict
<1>2. /\ audit \in [score : Nat, vif : [Remedied!Features -> 1..RemediationInfinite],
                     flips : [Remedied!Features -> 0..100]]
      /\ RemediationTolerance \in Nat /\ RemediationMaxFlipRate \in Nat
      /\ RemediationInfinite \in Nat /\ RemediationActionThreshold \in 1..RemediationInfinite
  BY ReleaseCommandsAssumption DEF Remedied!RemediationAssumption
<1>3. /\ row.score = audit.score /\ row.flips = audit.flips
      /\ row.vif = Remedied!VifTable(audit)
  BY DEF AsRecorded
<1> HIDE DEF row
<1>4. ASSUME NEW f \in Remedied!Features
      PROVE  audit.vif[f] \notin RemediationActionThreshold..(RemediationInfinite - 1)
  <2> SUFFICES ASSUME audit.vif[f] \in RemediationActionThreshold..(RemediationInfinite - 1)
               PROVE  FALSE
    OBVIOUS
  <2>1. audit.vif[f] \in 1..RemediationInfinite
    BY <1>2, <1>4
  <2>2. row.vif[f] = audit.vif[f] /\ row.vif[f] # 0
    BY <1>2, <1>3, <1>4, <2>1 DEF Remedied!VifTable
  <2>3. row.vif[f] \in Remedied!VifValues(row) /\ row.vif[f] >= RemediationActionThreshold
    BY <1>2, <1>4, <2>1, <2>2 DEF Remedied!VifValues, Remedied!None
  <2> QED BY <1>1, <2>3 DEF Remedied!Inflated
<1>5. ASSUME NEW f \in Remedied!Features
      PROVE  audit.flips[f] < 2 * RemediationMaxFlipRate
  <2>1. ~(audit.flips["x"] + audit.flips["y"] >= 2 * RemediationMaxFlipRate)
    BY <1>1, <1>3 DEF Remedied!MeanAtLeast, Remedied!TotalFlips
  <2>2. audit.flips["x"] \in 0..100 /\ audit.flips["y"] \in 0..100 /\ f \in {"x", "y"}
    BY <1>2, <1>5 DEF Remedied!Features
  <2>3. RemediationMaxFlipRate \in Nat
    BY <1>2
  <2>4. \A a, b, m \in Nat : ~(a + b >= 2 * m) => a < 2 * m /\ b < 2 * m
    OBVIOUS
  <2>5. audit.flips["x"] \in Nat /\ audit.flips["y"] \in Nat
    BY <2>2
  <2>6. audit.flips["x"] < 2 * RemediationMaxFlipRate /\ audit.flips["y"] < 2 * RemediationMaxFlipRate
    BY <2>1, <2>3, <2>4, <2>5
  <2> QED BY <2>2, <2>6
<1>6. audit.score \in (original - RemediationTolerance)..(original + RemediationTolerance)
  BY <1>1, <1>2, <1>3
<1> QED BY <1>4, <1>5, <1>6 DEF RemediesTheStructure

(* The history is left, cut short, or gets one transition from its end.    *)
LEMMA TransitionIsAppended ==
    ASSUME HistoryIsChained, ~lifecycle.torn, NEW to \in States,
           lifecycle' \in {Remedied!Appended(to), Remedied!Torn}
    PROVE  /\ HistoryIsChained'
           /\ Remedied!IsPrefix(lifecycle.log, lifecycle'.log)
<1> DEFINE log == lifecycle.log
           end == Remedied!CurrentState
<1>0. log \in Seq(Transitions) /\ Remedied!Chained(log)
  BY DEF HistoryIsChained
<1>1. CASE lifecycle' = Remedied!Torn
  <2>1. DOMAIN lifecycle' = {"log", "torn"} /\ lifecycle'.torn = TRUE /\ lifecycle'.log = log
    BY <1>1 DEF Remedied!Torn, HistoryIsChained
  <2>2. Remedied!IsPrefix(log, log)
    BY <1>0 DEF Remedied!IsPrefix
  <2>3. lifecycle'.torn \in BOOLEAN
    BY <2>1
  <2> HIDE DEF log
  <2>4. lifecycle'.log \in Seq(Transitions) /\ Remedied!Chained(lifecycle'.log)
    BY <2>1, <1>0
  <2>5. HistoryIsChained'
    BY <2>1, <2>3, <2>4 DEF HistoryIsChained, Remedied!Chained
  <2> QED BY <2>1, <2>2, <2>5 DEF log
<1>2. CASE lifecycle' = Remedied!Appended(to)
  <2>1. end \in States
    <3>1. CASE log = <<>>
      BY <3>1 DEF Remedied!CurrentState, States
    <3>2. CASE log # <<>>
      <4> HIDE DEF log
      <4>1. log[Len(log)] \in Transitions
        BY <1>0, <3>2
      <4>2. log[Len(log)].to \in States
        BY <4>1 DEF Transitions
      <4> QED BY <3>2, <4>2 DEF Remedied!CurrentState, Remedied!Last, log
    <3> QED BY <3>1, <3>2
  <2>2. /\ DOMAIN lifecycle' = {"log", "torn"} /\ lifecycle'.torn = lifecycle.torn
        /\ lifecycle'.log = Append(log, [from |-> end, to |-> to])
    BY <1>2 DEF Remedied!Appended, HistoryIsChained
  <2> DEFINE new == Append(log, [from |-> end, to |-> to])
  <2>3. /\ new \in Seq(Transitions) /\ Len(new) = Len(log) + 1
        /\ \A i \in 1..Len(log) : new[i] = log[i]
        /\ new[Len(log) + 1] = [from |-> end, to |-> to]
    BY <1>0, <2>1 DEF Transitions
  <2>4. Remedied!Chained(new)
    <3> SUFFICES ASSUME NEW i \in 1..Len(log) + 1
                 PROVE  new[i].from = IF i = 1 THEN "experiment" ELSE new[i - 1].to
      BY <2>3 DEF Remedied!Chained
    <3>1. CASE i \in 1..Len(log)
      BY <1>0, <2>3, <3>1 DEF Remedied!Chained
    <3>2. CASE i = Len(log) + 1
      BY <1>0, <2>3, <3>2 DEF Remedied!CurrentState, Remedied!Last
    <3> QED BY <1>0, <3>1, <3>2
  <2>5. Remedied!IsPrefix(log, new)
    BY <1>0, <2>3 DEF Remedied!IsPrefix
  <2> HIDE DEF new
  <2> QED BY <2>2, <2>3, <2>4, <2>5 DEF HistoryIsChained, new
<1> QED BY <1>1, <1>2

(* The original model is worked on, or a remediation begins or is killed:  *)
(* nothing runs afterwards that has compared anything.                     *)
LEMMA OutsideRemediation ==
    ASSUME RemediationTypeOK, AuditedByCommand, FoundGood, ManifestIsAudited,
           \/ Remedied!Retrain \/ Remedied!CompareCandidates \/ Remedied!ClassifyCoefficients
           \/ Remedied!Begin \/ Remedied!Kill
    PROVE  RemediationTypeOK' /\ AuditedByCommand' /\ FoundGood' /\ ManifestIsAudited'
           /\ lifecycle' = lifecycle
<1> USE DEF Remedied!files
<1>0. lifecycle' = lifecycle /\ remediation'.at \in {"idle", "stability"}
  <2>1. CASE Remedied!Kill
    BY <2>1 DEF Remedied!Kill, Remedied!Stop, Remedied!Goto, RemediationTypeOK
  <2>2. CASE ~Remedied!Kill
    BY <2>2 DEF Remedied!Retrain, Remedied!CompareCandidates, Remedied!ClassifyCoefficients,
       Remedied!Begin, Remedied!Idle
  <2> QED BY <2>1, <2>2
<1>1. AuditedByCommand' /\ FoundGood'
  BY <1>0 DEF AuditedByCommand, FoundGood, Comparing, Deciding
<1>2. ManifestIsAudited'
  BY DEF Remedied!Retrain, Remedied!CompareCandidates, Remedied!ClassifyCoefficients,
     Remedied!Begin, Remedied!Kill, ManifestIsAudited
<1>3. RemediationTypeOK'
  <2>1. CASE Remedied!Retrain
    <3>1. PICK s \in RemediationScores : v1' = Append(v1, s)
      BY <2>1 DEF Remedied!Retrain
    <3>2. s \in Nat
      BY ReleaseCommandsAssumption DEF Remedied!RemediationAssumption
    <3>3. v1 \in Seq(Nat) /\ v1Tables \in [{"pareto", "classification"} -> 0..Len(v1)]
      BY DEF RemediationTypeOK
    <3>4. v1' \in Seq(Nat) /\ 0..Len(v1) \subseteq 0..Len(v1')
      BY <3>1, <3>2, <3>3
    <3>5. UNCHANGED <<v1Tables, pipeline, record, artifact, remediation>>
      BY <2>1 DEF Remedied!Retrain
    <3>6. v1Tables' \in [{"pareto", "classification"} -> 0..Len(v1')]
      BY <3>3, <3>4, <3>5
    <3> QED BY <3>4, <3>5, <3>6 DEF RemediationTypeOK, Upto
  <2>2. CASE Remedied!CompareCandidates \/ Remedied!ClassifyCoefficients
    <3>1. PICK t \in {"pareto", "classification"} : v1Tables' = [v1Tables EXCEPT ![t] = Len(v1)]
      BY <2>2 DEF Remedied!CompareCandidates, Remedied!ClassifyCoefficients
    <3>2. UNCHANGED <<v1, pipeline, record, artifact, remediation>>
      BY <2>2 DEF Remedied!CompareCandidates, Remedied!ClassifyCoefficients
    <3> QED BY <3>1, <3>2 DEF RemediationTypeOK, Upto
  <2>3. CASE Remedied!Begin
    <3>1. /\ DOMAIN remediation' = {"number", "at", "verdict"}
          /\ remediation'.number = remediation.number + 1
      BY <2>3 DEF Remedied!Begin
    <3>2. Upto \subseteq Upto' /\ remediation'.number \in Nat
      BY <3>1 DEF RemediationTypeOK, Upto
    <3>3. UNCHANGED <<v1, v1Tables, pipeline, record, artifact>>
      BY <2>3 DEF Remedied!Begin
    <3> QED BY <1>0, <3>1, <3>2, <3>3 DEF RemediationTypeOK, RemediationSteps
  <2>4. CASE Remedied!Kill
    <3>1. /\ remediation' = [remediation EXCEPT !.at = "idle"]
          /\ UNCHANGED <<v1, v1Tables, pipeline, record, artifact>>
      BY <2>4 DEF Remedied!Kill, Remedied!Stop, Remedied!Goto
    <3> QED BY <3>1 DEF RemediationTypeOK, Upto, RemediationSteps
  <2> QED BY <2>1, <2>2, <2>3, <2>4
<1> QED BY <1>0, <1>1, <1>2, <1>3

(* The steps of a remediation up to the manifest.                          *)
LEMMA InsideRemediation ==
    ASSUME RemediationTypeOK, AuditedByCommand, FoundGood, ManifestIsAudited,
           \/ Remedied!DumpPipeline \/ Remedied!WriteRecord \/ Remedied!Compare
           \/ Remedied!DecideRemediation \/ Remedied!RegisterArtifact \/ Remedied!RegisterManifest
    PROVE  RemediationTypeOK' /\ AuditedByCommand' /\ FoundGood' /\ ManifestIsAudited'
           /\ lifecycle' = lifecycle
<1> USE DEF RemediationTypeOK, Upto, RemediationSteps, Comparing, Deciding,
            Remedied!Goto, Remedied!Stop, Remedied!files
<1>1. CASE Remedied!DumpPipeline
  <2>0. UNCHANGED <<v1, v1Tables, record, comparison, artifact, modelManifest, lifecycle>>
    BY <1>1 DEF Remedied!DumpPipeline
  <2>1. \/ /\ remediation' = [remediation EXCEPT !.at = "idle"]
           /\ pipeline' = pipeline
        \/ /\ remediation' = [remediation EXCEPT !.at = "record stability"]
           /\ pipeline' = [pipeline EXCEPT !["stability"] = remediation.number]
        \/ /\ remediation' = [remediation EXCEPT !.at = "record final"]
           /\ pipeline' = [pipeline EXCEPT !["final"] = remediation.number]
    BY <1>1 DEF Remedied!DumpPipeline, Remedied!Reduced
  <2>2. pipeline' \in [{"stability", "final"} -> 0..remediation.number]
    <3> DEFINE n == remediation.number
    <3>0. n \in Nat /\ pipeline \in [{"stability", "final"} -> 0..n]
      OBVIOUS
    <3> HIDE DEF n, RemediationTypeOK
    <3>1. n \in 0..n /\ pipeline \in [{"stability", "final"} -> 0..n]
      BY <3>0
    <3>2. \A m \in {"stability", "final"} :
              [pipeline EXCEPT ![m] = n] \in [{"stability", "final"} -> 0..n]
      BY <3>1
    <3> QED BY <2>1, <3>1, <3>2 DEF n
  <2>3. /\ remediation'.number = remediation.number /\ DOMAIN remediation' = {"number", "at", "verdict"}
        /\ remediation'.at \in {"idle", "record stability", "record final"}
    BY <2>1
  <2>4. RemediationTypeOK'
    BY <2>0, <2>2, <2>3
  <2> QED BY <2>0, <2>1, <2>4 DEF AuditedByCommand, FoundGood, ManifestIsAudited
<1>2. CASE Remedied!WriteRecord
  <2>0. UNCHANGED <<v1, v1Tables, pipeline, comparison, artifact, modelManifest, lifecycle>>
    BY <1>2 DEF Remedied!WriteRecord
  <2>1. CASE remediation.at = "record stability"
    <3>1. /\ remediation' = [remediation EXCEPT !.at = "final"]
          /\ DOMAIN record' = DOMAIN record
      BY <1>2, <2>1 DEF Remedied!WriteRecord, Remedied!AuditReduced
    <3> QED BY <2>0, <2>1, <3>1 DEF AuditedByCommand, FoundGood, ManifestIsAudited
  <2>2. CASE remediation.at = "record final"
    <3>1. /\ remediation' = [remediation EXCEPT !.at = "compare"]
          /\ DOMAIN record' = DOMAIN record
          /\ \E audit \in RemediationAudits : record'["final"] = AsRecorded(audit)
      BY <1>2, <2>2 DEF Remedied!WriteRecord, Remedied!AuditReduced, AsRecorded
    <3> QED BY <2>0, <2>2, <3>1 DEF AuditedByCommand, FoundGood, ManifestIsAudited, AsRecorded
  <2> QED BY <1>2, <2>1, <2>2 DEF Remedied!WriteRecord
<1>3. CASE Remedied!Compare
  <2>1. /\ remediation.at = "compare"
        /\ UNCHANGED <<v1, v1Tables, pipeline, record, artifact, modelManifest, lifecycle>>
        /\ \/ remediation' = [remediation EXCEPT !.at = "idle"]
           \/ /\ v1Tables["pareto"] # 0
              /\ remediation' = [remediation EXCEPT !.at = "decide"]
    BY <1>3 DEF Remedied!Compare
  <2> QED BY <2>1 DEF AuditedByCommand, FoundGood, ManifestIsAudited, AsRecorded
<1>4. CASE Remedied!DecideRemediation
  BY <1>4 DEF Remedied!DecideRemediation, Remedied!ComparedFrom, Remedied!Original,
     AuditedByCommand, FoundGood, ManifestIsAudited, AsRecorded
<1>5. CASE Remedied!RegisterArtifact
  BY <1>5 DEF Remedied!RegisterArtifact, Remedied!Original, AuditedByCommand, FoundGood,
     ManifestIsAudited, AsRecorded
<1>6. CASE Remedied!RegisterManifest
  <2>1. /\ remediation' = [remediation EXCEPT !.at = "transition"]
        /\ UNCHANGED <<v1, v1Tables, pipeline, record, comparison, artifact, lifecycle>>
        /\ remediation.at = "manifest"
    BY <1>6 DEF Remedied!RegisterManifest
  <2>2. PICK audit \in RemediationAudits : record["final"] = AsRecorded(audit)
    BY <2>1 DEF AuditedByCommand
  <2>3. Remedied!Original \in Nat
    BY <2>1 DEF Remedied!Original, AuditedByCommand
  <2>4. Remedied!Verdict(AsRecorded(audit), Remedied!Original) = "remediation_candidate"
    BY <2>1, <2>2 DEF FoundGood
  <2>5. /\ modelManifest'.metrics = modelManifest'.hash
        /\ modelManifest'.found = audit /\ modelManifest'.against = Remedied!Original
    BY <1>6, <2>1, <2>2 DEF Remedied!RegisterManifest, FoundGood, AsRecorded
  <2>6. ManifestIsAudited'
    BY <2>3, <2>4, <2>5, CandidateIsClose DEF ManifestIsAudited, RemediesTheStructure
  <2> QED BY <2>1, <2>6 DEF AuditedByCommand, FoundGood, AsRecorded
<1> QED BY <1>1, <1>2, <1>3, <1>4, <1>5, <1>6

(* A transition is appended only to a history that can be read.            *)
HistoryOnlyGrows ==
    lifecycle' # lifecycle =>
        /\ ~lifecycle.torn
        /\ Remedied!IsPrefix(lifecycle.log, lifecycle'.log) /\ Remedied!Chained(lifecycle'.log)

LEMMA RemediationKeeps ==
    ASSUME RemediationInv, Remedied!RemediationNext
    PROVE  RemediationInv' /\ HistoryOnlyGrows
<1> USE DEF RemediationInv
<1>1. CASE \/ Remedied!Retrain \/ Remedied!CompareCandidates \/ Remedied!ClassifyCoefficients
           \/ Remedied!Begin \/ Remedied!Kill
  <2>1. RemediationTypeOK' /\ AuditedByCommand' /\ FoundGood' /\ ManifestIsAudited'
        /\ lifecycle' = lifecycle
    BY <1>1, OutsideRemediation
  <2> QED BY <2>1 DEF HistoryOnlyGrows, HistoryIsChained, Remedied!Chained
<1>2. CASE \/ Remedied!DumpPipeline \/ Remedied!WriteRecord \/ Remedied!Compare
           \/ Remedied!DecideRemediation \/ Remedied!RegisterArtifact \/ Remedied!RegisterManifest
  <2>1. RemediationTypeOK' /\ AuditedByCommand' /\ FoundGood' /\ ManifestIsAudited'
        /\ lifecycle' = lifecycle
    BY <1>2, InsideRemediation
  <2> QED BY <2>1 DEF HistoryOnlyGrows, HistoryIsChained, Remedied!Chained
<1>3. CASE Remedied!RecordTransition
  <2>1. /\ remediation' = [remediation EXCEPT !.at = "idle"]
        /\ UNCHANGED <<v1, v1Tables, pipeline, record, comparison, artifact, modelManifest>>
    BY <1>3 DEF Remedied!RecordTransition, Remedied!Stop, Remedied!Goto
  <2>2. RemediationTypeOK'
    BY <2>1 DEF RemediationTypeOK, Upto, RemediationSteps
  <2>3. AuditedByCommand' /\ FoundGood'
    BY <2>1 DEF RemediationTypeOK, AuditedByCommand, FoundGood, Comparing, Deciding
  <2>4. ManifestIsAudited'
    BY <2>1 DEF ManifestIsAudited
  <2>5. CASE lifecycle.torn
    <3>1. lifecycle' = lifecycle
      BY <1>3, <2>5 DEF Remedied!RecordTransition
    <3> QED BY <2>2, <2>3, <2>4, <3>1 DEF HistoryOnlyGrows, HistoryIsChained, Remedied!Chained
  <2>6. CASE ~lifecycle.torn
    <3>1. lifecycle' \in {Remedied!Appended("remediation_candidate"), Remedied!Torn}
      BY <1>3, <2>6 DEF Remedied!RecordTransition, FoundGood
    <3>2. HistoryIsChained' /\ Remedied!IsPrefix(lifecycle.log, lifecycle'.log)
      BY <2>6, <3>1, TransitionIsAppended DEF States
    <3> QED BY <2>2, <2>3, <2>4, <2>6, <3>2 DEF HistoryOnlyGrows, HistoryIsChained
  <2> QED BY <2>5, <2>6
<1>4. CASE Remedied!RecordVerdict
  <2>1. /\ ~lifecycle.torn
        /\ UNCHANGED <<v1, v1Tables, pipeline, record, comparison, artifact, modelManifest, remediation>>
    BY <1>4 DEF Remedied!RecordVerdict
  <2>2. PICK to \in States : lifecycle' \in {Remedied!Appended(to), Remedied!Torn}
    BY <1>4 DEF Remedied!RecordVerdict, States
  <2>3. HistoryIsChained' /\ Remedied!IsPrefix(lifecycle.log, lifecycle'.log)
    BY <2>1, <2>2, TransitionIsAppended
  <2>4. RemediationTypeOK' /\ ManifestIsAudited'
    BY <2>1 DEF RemediationTypeOK, Upto, ManifestIsAudited
  <2>5. AuditedByCommand' /\ FoundGood'
    BY <2>1 DEF AuditedByCommand, FoundGood, Remedied!Original, AsRecorded
  <2> QED BY <2>1, <2>3, <2>4, <2>5 DEF HistoryOnlyGrows, HistoryIsChained
<1> QED BY <1>1, <1>2, <1>3, <1>4 DEF Remedied!RemediationNext

(* The invariant of the remediation, for any audits, scores and tolerance. *)
THEOREM RemediationInvariant == ReleaseCommandSpec => [](focus = "remediation" => RemediationInv)
<1>1. ReleaseCommandInit => (focus = "remediation" => RemediationInv)
  BY RemediationStarts DEF ReleaseCommandInit, RemediationInit
<1>2. (focus = "remediation" => RemediationInv) /\ [ReleaseCommandNext]_releaseCommandVars
        => (focus = "remediation" => RemediationInv)'
  <2> SUFFICES ASSUME focus = "remediation" => RemediationInv, [ReleaseCommandNext]_releaseCommandVars,
                      focus' = "remediation"
               PROVE  RemediationInv'
    OBVIOUS
  <2>1. CASE Remedied!RemediationNext
    BY <2>1, ReleaseMoves, RemediationKeeps
  <2>2. CASE UNCHANGED remediationVars
    BY <2>2, ReleaseMoves DEF remediationVars, RemediationInv, RemediationTypeOK, Upto,
       AuditedByCommand, FoundGood, ManifestIsAudited, HistoryIsChained, Remedied!Original,
       Remedied!Chained, AsRecorded, RemediesTheStructure
  <2> QED BY <2>1, <2>2, ReleaseMoves
<1> QED BY <1>1, <1>2, PTL DEF ReleaseCommandSpec

(* A model that loads as a remediation candidate was audited itself: of    *)
(* its own features none has a finite variance inflation at the threshold  *)
(* or flips its sign so often that the mean reaches its limit, and it is   *)
(* neither worse nor suspiciously better than the fit it was compared      *)
(* with, whatever was killed, begun again or retrained.                    *)
THEOREM CandidatesWereAudited == ReleaseCommandSpec => []RegisteredWasAudited
<1>1. (focus = "remediation" => RemediationInv) => RegisteredWasAudited
  BY DEF RegisteredWasAudited, Remedied!RegisteredWasAudited, Remedied!Registered, RemediationInv,
     ManifestIsAudited, RemediesTheStructure
<1> QED BY <1>1, RemediationInvariant, PTL

(* The lifecycle history of a model only grows, each transition from the   *)
(* state the one before led to; once a writer was killed nothing is        *)
(* written any more.                                                       *)
THEOREM HistoriesOnlyGrow == ReleaseCommandSpec => LifecycleAppendOnly
<1>1. (focus = "remediation" => RemediationInv) /\ [ReleaseCommandNext]_releaseCommandVars => [HistoryOnlyGrows]_remediationVars
  <2> SUFFICES ASSUME focus = "remediation" => RemediationInv, [ReleaseCommandNext]_releaseCommandVars,
                      ~UNCHANGED remediationVars
               PROVE  HistoryOnlyGrows
    OBVIOUS
  <2>1. focus = "remediation" /\ Remedied!RemediationNext
    BY ReleaseMoves
  <2> QED BY <2>1, RemediationKeeps
<1>2. LifecycleAppendOnly <=> [][HistoryOnlyGrows]_remediationVars
  BY DEF LifecycleAppendOnly, Remedied!LifecycleAppendOnly, HistoryOnlyGrows,
     Remedied!remediationVars, remediationVars
<1>3. [](focus = "remediation" => RemediationInv) /\ [][ReleaseCommandNext]_releaseCommandVars
      => [][HistoryOnlyGrows]_remediationVars
  BY <1>1, PTL
<1> QED BY <1>2, <1>3, RemediationInvariant, PTL DEF ReleaseCommandSpec

-----------------------------------------------------------------------------
(***************************************************************************)
(* The monitoring.  The fingerprint has no version of what git ignores,    *)
(* the population and the batches.  But both are only ever written by the  *)
(* version of the sources there is, and sources only go back to those of   *)
(* the last commit, with its evidence: so whatever evidence there is, here *)
(* or in the last commit, the population now is the one it was made on, or *)
(* none, or one no older than its sources.                                 *)
(***************************************************************************)
Kinds == {"detection", "false_alerts"}

\* The commands that leave evidence, from what they read to what they write.
Evaluating == {"checked", "alerts", "detection", "false_alerts"}
MonitorSteps ==
    Evaluating \cup {"idle", "built", "population", "thresholds", "calibrated", "simulate", "batches",
                     "json", "population csv", "thresholds json", "batch set"}

MonitoringTypeOK ==
    /\ versions \in Nat /\ source \in 1..versions
    /\ DOMAIN committed = {"source", "json", "thresholds", "manifest", "report", "evidence"}
    /\ committed.source \in 1..source
    /\ DOMAIN reference = {"json", "population", "thresholds"}
    /\ DOMAIN batchSet = {"batches", "manifest"}
    /\ DOMAIN monitoringEvidence = Kinds /\ DOMAIN committed.evidence = Kinds
    /\ monitor.pc \in MonitorSteps
    /\ monitor.pc # "idle" => DOMAIN monitor = {"pc", "purpose", "on"}

\* While an evaluation runs nothing it has read is changed.
ReadStaysCurrent == monitor.pc \in Evaluating => monitor.on = Monitored!Read

\* Evidence is stamped with the tracked files it was made on, by sources no
\* newer than those it lies beside.
NoOlder(now, evaluated, on, newest) == now \in {0, evaluated} \cup on.source..newest
SoundEvidence(kind, e, beside, population, batches, newest) ==
    e # Monitored!NoEvidence =>
        /\ \E r : e.stamp = <<e.on.source, e.on.reference.json, e.on.reference.thresholds,
                              e.on.batchSet.manifest, r>>
        /\ e.on.source \in 1..beside
        /\ NoOlder(population, e.on.reference.population, e.on, newest)
        /\ NoOlder(batches, e.on.batchSet.batches, e.on, newest)
        /\ kind = "detection" /\ e.good => e.on.reference.thresholds.family # 0

EvidenceIsSound ==
    \A kind \in Kinds :
        /\ SoundEvidence(kind, monitoringEvidence[kind], source,
                         reference.population, batchSet.batches, versions)
        /\ SoundEvidence(kind, committed.evidence[kind], committed.source,
                         reference.population, batchSet.batches, versions)

MonitoringInv ==
    /\ MonitoringTypeOK
    /\ ReadStaysCurrent
    /\ EvidenceIsSound

LEMMA MonitoringStarts ==
    ASSUME Monitored!MonitoringInit
    PROVE  MonitoringInv
<1>1. PICK family \in {0, 1} :
          reference = [json |-> 1, population |-> 0,
                       thresholds |-> [marginal |-> 1, family |-> family]]
  BY DEF Monitored!MonitoringInit, Monitored!Absent
<1>2. /\ source = 1 /\ versions = 1 /\ batchSet = [batches |-> 0, manifest |-> 1]
      /\ monitor = [pc |-> "idle"] /\ committed = Monitored!Tracked
      /\ monitoringEvidence \in [Kinds -> {Monitored!NoEvidence, Monitored!AuthorsEvidence}]
      /\ monitoringEvidence["detection"].good => reference.thresholds.family # 0
  BY DEF Monitored!MonitoringInit, Monitored!Absent, Monitored!Idle, Kinds
<1>3. committed.source = 1 /\ committed.evidence = monitoringEvidence
      /\ DOMAIN committed = {"source", "json", "thresholds", "manifest", "report", "evidence"}
  BY <1>2 DEF Monitored!Tracked
<1>4. MonitoringTypeOK
  BY <1>1, <1>2, <1>3 DEF MonitoringTypeOK, MonitorSteps
<1>5. ReadStaysCurrent
  BY <1>2 DEF ReadStaysCurrent, Evaluating
<1>6. ASSUME NEW kind \in Kinds
      PROVE  SoundEvidence(kind, monitoringEvidence[kind], 1, 0, 0, 1)
  <2> SUFFICES ASSUME monitoringEvidence[kind] # Monitored!NoEvidence
               PROVE  SoundEvidence(kind, monitoringEvidence[kind], 1, 0, 0, 1)
    BY DEF SoundEvidence
  <2>1. monitoringEvidence[kind] = [stamp |-> Monitored!Fingerprint, on |-> Monitored!AuthorsTree,
                                    good |-> TRUE]
    BY <1>2, <1>6 DEF Monitored!AuthorsEvidence
  <2> DEFINE on == Monitored!AuthorsTree
  <2>2. /\ on.source = 1 /\ on.reference.json = reference.json
        /\ on.reference.thresholds = reference.thresholds
        /\ on.batchSet.manifest = batchSet.manifest
    BY <1>1, <1>2 DEF Monitored!AuthorsTree, Monitored!Read
  <2> HIDE DEF on
  <2>3. monitoringEvidence[kind].on = on /\ monitoringEvidence[kind].good
        /\ monitoringEvidence[kind].stamp =
              <<on.source, on.reference.json, on.reference.thresholds, on.batchSet.manifest,
                monitoringReport>>
    BY <1>2, <2>1, <2>2 DEF Monitored!Fingerprint, on
  <2> QED BY <1>2, <2>2, <2>3 DEF SoundEvidence, NoOlder
<1>7. EvidenceIsSound
  BY <1>1, <1>2, <1>3, <1>6 DEF EvidenceIsSound
<1> QED BY <1>4, <1>5, <1>7 DEF MonitoringInv

(* Evidence stays sound where the population and the batches are left,     *)
(* removed, or made by sources no older than it.                           *)
LEMMA EvidenceStaysSound ==
    ASSUME NEW kind, NEW e, NEW beside \in Nat, NEW later \in Nat,
           NEW population, NEW batches, NEW newest \in Nat,
           NEW population2, NEW batches2, NEW newest2 \in Nat, NEW by \in Nat,
           SoundEvidence(kind, e, beside, population, batches, newest),
           beside <= later, newest <= newest2, beside <= by, by <= newest2,
           population2 \in {population, 0, by}, batches2 \in {batches, 0, by}
    PROVE  SoundEvidence(kind, e, later, population2, batches2, newest2)
<1> SUFFICES ASSUME e # Monitored!NoEvidence
             PROVE  SoundEvidence(kind, e, later, population2, batches2, newest2)
  BY DEF SoundEvidence
<1>1. /\ e.on.source \in 1..beside
      /\ NoOlder(population, e.on.reference.population, e.on, newest)
      /\ NoOlder(batches, e.on.batchSet.batches, e.on, newest)
  BY DEF SoundEvidence
<1>2. e.on.source \in 1..later /\ e.on.source..newest \subseteq e.on.source..newest2
      /\ by \in e.on.source..newest2
  BY <1>1
<1>3. NoOlder(population2, e.on.reference.population, e.on, newest2)
  BY <1>1, <1>2 DEF NoOlder
<1>4. NoOlder(batches2, e.on.batchSet.batches, e.on, newest2)
  BY <1>1, <1>2 DEF NoOlder
<1> QED BY <1>2, <1>3, <1>4 DEF SoundEvidence

\* A step of the commands: one begins with what it reads now, goes on or ends.
CommandGoesOn ==
    \/ monitor' = [pc |-> "idle"]
    \/ monitor' = monitor /\ monitor.pc \notin Evaluating
    \/ \E pc \in MonitorSteps : \E purpose :
          /\ monitor' = [pc |-> pc, purpose |-> purpose, on |-> Monitored!Read]
          /\ pc \in Evaluating => UNCHANGED <<reference, batchSet>>
    \/ /\ monitor.pc # "idle"
       /\ \E pc \in MonitorSteps \ Evaluating : monitor' = [monitor EXCEPT !.pc = pc]
    \/ /\ monitor.pc \in Evaluating /\ UNCHANGED <<reference, batchSet>>
       /\ \E pc \in Evaluating : monitor' = [monitor EXCEPT !.pc = pc]

\* What it may write of what git ignores.
FilesGoOn ==
    /\ DOMAIN reference' = DOMAIN reference /\ DOMAIN batchSet' = DOMAIN batchSet
    /\ reference'.population \in {reference.population, 0, source}
    /\ batchSet'.batches \in {batchSet.batches, 0, source}

(* The commands that write files and no evidence.                          *)
LEMMA MonitoringFiles ==
    ASSUME MonitoringTypeOK, ReadStaysCurrent,
           \/ Monitored!BuildReference \/ Monitored!RefuseReference \/ Monitored!WriteJson
           \/ Monitored!WritePopulation \/ Monitored!WriteThresholds \/ Monitored!Calibrate
           \/ Monitored!AddThresholds \/ Monitored!WriteBatches \/ Monitored!WriteBatchManifest
           \/ Monitored!PrepareDemo \/ Monitored!RemoveReferenceFile \/ Monitored!RemoveBatchSet
           \/ Monitored!RunMonitoring \/ Monitored!WriteRunJson \/ Monitored!WriteAlerts
           \/ Monitored!BeginFalseAlerts \/ Monitored!WriteMonitoringReports
           \/ Monitored!RemoveReference \/ Monitored!Kill
    PROVE  /\ UNCHANGED <<source, versions, committed, monitoringEvidence>>
           /\ reference'.population \in {reference.population, 0, source}
           /\ batchSet'.batches \in {batchSet.batches, 0, source}
           /\ MonitoringTypeOK' /\ ReadStaysCurrent'
<1> USE DEF Monitored!Begin, Monitored!Continue, Monitored!End, Monitored!Idle, Monitored!Absent,
            Monitored!repository, Monitored!EndOrPrepare
<1>1. UNCHANGED <<source, versions, committed, monitoringEvidence>>
  BY DEF Monitored!BuildReference, Monitored!RefuseReference, Monitored!WriteJson,
     Monitored!WritePopulation, Monitored!WriteThresholds, Monitored!Calibrate,
     Monitored!AddThresholds, Monitored!WriteBatches, Monitored!WriteBatchManifest,
     Monitored!PrepareDemo, Monitored!RemoveReferenceFile, Monitored!RemoveBatchSet,
     Monitored!RunMonitoring, Monitored!WriteRunJson, Monitored!WriteAlerts,
     Monitored!BeginFalseAlerts, Monitored!WriteMonitoringReports,
     Monitored!RemoveReference, Monitored!Kill
\* What is written, and the next step of the command.
<1>2. CommandGoesOn /\ FilesGoOn
  <2>1. CASE Monitored!BuildReference \/ Monitored!Calibrate \/ Monitored!PrepareDemo \/ Monitored!RunMonitoring \/ Monitored!BeginFalseAlerts
    <3>1. CommandGoesOn
      BY <2>1 DEF Monitored!BuildReference, Monitored!Calibrate, Monitored!PrepareDemo, Monitored!RunMonitoring, Monitored!BeginFalseAlerts,
         CommandGoesOn, MonitorSteps, Evaluating
    <3>2. FilesGoOn
      BY <2>1 DEF Monitored!BuildReference, Monitored!Calibrate, Monitored!PrepareDemo, Monitored!RunMonitoring, Monitored!BeginFalseAlerts,
         FilesGoOn, MonitoringTypeOK
    <3> QED BY <3>1, <3>2
  <2>2. CASE Monitored!RefuseReference \/ Monitored!WriteMonitoringReports \/ Monitored!Kill
    <3>1. CommandGoesOn
      BY <2>2 DEF Monitored!RefuseReference, Monitored!WriteMonitoringReports, Monitored!Kill,
         CommandGoesOn, MonitorSteps, Evaluating
    <3>2. FilesGoOn
      BY <2>2 DEF Monitored!RefuseReference, Monitored!WriteMonitoringReports, Monitored!Kill,
         FilesGoOn, MonitoringTypeOK
    <3> QED BY <3>1, <3>2
  <2>3. CASE Monitored!WriteJson \/ Monitored!WritePopulation
    <3>1. CommandGoesOn
      BY <2>3 DEF Monitored!WriteJson, Monitored!WritePopulation,
         CommandGoesOn, MonitorSteps, Evaluating
    <3>2. FilesGoOn
      BY <2>3 DEF Monitored!WriteJson, Monitored!WritePopulation,
         FilesGoOn, MonitoringTypeOK
    <3> QED BY <3>1, <3>2
  <2>4. CASE Monitored!WriteThresholds
    <3>1. CommandGoesOn
      BY <2>4 DEF Monitored!WriteThresholds,
         CommandGoesOn, MonitorSteps, Evaluating
    <3>2. FilesGoOn
      BY <2>4 DEF Monitored!WriteThresholds,
         FilesGoOn, MonitoringTypeOK
    <3> QED BY <3>1, <3>2
  <2>5. CASE Monitored!AddThresholds
    <3>1. CommandGoesOn
      BY <2>5 DEF Monitored!AddThresholds,
         CommandGoesOn, MonitorSteps, Evaluating
    <3>2. FilesGoOn
      BY <2>5 DEF Monitored!AddThresholds,
         FilesGoOn, MonitoringTypeOK
    <3> QED BY <3>1, <3>2
  <2>6. CASE Monitored!WriteBatches \/ Monitored!WriteBatchManifest
    <3>1. CommandGoesOn
      <4>1. \/ monitor' = [pc |-> "idle"]
            \/ monitor' = [pc |-> "batches", purpose |-> "command", on |-> Monitored!Read]
            \/ monitor.pc = "simulate" /\ monitor' = [monitor EXCEPT !.pc = "batches"]
        BY <2>6 DEF Monitored!WriteBatches, Monitored!WriteBatchManifest
      <4>2. "batches" \in MonitorSteps /\ "batches" \notin Evaluating
        BY DEF MonitorSteps, Evaluating
      <4> QED BY <4>1, <4>2 DEF CommandGoesOn
    <3>2. FilesGoOn
      BY <2>6 DEF Monitored!WriteBatches, Monitored!WriteBatchManifest,
         FilesGoOn, MonitoringTypeOK
    <3> QED BY <3>1, <3>2
  <2>7. CASE Monitored!RemoveReferenceFile
    <3>1. CommandGoesOn
      BY <2>7 DEF Monitored!RemoveReferenceFile,
         CommandGoesOn, MonitorSteps, Evaluating
    <3>2. FilesGoOn
      BY <2>7 DEF Monitored!RemoveReferenceFile,
         FilesGoOn, MonitoringTypeOK
    <3> QED BY <3>1, <3>2
  <2>8. CASE Monitored!RemoveBatchSet
    <3>1. CommandGoesOn
      BY <2>8 DEF Monitored!RemoveBatchSet,
         CommandGoesOn, MonitorSteps, Evaluating
    <3>2. FilesGoOn
      BY <2>8 DEF Monitored!RemoveBatchSet,
         FilesGoOn, MonitoringTypeOK
    <3> QED BY <3>1, <3>2
  <2>9. CASE Monitored!WriteRunJson \/ Monitored!WriteAlerts
    <3>1. CommandGoesOn
      BY <2>9 DEF Monitored!WriteRunJson, Monitored!WriteAlerts,
         CommandGoesOn, MonitorSteps, Evaluating
    <3>2. FilesGoOn
      BY <2>9 DEF Monitored!WriteRunJson, Monitored!WriteAlerts,
         FilesGoOn, MonitoringTypeOK
    <3> QED BY <3>1, <3>2
  <2>10. CASE Monitored!RemoveReference
    <3>1. CommandGoesOn
      BY <2>10 DEF Monitored!RemoveReference,
         CommandGoesOn, MonitorSteps, Evaluating
    <3>2. FilesGoOn
      BY <2>10 DEF Monitored!RemoveReference,
         FilesGoOn, MonitoringTypeOK
    <3> QED BY <3>1, <3>2
  <2> QED BY <2>1, <2>2, <2>3, <2>4, <2>5, <2>6, <2>7, <2>8, <2>9, <2>10
<1>3. /\ monitor'.pc \in MonitorSteps
      /\ monitor'.pc # "idle" => DOMAIN monitor' = {"pc", "purpose", "on"}
      /\ monitor'.pc \in Evaluating =>
            UNCHANGED <<reference, batchSet>> /\ monitor'.on = Monitored!Read
  <2>0. /\ Evaluating \subseteq MonitorSteps /\ "idle" \in MonitorSteps /\ "idle" \notin Evaluating
        /\ monitor.pc \in MonitorSteps
        /\ monitor.pc # "idle" => DOMAIN monitor = {"pc", "purpose", "on"}
        /\ monitor.pc \in Evaluating => monitor.on = Monitored!Read
    BY DEF MonitorSteps, Evaluating, MonitoringTypeOK, ReadStaysCurrent
  <2>1. CASE monitor' = [pc |-> "idle"]
    BY <2>0, <2>1
  <2>2. CASE monitor' = monitor /\ monitor.pc \notin Evaluating
    BY <2>0, <2>2
  <2>3. CASE \E pc \in MonitorSteps : \E purpose :
                /\ monitor' = [pc |-> pc, purpose |-> purpose, on |-> Monitored!Read]
                /\ pc \in Evaluating => UNCHANGED <<reference, batchSet>>
    BY <2>0, <2>3
  <2>4. CASE /\ monitor.pc # "idle"
             /\ \E pc \in MonitorSteps \ Evaluating : monitor' = [monitor EXCEPT !.pc = pc]
    BY <2>0, <2>4
  <2>5. CASE /\ monitor.pc \in Evaluating /\ UNCHANGED <<reference, batchSet>>
             /\ \E pc \in Evaluating : monitor' = [monitor EXCEPT !.pc = pc]
    BY <2>0, <2>5
  <2> QED BY <1>2, <2>1, <2>2, <2>3, <2>4, <2>5 DEF CommandGoesOn
<1>4. MonitoringTypeOK'
  BY <1>1, <1>2, <1>3 DEF MonitoringTypeOK, FilesGoOn
<1>5. ReadStaysCurrent'
  BY <1>1, <1>3 DEF ReadStaysCurrent, Monitored!Read
<1> QED BY <1>1, <1>2, <1>4, <1>5 DEF FilesGoOn

LEMMA MonitoringKeeps ==
    ASSUME MonitoringInv, Monitored!MonitoringNext
    PROVE  MonitoringInv'
<1>0. MonitoringTypeOK /\ ReadStaysCurrent /\ EvidenceIsSound
  BY DEF MonitoringInv
<1>1. /\ versions \in Nat /\ source \in Nat /\ committed.source \in Nat
      /\ committed.source <= source /\ source <= versions
  BY <1>0 DEF MonitoringTypeOK
<1> DEFINE population == reference.population
           batches == batchSet.batches
<1>2. \A kind \in Kinds :
          /\ SoundEvidence(kind, monitoringEvidence[kind], source, population, batches, versions)
          /\ SoundEvidence(kind, committed.evidence[kind], committed.source,
                           population, batches, versions)
  BY <1>0 DEF EvidenceIsSound
<1>3. CASE \/ Monitored!BuildReference \/ Monitored!RefuseReference \/ Monitored!WriteJson
           \/ Monitored!WritePopulation \/ Monitored!WriteThresholds \/ Monitored!Calibrate
           \/ Monitored!AddThresholds \/ Monitored!WriteBatches \/ Monitored!WriteBatchManifest
           \/ Monitored!PrepareDemo \/ Monitored!RemoveReferenceFile \/ Monitored!RemoveBatchSet
           \/ Monitored!RunMonitoring \/ Monitored!WriteRunJson \/ Monitored!WriteAlerts
           \/ Monitored!BeginFalseAlerts \/ Monitored!WriteMonitoringReports
           \/ Monitored!RemoveReference \/ Monitored!Kill
  <2>1. /\ UNCHANGED <<source, versions, committed, monitoringEvidence>>
        /\ population' \in {population, 0, source}
        /\ batches' \in {batches, 0, source}
        /\ MonitoringTypeOK' /\ ReadStaysCurrent'
    BY <1>0, <1>3, MonitoringFiles
  <2> HIDE DEF population, batches
  <2>2. ASSUME NEW kind \in Kinds
        PROVE  /\ SoundEvidence(kind, monitoringEvidence[kind], source, population', batches', versions)
               /\ SoundEvidence(kind, committed.evidence[kind], committed.source,
                                population', batches', versions)
    BY <1>1, <1>2, <2>1, <2>2, EvidenceStaysSound
  <2>3. EvidenceIsSound'
    BY <2>1, <2>2 DEF EvidenceIsSound, population, batches
  <2> QED BY <2>1, <2>3 DEF MonitoringInv
<1>4. CASE Monitored!Edit
  <2>1. /\ monitor = [pc |-> "idle"] /\ versions' = versions + 1 /\ source' = versions'
        /\ UNCHANGED <<reference, batchSet, monitoringEvidence, committed, monitor>>
    BY <1>4 DEF Monitored!Edit, Monitored!Idle
  <2>2. MonitoringTypeOK' /\ ReadStaysCurrent'
    BY <1>0, <1>1, <2>1 DEF MonitoringTypeOK, ReadStaysCurrent, Evaluating
  <2> HIDE DEF population, batches
  <2>3. versions' \in Nat /\ source' \in Nat /\ source <= source' /\ versions <= versions'
    BY <1>1, <2>1
  <2>4. ASSUME NEW kind \in Kinds
        PROVE  /\ SoundEvidence(kind, monitoringEvidence[kind], source', population, batches, versions')
               /\ SoundEvidence(kind, committed.evidence[kind], committed.source,
                                population, batches, versions')
    BY <1>1, <1>2, <2>3, <2>4, EvidenceStaysSound
  <2>5. EvidenceIsSound'
    BY <2>1, <2>4 DEF EvidenceIsSound, population, batches
  <2> QED BY <2>2, <2>5 DEF MonitoringInv
<1>5. CASE Monitored!Commit
  <2>1. /\ UNCHANGED <<source, versions, reference, batchSet, monitoringEvidence, monitor>>
        /\ committed'.source = source /\ committed'.evidence = monitoringEvidence
        /\ DOMAIN committed' = {"source", "json", "thresholds", "manifest", "report", "evidence"}
    BY <1>5 DEF Monitored!Commit, Monitored!Tracked
  <2>2. MonitoringTypeOK' /\ ReadStaysCurrent'
    BY <1>0, <1>1, <2>1 DEF MonitoringTypeOK, ReadStaysCurrent, Monitored!Read
  <2>3. EvidenceIsSound'
    BY <1>2, <2>1 DEF EvidenceIsSound
  <2> QED BY <2>2, <2>3 DEF MonitoringInv
<1>6. CASE Monitored!Restore \/ Monitored!Clone
  <2>1. /\ monitor' = monitor /\ monitor = [pc |-> "idle"]
        /\ UNCHANGED <<versions, committed>>
        /\ source' \in {source, committed.source}
        /\ monitoringEvidence' = committed.evidence
        /\ DOMAIN reference' = {"json", "population", "thresholds"}
        /\ DOMAIN batchSet' = {"batches", "manifest"}
        /\ population' \in {population, 0} /\ batches' \in {batches, 0}
    BY <1>6 DEF Monitored!Restore, Monitored!Clone, Monitored!TakeReports, Monitored!Idle,
       Monitored!Absent
  <2> HIDE DEF population, batches
  <2>2. source' \in Nat /\ committed.source <= source' /\ source' <= versions
    BY <1>1, <2>1
  <2>3. MonitoringTypeOK' /\ ReadStaysCurrent'
    BY <1>0, <1>1, <2>1, <2>2 DEF MonitoringTypeOK, ReadStaysCurrent, Evaluating
  <2>4. ASSUME NEW kind \in Kinds
        PROVE  /\ SoundEvidence(kind, committed.evidence[kind], source', population', batches', versions)
               /\ SoundEvidence(kind, committed.evidence[kind], committed.source,
                                population', batches', versions)
    BY <1>1, <1>2, <2>1, <2>2, <2>4, EvidenceStaysSound
  <2>5. EvidenceIsSound'
    BY <2>1, <2>4 DEF EvidenceIsSound, population, batches
  <2> QED BY <2>3, <2>5 DEF MonitoringInv
<1>7. ASSUME NEW kind \in Kinds, NEW good \in BOOLEAN,
             kind = "detection" /\ good => reference.thresholds.family # 0,
             monitor.pc \in Evaluating, monitor' = Monitored!Idle, Monitored!Evidence(kind, good),
             UNCHANGED <<source, versions, committed, reference, batchSet>>
      PROVE  MonitoringInv'
  <2>1. /\ monitoringEvidence'[kind] =
              IF good THEN [stamp |-> Monitored!Fingerprint, on |-> monitor.on, good |-> TRUE]
              ELSE Monitored!NoEvidence
        /\ DOMAIN monitoringEvidence' = Kinds
        /\ \A k \in Kinds \ {kind} : monitoringEvidence'[k] = monitoringEvidence[k]
    BY <1>0, <1>7 DEF Monitored!Evidence, MonitoringTypeOK
  <2>2. MonitoringTypeOK' /\ ReadStaysCurrent'
    BY <1>0, <1>7, <2>1 DEF MonitoringTypeOK, ReadStaysCurrent, Monitored!Idle, MonitorSteps, Evaluating
  <2>3. /\ monitor.on.source = source
        /\ monitor.on.reference = reference /\ monitor.on.batchSet = batchSet
    BY <1>0, <1>7 DEF ReadStaysCurrent, Monitored!Read
  <2>4. SoundEvidence(kind, monitoringEvidence'[kind], source, population, batches, versions)
    <3>1. source \in 1..source
      BY <1>0, <1>1 DEF MonitoringTypeOK
    <3> QED BY <1>7, <2>1, <2>3, <3>1 DEF SoundEvidence, NoOlder, Monitored!Fingerprint
  <2> HIDE DEF population, batches
  <2>5. \A k \in Kinds :
            SoundEvidence(k, monitoringEvidence'[k], source, population, batches, versions)
    BY <1>2, <2>1, <2>4
  <2>6. EvidenceIsSound'
    BY <1>2, <1>7, <2>5 DEF EvidenceIsSound, population, batches
  <2> QED BY <2>2, <2>6 DEF MonitoringInv
<1>8. CASE Monitored!EvaluateDetection \/ Monitored!EvaluateFalseAlerts
  <2>1. CASE Monitored!EvaluateDetection
    BY <1>7, <2>1 DEF Monitored!EvaluateDetection, Monitored!End, Monitored!repository,
       Monitored!Absent, Kinds, Evaluating
  <2>2. CASE Monitored!EvaluateFalseAlerts
    BY <1>7, <2>2 DEF Monitored!EvaluateFalseAlerts, Monitored!End, Monitored!repository,
       Kinds, Evaluating
  <2> QED BY <1>8, <2>1, <2>2
<1> QED BY <1>3, <1>4, <1>5, <1>6, <1>8 DEF Monitored!MonitoringNext

(* The invariant of the monitoring, for any number of builds, versions and *)
(* runs, from any clone whose committed evidence is of its own tree or of  *)
(* no known one.                                                           *)
THEOREM MonitoringInvariant == ReleaseCommandSpec => [](focus = "monitoring" => MonitoringInv)
<1>1. ReleaseCommandInit => (focus = "monitoring" => MonitoringInv)
  BY MonitoringStarts DEF ReleaseCommandInit, MonitoringInit
<1>2. (focus = "monitoring" => MonitoringInv) /\ [ReleaseCommandNext]_releaseCommandVars
        => (focus = "monitoring" => MonitoringInv)'
  <2> SUFFICES ASSUME focus = "monitoring" => MonitoringInv,
                      [ReleaseCommandNext]_releaseCommandVars, focus' = "monitoring"
               PROVE  MonitoringInv'
    OBVIOUS
  <2>1. CASE Monitored!MonitoringNext
    BY <2>1, ReleaseMoves, MonitoringKeeps
  <2>2. CASE UNCHANGED monitoringVars
    BY <2>2, ReleaseMoves DEF monitoringVars, MonitoringInv, MonitoringTypeOK, ReadStaysCurrent,
       EvidenceIsSound, Monitored!Read
  <2> QED BY <2>1, <2>2, ReleaseMoves
<1> QED BY <1>1, <1>2, PTL DEF ReleaseCommandSpec

(* A monitoring gate that passes tells of the tree it is judged in, be it  *)
(* the author's or a clone: both evaluations were made by this code, on    *)
(* this reference, its thresholds, fully calibrated, and this batch        *)
(* manifest; the population and the batches there are, of which the        *)
(* fingerprint knows nothing, are those evaluated or no older than the     *)
(* code.                                                                   *)
THEOREM PassedGatesAreCurrent == ReleaseCommandSpec => []PassedGateIsCurrent
<1>1. MonitoringInv => Monitored!PassedGateIsCurrent
  <2> SUFFICES ASSUME MonitoringInv, Monitored!MonitoringGate
               PROVE  Monitored!PassedGateIsCurrent
    BY DEF Monitored!PassedGateIsCurrent
  <2>0. DOMAIN monitoringEvidence = Kinds
    BY DEF MonitoringInv, MonitoringTypeOK
  <2>1. ASSUME NEW kind \in Kinds
        PROVE  /\ monitoringEvidence[kind].on.source = source
               /\ monitoringEvidence[kind].on.reference.json = reference.json
               /\ monitoringEvidence[kind].on.reference.thresholds = reference.thresholds
               /\ monitoringEvidence[kind].on.batchSet.manifest = batchSet.manifest
               /\ Monitored!NotLeftOver(monitoringEvidence[kind].on.reference.population,
                                        reference.population)
               /\ Monitored!NotLeftOver(monitoringEvidence[kind].on.batchSet.batches, batchSet.batches)
               /\ kind = "detection" => reference.thresholds.family # 0
    <3> DEFINE e == monitoringEvidence[kind]
    <3>1. e.stamp = Monitored!Fingerprint /\ e.good
      BY <2>0 DEF Monitored!MonitoringGate, Monitored!Current
    <3>2. e # Monitored!NoEvidence
      BY <3>1 DEF Monitored!NoEvidence
    <3>3. SoundEvidence(kind, e, source, reference.population, batchSet.batches, versions)
      BY DEF MonitoringInv, EvidenceIsSound
    <3> HIDE DEF e
    <3>4. /\ \E r : e.stamp = <<e.on.source, e.on.reference.json, e.on.reference.thresholds,
                                e.on.batchSet.manifest, r>>
          /\ NoOlder(reference.population, e.on.reference.population, e.on, versions)
          /\ NoOlder(batchSet.batches, e.on.batchSet.batches, e.on, versions)
          /\ kind = "detection" => e.on.reference.thresholds.family # 0
      BY <3>1, <3>2, <3>3 DEF SoundEvidence
    <3>5. /\ e.on.source = source /\ e.on.reference.json = reference.json
          /\ e.on.reference.thresholds = reference.thresholds
          /\ e.on.batchSet.manifest = batchSet.manifest
      BY <3>1, <3>4 DEF Monitored!Fingerprint
    <3> QED BY <3>4, <3>5 DEF NoOlder, Monitored!NotLeftOver, Monitored!Absent, e
  <2> QED BY <2>0, <2>1 DEF Monitored!PassedGateIsCurrent, Monitored!Absent, Kinds
<1>2. (focus = "monitoring" => MonitoringInv) => PassedGateIsCurrent
  BY <1>1 DEF PassedGateIsCurrent
<1> QED BY <1>2, MonitoringInvariant, PTL

-----------------------------------------------------------------------------
(***************************************************************************)
(* The release.  While the checklist is followed nothing else happens, so  *)
(* that what its first steps leave is still there at its end: what each of *)
(* them has done is told by the step that is next.                         *)
(***************************************************************************)
StampOf(kind) == releaseEvidence[kind] = [stamp |-> Released!Fingerprint, of |-> tree]

ReleaseTypeOK ==
    /\ step \in 0..12
    /\ DOMAIN releaseEvidence = Released!Kinds
    /\ assets \subseteq Released!CanonicalAssets
    /\ DOMAIN releaseManifest = {"on", "ready"}

ChecklistDone ==
    /\ step >= 2 => coverageJson = tree
    /\ step >= 3 => StampOf("coverage")
    /\ step >= 4 => StampOf("detection")
    /\ step >= 5 => StampOf("false_alerts")
    /\ step >= 6 => "licenses" \in assets
    /\ step >= 7 => "sbom" \in assets
    /\ step >= 8 => "security" \in assets
    /\ step >= 9 => "manifest" \in assets
    /\ step \in {10, 12} => listed = Released!CanonicalAssets

\* The second manifest is written over assets that are all listed.
ManifestIsReady ==
    step >= 11 /\ Released!Accepted =>
        releaseManifest.ready /\ releaseManifest.on = Released!Fingerprint

ReleaseInv == ReleaseTypeOK /\ ChecklistDone /\ ManifestIsReady

LEMMA ReleaseStarts ==
    ASSUME Released!ReleaseInit
    PROVE  ReleaseInv
BY DEF Released!ReleaseInit, ReleaseInv, ReleaseTypeOK, ChecklistDone, ManifestIsReady

(* The positions of the commands in the checklist.                         *)
LEMMA ChecklistPositions ==
    ASSUME step \in 0..12
    PROVE  /\ Released!Run("tests") => (step' = 0 \/ (step = 1 /\ step' = 2))
           /\ Released!Run("coverage") => (step' = 0 \/ (step = 2 /\ step' = 3))
           /\ Released!Run("detection") => (step' = 0 \/ (step = 3 /\ step' = 4))
           /\ Released!Run("false_alerts") => (step' = 0 \/ (step = 4 /\ step' = 5))
           /\ Released!Run("licenses") => (step' = 0 \/ (step = 5 /\ step' = 6))
           /\ Released!Run("sbom") => (step' = 0 \/ (step = 6 /\ step' = 7))
           /\ Released!Run("security") => (step' = 0 \/ (step = 7 /\ step' = 8))
           /\ Released!Run("manifest") => (step' = 0 \/ (step \in {8, 10} /\ step' = step + 1))
           /\ Released!Run("checksums") => (step' = 0 \/ (step \in {9, 11} /\ step' = step + 1))
<1>1. CASE step = 0
  BY <1>1 DEF Released!Run, Released!Checklist
<1>2. CASE step = 12
  BY <1>2 DEF Released!Run, Released!Checklist
<1>3. CASE step \in 1..11
  <2>1. \A command : Released!Run(command) => Released!Checklist[step] = command /\ step' = step + 1
    BY <1>3 DEF Released!Run
  <2> QED BY <1>3, <2>1 DEF Released!Checklist
<1> QED BY <1>1, <1>2, <1>3

LEMMA ReleaseKeeps ==
    ASSUME ReleaseInv, Released!ReleaseNext
    PROVE  ReleaseInv'
<1>0. ReleaseTypeOK /\ ChecklistDone /\ ManifestIsReady /\ step \in 0..12
  BY DEF ReleaseInv, ReleaseTypeOK
<1> USE DEF Released!outputs, Released!Rewritten, Released!Fingerprint, StampOf
\* Nobody follows the checklist any more, or it is begun.
<1>1. ASSUME step' \in {0, 1}, ReleaseTypeOK'
      PROVE  ReleaseInv'
  BY <1>1 DEF ReleaseInv, ChecklistDone, ManifestIsReady
<1>2. CASE Released!BeginOrLeave \/ Released!Edit \/ Released!DropStray
  BY <1>0, <1>1, <1>2 DEF Released!BeginOrLeave, Released!Edit, Released!DropStray, ReleaseTypeOK
<1>3. CASE Released!Tests
  <2>1. ReleaseTypeOK'
    BY <1>0, <1>3, ChecklistPositions DEF Released!Tests, ReleaseTypeOK
  <2>2. step' = 0 \/ (step = 1 /\ step' = 2)
    <3> Released!Run("tests")
      BY <1>3 DEF Released!Tests
    <3> QED BY <1>0, ChecklistPositions
  <2> QED BY <1>1, <1>3, <2>1, <2>2 DEF Released!Tests, ReleaseInv, ChecklistDone, ManifestIsReady
<1>4. CASE Released!MeasureCoverage
  <2>1. ReleaseTypeOK'
    BY <1>0, <1>4, ChecklistPositions DEF Released!MeasureCoverage, Released!Stamped, ReleaseTypeOK
  <2>2. step' = 0 \/ (step = 2 /\ step' = 3)
    <3> Released!Run("coverage")
      BY <1>4 DEF Released!MeasureCoverage
    <3> QED BY <1>0, ChecklistPositions
  <2>3. /\ UNCHANGED <<tree, coverageJson>>
        /\ releaseEvidence'["coverage"] = [stamp |-> Released!Fingerprint, of |-> coverageJson]
    BY <1>0, <1>4 DEF Released!MeasureCoverage, Released!Stamped, ReleaseTypeOK, Released!Kinds
  <2> QED BY <1>0, <1>1, <2>1, <2>2, <2>3 DEF ReleaseInv, ChecklistDone, ManifestIsReady
<1>5. ASSUME NEW kind \in {"detection", "false_alerts"}, Released!Evaluate(kind)
      PROVE  ReleaseInv'
  <2>1. step' = 0 \/ (step = (IF kind = "detection" THEN 3 ELSE 4) /\ step' = step + 1)
    <3>1. Released!Run(kind)
      BY <1>5 DEF Released!Evaluate
    <3>2. CASE kind = "detection"
      BY <1>0, <3>1, <3>2, ChecklistPositions
    <3>3. CASE kind = "false_alerts"
      BY <1>0, <3>1, <3>3, ChecklistPositions
    <3> QED BY <1>5, <3>2, <3>3
  <2>2. ReleaseTypeOK'
    BY <1>0, <1>5, <2>1 DEF Released!Evaluate, Released!Stamped, ReleaseTypeOK
  <2>3. /\ UNCHANGED <<tree, coverageJson>>
        /\ releaseEvidence'[kind] = [stamp |-> Released!Fingerprint, of |-> tree]
        /\ \A k \in Released!Kinds \ {kind} : releaseEvidence'[k] = releaseEvidence[k]
    BY <1>0, <1>5 DEF Released!Evaluate, Released!Stamped, ReleaseTypeOK, Released!Kinds
  <2> QED BY <1>0, <1>1, <2>1, <2>2, <2>3 DEF ReleaseInv, ChecklistDone, ManifestIsReady, Released!Kinds
<1>6. CASE Released!Licenses \/ Released!Sbom \/ Released!Security
  <2>1. UNCHANGED <<tree, coverageJson, releaseEvidence, releaseManifest>> /\ assets \subseteq assets'
    BY <1>6 DEF Released!Licenses, Released!Sbom, Released!Security
  <2>2. /\ assets' \subseteq assets \cup Released!CanonicalAssets
        /\ \/ Released!Run("licenses") /\ "licenses" \in assets'
           \/ Released!Run("sbom") /\ "sbom" \in assets'
           \/ Released!Run("security") /\ "security" \in assets'
    BY <1>6 DEF Released!Licenses, Released!Sbom, Released!Security, Released!CanonicalAssets
  <2>3. \/ step' = 0
        \/ step = 5 /\ step' = 6 /\ "licenses" \in assets'
        \/ step = 6 /\ step' = 7 /\ "sbom" \in assets'
        \/ step = 7 /\ step' = 8 /\ "security" \in assets'
    BY <1>0, <2>2, ChecklistPositions
  <2>4. ReleaseTypeOK'
    BY <1>0, <2>1, <2>2, <2>3 DEF ReleaseTypeOK
  <2> QED BY <1>0, <1>1, <2>1, <2>3, <2>4 DEF ReleaseInv, ChecklistDone, ManifestIsReady
<1>7. CASE Released!WriteManifest
  <2>1. /\ UNCHANGED <<tree, stray, coverageJson, releaseEvidence, scanned>>
        /\ assets' = assets \cup {"manifest"}
    BY <1>7 DEF Released!WriteManifest
  <2>2. ReleaseTypeOK'
    BY <1>0, <1>7, ChecklistPositions DEF Released!WriteManifest, ReleaseTypeOK,
       Released!CanonicalAssets
  <2>3. step' = 0 \/ (step \in {8, 10} /\ step' = step + 1)
    <3> Released!Run("manifest")
      BY <1>7 DEF Released!WriteManifest
    <3> QED BY <1>0, ChecklistPositions
  <2>4. ChecklistDone'
    BY <1>0, <2>1, <2>3 DEF ChecklistDone
  <2>5. ASSUME step = 10, step' = 11, Released!Accepted
        PROVE  releaseManifest'.ready /\ releaseManifest'.on = Released!Fingerprint
    <3>1. Released!Validates
      <4>1. Released!CoverageGate /\ Released!MonitoringGate /\ Released!FilesPass
        <5>1. StampOf("coverage") /\ StampOf("detection") /\ StampOf("false_alerts")
          BY <1>0, <2>5 DEF ChecklistDone
        <5>2. \A check \in Released!Kinds \cup {"files"} : tree \in ReleasePasses[check]
          BY <2>5, ReleaseCommandsAssumption DEF Released!Accepted, Released!ReleaseAssumption
        <5> QED BY <5>1, <5>2 DEF Released!CoverageGate, Released!MonitoringGate, Released!Gate,
                Released!Good, Released!FilesPass, Released!Kinds
      <4>2. Released!ChecksumsVerified
        BY <1>0, <2>5 DEF ChecklistDone, Released!ChecksumsVerified, Released!CanonicalAssets
      <4> QED BY <2>5, <4>1, <4>2 DEF Released!Validates, Released!Accepted
    <3>2. scanned
      BY <2>5 DEF Released!Accepted
    <3>3. PICK scan \in {"failed", "verified", "not_executed"} :
             /\ step' # 0 => scan = IF scanned THEN "verified" ELSE "failed"
             /\ releaseManifest' = [on |-> Released!Fingerprint, ready |-> Released!Ready(scan)]
      BY <1>7 DEF Released!WriteManifest
    <3>4. scan = "verified"
      BY <2>5, <3>2, <3>3
    <3>5. Released!Ready(scan)
      BY <3>1, <3>4 DEF Released!Ready
    <3> QED BY <3>3, <3>5
  <2>6. ManifestIsReady'
    BY <2>1, <2>3, <2>5 DEF ManifestIsReady, Released!Accepted, Released!Resolved
  <2> QED BY <2>2, <2>4, <2>6 DEF ReleaseInv
<1>8. CASE Released!Checksums
  <2>1. UNCHANGED <<tree, stray, coverageJson, releaseEvidence, assets, scanned, releaseManifest>>
        /\ listed' = Released!CanonicalAssets
    BY <1>8 DEF Released!Checksums
  <2>2. ReleaseTypeOK'
    BY <1>0, <1>8, ChecklistPositions DEF Released!Checksums, ReleaseTypeOK
  <2>3. step' = 0 \/ (step \in {9, 11} /\ step' = step + 1)
    <3> Released!Run("checksums")
      BY <1>8 DEF Released!Checksums
    <3> QED BY <1>0, ChecklistPositions
  <2> QED BY <1>0, <1>1, <2>1, <2>2, <2>3 DEF ReleaseInv, ChecklistDone, ManifestIsReady,
             Released!Accepted, Released!Resolved
<1> QED BY <1>2, <1>3, <1>4, <1>5, <1>6, <1>7, <1>8 DEF Released!ReleaseNext,
           Released!EvaluateDetection, Released!EvaluateFalseAlerts

(* The invariant of the release, whatever versions of the tree pass.       *)
THEOREM ReleaseInvariant == ReleaseCommandSpec => [](focus = "release" => ReleaseInv)
<1>1. ReleaseCommandInit => (focus = "release" => ReleaseInv)
  BY ReleaseStarts DEF ReleaseCommandInit, ReleaseInit
<1>2. (focus = "release" => ReleaseInv) /\ [ReleaseCommandNext]_releaseCommandVars
        => (focus = "release" => ReleaseInv)'
  <2> SUFFICES ASSUME focus = "release" => ReleaseInv,
                      [ReleaseCommandNext]_releaseCommandVars, focus' = "release"
               PROVE  ReleaseInv'
    OBVIOUS
  <2>1. CASE Released!ReleaseNext
    BY <2>1, ReleaseMoves, ReleaseKeeps
  <2>2. CASE UNCHANGED releaseVars
    BY <2>2, ReleaseMoves DEF releaseVars, ReleaseInv, ReleaseTypeOK, ChecklistDone, StampOf,
       ManifestIsReady, Released!Fingerprint, Released!Accepted, Released!Resolved
  <2> QED BY <2>1, <2>2, ReleaseMoves
<1> QED BY <1>1, <1>2, PTL DEF ReleaseCommandSpec

(* The checklist converges: followed once, undisturbed, on a tree that     *)
(* deserves it, it ends with a ready manifest of this tree and a release   *)
(* that validates, whatever an earlier release left behind.                *)
THEOREM TheChecklistConverges == ReleaseCommandSpec => []ChecklistConverges
<1>1. ReleaseInv => Released!ChecklistConverges
  <2> SUFFICES ASSUME ReleaseInv, step > 11, Released!Accepted
               PROVE  /\ Released!Validates
                      /\ releaseManifest.ready /\ releaseManifest.on = Released!Fingerprint
    BY DEF Released!ChecklistConverges, Released!Checklist
  <2>1. step = 12
    BY DEF ReleaseInv, ReleaseTypeOK
  <2>2. StampOf("coverage") /\ StampOf("detection") /\ StampOf("false_alerts")
    BY <2>1 DEF ReleaseInv, ChecklistDone
  <2>3. \A check \in Released!Kinds \cup {"files"} : tree \in ReleasePasses[check]
    BY ReleaseCommandsAssumption DEF Released!Accepted, Released!ReleaseAssumption
  <2>4. Released!CoverageGate /\ Released!MonitoringGate /\ Released!FilesPass
    BY <2>2, <2>3 DEF Released!CoverageGate, Released!MonitoringGate, Released!Gate,
       Released!Good, Released!FilesPass, Released!Kinds, StampOf
  <2>5. Released!ChecksumsVerified
    BY <2>1 DEF ReleaseInv, ChecklistDone, Released!ChecksumsVerified, Released!CanonicalAssets
  <2> QED BY <2>1, <2>4, <2>5 DEF ReleaseInv, ManifestIsReady, Released!Validates, Released!Accepted
<1>2. (focus = "release" => ReleaseInv) => ChecklistConverges
  BY <1>1 DEF ChecklistConverges
<1> QED BY <1>2, ReleaseInvariant, PTL
==============================================================================
