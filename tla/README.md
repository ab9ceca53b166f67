# Verification of CredLens in TLA+

CredLens generates a synthetic loan portfolio, stores it as validated runs,
builds a DuckDB warehouse over the runs, and analyses, models, monitors and
publishes what the warehouse holds. This directory states what the stateful
parts of that program promise, checks it with TLC on small instances, and
proves part of it with TLAPS for every value of the constants.

`PROJECT.json` is the machine-readable side: the components, the runs, for each
property a slip in the code that would break it, the source lines behind every
definition, the hazards the properties are for, and the findings.

## 1. Inventory

Paths are relative to the package, `src/credlens/`. "Hard" names the behaviour
that tests reach badly; "Correct" what should hold.

| Component | State it keeps | Operations | Hard | Correct | Here |
|---|---|---|---|---|---|
| Portfolio ledger: `generation/payments.py`, `allocations.py`, `snapshots.py`, `writeoffs.py`, `recoveries.py`, `collections.py` | per contract: open installments, head index, cumulative amounts, status, scheduled recovery; six event tables | decide, allocate, reverse, close the month, recover, finalise | long histories of payments and reversals; three representations of one debt | the tables, the state and the reconciliation rules tell one story; terminal contracts stay put; recoveries land | `Waterfall`, `Ledger`, `LoanBook` |
| Reconciliation rules: `contracts/financial_rules.py`, `temporal_rules.py` | none (reads tables) | rebuild each snapshot from dated rows | dates at month boundaries | agrees with the generator | in `Ledger` |
| Origination and schedules: `generation/applications.py`, `decisions.py`, `contracts.py`, `schedules.py`, the contract rules, `quarantine.py` | the tables of a run before its ledger | apply, cancel, decide, book, amortise, validate, inject a defect | rounding of installments, month lengths, causal order of four dates | a run passes every rule; a defect breaks the rule it is meant to; principal sums to the loan | `Origination` |
| Scenarios: `generation/rng.py`, `config.py`, `suite.py`, `montecarlo.py`, `comparison.py`, `analysis/robustness.py` | random streams, the metrics of two runs | generate a suite, repeat it over seeds, compare | draws that depend on what earlier draws decided | one population; no metric against its direction; equal before a shock | `CommonRandom` |
| Run store: `generation/orchestrator.py`, `writers.py`, `suite.py`, `validation.py` | staging, operational and truth directories, suite manifest | generate a scenario, generate a suite, force | crashes between renames, leftovers, failed validation | only whole, validated runs appear; pairs match; no unforced change | `Directory`, `PublishedRuns`, `RunStore` |
| Warehouse: `warehouse/build.py`, `sources.py`, `integrity.py`, `queries.py`, `reconciliation.py`, and `analysis/validation.py` | database, build manifest | build, verify, query, analyse, reconcile | runs regenerated during a build or a read; killed builds | a gated reader sees what the manifest records; a mismatch means a changed source | `Warehouse` |
| Analysis and pages: `analysis/runner.py`, `provenance.py`, `insights.py`, `dashboard/demo_package.py`, `data_access.py` | analysis tables, manifest, insights; packages; caches of a server | analyse, reproduce, export, render | outputs that outlive the analysis that made them, caches | a number can be traced to the build it is of | `Analysis` |
| Demo factory: `demo/factory.py`, `dashboard/bootstrap.py` | two bundles with markers | prepare, replace, validate, create on start | crash while the bundle is replaced, two starts at once | a preparation that returns leaves a bundle of its seed; foreign content is never touched | `DemoFactory`; the monitoring bundle in `Monitoring` |
| Acquisition: `data/downloader.py`, `bcb_client.py`, `manifest.py`, the `data` commands | raw files, file manifest, audit results | fetch, retry, split windows, extract, verify, audit | retries, truncation, overlapping windows, kills | a verified file is one download; no observation is lost or doubled; an audit is of what was verified | `Acquisition` |
| Model data: `modeling/data.py`, `contracts.py`, `splitting.py`, `thresholds.py`, `monitoring/batches.py` | dataset and its entry, pinned contract, split table, model | split, train, evaluate, draw batches | splits torn or older than the data | no row judges a model that learned from it | `Splits` |
| Model governance: `modeling/reporting.py`, `registry.py`, `model_validation/reporting.py`, `evidence.py`, `decision.py` | experiment record, its tables and pipelines, registered models with manifests, evidence | train, evaluate, audit, stress-test, register, register a challenger, validate | training again over what is registered, kills between two files, hours of validation beside the pipeline | a manifest describes its artifact; gates open for the fit they are about; a validation passes on what it froze | `Governance` |
| Validation studies: `model_validation/remediation.py`, `lifecycle.py`, `collinearity.py`, `coefficient_audit.py`, `negative_controls.py`, `permutation_audit.py`, `discrimination.py` | reduced models, their comparison, lifecycle history, permutation reports | remediate, compare, register, record a transition, permute, reduce | the decision about a model is made from tables that other commands wrote; ties; resampled statistics | what is registered was audited itself; history only grows; controls pass by chance as rarely as they say | `Remediation`, `FeatureAudit`, `NegativeControls` |
| Input gate: `modeling/input_contract.py`, `monitoring/data_quality.py` | quarantine files | profile, block, quarantine, score | rows against identifiers | every row is scored once or quarantined | `Intake` |
| Monitoring: `monitoring/runner.py`, `alerts.py`, `incidents.py`, `batches.py`, `reference.py`, `thresholds.py`, `calibration_study.py`, `detection_eval.py`, `release/monitoring_gate.py` | reference, population, thresholds, batches, runs, alerts, evidence | create, calibrate, simulate, prepare, run, group, evaluate; commit, restore, clone | files written one after the other, half of them tracked by git, severity and chains, percentile cutoffs | a gate that passes is current; incidents mean what the thresholds file says; false alerts are bounded | `Monitoring`, `Incidents`, `CalibrationStudy` |
| Release: `release/manifest.py`, `integrity.py`, `checksums.py`, `coverage_gate.py`, `cleanup.py`, `staging.py` | stamped evidence, assets, checksums; git index | measure, evaluate, inventory, write, verify; plan and remove | stamps that depend on what the release writes itself; a batch that fails half-way | following the checklist ends; nothing outside the plan is removed | `Release`, `Cleanup` |
| dbt SQL, model fitting, charts, pages, wording of reports, argument parsing | data frames in memory | aggregate, fit, render | numeric | out of scope, see "Not modelled" | not modelled |

Interaction. Everything runs in one process per command, and the packages
communicate through files: the generator writes `data/synthetic/<run>/` and
`data/synthetic_truth/<run>/`; `run_build()` reads those and writes
`data/warehouse/builds/<id>/`; analysis and modelling gate on the build
manifest and re-verify the runs; modelling writes candidates that validation and monitoring read; the demo
factory drives the whole chain into a bundle that the dashboard reads. No
component locks a file (DuckDB locks its database); a second command may be
started at any time.

## 2. Modules

### Waterfall, Ledger, LoanBook

`Waterfall` is `allocate_payment()`. A contract's installments are one row of
slots, three per installment (fees, interest, principal), oldest first, which is
the order the function consumes them in. `Allocate` is the loop;
`OldestFirst` says declaratively what a row owes once a given amount is paid.

`Ledger` is `simulate_portfolio_ledger()`. `month` and `turn` are its two
loops, the other variables the fields of `_ContractState`, the latest snapshot
row of each contract and the dated rows.

| Action | Code |
|---|---|
| `PassOver` | the two `continue`s, `payments.py:369-376` |
| `ProcessContract` | the rest of the inner loop's body, 378-574: `Decisions`, `Allocation`, `RemAfter`/`PaidAfter` (booking and reversal), `HeadAfter`, `CloseMonth` (dpd, classification, write-off, recovery plan, snapshot, contact), `PostRows` (dated rows) |
| `EmitRecoveries` | 576-592 and the step to the next month |
| `Finalise` | 594-620 |

Every random draw is a choice: which outcome the decision has (any amount a
partial payment can round to), the day of the payment, whether the reversal is drawn,
which recovery is planned. The macro shock rescales probabilities only
and so leaves the model unchanged. Amounts are integers of cents (the code uses
`Decimal`), days are counted, and every month has `MonthLength` days.

`allocated` and `carried` hold the dated rows by slot: those settled up to this
month end and those settled after it. From them and from the schedule alone
`Reconciled` rebuilds what `_ledger_reconciliation()` rebuilds.

`LoanBook` is the promise with no schedule, month or allocation: performing,
then settled or charged off for good; the loss is what was not collected; one
recovery at most. `Ledger` ends with the refinement mapping (`Book`).

### Directory, PublishedRuns, RunStore

A directory is whether it exists and what each file holds. A run's
content is a function of its id and of the version of the generator, so a file is
represented by the version that wrote it: two files agree exactly when one
generation wrote both.

`RunStore` is `generate_scenario()` and `generate_suite()`: `Command` starts
one, `RefuseExisting` is the early exception, `Stage` the work in private
directories, `KeepDiagnostics` the failed validation, `ClearOp`/`ClearTruth` the
forced `rmtree`s one entry at a time, `PromoteOp` and `PromoteTruth` the two
renames, `PromoteTruthRefused` the exception of the second, `WriteSuiteManifest`
the write that truncates first, and `Interrupt` a kill or an `OSError` between
any two steps. `Upgrade` installs another version of the generator between
commands.

`PublishedRuns` is what a reader of `data/synthetic/` may rely on: a run appears
whole and validated, may lose files one at a time, and reappears only after it
is gone. `RunStore` implements it (`ImplementsPublishedRuns`).

### Warehouse

`Warehouse` extends `PublishedRuns`, so runs appear and shrink at any time, and
adds a builder (`run_build()`: `StartBuild`, `Materialise` per fact table,
`DbtFails`/`DbtSucceeds`, `WriteManifest`, `BuildInterrupted`) and a reader
(`LoadBuild`, `Verify`/`Refuse` per source, `Query`). The reader is either an
analysis, which demands a successful build, a named query, which only
verifies the sources, or `run_reconciliation()` (`OpenReconciliation`, `Compare` per
fact table, `CannotCompare`), which verifies nothing and compares the rows of the
database with those of the files: `checks` holds what it found. Building on the abstract specification instead of on
`RunStore` keeps the product small, and is sound because `RunStore` implements
it (checked by `run_store`, proved in `RunStoreProofs`).

### DemoFactory

`DemoFactory` is `prepare_dashboard_demo()` and the page that calls it. A job is
a command (`Prepare`) or a page (`OpenPage`). Both, unless they find a
valid bundle, clear and create the scratch directory of their seed
(`ClearScratch`, `MakeScratch`), run the pipeline in it (`Package`,
`PipelineFails`), and replace the bundle's directory entry by entry (`StartSwap`/`RefuseSwap`,
`DeleteChild`, `StartMove`, `MoveChild`, `FinishMove`, the body of
`_atomic_replace_dir()`); `Cleanup` is the `finally` clause. Children are listed
once and visited in any order, as `iterdir()` returns them. Two jobs interleave
freely, and `Kill` stops one anywhere. A file is represented by the seed it was
made from, 0 for content the factory did not make. Moving one file is one step,
as it is on one file system; the pipeline is one step, and may raise anything
once another job of its seed has taken its directory.

### Origination, CommonRandom

`Origination` is what a run consists of before its ledger: `GenerateCustomers`,
`GenerateApplications`, `ApplyCancellations`, `GenerateDecisions`,
`GenerateContracts`, `GenerateInstallments`, then the rules of `contracts/` in
`Validate`. Days, terms, loans and delays are drawn from small sets; rounding
(`HalfUp`), the balance month by month (`Balances`, `Amortize`) and the calendar
(`AddMonths`) do what the code does. The rate is a fraction, `RateNum / RateDen`, so that
`(1 + rate)^n` is a quotient of two powers. A table is a function from the places of its
rows: a decision stands in the place of its application, a contract in that of its
decision, an installment in that of its contract and its number. A valid run may then
be given one of the defects of `quarantine.py` (`Inject`), on which the rules are
run again (`ValidateBroken`) and compared with `ExpectedError`. The code wants that error on one
contract; since nothing was found before the injection, and a defect touches one table, the
error alone says the same. Four of the five defects are injected here: the fifth, an incoherent snapshot, concerns
the tables of the ledger.

`CommonRandom` is two runs of one seed. `tape` holds the draws of each named stream;
a cell is chosen when the first run reads it, and the second run reads the
same. `Originate`, `PayContract` and `EndMonth` consume draws as the code does,
as many as the earlier ones decided; `WriteManifest` makes the comparison of a
suite, `NextSeed` and `SummarizeSeeds` the Monte Carlo over seeds. The scenarios are those the
code compares (`CRN_SCENARIOS`), of which it refuses one with another population (`Refuse`);
`contract_coverage`, which has another and is generated without a comparison, is not among them.

### Acquisition

`Acquisition` is `credlens data fetch`, `verify` and `audit`. A fetch is `BeginFetch`,
then per source `Refuse` or `Ask`; an attempt that fails (`AttemptFails`) is retried
(`Retry`) or final; `DownloadArchive`, `OpenMember` and `WriteMember` are the archive,
`FetchWindow` and `StoreSeries` a series asked window by window;
`CloseFetch` and `WriteRows` merge the manifest and truncate it before it is
written. `Audit` and `WriteMetrics` verify and count. `Stop` is a kill or an exception
no caller catches, `Publish` another content at the source, `DeleteRaw` a user
who removes a raw file.

### Splits, Intake

`Splits` follows rows, which are their identifiers, from the dataset to whoever
judges a model: `PinContract`, `BeginCreateSplit`/`WriteSplitTable`, `BeginTrain`,
`Fit`, `DumpModel`, `RecordExperiment`, then `Evaluate`, `PerformanceReference` and
`BuildBatches`. The dataset and its manifest entry are two steps (`FetchFile`,
`FetchEntry`), and `KillModelCommand` stops a command between its files. `CreateSplit` keeps the
stratified cuts of scikit-learn, any rows in them.

`Intake` is one batch on its way to the scorer: `AuditBatch` profiles it,
`BlockBatch`, `AdmitBatch` and `WriteQuarantine` are the input contract, and `ScoreBatch`
scores what is left. `Probe` and `SelfTest` are the perturbations of the contract's own check.

### Governance

`Governance` is one experiment: the commands of `modeling/reporting.py` (`DumpLogistic`
to `RecordTraining` is `train_experiment()`, `EvaluatePredictions` and `RecordEvaluation`
`evaluate_experiment()`, then `StressTest`, `AuditGroups`, and for
`register_experiment_model()` `GatesFail` or `RegisterArtifact` to `RecordRegistration`),
`register_challenger_experiment()`, and `validate_independent()` beside them (`Freeze`,
`Recompute`, `Diagnose`, `Decide`). What training fits is a number, the version of
its configuration and code; a pipeline, its metrics, predictions and audit carry the version
they come from, and `flaw` says which versions miss a threshold or fail a negative
control. Gates over reports and statistics are a choice in `Decide`. `torn`, in the
state and in the manifests, and `audit` in the manifests are history, kept for the
properties: the files have no such field.

### Remediation, FeatureAudit, NegativeControls

`Remediation` is `credlens model remediate`: it reads two tables of other commands
(`CompareCandidates`, `ClassifyCoefficients`), builds three reduced models
(`DumpPipeline`, `AuditReduced`, `WriteRecord`), compares (`Compare`), decides
(`DecideRemediation`) and registers (`RegisterArtifact`, `RegisterManifest`);
`RecordTransition` and `RecordVerdict` rewrite the lifecycle history. `Retrain` replaces
the original between two commands, `Kill` ends one between two files.

An audit gives each of the two features that are kept an inflation, which may be infinite, and a
sign-flip rate. The record holds the inflations as json can: an infinite one is `None`
(`VifTable`), and the decision takes its maximum over the others (`VifValues`, `Inflated`) and
compares the mean of the rates with the limit (`MeanAtLeast`), as `remediation.py:471-502` and
`738-746` do. What the audit found is kept beside it (`found`), for the properties only.

`FeatureAudit` is the elimination loop of `collinearity.py` (`BeginReduction`,
`RemoveWorst`, `FitReduced`), the audit of all features, the classification of a coefficient and
the choice of reason codes. What regressions would measure is given by
the groups of features that explain one another.

`NegativeControls` draws one shuffle per step (`PermuteScoreLabel`, `PermuteTraining`) and
judges (`JudgeScoreLabel`, `JudgePipelineRetrain`) in integers: an AUC is kept times
twice the product of the class sizes, and every test is cleared of fractions
and roots.

### Monitoring, Incidents, CalibrationStudy

`Monitoring` is the order of files: three of a reference, two of a batch set, two of a run,
two pieces of stamped evidence, and the gate over them. Each file of a reference or a batch set
holds the version of the sources that computed it; the json holds a number of its own, since two
are never equal (`created_at_utc`). The commands are `BuildReference` to `WriteThresholds`
(`create-reference`), `Calibrate`/`AddThresholds`, `WriteBatches`/`WriteBatchManifest`,
`RunMonitoring` to `EvaluateDetection`, `BeginFalseAlerts`/`EvaluateFalseAlerts` and
`WriteMonitoringReports`. `PrepareDemo` is `prepare_monitoring_demo()`: it removes what is there
file by file (`RemoveReferenceFile`, `RemoveBatchSet`) and goes through the first three commands.
`Kill` stops any of them.

Git is part of the system here, since the gate compares a fingerprint of the *tracked* files
(`Fingerprint`), and is meant to be judged in a checkout. Tracked are json, thresholds, batch
manifest, reports and the evidence itself, which the fingerprint excludes; ignored are population, batches
and runs. Evidence that misses the floors of
the gate fails it whatever its stamp, and is kept as none. The model begins in a fresh clone (`MonitoringInit`): the two pieces of evidence are
committed, each perhaps of this very tree, made with the population and batches of its author
(`AuthorsTree`), and neither of those is there. `Commit`, `Restore` (the reports, or everything
tracked, of the last commit over a directory that keeps what git ignores: what `ci.yml` does
after preparing) and `Clone` go on from there, at any time between two commands.

`Incidents` is the content of one
run: `Process` checks the next batch and raises its signals, `WriteReport` groups and
grades them (`GroupSeverity`), chains them (`BuildIncidents`, a fold with the
code's flush) and fills the rows of the detection evaluation. `CalibrationStudy` is how the thresholds come
about (`Calibrate`, percentiles over resamples) and the studies that
measure them (`BeginStudy`, `RunBatch`, `RunPerturbed`, `Report`). The false alert study
calibrates its family-wise threshold at its own batch size. The sensitivity study takes that of the
thresholds file, which may be of another; its threshold is any here, and no property judges it.

### Analysis

`Analysis` is `credlens analysis run` (`BeginAnalysis`, `WriteOutputs`, `WriteManifest`,
`WriteInsights` or `FailInsights`, `RewriteManifest`, `Kill`), `reproduce`, the demo package and a
dashboard server with its caches (`RenderBuild`, `RenderPackage`). A file holds the number of the
build it was computed from. `Rebuild` and `SweepSeeds` replace what it reads.

### Release, Cleanup

`Release` is one action per command of `docs/release_checklist.md`, run in that order or any
other, and `Edit`, which changes the tracked tree. `Cleanup` plans the removal of tracked
byproducts (`BuildManifest`), refuses a drifted plan or a dirty index, removes batch by
batch (`RemoveBatch`) and checks the result (`Verify`), beside a developer who stages
other files at any time, and stages byproducts, commits and resets between two commands.

### Focus, DataCommands, ReleaseCommands, Studies, Commands

The fourteen modules from `Origination` on, `Governance` aside, are checked in one run.
Their components keep their files apart and no property relates two of them, so
interleaving them would only multiply states: the variable `focus` (module `Focus`)
names the one that moves, the variables of the others are `Off`.

They come in three groups: `DataCommands` (`Acquisition`, `Intake`, `Splits`, `Analysis`),
`ReleaseCommands` (`Remediation`, `Monitoring`, `Release`, `Cleanup`) and `Studies`
(`Origination`, `CommonRandom`, `FeatureAudit`, `NegativeControls`, `CalibrationStudy`,
`Incidents`). A group instantiates its modules, gathers their assumptions in one
`ASSUME`, states their properties and has a specification of its own, about which its
theorems are. `Commands` puts the groups side by side: a step of it is a step of one
group and leaves the variables of the other two. `MCCommands` gives the instances.
`MCRemediation` checks one module by itself, for a promise that does not hold.

## 3. Runs

| Run | Question | States | Result |
|---|---|---|---|
| `ledger` | do months of payments and reversals keep waterfall, head pointer, reconciliation, totals and recoveries; do the final tables agree, do recoveries land, is the loan book implemented | 33 thousand | holds |
| `ledger_cure` | ADR 0010: does a `cure` row mean a clean month end | | violated |
| `run_store` | what reaches the final directories | 1.6 million | holds |
| `run_store_partial` | `writers.py`: no partial artifacts, ever | | violated |
| `warehouse` | does a gated reader see what its manifest records | 4.9 million | holds |
| `warehouse_trusted` | `analysis/validation.py`: is a trusted build complete | | violated |
| `demo` | what preparations leave, when they fail, race or are killed | 3.3 million | holds |
| `demo_pages` | `bootstrap.py`: does a page ever end in a stack trace | | violated |
| `governance` | what registered models and passed validations rest on | 3.2 million | holds |
| `governance_artifact` | `validation.yml`: does the artifact match its evidence | | violated |
| `commands` | the commands around all these, one component at a time | 1.6 million | holds |
| `remediation_candidate` | `remediation.py`, `validation.yml`: is every feature a candidate keeps within the limits | | violated |

Bounds, and why they are enough:

- Ledger: two contracts (the recovery pass and the turn order need a second one) of two
  installments (a payment ends inside an installment, a head pointer moves by one and by two), six
  months of three days (a reversal can fall inside the month and on its last day; an installment
  can be due before, in, at the end of and after a month), a write-off at 7 days past due
  (reached in the third month of arrears), recoveries up to two months later
  (inside and beyond the horizon). The due dates of the second contract are month
  ends, where `<` and `<=` differ; it has a fee. The tolerance is one cent and, as in the shipped
  configuration, smaller than what a partial payment leaves open.
- RunStore: a baseline and one scenario, two tables, three versions: enough to
  overwrite a run twice, with a version that fails validation in the middle. `MaxCode` bounds upgrades only;
  commands are unbounded.
- Warehouse: two runs, two tables, two versions, two builds (`MaxBuilds`); one
  reader, since readers share nothing.
- DemoFactory: two jobs, which are all alike (symmetry), two seeds, a package of one table, one
  job killed (`MaxKills`). The properties about the content of the bundle speak of
  jobs that did not race (`raced`), because racing jobs do break them; `ForeignKept`
  holds for racing jobs too. `demo_pages` needs one seed and no kill.
- MCCommands: each instance is the smallest in which its hazard occurs. Acquisition: an
  archive, a series and a restricted source, two retries, six days in windows of two and
  periods of three (a window that ends inside a period repeats an observation), two contents.
  Origination: two applications, two loans whose installments leave
  a residual, terms up to four months across February. CommonRandom: two customers,
  months, installments and seeds, one scenario with a stricter policy, one with a shock, one
  with another population. Analysis: two builds, sweeps and analyses. FeatureAudit: five
  features and every subset of four overlapping groups. NegativeControls: four
  scores with a tie, three shuffles, alpha 50 % (with three shuffles 5 % is never
  reached). Remediation: two fits, two commands, one record, five audits: one that passes,
one with a single unstable sign under the mean, one exactly collinear, and two that are
rejected. Monitoring: two references (the committed one and another), two
versions of the sources, one run; commits, restored reports, clones and kills are unbounded.
  CalibrationStudy: two features, three levels, two resamples, batches below and above the
  minimum sample. Incidents: four batches and a window of two (a chain in the middle, two
  chains, one open at the end). Release: two edits; the first version fails its file checks. Cleanup: three
  byproducts in batches of two. Splits: six rows in three versions of the dataset. Intake: three rows
  over two identifiers.
- Governance: two versions of the configuration and code of training, at most one of them
  flawed: enough to register either, and one over the other. Commands, kills and
  validations are unbounded; one validation runs at a time, and it is of the candidate.

Deadlock is checked except in the ledger runs, whose loop ends, and in `commands` and
`remediation_candidate`, where components come to an end of their bounds.

Fairness. Two properties need it. `ScheduledRecoveryLands`: weak fairness of `Next`, since
the loop is one sequential program that goes on until it returns. `CommandEnds`: weak fairness
of the steps of a running `data` command, for the same reason; starting a command, killing it and
a source that publishes are not fair. Everything else is safety: a user may stop at any time.

What `commands` shows, property by property:

| Property | Says |
|---|---|
| `RawDataIsWhatIsRecorded` | an archive that verifies and the member beside it are of one download; counts marked audited are of the content the entry records; a stored series has every period of the range in order, twice only if its value changed between two windows |
| `CommandEnds` | however a server answers, a fetch or an audit returns |
| `GeneratedRunsAreJudgedRight` | a generated run passes all its rules, and a run with an injected defect fails the rule the defect is meant for |
| `SchedulesAreSound` | principal adds up to the loan, the last installment differs by no more than the rounding of the others compounded, due dates fall in consecutive months |
| `ScenariosAreCounterfactual` | a suite that is written has one population and passes its directional checks; no seed of a sweep moves against the expected direction, and all are identical before a shock |
| `AnalysisIsTraceable` | insights cite the build their numbers are of, although they outlive the tables beside them; a reproduction that matches read the data of the original; a page over a package shows that package |
| `NothingLostByReduction` | a feature removed as an exact combination can be computed from what is kept and what was removed for a finite inflation, however the groups overlap |
| `ControlsAreExact` | the rank-sum AUC counts the ordered pairs and half the tied ones, for the model and every shuffle; if labels mean nothing, a control passes no more often than alpha |
| `RegisteredWasAudited` | a model that loads as a remediation candidate was audited itself, and is within tolerance of the fit it was compared with; no feature it keeps has a finite inflation over the threshold, or flips its sign twice as often as the limit (two features, whose mean is below it). More is not true, see `remediation_candidate` |
| `LifecycleAppendOnly` | a history only grows, each transition from the state the one before led to, and nothing is written over a torn one |
| `PassedGateIsCurrent` | a monitoring gate that passes, in a clone or elsewhere, tells of the code, reference, fully calibrated thresholds and batch manifest there are now. Of the population and the batches, which no fingerprint knows, it says that they are no leftovers: each is the one evaluated, absent (as in a clone), or made by the present sources or later ones that were given up |
| `FamilyWiseRateIsBounded` | of a batch without drift and the resamples, only as many could raise any check as the percentile leaves above it |
| `IncidentsAreSound` | incidents are the blocked batches and the maximal runs of significant ones; no deviation is graded high on one batch alone |
| `ModelDataIsSound` | no row judges or monitors a model that learned from it; an admitted batch is divided into rows scored once and rows in quarantine, and the self-test of the gate accepts what the gate accepts |
| `ChecklistConverges` | the checklist, followed once on a tree that deserves it, ends with a ready manifest of this tree and a release that validates |
| `CleanupIsThePlan` | a cleanup that reports success leaves an index without the reviewed byproducts, and otherwise that of the last commit |

### What the violated runs show

- `ledger_cure`: a cure is subject to the reversal draw like any payment. The
  reversed cure leaves its row in the payments table, and the month ends with
  the arrears it had. What does hold is part of `SnapshotsMoveForward`: a cure that is
  not reversed ends the month with nothing past due and touches no later installment.
- `run_store_partial`: a forced regeneration deletes the published run in place.
  Killed in the middle, it leaves a partial run where consumers read.
  `ForceRepairs` holds: another forced command always recovers.
- `warehouse_trusted`: a forced rebuild deletes the database and keeps the old
  manifest with `final_status = "success"`. Killed while dbt runs, the gate
  accepts the partial database. `AnalysisSeesWholeBuild` and
  `AnswerMatchesRecord` hold for a database of the build whose manifest was checked.
- `demo_pages`: two jobs of one seed share a scratch directory. The second `mkdir()`
  raises `FileExistsError`, or the `finally` clause of the first deletes the files
  of the second, and a page only expects `DemoFactoryError`.
- `governance_artifact`: the experiment behind a candidate is trained again. Every gate
  of a validation reads the experiment, except the one that compares the candidate with
  its own manifest, so the verdict on the new fit is recorded for the old one. Nothing
  reads the key `require_artifact_hash_match`.
- `remediation_candidate`: a feature that the others determine exactly has an infinite
  inflation, which `VifRow.to_dict()` writes as `None`. The row of the comparison takes its
  maximum over the values that are not `None`, and a model without any has nothing to reject. It
  takes an R-squared of exactly one; the final features come from a policy file, so that the
  elimination, which would remove the feature, does not stand in front of the decision. The
  docstring and the name of the limit on sign flips (`max_kept_feature_sign_flip_rate`) speak of each
  kept feature, the code compares their mean: a feature over the limit passes among stable ones. The
  committed `EXP_behavioral_default_v2_reduced.json` has two such features. The counterexample
  shows both at once, a candidate with two collinear features of which one flips too often.

## 4. Proofs

Ledger. `LedgerProofs` (first the waterfall and what the state of a contract says, then the
tables and the loan book) holds for every number of contracts, every
schedule and due dates that `ContractsAssumption` allows, and every horizon.

The goal is `TypesCorrect`, `WaterfallFollowed` and `HeadPointerCorrect`, the
state properties `TypeOK`, `FollowsWaterfall` and `HeadPointerExact`. None is
inductive alone, and each needs the others: that the remaining amounts stay the
schedule consumed oldest-first by `paid` needs that everything before the head
is exhausted, so that allocating over the active slice is allocating over the
whole row; that the head stays exact needs that installments are exhausted
oldest first; that no amount goes negative needs that a decision never exceeds
what is open. `LedgerInv` is their conjunction with one more fact, that no
allocation row is ever dated after the month it is booked in (`carried` is zero),
which is what the guard on reversals gives and what keeps `allocated` non-negative.

`LedgerInvStep` has one lemma per action. The one for `ProcessContract` first
shows (`BookedPayment`, `VisitOfProcessContract`) what a visit does to the row
and to `paid`, and derives the invariant from that. It rests on two facts about the
waterfall: `AllocatePaysOldestFirst` (the loop of `allocate_payment()` equals
the declarative reference) and `OldestFirstTwice` (two payments in sequence are one
payment of their sum). Running totals are recursive functions, and the library's
induction theorems take a predicate as a parameter; `UpToInduction` replaces
them with an induction over a set, proved from the well-foundedness of `<`.

The properties of the tables rest on `BooksInv`, which adds to `LedgerInv` one conjunct per
representation of the debt: `StatusOfDebt` (a status is what is open and past due
says), `WriteOffsOfState`, `ScheduledOfState` and `RecoveriesOfState` (a write-off has the
amount that was open, a recovery the one that was planned, in the month it was planned
for), `SnapshotsOfState` and `AllocatedOfState` (the last snapshot and the dated rows are
the state at the end of the month) and `FinalOfState`. None of them holds
alone: that a reconciliation adds up needs that rows are neither lost nor counted twice
when a payment is reversed in the month it was made, that a charged-off contract has
nothing scheduled after its recovery needs the write-off it came from.

`SnapshotsReconcile` and `FinalStatusesMatch` have a hypothesis about the state they speak
of, `NothingBelowTolerance`: no installment is left open by an amount that is positive but
within the tolerance. Without it
the statement is false of the code: the generator counts an installment as unpaid if
anything is open, the reconciliation rule if more than the tolerance is. The
decisions of the shipped configuration leave more than that open. The amounts
(`AmountsAlwaysReconcile`) and, at tolerance zero, everything
(`SnapshotsReconcileExactly`) reconcile without it.

Run store. `RunStoreProofs` holds for any runs, suite, tables and number of
versions, and any outcome of validation. `OnlyValidatedPublished` is not inductive: that
the truth promoted second belongs to a validated run, and to the same version as
the tables, needs `HalfPromoted` (between the two renames the tables are in place
and the run is valid; with `--force` the truth directory is free), and that a run
in hand is not yet counted as completed (`RunInHand`). `StoreInv` adds both to the
types and to the contents. `StepShapes` reduces the steps to the four that touch the disk. From
the same invariant follow the two action properties (`UnforcedKeepsPublished`,
`ForcedCommandsPass`) and the refinement of `PublishedRuns`
(`StoreImplementsPublishedRuns`), on which `Warehouse` builds.

Warehouse. `WarehouseInv`: every fact of a database is what its build recorded
(`AtLeast`), or its run has been replaced for good (`Superseded`), since a generator
only goes forward. An answer is computed after the sources were verified one at a
time, each at a different moment; what closes the argument is that a source that was
found as recorded, and whose fact is not, must have been replaced before the
verification and would have been refused.

Governance. `ValidationInv`: while no training was killed (`torn`), the record, the pipelines,
their metrics and the audit are of one fit, and registered manifests speak of the artifact
beside them. Predictions are frozen at the beginning of a validation and the
pipeline goes on; versions only move forward, so that what was frozen and is still in
place is what was read.

Demo factory. `DemoInv` has a part that holds even for racing jobs (`ForeignIsSafe`: no step can
reach content the factory did not make) and a part that holds while nothing raced
(`Alone`, `Progress`, `OneContent`, `Whole`: where the job that runs stands in its swap, and
that what the directory holds meanwhile is of one seed).

Releases (in `CommandProofs`). `CleanupInv` says where in the plan the index stands; it needs the drift check and the
refusal of a dirty index, since a developer stages files beside the command.
`RemediationInv` relates each table to the fit it was made from. In particular `manifest.found` is what the audit behind the artifact found, so that what the
decision excludes, and only that, holds of it. `MonitoringInv` has two parts. `ReadStaysCurrent`: what
an evaluation read when it began is still there when it stamps its result. `EvidenceIsSound`, of
the evidence in the tree and of that in the last commit (the gate may be judged after a `Restore` or in a
`Clone`): it is stamped with the tracked files it was made on, its sources are no later than
those beside it, and the population and batches there are the ones it was made on, absent, or of
sources between its own and the newest. The last is what remains true when tracked files go back
to a commit and ignored ones do not (`EvidenceStaysSound`); when the stamp is current, its sources are
the present ones, and leftovers from before are excluded. `ReleaseInv` gives for each step of the
checklist what carries the stamp of the present tree; it is what makes the
checklist converge although every step writes files the stamp could depend on.

Data (in `CommandProofs`). `AnalysisInv`: what a running analysis has written is of one build, and tables are never
older than the manifest beside them. `SplitInv`: models, evaluation and batches read one table,
which is never written twice (`DividedByOneCheck`). `DataInv`: what a manifest records was never
newer than the disk; two complete series of which neither is older are equal
(`SameContent`); windows follow one another without a gap (`OneMoreWindow`) and overlapping
ones are kept once (`DeduplicateKeeps`). The sources are a finite set, as the registry is.

Studies. `StudyProofs` is about computations over given data, whatever the data are.

- Elimination (`FeatureInv`). A feature removed as an exact combination was explained by
  what the loop still had *when* it was removed (`ExplainedWhenRemoved`); features removed
  later may be among those. The proof completes the explanation backwards, from the last removal
  to the first. It assumes that `Exact` exceeds every finite inflation, since it stands for
  an infinite one.
- Thresholds (`CalibrationInv`). The statistic of a resample is the largest value of any check,
  and the threshold is a percentile of the statistics. A percentile reaches the value of its
  rank (`PercentileReachesRank`), so that a resample raised by the threshold of the others is
  among the few of high rank, and counting ranks (`FewAreHigh`) bounds how many those are.
- Monitoring (`StreamInv`). Alerts are the union of what each batch raised, and the fold over
  batches keeps a chain: the open stretch is maximal to the left, closed ones are maximal on
  both sides, and nothing significant lies between them.
- Controls (`ControlInv`). The sum of ranks less its minimum counts the ordered pairs and half
  the tied ones: two comparisons of a positive with a positive make one. How often labels that
  mean nothing pass is counted by the lowest AUC that does.

Scenarios. `GenerationProofs` compares two runs of one tape. The draws up to the contracts are
the same whatever the cutoff, so that the approved sets are ordered as the cutoffs
(`LowerCutoffPassesMore`, over the positions of the draws). Under a shock, everything before it
is determined: a moment (`Moment`: book, month, contracts left) has one `Successor` on a given
tape, the moments of the baseline are a `Story`, which a longer tape tells the same
(`StoryStays`), and until the month of the shock the scenario is at a moment of that story
(`ScenarioFollows`). The end of the story is where both runs end the same month. The draws of a
policy scenario do not stay common beyond the decisions, and nothing is claimed of them.

Generated runs. `OriginInv` (in `GenerationProofs`) says, stage by stage, that the tables generated
so far are sound, each relative to the one it was made from: a decision is no earlier than its
application (`DecisionsSound`), a contract stands on an approved decision, is dated no earlier
and has an id of its own, since ids count the contracts before (`RanksDiffer`), and an
installment is what its contract and its number make of it (`InstallmentOf`). From that each
of the eleven rules follows by itself (`KeysAreUnique`, `NoOrphans`, `ValuesInDomain`,
`OneFinalDecision`, `DatesInOrder`), and each defect breaks its own in the state after it
(`Injected`).

That no installment is negative and that the last one is close to the others is about
rounding, which compounds. The argument goes over integers. After `k` months a balance is off
what would be owed without rounding by at most `((1 + r)^k - 1) / r` cents (`Close`): a month
multiplies what was there by `1 + r` and adds half a cent for its interest and half a cent
for its level payment (`HalfUpNearest`, `OffGrows`). After the last month nothing would be owed, so
that what remains is the difference of the last installment (`LastInstallment`). The other
installments repay something as long as interest does not exceed the level payment; it does
not in the first month, since rounding keeps the order of fractions (`HalfUpMonotone`:
`amount * r` is below the unrounded level payment), and from then on the balance only
falls. It does not fall below zero: it ends above zero, because the level payment exceeds what
rounding can add up to, and backwards it only rises (`BalancesFall`). The principal then adds up to the
amount by telescoping (`TotalOf`, `ScheduleOfLoan`). Due dates: month starts are in order
(`MonthsInOrder`), so that a day is in one month only (`MonthOfIs`), and adding months lands in the
month meant (`AddMonthsLands`); the calendar reaches that month because decision, contract and
first due date have latest days (`Granted`, `Owed`). Powers, balances and month starts are recursive
functions; `Recursion` proves that such a function exists and is typed, again by
an induction over a set.

The theorems about a group of commands are about its own specification (`DataCommandSpec`,
`ReleaseCommandSpec`, `StudiesSpec`); every step of `Commands` is one of theirs or leaves their
variables.

Only model-checked: the two liveness properties. Every invariant and every action property of
a passing run is a theorem.

## 5. Assumptions

- The generator's version only goes up, changes only between commands, and one
  generator command runs at a time.
- The check of one source (`_check_one_source()`) is one step. Two sources are two.
- `os.replace` of a directory is atomic, `rmtree` and `write_text` are not.
- DuckDB lets no reader in while dbt writes.
- A hash identifies content.
- Monitoring: one branch. Tracked files go back to the last commit only, not to earlier ones; sources
  are edited, and git is used, between two commands. What a population or a batch set contains is a
  function of the sources that made it. The evidence of the first commit is of its own tree or of none
  that is known.
- The validation of a demo bundle is one step; the deletion and the move of each
  of its files is one.
- Governance: the commands of the pipeline run one at a time (validations beside them); no
  version is gone back to; metrics of two fits differ by more than the tolerance;
  dumping a pipeline twice gives the same bytes; the record is written in one step.
- Configurations of scenarios (`ConfigsAssumption`) are as the files under `config/synthetic/`
  describe themselves: an expansion only lowers the cutoff, a tightening only raises it, a
  shock leaves the other parameters alone.
- Loans (`LoansOutweighRounding`): the level payment of a loan exceeds
  `((1 + r)^n - 1) / r` cents, what its roundings can add up to. The files under
  `config/synthetic/` have at least 300.00 over at most 24 months at 3.5 %: more than 1800 cents
  against 37. The code does not enforce it; a loan of a few cents over many months could be
  given a last installment that is negative. The calendar of the model is
  finite, and reaches the last due date (`CalendarIsLongEnough`).
- The components of `commands`: one command of a component at a time, which may be killed
  between two of its files. What a random sample, a fit or a scanner gives is a
  choice, bounded as section 3 says.

## 6. Disagreements without a run of their own

Six are runs with a counterexample (section 3). These were met while
modelling and are described by the models' behaviour, but no property asks about them:

- Batches with a shifted composition sample with replacement, and the input contract
  removes every copy of a duplicated identifier, where its docstring says
  "quarantines ONLY the offending rows"; its counts are of identifiers, not rows.
  A batch whose rows are all quarantined ends the monitoring run in an exception.
- `detection_eval.py` expects the category "none" of a batch without drift and looks for an
  incident of that category, so its false-positive column is always False; an alert file that is
  missing reads as no alerts; the rate of false alerts of high severity is a literal 0.
- `prepare_monitoring_demo()` calls what it makes "gitignored and never committed" (`demo/factory.py:366-376`).
  The json and thresholds of the official reference and its batch manifest are tracked, as
  `.gitignore:262-285` says; a forced preparation rewrites them, the json with another time in it, and a monitoring
  gate that passed before is stale until they are restored, as `ci.yml:690` does.
- An alert group of high severity may be confirmed by a group of low severity in the next batch.
- The sensitivity study reads its family-wise threshold from the thresholds file, calibrated at the
  batch size of the scenarios, and applies it at the batch size of the study.
- `docs/common_random_numbers.md:90-93` promises `collections_change` the baseline's payments
  up to a contract's first delinquency. All contracts draw from one payments stream, so the
  delinquency of another contract shifts its draws too.
- `data_access.py` says its caches are "never stale"; the manifest of a build is cached by
  build id alone, and a forced rebuild keeps the id.
- `coverage_gate.py`: `measure-coverage` stamps whatever `coverage.json` it is given.
- `data audit --source` rewrites the quality metrics with its own source only.
- A lifecycle file written by two recorders at once loses a record; the model has one recorder.
- A Monte Carlo overwrites the suite manifest of the seed it shares with a suite.
- A forced analysis that is killed leaves new tables under the old fingerprint, and a
  package exported from them carries it; `insights.yml` survives an analysis without insights.
- `run_remediation()` accepts the id of the original as the new one; the table it compares with may be
  of an older fit of the original.
- `release validate` accepts an older ready manifest; the manifest never reads
  `security_audit.json`.
- A path of a cleanup plan that is missing from disk fails the run after earlier batches were staged.
- `warehouse reconcile` over a build that failed before its facts ends in an exception the
  command line does not catch.

## 7. What is left

The proofs are complete as far as the prover reaches: `ScheduledRecoveryLands` and
`CommandEnds` are liveness under fairness and stay with TLC. Models that could be added: two
recorders of one lifecycle history, several branches in `Monitoring`, the thresholds a data audit
compares with, and the hazards of `PROJECT.json` that no property covers: each has a note that says
whether the code really behaves so or the model leaves it out.

## 8. Not modelled

- The dbt models: SQL over tables, run by dbt and DuckDB. Their success or failure is a step
  of `Warehouse`.
- Model fitting, metrics, resampling, uncertainty and subgroup statistics: numeric libraries. Their
  results are choices of `Governance`, `Remediation` and `CalibrationStudy`.
  `benjamini_hochberg()` is called by no command.
- Charts, page layout, filters of data frames, wording of insights and reports: they
  change no file a property speaks of.
- The fingerprint of its own inventory that a release manifest carries: no command
  reads it back.
- The metrics of a scenario other than approvals and late rates.
- Licence and scanner parsing, profiling of columns, argument parsing and exit codes: reading one
  format into another.
- Delinquency buckets and the sums of the components of a payment row: functions of fields
  the ledger has.
