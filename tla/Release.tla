------------------------------- MODULE Release -------------------------------
(***************************************************************************)
(* credlens release: the evidence and the assets of a release candidate.   *)
(* Evidence is stamped with a fingerprint of every tracked file but the    *)
(* ones the release writes itself; a manifest is ready when the integrity  *)
(* checks pass, SHA256SUMS among them.  The commands are run in the order  *)
(* of docs/release_checklist.md, or in any other.                          *)
(***************************************************************************)
EXTENDS Integers, Sequences

CONSTANTS
    MaxEdits,       \* bound: changes of the tracked files
    Passes          \* Passes[check]: versions of the tree that pass it

Kinds == {"coverage", "detection", "false_alerts"}
ReleaseAssumption ==
    MaxEdits \in Nat /\ Passes \in [Kinds \cup {"files"} -> SUBSET (1..MaxEdits)]

VARIABLES
    tree,           \* version of the tracked files that are not outputs
    stray,          \* an untracked file no classification rule matches
    coverageJson,   \* the tree coverage.json was measured on
    evidence,       \* stamped evidence of coverage, detection and false alerts
    assets,         \* the assets on disk
    licensed,       \* the tree the license inventory was taken from
    audited,        \* the scanners found nothing that blocks
    manifest,       \* the tree the manifest is of, and its decision
    listed,         \* lines of SHA256SUMS that match their asset
    step            \* next step of the checklist; 0 when something else intervened

releaseVars == <<tree, stray, coverageJson, evidence, assets, licensed, audited,
                 manifest, listed, step>>
outputs == <<coverageJson, evidence, assets, licensed, audited, manifest, listed>>

CanonicalAssets == {"sbom", "manifest", "licenses", "security"}
Checklist ==
    <<"tests", "coverage", "detection", "false_alerts", "licenses", "sbom", "security",
      "manifest", "checksums", "manifest", "checksums">>

NoTree == 0
NoStamp == <<NoTree, {}>>
NoEvidence == [stamp |-> NoStamp, of |-> NoTree]

ReleaseInit ==
    /\ tree = 1 /\ stray \in BOOLEAN
    /\ coverageJson = NoTree
    /\ evidence = [k \in Kinds |-> NoEvidence]
    /\ assets = {} /\ licensed = NoTree /\ audited = FALSE
    /\ manifest = [on |-> NoStamp, ready |-> FALSE]
    /\ listed = {}
    /\ step = 0

(* What compute_source_snapshot() digests. *)
FingerprintOfManifest == <<tree, assets \cap {"manifest"}>>     \* a slip: the manifest is not excluded
Fingerprint == <<tree, {}>>

(* A command is the next step of the checklist, or nobody follows it. *)
Run(command) ==
    \/ step = 0 /\ step' = 0
    \/ step \in DOMAIN Checklist /\ Checklist[step] = command /\ step' = step + 1

BeginOrLeave ==
    /\ step' = IF step = 0 THEN 1 ELSE 0
    /\ UNCHANGED <<tree, stray, outputs>>

------------------------------------------------------------------------------
Tests ==
    /\ Run("tests")
    /\ coverageJson' = tree
    /\ UNCHANGED <<tree, stray, evidence, assets, licensed, audited, manifest, listed>>

Stamped(kind, of) ==
    evidence' = [evidence EXCEPT ![kind] = [stamp |-> Fingerprint, of |-> of]]

(* measure-coverage stamps whatever coverage.json it is given. *)
MeasureCoverage ==
    /\ coverageJson # NoTree
    /\ Run("coverage")
    /\ Stamped("coverage", coverageJson)
    /\ UNCHANGED <<tree, stray, coverageJson, assets, licensed, audited, manifest, listed>>

Evaluate(kind) ==
    /\ Run(kind)
    /\ Stamped(kind, tree)
    /\ UNCHANGED <<tree, stray, coverageJson, assets, licensed, audited, manifest, listed>>

EvaluateDetection == Evaluate("detection")
EvaluateFalseAlerts == Evaluate("false_alerts")

(* An asset with a serial number or a date has new bytes at every writing. *)
Rewritten(asset) == assets' = assets \cup {asset} /\ listed' = listed \ {asset}

(* The inventory has no date: from the same tree come the same bytes. *)
LicenseInventory == tree
Licenses ==
    /\ Run("licenses")
    /\ assets' = assets \cup {"licenses"}
    /\ listed' = IF licensed = LicenseInventory THEN listed ELSE listed \ {"licenses"}
    /\ licensed' = LicenseInventory
    /\ UNCHANGED <<tree, stray, coverageJson, evidence, audited, manifest>>

Sbom ==
    /\ Run("sbom")
    /\ Rewritten("sbom")
    /\ UNCHANGED <<tree, stray, coverageJson, evidence, licensed, audited, manifest>>

(* A report that is missing blocks, as a finding without an exception does, *)
(* or a secret in the image.                                               *)
PipAuditReports == {"missing", "blocking", "clean"}
TrivyReports == {"missing", "blocking", "secret", "clean"}
Passed(pip, trivy) == pip = "clean" /\ trivy = "clean"
Security ==
    /\ Run("security")
    /\ Rewritten("security")
    /\ \E pip \in PipAuditReports, trivy \in TrivyReports : audited' = Passed(pip, trivy)
    /\ UNCHANGED <<tree, stray, coverageJson, evidence, licensed, manifest>>

Good(kind) == evidence[kind].of \in Passes[kind]
Gate(kind) == evidence[kind].stamp = Fingerprint /\ Good(kind)
CoverageGate == Gate("coverage")
MonitoringGate == Gate("detection") /\ Gate("false_alerts")
ChecksumsVerified == CanonicalAssets \subseteq assets /\ listed = CanonicalAssets
Resolved == ~stray

(* The checks that only look at tracked files. *)
FilesPass == tree \in Passes["files"]

(* run_release_integrity_checks() *)
Validates ==
    /\ FilesPass
    /\ CoverageGate /\ MonitoringGate
    /\ Resolved
    /\ ChecksumsVerified

Ready(scan) == Validates /\ scan # "failed"

(* The status of the scan is an argument: the audit itself is not read. *)
WriteManifest ==
    /\ Run("manifest")
    /\ \E scan \in {"failed", "verified", "not_executed"} :
          /\ step' # 0 => scan = IF audited THEN "verified" ELSE "failed"
          /\ manifest' = [on |-> Fingerprint, ready |-> Ready(scan)]
    /\ Rewritten("manifest")
    /\ UNCHANGED <<tree, stray, coverageJson, evidence, licensed, audited>>

Checksums ==
    /\ CanonicalAssets \subseteq assets
    /\ Run("checksums")
    /\ listed' = CanonicalAssets
    /\ UNCHANGED <<tree, stray, coverageJson, evidence, assets, licensed, audited, manifest>>

Edit ==
    /\ tree < MaxEdits
    /\ tree' = tree + 1
    /\ step' = 0
    /\ UNCHANGED <<stray, outputs>>

DropStray ==
    /\ stray
    /\ stray' = FALSE /\ step' = 0
    /\ UNCHANGED <<tree, outputs>>

ReleaseNext ==
    \/ BeginOrLeave \/ Tests \/ MeasureCoverage \/ EvaluateDetection \/ EvaluateFalseAlerts
    \/ Licenses \/ Sbom \/ Security \/ WriteManifest \/ Checksums \/ Edit \/ DropStray

------------------------------------------------------------------------------
Accepted ==
    /\ Resolved /\ audited
    /\ \A check \in DOMAIN Passes : tree \in Passes[check]

(* The checklist converges: followed once, undisturbed, on a tree that     *)
(* deserves it, it ends with a manifest that is ready and of this tree, and *)
(* a release that validates, whatever an earlier release left behind and   *)
(* although each step writes tracked files after the evidence was stamped. *)
ChecklistConverges ==
    (step > Len(Checklist) /\ Accepted) =>
        /\ Validates
        /\ manifest.ready /\ manifest.on = Fingerprint
==============================================================================
