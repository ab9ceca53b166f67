------------------------------- MODULE Intake -------------------------------
(***************************************************************************)
(* The gate in front of scoring: one monitoring batch is profiled, then    *)
(* held to the input contract, which blocks it whole or takes rows out of  *)
(* it, and what is left is scored.                                         *)
(*                                                                         *)
(* A batch is a sequence of rows, each with an identifier, the class of a  *)
(* delinquency status and the class of an amount; every column of its kind *)
(* is checked in the same way.                                             *)
(***************************************************************************)
EXTENDS Integers, Sequences, FiniteSets

CONSTANTS
    Ids,        \* identifiers a row may have
    Statuses,   \* classes of a status: "known", "unknown", "missing", "text"
    Amounts,    \* classes of an amount: "usual", "infinite", "impossible"
    MaxRows     \* bound of the exploration

IntakeAssumption ==
    /\ IsFiniteSet(Ids)
    /\ "known" \in Statuses /\ Statuses \subseteq {"known", "unknown", "missing", "text"}
    /\ "usual" \in Amounts /\ Amounts \subseteq {"usual", "infinite", "impossible"}
    /\ MaxRows \in Nat \ {0}

VARIABLES
    raw,        \* the batch: [schema, rows]
    profile,    \* the audit report of the raw batch, None before
    strict,     \* the strict report, "blocked", or None
    scored,     \* positions of the rows that got a score
    quarantine, \* positions of the rows in the quarantine file
    intake      \* audit, strict, quarantine, score, then done, blocked or died

intakeVars == <<raw, profile, strict, scored, quarantine, intake>>

None == [found |-> {}, rates |-> <<>>]
NotScored == {}

Row == [id : Ids, status : Statuses, amount : Amounts]
Schema == {"complete", "column missing", "column extra"}

------------------------------------------------------------------------------
(* Violations.  One of the batch is a column that is missing, not part of  *)
(* the schema, or holds text; text in a column that has missing values as  *)
(* well is not told from them.                                             *)
WrongDtype(rows) ==
    /\ \E p \in DOMAIN rows : rows[p].status = "text"
    /\ \A p \in DOMAIN rows : rows[p].status # "missing"

CheckSchema(batch) ==
    {fault \in {"missing_required_column", "unexpected_extra_column", "wrong_dtype"} :
        \/ fault = "missing_required_column" /\ batch.schema = "column missing"
        \/ fault = "unexpected_extra_column" /\ batch.schema = "column extra"
        \/ fault = "wrong_dtype" /\ WrongDtype(batch.rows)}

(* Every later row of an identifier is a duplicate, the first one is not.  *)
NotDuplicated(rows) == {}
Duplicated(rows) ==
    {p \in DOMAIN rows : \E q \in 1 .. p - 1 : rows[q].id = rows[p].id}

NonFinite(rows) ==
    {p \in DOMAIN rows : rows[p].status \in {"missing", "text"}}
        \cup {p \in DOMAIN rows : rows[p].amount = "infinite"}
OutOfDomain(rows) == {p \in DOMAIN rows : rows[p].status = "unknown"}
OutOfRange(rows) ==
    {p \in DOMAIN rows : rows[p].amount \in {"impossible", "infinite"}}

CheckRows(rows) ==
    ({"duplicate_id"} \X Duplicated(rows))
        \cup ({"non_finite_value"} \X NonFinite(rows))
        \cup ({"domain_violation"} \X OutOfDomain(rows))
        \cup ({"range_violation"} \X OutOfRange(rows))

(* A violation names the identifier of its row, not the row.               *)
QuarantinedIds(rows, found) == {rows[v[2]].id : v \in found}

(* The rows without any quarantined identifier: with a duplicate goes the  *)
(* first row of the identifier as well, and every other row that has it.   *)
CleanRowsByPosition(rows, found) == DOMAIN rows \ {v[2] : v \in found}
CleanRows(rows, found) ==
    {p \in DOMAIN rows : rows[p].id \notin QuarantinedIds(rows, found)}

(* What the profile counts, per kind of violation: non-finite values are   *)
(* reported as missing ones.                                               *)
DataQuality(found) ==
    [missingness |-> Cardinality({v \in found : v[1] = "non_finite_value"}),
     duplicates |-> Cardinality({v \in found : v[1] = "duplicate_id"}),
     domain |-> Cardinality({v \in found : v[1] = "domain_violation"}),
     range |-> Cardinality({v \in found : v[1] = "range_violation"})]

------------------------------------------------------------------------------
(* A sample of clean rows is spoiled in six ways, each of which the        *)
(* contract must notice, with an exception or with a quarantined row.      *)
Probe(kind, rows) ==
    [schema |-> CASE kind = "missing_required_column" -> "column missing"
                  [] kind = "unexpected_extra_column" -> "column extra"
                  [] OTHER -> "complete",
     rows |-> CASE kind = "domain_violation" -> [rows EXCEPT ![1].status = "unknown"]
                [] kind = "non_finite_value" -> [rows EXCEPT ![1].status = "missing"]
                [] kind = "range_violation" -> [rows EXCEPT ![1].amount = "impossible"]
                [] kind = "duplicate_id" -> [rows EXCEPT ![Len(rows)].id = rows[1].id]
                [] OTHER -> rows]

SelfTest(rows) ==
    /\ \A kind \in {"missing_required_column", "unexpected_extra_column"} :
          CheckSchema(Probe(kind, rows)) # {}
    /\ \A kind \in {"domain_violation", "non_finite_value", "range_violation",
                    "duplicate_id"} :
          LET probe == Probe(kind, rows)
          IN  /\ CheckSchema(probe) = {}
              /\ QuarantinedIds(probe.rows, CheckRows(probe.rows)) # {}

------------------------------------------------------------------------------
IntakeInit ==
    /\ raw \in [schema : Schema, rows : UNION {[1 .. n -> Row] : n \in 1 .. MaxRows}]
    /\ profile = None /\ strict = "none"
    /\ scored = NotScored /\ quarantine = {}
    /\ intake = "audit"

(* The profile is taken of the raw batch, before anything is taken out.    *)
AuditBatch ==
    /\ intake = "audit"
    /\ LET found == IF CheckSchema(raw) # {} THEN {} ELSE CheckRows(raw.rows)
       IN  profile' = [found |-> found, rates |-> DataQuality(found)]
    /\ intake' = "strict"
    /\ UNCHANGED <<raw, strict, scored, quarantine>>

BlockBatch ==
    /\ intake = "strict" /\ CheckSchema(raw) # {}
    /\ strict' = "blocked" /\ intake' = "blocked"
    /\ UNCHANGED <<raw, profile, scored, quarantine>>

AdmitBatch ==
    /\ intake = "strict" /\ CheckSchema(raw) = {}
    /\ strict' = "admitted"
    /\ intake' = IF CheckRows(raw.rows) = {} THEN "score" ELSE "quarantine"
    /\ UNCHANGED <<raw, profile, scored, quarantine>>

WriteQuarantine ==
    /\ intake = "quarantine"
    /\ quarantine' =
          {p \in DOMAIN raw.rows :
              raw.rows[p].id \in QuarantinedIds(raw.rows, CheckRows(raw.rows))}
    /\ intake' = "score"
    /\ UNCHANGED <<raw, profile, strict, scored>>

(* With no row left the pipeline refuses to predict and the run dies.      *)
ScoreBatch ==
    /\ intake = "score"
    /\ scored' = CleanRows(raw.rows, CheckRows(raw.rows))
    /\ intake' = IF scored' = {} THEN "died" ELSE "done"
    /\ UNCHANGED <<raw, profile, strict, quarantine>>

IntakeNext ==
    AuditBatch \/ BlockBatch \/ AdmitBatch \/ WriteQuarantine \/ ScoreBatch

------------------------------------------------------------------------------
(* A batch the run is through with is divided: every row was scored or is  *)
(* in the quarantine file, and none is both; a scored row has values a     *)
(* model was trained for, and no other row of the batch has its            *)
(* identifier; whatever was taken out shows in the profile; and a blocked  *)
(* batch left neither scores nor a file.                                   *)
BatchIsPartitioned ==
    /\ intake = "blocked" => scored = {} /\ quarantine = {}
    /\ intake \in {"done", "died"} =>
          /\ scored \cup quarantine = DOMAIN raw.rows
          /\ scored \cap quarantine = {}
          /\ quarantine # {} => \E rate \in DOMAIN profile.rates : profile.rates[rate] > 0
    /\ \A p \in scored :
          /\ raw.rows[p].status = "known" /\ raw.rows[p].amount = "usual"
          /\ \A q \in DOMAIN raw.rows \ {p} : raw.rows[q].id # raw.rows[p].id

(* The self-test of a model validation finds the contract working on every *)
(* sample it accepts as it is, if that has two rows.                       *)
SelfTestAccepts ==
    (/\ Len(raw.rows) > 1
     /\ CheckSchema(raw) = {} /\ CheckRows(raw.rows) = {}) => SelfTest(raw.rows)
==============================================================================
