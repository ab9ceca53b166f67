------------------------------ MODULE Incidents ------------------------------
(***************************************************************************)
(* One monitoring run: the batches of a stream are checked one after the   *)
(* other against calibrated thresholds, what crosses one becomes a signal  *)
(* (monitoring/runner.py, alerts.py), and the signals are grouped, graded  *)
(* and chained into incidents (incidents.py).                              *)
(*                                                                         *)
(* A statistic is how far it deviates from the reference: "within",        *)
(* "review" or "material_deviation" of its two cutoffs.                    *)
(***************************************************************************)
EXTENDS Integers, Sequences, FiniteSets

CONSTANTS
    Batches,        \* number of batches of a batch set
    Window,         \* consecutive_batches_for_incident
    Streams,        \* sets of categories observed together in one stream
    Planted         \* batches whose scenario perturbs the data

Categories == {"data_quality", "feature_drift", "score_drift", "performance_drift",
               "target_distribution_drift", "subgroup_composition_drift"}
Labelled == {"performance_drift", "target_distribution_drift"}
Deviations == {"within", "review", "material_deviation"}

IncidentsAssumption ==
    /\ Batches \in Nat /\ Window \in Nat \ {0} /\ Planted \subseteq 1..Batches
    /\ Streams \subseteq SUBSET Categories

VARIABLES
    watched,        \* categories in which this stream may deviate
    calibrated,     \* calibrate-reference has run: more than the first cutoffs exist
    history,        \* the observations of the batches processed so far
    alerts,         \* the signals raised
    report          \* the incident report, or NoReport

incidentVars == <<watched, calibrated, history, alerts, report>>

NoReport == [groups |-> {}, incidents |-> {}, written |-> FALSE]

(* family: the largest per-feature deviation, by the family-wise cutoffs.  *)
Observation ==
    [deviation: [watched -> Deviations], family: Deviations,
     blocked: BOOLEAN, few: BOOLEAN, labels: BOOLEAN]

(* Observations that differ in nothing the checks look at are left out. *)
Relevant(o) ==
    /\ o.family # "within" => "feature_drift" \in watched /\ o.deviation["feature_drift"] = "review"
    /\ o.few => \A c \in watched : o.deviation[c] = "material_deviation"
    /\ ~o.labels => /\ ~o.few /\ watched \cap Labelled # {}
                    /\ \A c \in watched : o.deviation[c] = "material_deviation"
    /\ o.blocked => /\ o.labels
                    /\ \A c \in watched \ {"data_quality"} : o.deviation[c] = "within"

Init ==
    /\ watched \in Streams
    /\ calibrated \in BOOLEAN
    /\ history = <<>>
    /\ alerts = {}
    /\ report = NoReport

------------------------------------------------------------------------------
(* A sample too small to trust is not the same as no deviation. *)
ClassifyState(deviation, few) == IF few THEN "insufficient_sample" ELSE deviation

(* The thresholds of create-reference; the others come with calibrate-reference. *)
Thresholds ==
    {"feature_drift", "score_drift", "performance_drift"}
        \cup IF calibrated
             THEN {"data_quality", "target_distribution_drift",
                   "subgroup_composition_drift", "family"}
             ELSE {}

Signal(batch, category, metric, status) ==
    [batch |-> batch, category |-> category, metric |-> metric, status |-> status]

BuildAlert(batch, category, metric, state) ==
    IF state \in {"within", "insufficient_sample"} THEN {}
    ELSE {Signal(batch, category, metric, state)}

(* The checks of a batch whose schema is sound. *)
Checked(o) ==
    {c \in watched \cap Thresholds :
        c # "data_quality" /\ (c \in Labelled => o.labels)}

Graded(batch, o, category, metric, deviation) ==
    BuildAlert(batch, category, metric, ClassifyState(deviation, o.few))

(* Raised for the raw batch, blocked or not. *)
QualitySignals(batch, o) ==
    IF "data_quality" \in watched \cap Thresholds
    THEN Graded(batch, o, "data_quality", "data_quality", o.deviation["data_quality"])
    ELSE {}
BlockedSignal(batch) == Signal(batch, "data_quality", "schema", "blocked_input")

(* One check for each feature, and one for the largest deviation of all. *)
FamilySignals(batch, o) ==
    IF "family" \in Thresholds THEN Graded(batch, o, "feature_drift", "family", o.family) ELSE {}
CheckSignals(batch, o) == UNION {Graded(batch, o, c, c, o.deviation[c]) : c \in Checked(o)}

ProcessBatch(batch, o) ==
    QualitySignals(batch, o)
        \cup IF o.blocked THEN {BlockedSignal(batch)}
             ELSE FamilySignals(batch, o) \cup CheckSignals(batch, o)

Process ==
    /\ Len(history) < Batches
    /\ \E o \in Observation :
          /\ Relevant(o)
          /\ alerts' = alerts \cup ProcessBatch(Len(history) + 1, o)
          /\ history' = Append(history, o)
    /\ UNCHANGED <<watched, calibrated, report>>

------------------------------------------------------------------------------
SignalsOf(batch, category) == {s \in alerts : s.batch = batch /\ s.category = category}
HasStatus(signals, status) == \E s \in signals : s.status = status

ConfirmedLater(batch, category) ==      \* a slip: any later batch will do
    \E s \in alerts : s.category = category /\ s.batch > batch
ConfirmedNext(batch, category) == SignalsOf(batch + 1, category) # {}

GroupSeverity(category, signals, confirmed) ==
    LET ofFamily == {s \in signals : s.metric = "family"}
        decisive == IF category = "feature_drift" THEN ofFamily ELSE signals
    IN  IF HasStatus(signals, "blocked_input") THEN "high"
        ELSE IF HasStatus(decisive, "material_deviation") /\ confirmed THEN "high"
        ELSE IF decisive # {} THEN "medium"
        ELSE "low"

AlertGroup(batch, category) ==
    LET signals == SignalsOf(batch, category)
        severity == GroupSeverity(category, signals, ConfirmedNext(batch, category)) IN
    [batch |-> batch, category |-> category, severity |-> severity,
     status |-> IF HasStatus(signals, "blocked_input") THEN "blocked_input" ELSE severity]

BuildAlertGroups == {AlertGroup(s.batch, s.category) : s \in alerts}

Incident(category, batches, severity) ==
    [category |-> category, batches |-> batches, severity |-> severity]

(* A chain is the set of its groups; a category has one group per batch.   *)
IncidentFromRun(category, run) ==
    Incident(category, {g.batch : g \in run},
             IF \E g \in run : g.severity = "high" THEN "high" ELSE "medium")

LongEnough(run) == Cardinality(run) >= Window
Flush(category, acc) ==
    IF LongEnough(acc.run) THEN acc.found \cup {IncidentFromRun(category, acc.run)} ELSE acc.found
FlushNone(category, acc) == acc.found       \* a slip: a chain still open at the end is forgotten
FlushLast(category, acc) == Flush(category, acc)

Eligible(groups, category, batch) ==
    {g \in groups : /\ g.batch = batch /\ g.category = category
                    /\ g.status # "blocked_input" /\ g.severity # "low"}
Continues(run, batch) == \E g \in run : batch = g.batch + 1

Chained(category, acc, batch, here) ==
    IF here = {} THEN acc
    ELSE IF Continues(acc.run, batch) THEN [run |-> acc.run \cup here, found |-> acc.found]
    ELSE [run |-> here, found |-> Flush(category, acc)]

Chains(groups, category) ==
    LET after[b \in 0..Batches] ==
            IF b = 0 THEN [run |-> {}, found |-> {}]
            ELSE Chained(category, after[b - 1], b, Eligible(groups, category, b))
    IN  FlushLast(category, after[Batches])

BuildIncidents(groups) ==
    {Incident(g.category, {g.batch}, "high") : g \in {h \in groups : h.status = "blocked_input"}}
        \cup UNION {Chains(groups, c) : c \in {g.category : g \in groups}}

(* A row of the detection evaluation. What an unperturbed scenario is      *)
(* expected to raise is called "none".                                     *)
ExpectedCategories(batch) == IF batch \in Planted THEN watched ELSE {"none"}

DetectionRow(groups, batch) ==
    LET detected == \E g \in groups : g.batch = batch /\ g.category \in ExpectedCategories(batch)
    IN  [true_positive |-> batch \in Planted /\ detected,
         false_positive |-> batch \notin Planted /\ detected,
         false_negative |-> batch \in Planted /\ ~detected]

WriteReport ==
    /\ Len(history) = Batches /\ ~report.written
    /\ LET groups == BuildAlertGroups IN
       report' = [groups |-> groups, incidents |-> BuildIncidents(groups), written |-> TRUE,
                  detection |-> [b \in 1..Batches |-> DetectionRow(groups, b)]]
    /\ UNCHANGED <<watched, calibrated, history, alerts>>

Next == Process \/ WriteReport
Spec == Init /\ [][Next]_incidentVars

------------------------------------------------------------------------------
(* Which batches of a category carry more than a marginal per-feature      *)
(* signal, said of the observations and not of the signals.                *)
Significant(b, c) ==
    LET o == history[b] IN
    /\ c \in watched \cap Thresholds /\ ~o.few
    /\ c = "data_quality" \/ ~o.blocked
    /\ c \in Labelled => o.labels
    /\ CASE c = "feature_drift" -> calibrated /\ o.family # "within"
         [] c = "data_quality" -> ~o.blocked /\ o.deviation[c] # "within"
         [] OTHER -> o.deviation[c] # "within"

(* The incidents of the report are exactly the blocked batches, each on its *)
(* own, and the maximal runs of at least Window consecutive significant    *)
(* batches of one category: none is cut short, merged over a gap or        *)
(* forgotten at the end of the stream.                                     *)
IncidentsAreMaximalRuns ==
    report.written =>
        LET Run(c, a, b) == /\ a <= b /\ b - a + 1 >= Window
                            /\ \A i \in a..b : Significant(i, c)
                            /\ a = 1 \/ ~Significant(a - 1, c)
                            /\ b = Batches \/ ~Significant(b + 1, c)
        IN  {<<i.category, i.batches>> : i \in report.incidents} =
                {<<"data_quality", {b}>> : b \in {n \in 1..Batches : history[n].blocked}}
                \cup UNION {{<<c, r[1]..r[2]>> :
                             r \in {p \in (1..Batches) \X (1..Batches) : Run(c, p[1], p[2])}} :
                            c \in watched}

(* No deviation is graded high on one batch alone: unless its schema is    *)
(* broken, a batch is high only when the very next one has a signal of the *)
(* same category.                                                          *)
NoIsolatedHigh ==
    \A g \in report.groups :
        (g.severity = "high" /\ ~history[g.batch].blocked) =>
            /\ g.batch < Batches
            /\ \E h \in report.groups : h.batch = g.batch + 1 /\ h.category = g.category
==============================================================================
