------------------------------ MODULE MCCommands ------------------------------
(***************************************************************************)
(* Each of the components on a small instance.                             *)
(***************************************************************************)
EXTENDS Commands

(* An archive holds one member, a series is asked window by window, and a  *)
(* restricted source is refused.                                           *)
MCRawSources == {"zip", "sgs1", "kaggle"}
MCRawRegistries == {{"zip", "kaggle"}, {"sgs1"}}
MCRawKind == [zip |-> "archive", sgs1 |-> "series", kaggle |-> "restricted"]

(* One scenario that tightens the policy, one that shocks the second month, *)
(* and one whose population differs from the baseline's.                    *)
Scenario(name, common, cutoff, shock) ==
    [name |-> name, crn |-> common, cutoff |-> cutoff, onTime |-> 2, cure |-> 1, shock |-> shock]
MCScenarios ==
    {Scenario("policy_tightening", TRUE, 2, 0), Scenario("macroeconomic_stress", TRUE, 1, 2),
     Scenario("collections_change", FALSE, 1, 0)}

(* Overlapping groups: three exact combinations, and a finite one.          *)
MCFeatureTier == [f1 |-> "allowed", f2 |-> "prohibited", f3 |-> "conditional",
                f4 |-> "ungoverned", f5 |-> "allowed"]
MCFeatureGroups ==
    SUBSET {[members |-> {"f1", "f2"}, vif |-> 100], [members |-> {"f2", "f3"}, vif |-> 100],
            [members |-> {"f3", "f4", "f5"}, vif |-> 100], [members |-> {"f1", "f2", "f5"}, vif |-> 20]}

(* Of the audits one passes; one although the sign of x is as unstable as   *)
(* the mean must not be, one although x is determined by y; the others are *)
(* rejected for a finite inflation, and for the mean of the sign flips.     *)
Audit(score, vif, flips) ==
    [score |-> score, vif |-> [x |-> vif, y |-> vif], flips |-> [x |-> flips, y |-> 0]]
MCReducedAudits ==
    {Audit(1, 2, 0), Audit(3, 2, 20), Audit(1, 100, 0), Audit(1, 10, 0), Audit(1, 2, 40)}

(* Six rows, three of each class; a revision that replaces a row, and one  *)
(* that drops it.                                                          *)
MCDatasetVersions == <<1 .. 6, (1 .. 5) \cup {7}, 1 .. 5>>
MCSplitParts == [train |-> 1, validation |-> 1, test |-> 1]

MCStreams == {{"feature_drift"}, {"data_quality"}, {"performance_drift"}}

(* The first version of the tree only passes its coverage check.            *)
MCReleasePasses ==
    [files |-> {2}, coverage |-> {1, 2}, detection |-> {2}, false_alerts |-> {2}]

(* The loans (an amount and its term), the days from an application to its  *)
(* decision, contract and disbursement, and the lengths of the months.      *)
MCOriginLoans == {<<101, 3>>, <<250, 5>>}
MCOriginDelays == {<<0, 0, 0>>, <<4, 10, 2>>}
MCOriginMonthDays == <<31, 28, 31, 30, 31, 30, 31, 31>>

(* The columns in the order of the audit, and what a feature adds to a      *)
(* score.                                                                   *)
MCFeatureColumns == <<"f1", "f2", "f3", "f4", "f5">>
MCFeatureContributions == {-2, 1}

(* Four rows, two of them tied; and the byproducts in the order they are    *)
(* listed for review.                                                       *)
MCControlScores == {<<0, 1, 1, 2>>}
MCCleanupOrder == <<"e1", "e2", "e3">>
==============================================================================
