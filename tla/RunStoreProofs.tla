---------------------------- MODULE RunStoreProofs ----------------------------
(***************************************************************************)
(* Theorems about RunStore, for any runs, suite, tables, number of         *)
(* versions and outcome of validation.                                     *)
(***************************************************************************)
EXTENDS RunStore, SequenceTheorems, TLAPS

-----------------------------------------------------------------------------
(***************************************************************************)
(* Directories.                                                            *)
(***************************************************************************)

\* A directory with no other files than names, of versions up to v.
UpTo(d, names, v) ==
    /\ d.exists \in BOOLEAN
    /\ DOMAIN d.files \subseteq (IF d.exists THEN names ELSE {})
    /\ \A f \in DOMAIN d.files : d.files[f] \in 1..v

\* A directory whose files are of one version, and that one passed for r.
OneValid(d, r) ==
    \A f, g \in DOMAIN d.files : d.files[f] = d.files[g] /\ Valid[r][d.files[f]]

LEMMA NoDirIsEmpty == ~NoDir.exists /\ NoDir.exists \in BOOLEAN /\ DOMAIN NoDir.files = {}
<1>1. DOMAIN << >> = {}
  BY EmptySeq, LenProperties
<1> QED BY <1>1 DEF NoDir

LEMMA CompleteFiles ==
    ASSUME NEW names, NEW v
    PROVE  /\ Complete(names, v).exists
           /\ Complete(names, v).exists \in BOOLEAN
           /\ DOMAIN Complete(names, v).files = names
           /\ \A f \in names : Complete(names, v).files[f] = v
BY DEF Complete, Dir

(***************************************************************************)
(* What one step of rmtree() leaves has fewer files, and the same in them. *)
(***************************************************************************)
LEMMA RemoveOneKeepsTheRest ==
    ASSUME NEW d, d.exists, NEW e \in RemoveOne(d)
    PROVE  /\ e.exists \in BOOLEAN
           /\ e.exists => d.exists
           /\ ~e.exists => DOMAIN e.files = {}
           /\ DOMAIN e.files \subseteq DOMAIN d.files
           /\ \A f \in DOMAIN e.files : e.files[f] = d.files[f]
<1>1. CASE DOMAIN d.files = {}
  <2>1. e = NoDir
    BY <1>1 DEF RemoveOne
  <2> QED BY <2>1, NoDirIsEmpty
<1>2. CASE DOMAIN d.files # {}
  <2>1. PICK g \in DOMAIN d.files :
            e = Dir([f \in DOMAIN d.files \ {g} |-> d.files[f]])
    BY <1>2 DEF RemoveOne
  <2>2. e.exists /\ e.exists \in BOOLEAN /\ e.files = [f \in DOMAIN d.files \ {g} |-> d.files[f]]
    BY <2>1 DEF Dir
  <2> QED BY <2>2
<1> QED BY <1>1, <1>2

LEMMA RemoveOneUpTo ==
    ASSUME NEW d, d.exists, NEW names, NEW v, UpTo(d, names, v), NEW e \in RemoveOne(d)
    PROVE  UpTo(e, names, v)
BY RemoveOneKeepsTheRest DEF UpTo

LEMMA RemoveOneOneValid ==
    ASSUME NEW d, d.exists, NEW r, OneValid(d, r), NEW e \in RemoveOne(d)
    PROVE  OneValid(e, r)
BY RemoveOneKeepsTheRest DEF OneValid

LEMMA CompleteUpTo ==
    ASSUME NEW names, NEW v \in Nat \ {0}
    PROVE  UpTo(Complete(names, v), names, v)
<1>1. v \in 1..v
  OBVIOUS
<1> QED BY <1>1, CompleteFiles DEF UpTo

LEMMA CompleteOneValid ==
    ASSUME NEW names, NEW r, NEW v, Valid[r][v]
    PROVE  OneValid(Complete(names, v), r)
BY CompleteFiles DEF OneValid

-----------------------------------------------------------------------------
(***************************************************************************)
(* The invariant.                                                          *)
(***************************************************************************)
Outcomes == {"none", "running", "refused", "raised", "interrupted", "failed", "completed"}

\* The part of StoreTypeOK that is not about the directories.
ControlOK ==
    /\ code \in Codes
    /\ DOMAIN op = Runs /\ DOMAIN truth = Runs
    /\ suiteManifest \in {Torn, 0} \cup 1..code
    /\ pc \in {"idle", "begin", "staged", "promoted", "suite"}
    /\ queue \in Seq(Runs)
    /\ (queue = <<>> <=> pc \in {"idle", "suite"})
    /\ force \in BOOLEAN /\ suite \in BOOLEAN
    /\ outcome \in [Runs -> Outcomes]

\* The part that is, with OnlyValidatedPublished.
ContentsOK ==
    \A r \in Runs : /\ UpTo(op[r], OpFiles, code) /\ OneValid(op[r], r)
                    /\ UpTo(truth[r], TruthFiles, code) /\ OneValid(truth[r], r)

\* The run in hand is not taken for completed while its directories change.
RunInHand == pc \in {"staged", "promoted"} => outcome[This] = "running"

\* Between the two renames the tables are in place, and with --force the truth
\* directory is free.
HalfPromoted ==
    pc = "promoted" => /\ Valid[This][code]
                       /\ op[This] = Complete(OpFiles, code)
                       /\ force => ~truth[This].exists

StoreInv == ControlOK /\ ContentsOK /\ CompletedRunsPaired /\ RunInHand /\ HalfPromoted

LEMMA StoreInvGivesTypes ==
    ASSUME StoreInv
    PROVE  StoreTypeOK /\ OnlyValidatedPublished
<1>1. \A r \in Runs : IsDir(op[r], OpFiles) /\ IsDir(truth[r], TruthFiles)
  BY DEF StoreInv, ContentsOK, UpTo, IsDir
<1>2. StoreTypeOK
  BY <1>1 DEF StoreInv, ControlOK, StoreTypeOK, Outcomes
<1>3. OnlyValidatedPublished
  BY DEF StoreInv, ContentsOK, OneValid, OnlyValidatedPublished
<1> QED BY <1>2, <1>3

LEMMA CodeNat ==
    ASSUME ControlOK
    PROVE  code \in Nat \ {0} /\ 1 \in Codes
BY StoreAssumption DEF ControlOK, Codes

(***************************************************************************)
(* The queue: the head is a run, the rest is a queue.                      *)
(***************************************************************************)
LEMMA QueueInHand ==
    ASSUME ControlOK, queue # << >>
    PROVE  /\ This \in Runs
           /\ Tail(queue) \in Seq(Runs)
           /\ Len(queue) \in Nat
           /\ Tail(queue) = << >> <=> ~(Len(queue) > 1)
<1>1. queue \in Seq(Runs)
  BY DEF ControlOK
<1>2. Head(queue) \in Runs /\ Tail(queue) \in Seq(Runs) /\ Len(Tail(queue)) = Len(queue) - 1
  BY <1>1, HeadTailProperties
<1>3. Len(queue) \in Nat /\ Len(queue) # 0
  BY <1>1, EmptySeq, LenProperties
<1>4. Tail(queue) = << >> <=> Len(Tail(queue)) = 0
  BY <1>2, EmptySeq
<1> QED BY <1>2, <1>3, <1>4 DEF This

LEMMA InitStoreInv == Init => StoreInv
<1> SUFFICES ASSUME Init PROVE StoreInv
  OBVIOUS
<1>1. 1 \in Codes /\ << >> \in Seq(Runs)
  BY StoreAssumption, EmptySeq DEF Codes
<1>2. ControlOK
  BY <1>1 DEF Init, ControlOK, Outcomes
<1>3. ContentsOK
  BY NoDirIsEmpty DEF Init, ContentsOK, UpTo, OneValid
<1> QED BY <1>2, <1>3 DEF Init, StoreInv, CompletedRunsPaired, RunInHand, HalfPromoted

-----------------------------------------------------------------------------
(***************************************************************************)
(* Each part of the invariant is kept by every step.                       *)
(***************************************************************************)
LEMMA AdvanceControl ==
    ASSUME ControlOK, queue # << >>, Advance,
           DOMAIN op' = Runs, DOMAIN truth' = Runs, outcome' \in [Runs -> Outcomes]
    PROVE  ControlOK'
<1>1. (queue' = << >>) <=> (pc' \in {"idle", "suite"})
  BY QueueInHand DEF Advance
<1>2. pc' \in {"idle", "begin", "staged", "promoted", "suite"}
  BY DEF Advance
<1> QED BY <1>1, <1>2, QueueInHand DEF Advance, ControlOK, Codes

LEMMA AbortControl ==
    ASSUME ControlOK, queue # << >>, NEW how \in Outcomes, Abort(how), UNCHANGED op, UNCHANGED truth
    PROVE  ControlOK'
<1>1. outcome' \in [Runs -> Outcomes]
  BY QueueInHand DEF Abort, ControlOK
<1>2. queue' = << >> /\ queue' \in Seq(Runs) /\ pc' = "idle"
  BY EmptySeq DEF Abort
<1> QED BY <1>1, <1>2 DEF Abort, ControlOK, Codes

LEMMA CommandControl ==
    ASSUME ControlOK, NEW runs \in Seq(Runs), runs # << >>, NEW s \in BOOLEAN, NEW f \in BOOLEAN,
           Command(runs, s, f)
    PROVE  ControlOK'
BY DEF Command, ControlOK, Codes

LEMMA CommandQueues ==
    /\ \A r \in Runs : <<r>> \in Seq(Runs) /\ <<r>> # << >>
    /\ SuiteOrder \in Seq(Runs) /\ SuiteOrder # << >>
<1>1. ASSUME NEW r \in Runs PROVE <<r>> \in Seq(Runs) /\ <<r>> # << >>
  OBVIOUS
<1>2. SuiteOrder \in Seq(Runs) /\ SuiteOrder # << >>
  BY StoreAssumption, EmptySeq
<1> QED BY <1>1, <1>2

LEMMA ControlStep ==
    ASSUME ControlOK, [Generate]_storeVars
    PROVE  ControlOK'
<1>0. (pc \in {"begin", "staged", "promoted"}) => queue # << >>
  BY DEF ControlOK
<1>1. CASE Upgrade
  <2>1. code' \in Codes /\ 1..code \subseteq 1..code'
    BY <1>1, StoreAssumption DEF Upgrade, Codes, ControlOK
  <2> QED BY <1>1, <2>1 DEF Upgrade, ControlOK, Codes
<1>2. ASSUME NEW f \in BOOLEAN, NEW r \in Runs, Command(<<r>>, FALSE, f) PROVE ControlOK'
  BY <1>2, CommandControl, CommandQueues
<1>3. ASSUME NEW f \in BOOLEAN, Command(SuiteOrder, TRUE, f) PROVE ControlOK'
  BY <1>3, CommandControl, CommandQueues
<1>4. CASE RefuseExisting
  <2>1. "refused" \in Outcomes
    BY DEF Outcomes
  <2> QED BY <1>0, <1>4, <2>1, AbortControl DEF RefuseExisting
<1>5. CASE Stage
  <2>1. outcome' \in [Runs -> Outcomes]
    BY <1>0, <1>5, QueueInHand DEF Stage, ControlOK, Outcomes
  <2> QED BY <1>0, <1>5, <2>1 DEF Stage, ControlOK, Codes
<1>6. CASE KeepDiagnostics
  <2>1. outcome' \in [Runs -> Outcomes]
    BY <1>0, <1>6, QueueInHand DEF KeepDiagnostics, ControlOK, Outcomes
  <2>2. DOMAIN op' = Runs /\ DOMAIN truth' = Runs
    BY <1>6 DEF KeepDiagnostics, ControlOK
  <2> QED BY <1>0, <1>6, <2>1, <2>2, AdvanceControl DEF KeepDiagnostics
<1>7. CASE ClearOp
  BY <1>7 DEF ClearOp, ControlOK, Codes
<1>8. CASE ClearTruth
  BY <1>8 DEF ClearTruth, ControlOK, Codes
<1>9. CASE PromoteOp
  BY <1>0, <1>9 DEF PromoteOp, ControlOK, Codes
<1>10. CASE PromoteTruthRefused
  <2>1. "raised" \in Outcomes
    BY DEF Outcomes
  <2> QED BY <1>0, <1>10, <2>1, AbortControl DEF PromoteTruthRefused
<1>11. CASE PromoteTruth
  <2>1. outcome' \in [Runs -> Outcomes]
    BY <1>0, <1>11, QueueInHand DEF PromoteTruth, ControlOK, Outcomes
  <2>2. DOMAIN op' = Runs /\ DOMAIN truth' = Runs
    BY <1>11 DEF PromoteTruth, ControlOK
  <2> QED BY <1>0, <1>11, <2>1, <2>2, AdvanceControl DEF PromoteTruth
<1>12. CASE WriteSuiteManifest
  <2>1. code \in 1..code
    BY CodeNat
  <2> QED BY <1>12, <2>1 DEF WriteSuiteManifest, ControlOK, Codes
<1>13. CASE Interrupt
  <2>1. outcome' \in [Runs -> Outcomes]
    BY <1>0, <1>13, QueueInHand DEF Interrupt, ControlOK, Outcomes
  <2>2. queue' = << >> /\ queue' \in Seq(Runs) /\ pc' = "idle"
    BY <1>13, EmptySeq DEF Interrupt
  <2> QED BY <1>13, <2>1, <2>2 DEF Interrupt, ControlOK, Codes
<1>14. CASE UNCHANGED storeVars
  BY <1>14 DEF storeVars, ControlOK, Codes
<1> QED BY <1>1, <1>2, <1>3, <1>4, <1>5, <1>6, <1>7, <1>8, <1>9, <1>10, <1>11, <1>12,
           <1>13, <1>14 DEF Generate

(***************************************************************************)
(* What a step does to the final directories: nothing, one entry deleted   *)
(* by a forced command, or a whole directory put in place.                 *)
(***************************************************************************)
Quiet == op' = op /\ truth' = truth

LEMMA StepShapes ==
    ASSUME [Generate]_storeVars
    PROVE  \/ Quiet /\ (code' = code \/ Upgrade)
           \/ ClearOp \/ ClearTruth \/ PromoteOp \/ PromoteTruth
<1>1. CASE UNCHANGED storeVars
  BY <1>1 DEF storeVars, Quiet
<1>2. CASE Generate
  <2>1. ASSUME NEW runs, NEW s, NEW f, Command(runs, s, f) PROVE Quiet /\ code' = code
    BY <2>1 DEF Command, Quiet
  <2>2. RefuseExisting => Quiet /\ code' = code
    BY DEF RefuseExisting, Abort, Quiet
  <2>3. KeepDiagnostics => Quiet /\ code' = code
    BY DEF KeepDiagnostics, Advance, Quiet
  <2>4. PromoteTruthRefused => Quiet /\ code' = code
    BY DEF PromoteTruthRefused, Abort, Quiet
  <2>5. Upgrade => Quiet
    BY DEF Upgrade, Quiet
  <2>6. Stage \/ WriteSuiteManifest \/ Interrupt => Quiet /\ code' = code
    BY DEF Stage, WriteSuiteManifest, Interrupt, Quiet
  <2> QED BY <1>2, <2>1, <2>2, <2>3, <2>4, <2>5, <2>6 DEF Generate
<1> QED BY <1>1, <1>2

LEMMA HeldQueue ==
    ASSUME ControlOK, pc \in {"begin", "staged", "promoted"}
    PROVE  queue # << >> /\ This \in Runs
BY QueueInHand DEF ControlOK

LEMMA ContentsStep ==
    ASSUME StoreInv, [Generate]_storeVars
    PROVE  ContentsOK'
<1> USE DEF StoreInv
<1>0. code \in Nat \ {0} /\ DOMAIN op = Runs /\ DOMAIN truth = Runs
  BY CodeNat DEF ControlOK
<1>1. CASE Quiet /\ (code' = code \/ Upgrade)
  <2>1. 1..code \subseteq 1..code'
    BY <1>0, <1>1 DEF Upgrade
  <2> QED BY <1>1, <2>1 DEF Quiet, ContentsOK, UpTo, OneValid
<1>2. CASE ClearOp
  <2>1. PICK d \in RemoveOne(op[This]) : op' = [op EXCEPT ![This] = d]
    BY <1>2 DEF ClearOp
  <2>2. op[This].exists /\ This \in Runs
    BY <1>2, HeldQueue DEF ClearOp, ClearsOp
  <2>3. UpTo(d, OpFiles, code) /\ OneValid(d, This)
    BY <2>2, RemoveOneUpTo, RemoveOneOneValid DEF ContentsOK
  <2>4. \A r \in Runs : op'[r] = IF r = This THEN d ELSE op[r]
    BY <1>0, <2>1
  <2>5. \A r \in Runs : UpTo(op'[r], OpFiles, code) /\ OneValid(op'[r], r)
    BY <2>3, <2>4 DEF ContentsOK
  <2> QED BY <1>2, <2>5 DEF ClearOp, ContentsOK, UpTo, OneValid
<1>3. CASE ClearTruth
  <2>1. PICK d \in RemoveOne(truth[This]) : truth' = [truth EXCEPT ![This] = d]
    BY <1>3 DEF ClearTruth
  <2>2. truth[This].exists /\ This \in Runs
    BY <1>3, HeldQueue DEF ClearTruth, ClearsTruth
  <2>3. UpTo(d, TruthFiles, code) /\ OneValid(d, This)
    BY <2>2, RemoveOneUpTo, RemoveOneOneValid DEF ContentsOK
  <2>4. \A r \in Runs : truth'[r] = IF r = This THEN d ELSE truth[r]
    BY <1>0, <2>1
  <2>5. \A r \in Runs : UpTo(truth'[r], TruthFiles, code) /\ OneValid(truth'[r], r)
    BY <2>3, <2>4 DEF ContentsOK
  <2> QED BY <1>3, <2>5 DEF ClearTruth, ContentsOK, UpTo, OneValid
<1>4. CASE PromoteOp
  <2>1. op' = [op EXCEPT ![This] = Complete(OpFiles, code)] /\ This \in Runs /\ Valid[This][code]
    BY <1>4, HeldQueue DEF PromoteOp, Passed
  <2>2. UpTo(Complete(OpFiles, code), OpFiles, code) /\ OneValid(Complete(OpFiles, code), This)
    BY <1>0, <2>1, CompleteUpTo, CompleteOneValid
  <2>3. \A r \in Runs : op'[r] = IF r = This THEN Complete(OpFiles, code) ELSE op[r]
    BY <1>0, <2>1
  <2>4. \A r \in Runs : UpTo(op'[r], OpFiles, code) /\ OneValid(op'[r], r)
    BY <2>2, <2>3 DEF ContentsOK
  <2> QED BY <1>4, <2>4 DEF PromoteOp, ContentsOK, UpTo, OneValid
<1>5. CASE PromoteTruth
  <2> DEFINE new == Complete(TruthFiles, code)
  <2>1. truth' = [truth EXCEPT ![This] = new] /\ This \in Runs /\ Valid[This][code]
    BY <1>5, HeldQueue DEF PromoteTruth, TruthFree, TruthPublished, HalfPromoted
  <2>2. UpTo(new, TruthFiles, code) /\ OneValid(new, This)
    BY <1>0, <2>1, CompleteUpTo, CompleteOneValid
  <2>3. \A r \in Runs : truth'[r] = IF r = This THEN new ELSE truth[r]
    BY <1>0, <2>1
  <2> HIDE DEF new
  <2>4. \A r \in Runs : UpTo(truth'[r], TruthFiles, code) /\ OneValid(truth'[r], r)
    BY <2>2, <2>3 DEF ContentsOK
  <2> QED BY <1>5, <2>4 DEF PromoteTruth, Advance, ContentsOK, UpTo, OneValid
<1> QED BY <1>1, <1>2, <1>3, <1>4, <1>5, StepShapes

LEMMA PairedStep ==
    ASSUME StoreInv, [Generate]_storeVars
    PROVE  CompletedRunsPaired'
<1> USE DEF StoreInv
<1>0. /\ DOMAIN op = Runs /\ DOMAIN truth = Runs /\ outcome \in [Runs -> Outcomes]
      /\ code \in Codes
  BY DEF ControlOK
<1>1. ASSUME Quiet, \A r \in Runs : outcome'[r] = "completed" => outcome[r] = "completed"
      PROVE  CompletedRunsPaired'
  BY <1>1 DEF Quiet, CompletedRunsPaired
<1>2. CASE Generate /\ Quiet /\ ~PromoteTruth
  <2>1. pc \in {"begin", "staged", "promoted"} => This \in Runs
    BY HeldQueue
  <2>2. Upgrade \/ Stage \/ KeepDiagnostics \/ RefuseExisting \/ PromoteTruthRefused
          => \A r \in Runs : outcome'[r] = "completed" => outcome[r] = "completed"
    BY <1>0, <2>1 DEF Upgrade, Stage, KeepDiagnostics, RefuseExisting, PromoteTruthRefused, Abort
  <2>3. ASSUME NEW runs, NEW s, NEW f, Command(runs, s, f)
        PROVE  outcome' = outcome
    BY <2>3 DEF Command
  <2>4. WriteSuiteManifest \/ Interrupt
          => \A r \in Runs : outcome'[r] = "completed" => outcome[r] = "completed"
    BY <1>0 DEF WriteSuiteManifest, Interrupt
  <2>5. ClearOp \/ ClearTruth \/ PromoteOp => outcome' = outcome
    BY DEF ClearOp, ClearTruth, PromoteOp
  <2> QED BY <1>1, <1>2, <2>2, <2>3, <2>4, <2>5 DEF Generate
<1>3. CASE ClearOp \/ ClearTruth \/ PromoteOp
  <2>1. outcome' = outcome /\ outcome[This] = "running" /\ This \in Runs
    BY <1>3, HeldQueue DEF ClearOp, ClearTruth, PromoteOp, RunInHand
  <2>2. \A r \in Runs : r # This => op'[r] = op[r] /\ truth'[r] = truth[r]
    BY <1>0, <1>3 DEF ClearOp, ClearTruth, PromoteOp
  <2> QED BY <2>1, <2>2 DEF CompletedRunsPaired
<1>4. CASE PromoteTruth
  <2>1. op[This] = Complete(OpFiles, code) /\ This \in Runs
    BY <1>4, HeldQueue DEF PromoteTruth, HalfPromoted
  <2>2. truth'[This] = Complete(TruthFiles, code) /\ op' = op
    BY <1>0, <1>4, <2>1 DEF PromoteTruth, TruthFree, TruthPublished
  <2>3. \A r \in Runs : r # This => truth'[r] = truth[r] /\ outcome'[r] = outcome[r]
    BY <1>0, <1>4 DEF PromoteTruth
  <2> QED BY <1>0, <2>1, <2>2, <2>3 DEF CompletedRunsPaired
<1>5. CASE UNCHANGED storeVars
  BY <1>5 DEF storeVars, CompletedRunsPaired
<1> QED BY <1>2, <1>3, <1>4, <1>5, StepShapes

LEMMA InHandStep ==
    ASSUME StoreInv, [Generate]_storeVars
    PROVE  RunInHand' /\ HalfPromoted'
<1> USE DEF StoreInv
<1>0. DOMAIN op = Runs /\ outcome \in [Runs -> Outcomes]
  BY DEF ControlOK
<1>1. ASSUME pc' \notin {"staged", "promoted"} PROVE RunInHand' /\ HalfPromoted'
  BY <1>1 DEF RunInHand, HalfPromoted
<1>2. CASE Generate
  <2>1. ASSUME NEW runs, NEW s, NEW f, Command(runs, s, f) PROVE pc' \notin {"staged", "promoted"}
    BY <2>1 DEF Command
  <2>2. RefuseExisting \/ KeepDiagnostics \/ PromoteTruthRefused \/ PromoteTruth
          => pc' \notin {"staged", "promoted"}
    BY DEF RefuseExisting, KeepDiagnostics, PromoteTruthRefused, PromoteTruth, Abort, Advance
  <2>3. Upgrade \/ WriteSuiteManifest \/ Interrupt => pc' \notin {"staged", "promoted"}
    BY DEF Upgrade, WriteSuiteManifest, Interrupt
  <2>4. CASE Stage
    <3>1. This \in Runs /\ This' = This
      BY <2>4, HeldQueue DEF Stage, This
    <3>2. outcome'[This] = "running"
      BY <1>0, <2>4, <3>1 DEF Stage
    <3> QED BY <2>4, <3>1, <3>2 DEF Stage, RunInHand, HalfPromoted
  <2>5. CASE ClearOp \/ ClearTruth
    <3>1. pc' = "staged" /\ outcome' = outcome /\ This' = This /\ pc = "staged"
      BY <2>5 DEF ClearOp, ClearTruth, This
    <3> QED BY <3>1 DEF RunInHand, HalfPromoted
  <2>6. CASE PromoteOp
    <3>1. pc = "staged" /\ pc' = "promoted" /\ outcome' = outcome /\ This' = This /\ code' = code
      BY <2>6 DEF PromoteOp, This
    <3>2. This \in Runs
      BY <2>6, HeldQueue DEF PromoteOp
    <3>3. op'[This] = Complete(OpFiles, code)
      BY <1>0, <2>6, <3>2 DEF PromoteOp
    <3>4. Valid[This][code]
      BY <2>6 DEF PromoteOp, Passed
    <3>5. force' = force /\ truth' = truth /\ (force => ~truth[This].exists)
      BY <2>6 DEF PromoteOp, ClearsTruth
    <3> QED BY <3>1, <3>3, <3>4, <3>5 DEF RunInHand, HalfPromoted
  <2> QED BY <1>1, <1>2, <2>1, <2>2, <2>3, <2>4, <2>5, <2>6 DEF Generate
<1>3. CASE UNCHANGED storeVars
  BY <1>3 DEF storeVars, RunInHand, HalfPromoted, This
<1> QED BY <1>2, <1>3

-----------------------------------------------------------------------------
(***************************************************************************)
(* Theorems.                                                               *)
(***************************************************************************)

\* The inductive invariant of the run store holds in every reachable state.
THEOREM StoreInvariant == StoreSpec => []StoreInv
<1>1. StoreInv /\ [Generate]_storeVars => StoreInv'
  BY ControlStep, ContentsStep, PairedStep, InHandStep DEF StoreInv
<1> QED BY InitStoreInv, <1>1, PTL DEF StoreSpec

\* Every variable of the run store keeps its type: no file is newer than the
\* generator, none is foreign to its directory.
THEOREM StoreTypesCorrect == StoreSpec => []StoreTypeOK
BY StoreInvariant, StoreInvGivesTypes, PTL

\* Whatever stands in a final directory, whole or half deleted, comes from one
\* generation that passed validation.
THEOREM NothingUnvalidated == StoreSpec => []OnlyValidatedPublished
BY StoreInvariant, StoreInvGivesTypes, PTL

\* A run whose generation returned "completed" has its tables and its truth
\* whole and from the same version of the generator.
THEOREM PairsMatch == StoreSpec => []CompletedRunsPaired
<1>1. StoreInv => CompletedRunsPaired
  BY DEF StoreInv
<1> QED BY StoreInvariant, <1>1, PTL

\* No command without --force changes or removes what is published.
THEOREM UnforcedKeepsPublished == StoreSpec => NoForceProtects
<1> DEFINE Kept == ~force => \A r \in Runs : /\ op[r].exists => op'[r] = op[r]
                                             /\ truth[r].exists => truth'[r] = truth[r]
<1>1. StoreInv /\ [Generate]_storeVars => [Kept]_storeVars
  <2> SUFFICES ASSUME StoreInv, [Generate]_storeVars, ~force PROVE Kept
    OBVIOUS
  <2>0. DOMAIN op = Runs /\ DOMAIN truth = Runs
    BY DEF StoreInv, ControlOK
  <2>1. CASE Quiet
    BY <2>1 DEF Quiet
  <2>2. ~ClearOp /\ ~ClearTruth
    BY DEF ClearOp, ClearTruth, ClearsOp, ClearsTruth
  <2>3. CASE PromoteOp
    BY <2>0, <2>3 DEF PromoteOp
  <2>4. CASE PromoteTruth
    BY <2>0, <2>4 DEF PromoteTruth, TruthFree
  <2> QED BY <2>1, <2>2, <2>3, <2>4, StepShapes
<1> QED BY StoreInvariant, <1>1, PTL DEF StoreSpec, NoForceProtects

\* A forced command is never stopped by what an earlier one left behind: only a
\* command without --force ends because something already exists.
THEOREM ForcedCommandsPass == StoreSpec => ForceRepairs
<1> DEFINE Repairs == \A r \in Runs :
              outcome'[r] # outcome[r] /\ outcome'[r] \in {"refused", "raised"} => ~force
<1>1. StoreInv /\ [Generate]_storeVars => [Repairs]_storeVars
  <2> SUFFICES ASSUME StoreInv, Generate, NEW r \in Runs, force,
                      outcome'[r] # outcome[r]
               PROVE  outcome'[r] \notin {"refused", "raised"}
    OBVIOUS
  <2>0. DOMAIN outcome = Runs
    BY DEF StoreInv, ControlOK
  <2>1. ~RefuseExisting
    BY DEF RefuseExisting
  <2>2. ~PromoteTruthRefused
    BY DEF PromoteTruthRefused, StoreInv, HalfPromoted
  <2>3. ASSUME NEW runs, NEW s, NEW f, Command(runs, s, f) PROVE outcome' = outcome
    BY <2>3 DEF Command
  <2>4. Upgrade \/ ClearOp \/ ClearTruth \/ PromoteOp \/ WriteSuiteManifest => outcome' = outcome
    BY DEF Upgrade, ClearOp, ClearTruth, PromoteOp, WriteSuiteManifest
  <2>5. Stage \/ KeepDiagnostics \/ PromoteTruth \/ Interrupt
          => outcome'[r] \notin {"refused", "raised"}
    BY <2>0 DEF Stage, KeepDiagnostics, PromoteTruth, Interrupt
  <2> QED BY <2>1, <2>2, <2>3, <2>4, <2>5 DEF Generate
<1> QED BY StoreInvariant, <1>1, PTL DEF StoreSpec, ForceRepairs

\* The run store implements PublishedRuns: a reader sees runs appear whole and
\* validated, lose their files one by one, and never anything else.
THEOREM StoreImplementsPublishedRuns == StoreSpec => ImplementsPublishedRuns
<1> USE DEF Published!publishedVars, Published!OpFiles, OpFiles
<1>0. /\ Published!NoDir = NoDir
      /\ \A names, v : Published!Complete(names, v) = Complete(names, v)
      /\ \A d : Published!RemoveOne(d) = RemoveOne(d)
  BY DEF NoDir, Published!NoDir, Complete, Published!Complete, Dir, Published!Dir,
         RemoveOne, Published!RemoveOne
<1>1. Init => Published!PublishedInit
  BY <1>0 DEF Init, Published!PublishedInit
<1>2. StoreInv /\ [Generate]_storeVars => [Published!PublishedNext]_<<code, op>>
  <2> SUFFICES ASSUME StoreInv, [Generate]_storeVars
               PROVE  [Published!PublishedNext]_<<code, op>>
    OBVIOUS
  <2>0. (pc \in {"staged", "promoted"}) => This \in Runs
    BY HeldQueue DEF StoreInv
  <2>1. CASE Quiet /\ code' = code
    BY <2>1 DEF Quiet
  <2>2. CASE Upgrade
    BY <2>2 DEF Upgrade, Published!NewVersion, Published!PublishedNext
  <2>3. CASE ClearOp
    <3>1. Published!Shrink(This)
      BY <1>0, <2>3 DEF ClearOp, ClearsOp, Published!Shrink
    <3> QED BY <2>0, <2>3, <3>1 DEF ClearOp, Published!PublishedNext
  <2>4. CASE PromoteOp
    <3>1. Published!Appear(This)
      BY <1>0, <2>4 DEF PromoteOp, Passed, Published!Appear
    <3> QED BY <2>0, <2>4, <3>1 DEF PromoteOp, Published!PublishedNext
  <2>5. CASE ClearTruth \/ PromoteTruth
    BY <2>5 DEF ClearTruth, PromoteTruth, Advance
  <2> QED BY <2>1, <2>2, <2>3, <2>4, <2>5, StepShapes
<1> QED BY StoreInvariant, <1>1, <1>2, PTL
        DEF StoreSpec, ImplementsPublishedRuns, Published!PublishedSpec
=============================================================================
