------------------------ MODULE AdjudicationRun_proofs ------------------------
(***************************************************************************)
(* What holds of every adjudication run: its types, that it implements the *)
(* session of SessionLifecycle (and so inherits what is proved there),     *)
(* that the fallback policy's round limit survives every crash, failure    *)
(* and resume, where the state machine can refuse a phase, that proposals  *)
(* are complete, where a resumed run goes on, and that none goes round     *)
(* forever.                                                                *)
(***************************************************************************)
EXTENDS AdjudicationRun, SessionLifecycle_proofs

\* The step of the loop and the phase of the run.
LoopPhase ==
  /\ pc = "body" /\ loop.entered => run.phase = PhaseOf[loop.step]
  /\ pc = "body" /\ run.phase = "report" => loop.step = "close" \/ loop.entered
  /\ pc = "body" /\ snap.done = "report" => loop.step = "close"
  /\ pc = "body" /\ loop.step = "close" /\ loop.entered => snap.done = "report"
  /\ pc \in {"idle", "prelude"} => loop.step = "propose" /\ ~loop.entered

AdjInv == AdjTypeOK /\ LoopPhase

\* Which claims there are, in memory and stored.
ClaimsLocated ==
  /\ snap.done \in {"challenge", "verify", "revise", "adjudicate"} => ckpt.claims # "none"
  /\ Running /\ ckpt.claims # "none" => loop.data.claims # "none"
  /\ pc = "body" /\ loop.step \notin {"propose", "noClaims", "close"}
       => loop.data.claims # "none"

\* The fallback rounds counted in memory, in the checkpoint and in history.
FallbacksCounted ==
  /\ ckpt.fb = fallbacks
  /\ pc \notin {"down", "returned"} => loop.data.fb = ckpt.fb
  /\ fallbacks <= MaxFallbackRounds
  /\ fallbacks # 0 => ckpt.claims # "none" /\ snap.done # "created"
  /\ pc \in {"idle", "prelude"} => fallbacks = 0
  /\ pc = "idle" => ckpt.claims = "none"
  /\ pc = "body" /\ loop.step = "propose" => fallbacks = 0
  /\ pc = "body" /\ loop.step \in {"ingest", "reviseAgain"} => fallbacks < MaxFallbackRounds

FallbackInv == ClaimsLocated /\ FallbacksCounted

-----------------------------------------------------------------------------
(* Types.                                                                  *)

LEMMA StepNames ==
  /\ Steps = {"propose", "noClaims", "challenge", "verify", "revise", "adjudicate",
              "ingest", "reviseAgain", "report", "close"}
  /\ PhaseOf["propose"] = "propose" /\ PhaseOf["noClaims"] = "report"
  /\ PhaseOf["challenge"] = "challenge" /\ PhaseOf["verify"] = "verify"
  /\ PhaseOf["revise"] = "revise" /\ PhaseOf["adjudicate"] = "adjudicate"
  /\ PhaseOf["ingest"] = "ingest" /\ PhaseOf["reviseAgain"] = "revise"
  /\ PhaseOf["report"] = "report" /\ PhaseOf["close"] = "report"
BY DEF Steps, PhaseOf

LEMMA StepPhases == \A step \in Steps : PhaseOf[step] \in AdjudicationPhases
BY StepNames DEF AdjudicationPhases

\* What the decision functions return.
LEMMA LoopSteps ==
  ASSUME NEW data
  PROVE  /\ StepAfterVerify(data) \in {"adjudicate", "revise"}
         /\ StepAfterRevision(data) \in {"challenge", "adjudicate"}
BY DEF StepAfterVerify, StepAfterRevision

LEMMA DecisionSteps ==
  ASSUME NEW data \in DataType, NEW fresh \in BOOLEAN, request \in Requests
  PROVE  /\ StepAfterDecision(fresh, data) \in {"report", "ingest", "reviseAgain", "challenge"}
         /\ StepAfterDecision(fresh, data) \in {"ingest", "reviseAgain"}
              => data.fb < MaxFallbackRounds
<1>1. data.fb \in Nat /\ MaxFallbackRounds \in Nat
  BY PolicyAssumption DEF DataType
<1>2. FallbackCause(data) = "none" \/ FallbackCause(data) \in FallbackCauses
  BY DEF FallbackCause, FallbackCauses
<1>3. FallbackTarget(data) \in FallbackTargets
  BY <1>2, PolicyAssumption DEF FallbackTarget, FallbackTargets
<1>4. FallbackTarget(data) # "stop" => data.fb < MaxFallbackRounds
  BY <1>1 DEF FallbackTarget
<1>5. CASE FallbackTarget(data) = "stop"
  BY <1>5 DEF StepAfterDecision
<1>6. CASE FallbackTarget(data) = "ingest"
  BY <1>4, <1>6 DEF StepAfterDecision
<1>7. CASE FallbackTarget(data) = "revise"
  BY <1>4, <1>7 DEF StepAfterDecision
<1> QED
  BY <1>3, <1>5, <1>6, <1>7 DEF FallbackTargets

LEMMA NoDataType == NoData \in DataType /\ NoLoop \in [step : Steps, entered : BOOLEAN, data : DataType]
<1>1. NoData \in DataType
  BY DEF NoData, DataType, AdjOutcomes, Outcomes
<1> QED
  BY <1>1, StepNames DEF NoLoop

\* A checkpoint of typed data leaves typed variables and changes the session as
\* a checkpoint of the abstract body does.
LEMMA CheckpointStep ==
  ASSUME AdjInv, pc = "body",
         NEW stored \in DataType, NEW next \in DataType, NEW step \in Steps,
         run.phase = "report" => snap.done # "report",
         Checkpoint(stored, step, next)
  PROVE  /\ BodyCommit
         /\ ckpt' \in DataType /\ ckpt'.fb = stored.fb /\ ckpt'.claims = stored.claims
         /\ loop' \in [step : Steps, entered : BOOLEAN, data : DataType]
         /\ loop'.step = step /\ ~loop'.entered /\ loop'.data = next
         /\ plan' \in Steps
         /\ snap'.done = run.phase /\ run' = run /\ pc' = pc
<1>1. ckpt' \in DataType /\ ckpt'.fb = stored.fb /\ ckpt'.claims = stored.claims
  BY DEF Checkpoint, AdjInv, AdjTypeOK, DataType
<1>2. request.mode = "adjudication"
  BY AdjudicationRequests DEF AdjInv, AdjTypeOK, TypeOK
<1>3. stored.outcome \in Outcomes(request.mode)
  BY <1>2 DEF DataType, AdjOutcomes
<1>4. snap'.done = run.phase
  BY DEF Checkpoint, AdjInv, AdjTypeOK, TypeOK, SnapshotType
<1>5. BodyCommit
  BY <1>3 DEF BodyCommit, Checkpoint
<1> QED
  BY <1>1, <1>4, <1>5 DEF Checkpoint

LEMMA CommitKeeps ==
  ASSUME AdjInv, pc = "body",
         NEW stored \in DataType, NEW next \in DataType, NEW step \in Steps,
         run.phase = "report" => snap.done # "report" /\ step = "close",
         Checkpoint(stored, step, next), cycle' \in Nat, fallbacks' \in Nat
  PROVE  BodyCommit /\ AdjInv'
<1>1. BodyCommit
  BY CheckpointStep
<1>2. TypeOK'
  BY <1>1, BodyType DEF BodyStep, AdjInv, AdjTypeOK
<1>3. AdjTypeOK'
  BY <1>2, CheckpointStep DEF AdjTypeOK
<1>4. LoopPhase'
  BY CheckpointStep DEF LoopPhase
<1> QED
  BY <1>1, <1>3, <1>4 DEF AdjInv

\* Where a phase's work is committed the run is in that phase.
LEMMA WorkingPhase ==
  ASSUME AdjInv, NEW step, Working(step)
  PROVE  /\ pc = "body" /\ loop.step = step /\ run.phase = PhaseOf[step]
         /\ step # "close" => snap.done # "report"
         /\ loop.data \in DataType /\ step \in Steps
         /\ loop.data.rr + 1 \in Nat /\ loop.data.vr + 1 \in Nat
         /\ loop.data.fb + 1 \in Nat
         /\ MaxRevisionRounds + loop.data.fb + 1 \in Nat
<1>1. loop.data \in DataType
  BY DEF AdjInv, AdjTypeOK
<1>2. loop.data.rr \in Nat /\ loop.data.vr \in Nat /\ loop.data.fb \in Nat
  BY <1>1 DEF DataType
<1>3. /\ loop.data.rr + 1 \in Nat /\ loop.data.vr + 1 \in Nat
      /\ loop.data.fb + 1 \in Nat
      /\ MaxRevisionRounds + loop.data.fb + 1 \in Nat
  BY <1>2, PolicyAssumption
<1> QED
  BY <1>1, <1>3 DEF AdjInv, AdjTypeOK, LoopPhase, Working

LEMMA AdjCommits ==
  AdjInv /\ (CommitPropose \/ CommitChallenge \/ CommitVerify \/ CommitRevise
               \/ CommitAdjudicate \/ CommitIngest \/ CommitReviseAgain \/ CommitReport)
    => BodyCommit /\ AdjInv'
<1> SUFFICES ASSUME AdjInv
             PROVE  CommitPropose \/ CommitChallenge \/ CommitVerify \/ CommitRevise
                      \/ CommitAdjudicate \/ CommitIngest \/ CommitReviseAgain
                      \/ CommitReport
                    => BodyCommit /\ AdjInv'
  OBVIOUS
<1>0. cycle \in Nat /\ fallbacks \in Nat
  BY DEF AdjInv, AdjTypeOK
<1>1. CASE CommitPropose
  <2> DEFINE empty == loop.data.claims = "none"
             step == IF empty THEN "noClaims" ELSE "challenge"
             next == [loop.data EXCEPT !.claims = IF empty THEN "none" ELSE "all",
                                       !.rr = 0, !.vr = 0, !.fb = 0, !.material = TRUE]
  <2>1. Working("propose") /\ Checkpoint(next, step, next)
    BY <1>1 DEF CommitPropose
  <2>2. next \in DataType /\ step \in Steps
    BY <2>1, WorkingPhase, StepNames DEF DataType
  <2>3. run.phase # "report" /\ pc = "body"
    BY <2>1, WorkingPhase, StepNames
  <2>4. cycle' \in Nat /\ fallbacks' \in Nat
    BY <1>0, <1>1 DEF CommitPropose
  <2> HIDE DEF next, step
  <2> QED
    BY <2>1, <2>2, <2>3, <2>4, CommitKeeps
<1>2. CASE CommitChallenge
  <2> DEFINE next == [loop.data EXCEPT !.material = TRUE]
  <2>1. Working("challenge") /\ Checkpoint(next, "verify", next)
    BY <1>2 DEF CommitChallenge
  <2>2. next \in DataType /\ "verify" \in Steps
    BY <2>1, WorkingPhase, StepNames DEF DataType
  <2>3. run.phase # "report" /\ pc = "body"
    BY <2>1, WorkingPhase, StepNames
  <2>4. cycle' \in Nat /\ fallbacks' \in Nat
    BY <1>0, <1>2 DEF CommitChallenge
  <2> HIDE DEF next
  <2> QED
    BY <2>1, <2>2, <2>3, <2>4, CommitKeeps
<1>3. CASE CommitVerify
  <2>1. PICK pending \in BOOLEAN :
          LET next == [loop.data EXCEPT !.vr = @ + 1, !.pending = pending, !.material = TRUE]
          IN Checkpoint(next, StepAfterVerify(next), next)
    BY <1>3 DEF CommitVerify
  <2> DEFINE next == [loop.data EXCEPT !.vr = @ + 1, !.pending = pending, !.material = TRUE]
  <2>2. Working("verify") /\ Checkpoint(next, StepAfterVerify(next), next)
    BY <1>3, <2>1 DEF CommitVerify
  <2>3. next \in DataType
    BY <2>2, WorkingPhase DEF DataType
  <2>4. cycle' \in Nat /\ fallbacks' \in Nat
    BY <1>0, <1>3 DEF CommitVerify
  <2>5. run.phase # "report" /\ pc = "body"
    BY <2>2, WorkingPhase, StepNames
  <2> HIDE DEF next
  <2>6. StepAfterVerify(next) \in Steps
    BY LoopSteps, StepNames
  <2> QED
    BY <2>2, <2>3, <2>4, <2>5, <2>6, CommitKeeps
<1>4. CASE CommitRevise
  <2>1. PICK material \in BOOLEAN :
          LET stored == [loop.data EXCEPT !.rr = @ + 1, !.material = material]
          IN Checkpoint(stored, StepAfterRevision(stored),
                        CountersAfterRevision(run.fresh, stored))
    BY <1>4 DEF CommitRevise
  <2> DEFINE stored == [loop.data EXCEPT !.rr = @ + 1, !.material = material]
             next == CountersAfterRevision(run.fresh, stored)
  <2>2. Working("revise") /\ Checkpoint(stored, StepAfterRevision(stored), next)
    BY <1>4, <2>1 DEF CommitRevise
  <2>3. stored \in DataType
    BY <2>2, WorkingPhase DEF DataType
  <2> HIDE DEF stored
  <2>4. next \in DataType
    BY <2>3 DEF CountersAfterRevision, DataType
  <2>5. StepAfterRevision(stored) \in Steps
    BY LoopSteps, StepNames
  <2>6. cycle' \in Nat /\ fallbacks' \in Nat
    BY <1>0, <1>4 DEF CommitRevise
  <2>7. run.phase # "report" /\ pc = "body"
    BY <2>2, WorkingPhase, StepNames
  <2> HIDE DEF next
  <2> QED
    BY <2>2, <2>3, <2>4, <2>5, <2>6, <2>7, CommitKeeps
<1>5. CASE CommitAdjudicate
  <2>1. PICK found \in Findings :
          LET next == [loop.data EXCEPT !.outcome = found.outcome,
                         !.leftover = found.leftover, !.records = found.records,
                         !.material = TRUE]
          IN Checkpoint(next, StepAfterDecision(run.fresh, next), next)
    BY <1>5 DEF CommitAdjudicate
  <2> DEFINE next == [loop.data EXCEPT !.outcome = found.outcome,
                        !.leftover = found.leftover, !.records = found.records,
                        !.material = TRUE]
  <2>2. Working("adjudicate") /\ Checkpoint(next, StepAfterDecision(run.fresh, next), next)
    BY <1>5, <2>1 DEF CommitAdjudicate
  <2>3. next \in DataType
    BY <2>2, WorkingPhase DEF DataType, Findings
  <2> HIDE DEF next
  <2>4. run.fresh \in BOOLEAN /\ request \in Requests
    BY DEF AdjInv, AdjTypeOK, TypeOK, RunType
  <2>5. StepAfterDecision(run.fresh, next) \in Steps
    BY <2>3, <2>4, DecisionSteps, StepNames
  <2>6. cycle' \in Nat /\ fallbacks' \in Nat
    BY <1>0, <1>5 DEF CommitAdjudicate
  <2>7. run.phase # "report" /\ pc = "body"
    BY <2>2, WorkingPhase, StepNames
  <2> QED
    BY <2>2, <2>3, <2>5, <2>6, <2>7, CommitKeeps
<1>6. ASSUME NEW stored \in DataType, Fallen(stored), pc = "body", run.phase # "report"
      PROVE  BodyCommit /\ AdjInv'
  <2> DEFINE step == IF stored.material THEN "challenge" ELSE "report"
             next == IF stored.material THEN [stored EXCEPT !.rr = 0, !.vr = 0] ELSE stored
  <2>1. next \in DataType /\ step \in Steps
    BY StepNames DEF DataType
  <2>2. Checkpoint(stored, step, next) /\ cycle' \in Nat /\ fallbacks' \in Nat
    BY <1>0, <1>6 DEF Fallen
  <2> HIDE DEF next, step
  <2> QED
    BY <1>6, <2>1, <2>2, CommitKeeps
<1>7. CASE CommitIngest
  <2>1. PICK newEvidence \in BOOLEAN :
          Fallen([loop.data EXCEPT !.vr = 0, !.fb = @ + 1, !.material = newEvidence])
    BY <1>7 DEF CommitIngest
  <2>2. Working("ingest")
    BY <1>7 DEF CommitIngest
  <2>3. [loop.data EXCEPT !.vr = 0, !.fb = @ + 1, !.material = newEvidence] \in DataType
    BY <2>2, WorkingPhase DEF DataType
  <2>4. run.phase # "report" /\ pc = "body"
    BY <2>2, WorkingPhase, StepNames
  <2> QED
    BY <1>6, <2>1, <2>3, <2>4
<1>8. CASE CommitReviseAgain
  <2>1. PICK material \in BOOLEAN, outcome \in AdjOutcomes :
          Fallen([loop.data EXCEPT !.rr = MaxRevisionRounds + loop.data.fb + 1, !.vr = 0,
                    !.fb = @ + 1, !.material = material, !.outcome = outcome])
    BY <1>8 DEF CommitReviseAgain
  <2>2. Working("reviseAgain")
    BY <1>8 DEF CommitReviseAgain
  <2>3. [loop.data EXCEPT !.rr = MaxRevisionRounds + loop.data.fb + 1, !.vr = 0,
           !.fb = @ + 1, !.material = material, !.outcome = outcome] \in DataType
    BY <2>2, WorkingPhase, PolicyAssumption DEF DataType
  <2>4. run.phase # "report" /\ pc = "body"
    BY <2>2, WorkingPhase, StepNames
  <2> QED
    BY <1>6, <2>1, <2>3, <2>4
<1>9. CASE CommitReport
  <2>1. Working("report") /\ Checkpoint(loop.data, "close", loop.data)
    BY <1>9 DEF CommitReport
  <2>2. loop.data \in DataType /\ "close" \in Steps
    BY <2>1, WorkingPhase, StepNames
  <2>3. snap.done # "report" /\ pc = "body"
    BY <2>1, WorkingPhase
  <2>4. cycle' \in Nat /\ fallbacks' \in Nat
    BY <1>0, <1>9 DEF CommitReport
  <2> QED
    BY <2>1, <2>2, <2>3, <2>4, CommitKeeps
<1> QED
  BY <1>1, <1>2, <1>3, <1>4, <1>5, <1>7, <1>8, <1>9

\* The other steps of the body: entering a phase, being refused, a proposal, the end.
LEMMA AdjMoves ==
  AdjInv /\ (EnterPhase \/ RejectPhase \/ ProposeSome \/ CommitReportAgain \/ Close)
    => (BodyStep \/ UNCHANGED vars) /\ AdjInv'
<1> SUFFICES ASSUME AdjInv
             PROVE  EnterPhase \/ RejectPhase \/ ProposeSome \/ CommitReportAgain \/ Close
                      => (BodyStep \/ UNCHANGED vars) /\ AdjInv'
  OBVIOUS
<1>0. TypeOK /\ request.mode = "adjudication"
  BY AdjudicationRequests DEF AdjInv, AdjTypeOK, TypeOK
<1>1. CASE EnterPhase
  <2>1. EntryPhase \in AdjudicationPhases
    BY StepPhases DEF EntryPhase, AdjInv, AdjTypeOK, AdjudicationPhases
  <2>2. BodyAdvance
    BY <1>0, <1>1, <2>1 DEF EnterPhase, BodyAdvance, BodyPhases
  <2>3. TypeOK'
    BY <1>0, <2>2, BodyType DEF BodyStep
  <2>4. /\ loop' \in [step : Steps, entered : BOOLEAN, data : DataType]
        /\ loop'.step = loop.step
        /\ loop'.entered = (EntryPhase = PhaseOf[loop.step])
    BY <1>1 DEF EnterPhase, AdjInv, AdjTypeOK
  <2>5. ckpt' \in DataType
    BY <1>1 DEF EnterPhase, AdjInv, AdjTypeOK, DataType
  <2>6. AdjTypeOK'
    BY <1>1, <2>3, <2>4, <2>5 DEF EnterPhase, AdjInv, AdjTypeOK, history
  <2>7. run'.phase = EntryPhase /\ snap'.done = snap.done /\ pc' = "body" /\ pc = "body"
        /\ loop.step # "close"
    BY <1>0, <1>1, AdvanceKeeps DEF EnterPhase
  <2>8. EntryPhase = PhaseOf[loop.step] \/ EntryPhase = "adjudicate"
    BY DEF EntryPhase
  <2>9. snap.done # "report"
    BY <2>7 DEF AdjInv, LoopPhase
  <2>10. LoopPhase'
    BY <2>4, <2>7, <2>8, <2>9 DEF LoopPhase
  <2> QED
    BY <2>2, <2>6, <2>10 DEF BodyStep, AdjInv
<1>2. CASE RejectPhase
  <2>1. BodyRejected
    BY <1>2 DEF RejectPhase, Rejected, BodyRejected, AdjInv, LoopPhase
  <2>2. TypeOK'
    BY <1>0, <2>1, BodyType DEF BodyStep
  <2> QED
    BY <1>2, <2>1, <2>2 DEF RejectPhase, BodyStep, AdjInv, AdjTypeOK, LoopPhase, history
<1>3. CASE ProposeSome
  <2>1. loop' \in [step : Steps, entered : BOOLEAN, data : DataType]
        /\ loop'.step = loop.step /\ loop'.entered = loop.entered
    BY <1>3 DEF ProposeSome, AdjInv, AdjTypeOK, DataType
  <2>2. AdjTypeOK'
    BY <1>3, <2>1 DEF ProposeSome, AdjInv, AdjTypeOK, TypeOK, vars, history
  <2>3. LoopPhase'
    BY <1>3, <2>1 DEF ProposeSome, AdjInv, LoopPhase, vars
  <2> QED
    BY <1>3, <2>2, <2>3 DEF ProposeSome, AdjInv
<1>4. CASE Close
  <2>1. BodyReady
    BY <1>4 DEF Close
  <2>2. TypeOK'
    BY <1>0, <2>1, BodyType DEF BodyStep
  <2>3. pc' = "finalize"
    BY <2>1 DEF BodyReady
  <2> QED
    BY <1>4, <2>1, <2>2, <2>3 DEF Close, BodyStep, AdjInv, AdjTypeOK, LoopPhase, history
<1>5. CASE CommitReportAgain
  <2>1. /\ pc = "body" /\ run.phase = "report" /\ loop.step = "close"
        /\ run' = run /\ pc' = pc /\ ~loop'.entered /\ loop'.step = "close"
        /\ snap'.done = "report"
    BY <1>0, <1>5, StepNames DEF CommitReportAgain, Working, AdjInv, AdjTypeOK, TypeOK,
       SnapshotType, LoopPhase
  <2>2. loop' \in [step : Steps, entered : BOOLEAN, data : DataType]
    BY <1>5 DEF CommitReportAgain, AdjInv, AdjTypeOK
  <2>3. BodyCommit
    <3>1. snap.done = "report"
      BY <1>5 DEF CommitReportAgain, Working, AdjInv, LoopPhase
    <3>2. snap' = [snap EXCEPT !.phase = run.phase, !.done = run.phase, !.outcome = @]
      BY <1>0, <1>5, <2>1 DEF CommitReportAgain, TypeOK, SnapshotType
    <3>3. "completed" \in Outcomes(request.mode)
      BY DEF Outcomes
    <3> QED
      BY <1>5, <2>1, <3>1, <3>2, <3>3 DEF CommitReportAgain, BodyCommit
  <2>4. TypeOK'
    BY <1>0, <2>3, BodyType DEF BodyStep
  <2> QED
    BY <1>5, <2>1, <2>2, <2>3, <2>4
       DEF CommitReportAgain, BodyStep, AdjInv, AdjTypeOK, LoopPhase, history
<1> QED
  BY <1>1, <1>2, <1>3, <1>4, <1>5

LEMMA AdjBodyStep == AdjInv /\ AdjBody => (BodyStep \/ UNCHANGED vars) /\ AdjInv'
BY AdjCommits, AdjMoves DEF AdjBody, BodyStep

\* The rest of the session leaves the loop alone and never enters the body
\* except from the prelude.
LEMMA AdjOutside ==
  AdjInv /\ (AdjPrelude \/ AdjClosing \/ AdjStepError) => AdjInv'
<1> SUFFICES ASSUME AdjInv
             PROVE  AdjPrelude \/ AdjClosing \/ AdjStepError => AdjInv'
  OBVIOUS
<1>0. TypeOK
  BY DEF AdjInv, AdjTypeOK
<1>1. ASSUME TypeOK', Outside, LoopPhase' PROVE AdjInv'
  BY <1>1 DEF AdjInv, AdjTypeOK, Outside, history
<1>2. CASE AdjPrelude
  <2>1. TypeOK'
    BY <1>0, <1>2, PreludeType DEF AdjPrelude
  <2>2. loop' = loop /\ Outside
    BY <1>2 DEF AdjPrelude, Outside
  <2>3. loop.step = "propose" /\ ~loop.entered
    BY <1>2 DEF AdjPrelude, Start, PreludeAdvance, PreludeCommit, AdjInv, LoopPhase
  <2>4. pc' = "body" => run'.phase = "ingest" /\ snap'.done = "ingest"
    BY <1>0, <1>2 DEF AdjPrelude, Start, PreludeAdvance, PreludeCommit, TypeOK, SnapshotType
  <2>5. LoopPhase'
    BY <2>2, <2>3, <2>4 DEF LoopPhase
  <2> QED
    BY <1>1, <2>1, <2>2, <2>5
<1>3. CASE AdjClosing
  <2>1. TypeOK'
    BY <1>0, <1>3, CloseType DEF AdjClosing
  <2>2. pc' \notin {"body", "idle", "prelude"}
    BY <1>3 DEF AdjClosing, CloseStep, EnterAction, BlockAction, DispatchAction,
       RefuseAction, SkipAction, CommitAction, EnterObserve, ObserveBuiltin,
       ObserveSource, ObserveDone, CommitObserve, EnterFinished, PersistFinish,
       EmitFinalized
  <2> QED
    BY <1>1, <1>3, <2>1, <2>2 DEF AdjClosing, LoopPhase
<1>4. CASE AdjStepError
  <2>1. TypeOK'
    BY <1>0, <1>4, FailureType DEF AdjStepError
  <2>2. pc' \in {"down", "failing"}
    BY <1>4 DEF AdjStepError, StepError
  <2> QED
    BY <1>1, <1>4, <2>1, <2>2 DEF AdjStepError, LoopPhase
<1> QED
  BY <1>2, <1>3, <1>4

\* Whatever graph failSession stores is typed and keeps the fallback counter.
LEMMA GraphsType ==
  ASSUME AdjInv, NEW graph \in GraphsInMemory
  PROVE  graph \in DataType /\ graph.fb = ckpt.fb /\ graph.claims = loop.data.claims
<1> DEFINE base == [ckpt EXCEPT !.claims = loop.data.claims]
<1>1. base \in DataType /\ base.fb = ckpt.fb /\ base.claims = loop.data.claims
  BY DEF AdjInv, AdjTypeOK, DataType
<1>2. \/ graph = base
      \/ \E p \in BOOLEAN : graph = [base EXCEPT !.pending = p]
      \/ \E o \in AdjOutcomes : graph = [base EXCEPT !.outcome = o]
  <2>1. CASE pc = "failing" /\ loop.entered /\ loop.step \in {"revise", "adjudicate"}
    BY <2>1 DEF GraphsInMemory
  <2>2. CASE pc = "failing" /\ loop.entered /\ loop.step = "reviseAgain"
    BY <2>2 DEF GraphsInMemory
  <2>3. CASE ~(pc = "failing" /\ loop.entered /\ loop.step \in {"revise", "adjudicate"})
             /\ ~(pc = "failing" /\ loop.entered /\ loop.step = "reviseAgain")
    BY <2>3 DEF GraphsInMemory
  <2> QED
    BY <2>1, <2>2, <2>3
<1> HIDE DEF base
<1>3. CASE graph = base
  BY <1>1, <1>3
<1>4. CASE \E p \in BOOLEAN : graph = [base EXCEPT !.pending = p]
  BY <1>1, <1>4 DEF DataType
<1>5. CASE \E o \in AdjOutcomes : graph = [base EXCEPT !.outcome = o]
  BY <1>1, <1>5 DEF DataType
<1> QED
  BY <1>2, <1>3, <1>4, <1>5

LEMMA RestoredType ==
  ASSUME AdjInv
  PROVE  /\ RestoredLoop \in [step : Steps, entered : BOOLEAN, data : DataType]
         /\ RestoredLoop.step = RestoredStep
         /\ RestoredLoop.entered = (snap.done = "report")
         /\ RestoredLoop.data.fb = ckpt.fb /\ RestoredLoop.data.claims = ckpt.claims
         /\ snap.done = "report" => RestoredStep = "close"
         /\ snap.done = "created" => RestoredStep = "propose"
         /\ RestoredStep \in {"ingest", "reviseAgain"} => ckpt.fb < MaxFallbackRounds
         /\ RestoredStep = "propose" => snap.done = "created" \/ ckpt.claims = "none"
         /\ RestoredStep \notin {"propose", "noClaims", "close"} =>
              \/ ckpt.claims # "none"
              \/ snap.done \in {"challenge", "verify", "revise", "adjudicate"}
<1>1. ckpt \in DataType
  BY DEF AdjInv, AdjTypeOK
<1>2. /\ RestoredStep \in Steps
      /\ RestoredStep \in {"ingest", "reviseAgain"} => ckpt.fb < MaxFallbackRounds
  <2>1. CASE snap.done \in {"created", "ingest", "propose", "challenge"}
    BY <2>1, StepNames DEF RestoredStep
  <2>2. CASE snap.done = "verify"
    BY <1>1, <2>2, LoopSteps, StepNames DEF RestoredStep
  <2>3. CASE snap.done = "revise"
    BY <1>1, <2>3, LoopSteps, StepNames DEF RestoredStep, ResumeRevision
  <2>4. CASE snap.done = "adjudicate"
    <3>1. RestoredStep = ResumeDecision(ckpt)
      BY <2>4 DEF RestoredStep
    <3>2. FALSE \in BOOLEAN /\ request \in Requests
      BY DEF AdjInv, AdjTypeOK, TypeOK
    <3> QED
      BY <1>1, <3>1, <3>2, DecisionSteps, StepNames DEF ResumeDecision
  <2>5. CASE snap.done \notin {"created", "ingest", "propose", "challenge", "verify",
                              "revise", "adjudicate"}
    BY <2>5, StepNames DEF RestoredStep
  <2> QED
    BY <2>1, <2>2, <2>3, <2>4, <2>5
<1>3. /\ RestoredLoop.data \in DataType /\ RestoredLoop.data.fb = ckpt.fb
      /\ RestoredLoop.data.claims = ckpt.claims
  BY <1>1 DEF RestoredLoop, CountersAfterRevision, DataType
<1>4. /\ snap.done = "report" => RestoredStep = "close"
      /\ snap.done = "created" => RestoredStep = "propose"
  BY DEF RestoredStep
<1>5. /\ RestoredStep = "propose" => snap.done = "created" \/ ckpt.claims = "none"
      /\ RestoredStep \notin {"propose", "noClaims", "close"} =>
           \/ ckpt.claims # "none"
           \/ snap.done \in {"challenge", "verify", "revise", "adjudicate"}
  <2>1. CASE snap.done \in {"created", "ingest", "propose"}
    BY <2>1 DEF RestoredStep
  <2>2. CASE snap.done = "challenge"
    BY <2>2 DEF RestoredStep
  <2>3. CASE snap.done = "verify"
    BY <1>1, <2>3, LoopSteps DEF RestoredStep
  <2>4. CASE snap.done = "revise"
    BY <1>1, <2>4, LoopSteps DEF RestoredStep, ResumeRevision
  <2>5. CASE snap.done = "adjudicate"
    <3>1. RestoredStep = ResumeDecision(ckpt)
      BY <2>5 DEF RestoredStep
    <3>2. FALSE \in BOOLEAN /\ request \in Requests
      BY DEF AdjInv, AdjTypeOK, TypeOK
    <3> QED
      BY <1>1, <2>5, <3>1, <3>2, DecisionSteps DEF ResumeDecision
  <2>6. CASE snap.done \notin {"created", "ingest", "propose", "challenge", "verify",
                              "revise", "adjudicate"}
    BY <2>6 DEF RestoredStep
  <2> QED
    BY <2>1, <2>2, <2>3, <2>4, <2>5, <2>6
<1> QED
  BY <1>2, <1>3, <1>4, <1>5 DEF RestoredLoop

LEMMA AdjFailures == AdjInv /\ (AdjCrash \/ AdjFailSession \/ AdjResume) => AdjInv'
<1> SUFFICES ASSUME AdjInv PROVE AdjCrash \/ AdjFailSession \/ AdjResume => AdjInv'
  OBVIOUS
<1>0. TypeOK
  BY DEF AdjInv, AdjTypeOK
<1>1. CASE AdjCrash
  <2>1. TypeOK'
    BY <1>0, <1>1, FailureType DEF AdjCrash
  <2>2. pc' = "down"
    BY <1>1 DEF AdjCrash, Crash
  <2> QED
    BY <1>1, <2>1, <2>2, NoDataType DEF AdjCrash, AdjInv, AdjTypeOK, LoopPhase, history
<1>2. CASE AdjFailSession
  <2>1. TypeOK'
    BY <1>0, <1>2, FailureType DEF AdjFailSession
  <2>2. pc' = "down"
    BY <1>2 DEF AdjFailSession, FailSession
  <2>3. ckpt' \in DataType
    <3>1. CASE snap' = snap
      BY <1>2, <3>1 DEF AdjFailSession, AdjInv, AdjTypeOK
    <3>2. CASE snap' # snap
      BY <1>2, <3>2, GraphsType DEF AdjFailSession
    <3> QED
      BY <3>1, <3>2
  <2> QED
    BY <1>2, <2>1, <2>2, <2>3, NoDataType
       DEF AdjFailSession, AdjInv, AdjTypeOK, LoopPhase, history
<1>3. CASE AdjResume
  <2>1. TypeOK'
    BY <1>0, <1>3, FailureType DEF AdjResume
  <2>2. loop' \in [step : Steps, entered : BOOLEAN, data : DataType]
    BY <1>3, NoDataType, RestoredType DEF AdjResume
  <2>3. LoopPhase'
    <3>1. CASE AlreadyFinished
      BY <1>3, <3>1 DEF AdjResume, Resume, LoopPhase
    <3>2. CASE ~AlreadyFinished
      <4>1. /\ pc' = ResumePc /\ run'.phase = snap.done /\ snap' = snap
            /\ loop'.step = RestoredStep /\ loop'.entered = (snap.done = "report")
        BY <1>3, <3>2, RestoredType DEF AdjResume, Resume, RestoredRun
      <4>2. pc' # "idle" /\ (pc' = "prelude" => snap.done = "created")
        BY <4>1 DEF ResumePc
      <4> QED
        BY <4>1, <4>2, RestoredType, StepNames DEF LoopPhase
    <3> QED
      BY <3>1, <3>2
  <2> QED
    BY <1>3, <2>1, <2>2, <2>3 DEF AdjResume, AdjInv, AdjTypeOK, history
<1> QED
  BY <1>1, <1>2, <1>3

LEMMA AdjInit_AdjInv == AdjInit => AdjInv
<1> SUFFICES ASSUME AdjInit PROVE AdjInv
  OBVIOUS
<1>1. TypeOK /\ pc = "idle"
  BY InitType DEF AdjInit, Init
<1>2. loop.step = "propose" /\ ~loop.entered
  BY DEF AdjInit, NoLoop
<1> QED
  BY <1>1, <1>2, NoDataType, StepNames DEF AdjInit, AdjInv, AdjTypeOK, LoopPhase

LEMMA AdjNext_AdjInv == AdjInv /\ [AdjNext]_adjVars => AdjInv'
<1>1. CASE UNCHANGED adjVars \/ (Returned /\ Outside)
  BY <1>1 DEF adjVars, vars, history, Returned, Outside, AdjInv, AdjTypeOK, TypeOK, LoopPhase
<1> QED
  BY <1>1, AdjBodyStep, AdjOutside, AdjFailures DEF AdjNext, AdjEngineStep

LEMMA AdjInvariant == AdjSpec => []AdjInv
BY AdjInit_AdjInv, AdjNext_AdjInv, PTL DEF AdjSpec

\* Every state of every adjudication run is well typed.
THEOREM AdjTypeCorrect == AdjSpec => []AdjTypeOK
BY AdjInvariant, PTL DEF AdjInv

\* The adjudication workflow, fresh and resumed, is a session: each of its steps
\* is a step of SessionLifecycle or invisible there.
THEOREM AdjImplementsSession == AdjSpec => Spec
<1>1. AdjInit => Init
  BY DEF AdjInit
<1>2. AdjInv /\ [AdjNext]_adjVars => [Next]_vars
  <2> SUFFICES ASSUME AdjInv, [AdjNext]_adjVars PROVE [Next]_vars
    OBVIOUS
  <2>1. CASE UNCHANGED adjVars
    BY <2>1 DEF adjVars
  <2>2. CASE AdjBody
    BY <2>2, AdjBodyStep DEF Next, EngineStep
  <2>3. CASE AdjPrelude \/ AdjClosing
    BY <2>3 DEF AdjPrelude, AdjClosing, Next, EngineStep
  <2>4. CASE AdjStepError \/ AdjFailSession \/ AdjCrash \/ AdjResume \/ (Returned /\ Outside)
    BY <2>4 DEF AdjStepError, AdjFailSession, AdjCrash, AdjResume, Next
  <2> QED
    BY <2>1, <2>2, <2>3, <2>4 DEF AdjNext, AdjEngineStep
<1> QED
  BY <1>1, <1>2, AdjInvariant, PTL DEF AdjSpec, Spec

\* What is proved of every session holds of every adjudication run: its action is
\* accounted for and not repeated once committed, its result is justified, its
\* observations are complete and, once finished, it stands.
THEOREM AdjInherits ==
  AdjSpec => /\ []ActionAccounted /\ ActionCommittedOnce /\ []ResultJustified
             /\ []ObservationsComplete /\ FinishedIsFinal
BY AdjImplementsSession, ActionIsAccounted, ActionIsCommittedOnce, ResultIsJustified,
   ObservationsAreComplete, FinishedStands

-----------------------------------------------------------------------------
(* The fallback rounds.                                                    *)

LEMMA FallbackInit == AdjInit => FallbackInv
<1> SUFFICES ASSUME AdjInit PROVE FallbackInv
  OBVIOUS
<1>1. /\ ckpt.fb = 0 /\ ckpt.claims = "none" /\ loop.data.fb = 0 /\ fallbacks = 0
      /\ pc = "idle" /\ snap.done = "created" /\ loop.step = "propose"
  BY DEF AdjInit, Init, NoLoop, NoData, NewSnapshot
<1>2. 0 <= MaxFallbackRounds
  BY PolicyAssumption
<1> QED
  BY <1>1, <1>2 DEF FallbackInv, ClaimsLocated, FallbacksCounted

\* What a checkpoint has to respect.
LEMMA FallbackCommit ==
  ASSUME AdjInv, FallbackInv, pc = "body",
         NEW stored \in DataType, NEW next \in DataType,
         NEW step \in Steps \ {"propose"},
         run.phase = "report" => snap.done # "report",
         Checkpoint(stored, step, next),
         next.fb = stored.fb, next.claims = stored.claims,
         stored.fb = fallbacks', fallbacks' <= MaxFallbackRounds,
         fallbacks' # 0 => run.phase # "created",
         stored.claims = "none" =>
           /\ fallbacks' = 0
           /\ run.phase \notin {"challenge", "verify", "revise", "adjudicate"}
           /\ step \in {"noClaims", "close"},
         step \in {"ingest", "reviseAgain"} => fallbacks' < MaxFallbackRounds
  PROVE  FallbackInv'
<1>1. /\ ckpt'.fb = stored.fb /\ ckpt'.claims = stored.claims
      /\ loop'.step = step /\ loop'.data = next /\ snap'.done = run.phase
      /\ pc' = "body"
  BY CheckpointStep
<1>2. ClaimsLocated'
  BY <1>1 DEF ClaimsLocated
<1>3. FallbacksCounted'
  BY <1>1 DEF FallbacksCounted
<1> QED
  BY <1>2, <1>3 DEF FallbackInv

\* A checkpoint after the proposals that is not a fallback: it keeps the claims
\* and the number of fallback rounds.
LEMMA FallbackKept ==
  ASSUME AdjInv, FallbackInv, pc = "body",
         loop.step \notin {"propose", "noClaims", "close"},
         NEW stored \in DataType, NEW next \in DataType,
         NEW step \in Steps \ {"propose"},
         run.phase = "report" => snap.done # "report",
         run.phase # "created",
         Checkpoint(stored, step, next),
         stored.fb = loop.data.fb, next.fb = loop.data.fb,
         stored.claims = loop.data.claims, next.claims = loop.data.claims,
         fallbacks' = fallbacks,
         step \in {"ingest", "reviseAgain"} => loop.data.fb < MaxFallbackRounds
  PROVE  FallbackInv'
<1>1. /\ loop.data.claims # "none" /\ loop.data.fb = fallbacks
      /\ fallbacks <= MaxFallbackRounds
  BY DEF FallbackInv, ClaimsLocated, FallbacksCounted
<1> QED
  BY <1>1, FallbackCommit

LEMMA FallbackSpent ==
  ASSUME AdjInv, FallbackInv, pc = "body", loop.step \in {"ingest", "reviseAgain"},
         NEW stored \in DataType, Fallen(stored), run.phase \notin {"report", "created"},
         stored.fb = loop.data.fb + 1, stored.claims = loop.data.claims
  PROVE  FallbackInv'
<1> DEFINE step == IF stored.material THEN "challenge" ELSE "report"
           next == IF stored.material THEN [stored EXCEPT !.rr = 0, !.vr = 0] ELSE stored
<1>1. /\ loop.data.claims # "none" /\ loop.data.fb = fallbacks
      /\ fallbacks < MaxFallbackRounds /\ fallbacks \in Nat
  BY DEF FallbackInv, ClaimsLocated, FallbacksCounted, AdjInv, AdjTypeOK
<1>2. fallbacks' = fallbacks + 1 /\ fallbacks' <= MaxFallbackRounds
  BY <1>1, PolicyAssumption DEF Fallen
<1>3. /\ next \in DataType /\ next.fb = stored.fb /\ next.claims = stored.claims
      /\ step \in Steps \ {"propose"} /\ step \notin {"ingest", "reviseAgain"}
  BY StepNames DEF DataType
<1>4. Checkpoint(stored, step, next)
  BY DEF Fallen
<1> HIDE DEF step, next
<1> QED
  BY <1>1, <1>2, <1>3, <1>4, FallbackCommit

LEMMA FallbackCommits ==
  AdjInv /\ FallbackInv
    /\ (CommitPropose \/ CommitChallenge \/ CommitVerify \/ CommitRevise
         \/ CommitAdjudicate \/ CommitIngest \/ CommitReviseAgain \/ CommitReport)
    => FallbackInv'
<1> SUFFICES ASSUME AdjInv, FallbackInv
             PROVE  CommitPropose \/ CommitChallenge \/ CommitVerify \/ CommitRevise
                      \/ CommitAdjudicate \/ CommitIngest \/ CommitReviseAgain
                      \/ CommitReport
                    => FallbackInv'
  OBVIOUS
<1>1. CASE CommitPropose
  <2> DEFINE empty == loop.data.claims = "none"
             step == IF empty THEN "noClaims" ELSE "challenge"
             next == [loop.data EXCEPT !.claims = IF empty THEN "none" ELSE "all",
                                       !.rr = 0, !.vr = 0, !.fb = 0, !.material = TRUE]
  <2>1. Working("propose") /\ Checkpoint(next, step, next) /\ fallbacks' = fallbacks
    BY <1>1 DEF CommitPropose
  <2>2. /\ next \in DataType /\ step \in Steps \ {"propose"} /\ next.fb = 0
        /\ next.claims = "none" => step = "noClaims"
        /\ step \notin {"ingest", "reviseAgain"}
    BY <2>1, WorkingPhase, StepNames DEF DataType
  <2>3. run.phase = "propose" /\ pc = "body" /\ loop.step = "propose"
    BY <2>1, WorkingPhase, StepNames
  <2>4. fallbacks' = 0 /\ 0 <= MaxFallbackRounds
    BY <2>1, <2>3, PolicyAssumption DEF FallbackInv, FallbacksCounted
  <2> HIDE DEF next, step
  <2> QED
    BY <2>1, <2>2, <2>3, <2>4, FallbackCommit
<1>2. CASE CommitChallenge
  <2> DEFINE next == [loop.data EXCEPT !.material = TRUE]
  <2>1. Working("challenge") /\ Checkpoint(next, "verify", next) /\ fallbacks' = fallbacks
    BY <1>2 DEF CommitChallenge
  <2>2. /\ next \in DataType /\ "verify" \in Steps \ {"propose"}
        /\ next.fb = loop.data.fb /\ next.claims = loop.data.claims
    BY <2>1, WorkingPhase, StepNames DEF DataType
  <2>3. run.phase = "challenge" /\ pc = "body" /\ loop.step = "challenge"
    BY <2>1, WorkingPhase, StepNames
  <2> HIDE DEF next
  <2> QED
    BY <2>1, <2>2, <2>3, FallbackKept
<1>3. CASE CommitVerify
  <2>1. PICK pending \in BOOLEAN :
          LET next == [loop.data EXCEPT !.vr = @ + 1, !.pending = pending, !.material = TRUE]
          IN Checkpoint(next, StepAfterVerify(next), next)
    BY <1>3 DEF CommitVerify
  <2> DEFINE next == [loop.data EXCEPT !.vr = @ + 1, !.pending = pending, !.material = TRUE]
  <2>2. /\ Working("verify") /\ Checkpoint(next, StepAfterVerify(next), next)
        /\ fallbacks' = fallbacks
    BY <1>3, <2>1 DEF CommitVerify
  <2>3. next \in DataType /\ next.fb = loop.data.fb /\ next.claims = loop.data.claims
    BY <2>2, WorkingPhase DEF DataType
  <2>4. run.phase = "verify" /\ pc = "body" /\ loop.step = "verify"
    BY <2>2, WorkingPhase, StepNames
  <2> HIDE DEF next
  <2>5. /\ StepAfterVerify(next) \in Steps \ {"propose"}
        /\ StepAfterVerify(next) \notin {"ingest", "reviseAgain"}
    BY LoopSteps, StepNames
  <2> QED
    BY <2>2, <2>3, <2>4, <2>5, FallbackKept
<1>4. CASE CommitRevise
  <2>1. PICK material \in BOOLEAN :
          LET stored == [loop.data EXCEPT !.rr = @ + 1, !.material = material]
          IN Checkpoint(stored, StepAfterRevision(stored),
                        CountersAfterRevision(run.fresh, stored))
    BY <1>4 DEF CommitRevise
  <2> DEFINE stored == [loop.data EXCEPT !.rr = @ + 1, !.material = material]
             next == CountersAfterRevision(run.fresh, stored)
  <2>2. /\ Working("revise") /\ Checkpoint(stored, StepAfterRevision(stored), next)
        /\ fallbacks' = fallbacks
    BY <1>4, <2>1 DEF CommitRevise
  <2>3. /\ stored \in DataType /\ stored.fb = loop.data.fb
        /\ stored.claims = loop.data.claims
    BY <2>2, WorkingPhase DEF DataType
  <2> HIDE DEF stored
  <2>4. next \in DataType /\ next.fb = loop.data.fb /\ next.claims = loop.data.claims
    BY <2>3 DEF CountersAfterRevision, DataType
  <2>5. /\ StepAfterRevision(stored) \in Steps \ {"propose"}
        /\ StepAfterRevision(stored) \notin {"ingest", "reviseAgain"}
    BY LoopSteps, StepNames
  <2>6. run.phase = "revise" /\ pc = "body" /\ loop.step = "revise"
    BY <2>2, WorkingPhase, StepNames
  <2> HIDE DEF next
  <2> QED
    BY <2>2, <2>3, <2>4, <2>5, <2>6, FallbackKept
<1>5. CASE CommitAdjudicate
  <2>1. PICK found \in Findings :
          LET next == [loop.data EXCEPT !.outcome = found.outcome,
                         !.leftover = found.leftover, !.records = found.records,
                         !.material = TRUE]
          IN Checkpoint(next, StepAfterDecision(run.fresh, next), next)
    BY <1>5 DEF CommitAdjudicate
  <2> DEFINE next == [loop.data EXCEPT !.outcome = found.outcome,
                        !.leftover = found.leftover, !.records = found.records,
                        !.material = TRUE]
  <2>2. /\ Working("adjudicate")
        /\ Checkpoint(next, StepAfterDecision(run.fresh, next), next)
        /\ fallbacks' = fallbacks
    BY <1>5, <2>1 DEF CommitAdjudicate
  <2>3. next \in DataType /\ next.fb = loop.data.fb /\ next.claims = loop.data.claims
    BY <2>2, WorkingPhase DEF DataType, Findings
  <2> HIDE DEF next
  <2>4. run.fresh \in BOOLEAN /\ request \in Requests
    BY DEF AdjInv, AdjTypeOK, TypeOK, RunType
  <2>5. /\ StepAfterDecision(run.fresh, next) \in Steps \ {"propose"}
        /\ StepAfterDecision(run.fresh, next) \in {"ingest", "reviseAgain"}
             => loop.data.fb < MaxFallbackRounds
    BY <2>3, <2>4, DecisionSteps, StepNames
  <2>6. run.phase = "adjudicate" /\ pc = "body" /\ loop.step = "adjudicate"
    BY <2>2, WorkingPhase, StepNames
  <2> QED
    BY <2>2, <2>3, <2>5, <2>6, FallbackKept
<1>6. CASE CommitIngest
  <2>1. PICK newEvidence \in BOOLEAN :
          Fallen([loop.data EXCEPT !.vr = 0, !.fb = @ + 1, !.material = newEvidence])
    BY <1>6 DEF CommitIngest
  <2> DEFINE stored == [loop.data EXCEPT !.vr = 0, !.fb = @ + 1, !.material = newEvidence]
  <2>2. Working("ingest")
    BY <1>6 DEF CommitIngest
  <2>3. /\ stored \in DataType /\ stored.fb = loop.data.fb + 1
        /\ stored.claims = loop.data.claims
    BY <2>2, WorkingPhase DEF DataType
  <2>4. run.phase = "ingest" /\ pc = "body" /\ loop.step = "ingest"
    BY <2>2, WorkingPhase, StepNames
  <2>5. Fallen(stored)
    BY <2>1
  <2> HIDE DEF stored
  <2> QED
    BY <2>3, <2>4, <2>5, FallbackSpent
<1>7. CASE CommitReviseAgain
  <2>1. PICK material \in BOOLEAN, outcome \in AdjOutcomes :
          Fallen([loop.data EXCEPT !.rr = MaxRevisionRounds + loop.data.fb + 1, !.vr = 0,
                    !.fb = @ + 1, !.material = material, !.outcome = outcome])
    BY <1>7 DEF CommitReviseAgain
  <2> DEFINE stored == [loop.data EXCEPT !.rr = MaxRevisionRounds + loop.data.fb + 1,
                          !.vr = 0, !.fb = @ + 1, !.material = material,
                          !.outcome = outcome]
  <2>2. Working("reviseAgain")
    BY <1>7 DEF CommitReviseAgain
  <2>3. /\ stored \in DataType /\ stored.fb = loop.data.fb + 1
        /\ stored.claims = loop.data.claims
    BY <2>2, WorkingPhase DEF DataType
  <2>4. run.phase = "revise" /\ pc = "body" /\ loop.step = "reviseAgain"
    BY <2>2, WorkingPhase, StepNames
  <2>5. Fallen(stored)
    BY <2>1
  <2> HIDE DEF stored
  <2> QED
    BY <2>3, <2>4, <2>5, FallbackSpent
<1>8. CASE CommitReport
  <2>1. /\ Working("report") /\ Checkpoint(loop.data, "close", loop.data)
        /\ fallbacks' = fallbacks
    BY <1>8 DEF CommitReport
  <2>2. loop.data \in DataType /\ "close" \in Steps \ {"propose"}
    BY <2>1, WorkingPhase, StepNames
  <2>3. /\ run.phase = "report" /\ snap.done # "report" /\ pc = "body"
        /\ loop.step = "report"
    BY <2>1, WorkingPhase, StepNames
  <2> QED
    BY <2>1, <2>2, <2>3, FallbackKept
<1> QED
  BY <1>1, <1>2, <1>3, <1>4, <1>5, <1>6, <1>7, <1>8

LEMMA FallbackMoves ==
  AdjInv /\ FallbackInv
    /\ (EnterPhase \/ RejectPhase \/ ProposeSome \/ CommitReportAgain \/ Close)
    => FallbackInv'
<1> SUFFICES ASSUME AdjInv, FallbackInv
             PROVE  EnterPhase \/ RejectPhase \/ ProposeSome \/ CommitReportAgain \/ Close
                    => FallbackInv'
  OBVIOUS
<1>0. TypeOK
  BY DEF AdjInv, AdjTypeOK
<1>1. CASE EnterPhase
  <2>1. /\ loop'.step = loop.step /\ loop'.data = loop.data
        /\ ckpt'.fb = ckpt.fb /\ ckpt'.claims = loop.data.claims
    BY <1>1 DEF EnterPhase, AdjInv, AdjTypeOK, DataType
  <2>2. /\ snap'.done = snap.done /\ pc' = "body" /\ pc = "body"
        /\ fallbacks' = fallbacks
    BY <1>0, <1>1, AdvanceKeeps DEF EnterPhase, history
  <2>3. ckpt.claims # "none" => loop.data.claims # "none"
    BY <2>2 DEF FallbackInv, ClaimsLocated, Running
  <2> QED
    BY <2>1, <2>2, <2>3 DEF FallbackInv, ClaimsLocated, FallbacksCounted
<1>2. CASE RejectPhase
  BY <1>2 DEF RejectPhase, Rejected, FallbackInv, ClaimsLocated, FallbacksCounted, Running,
     history
<1>3. CASE ProposeSome
  <2>1. /\ loop'.step = loop.step /\ loop'.data.fb = loop.data.fb
        /\ loop'.data.claims = "partial"
    BY <1>3 DEF ProposeSome, AdjInv, AdjTypeOK, DataType
  <2> QED
    BY <1>3, <2>1 DEF ProposeSome, FallbackInv, ClaimsLocated, FallbacksCounted, history, vars
<1>4. CASE Close
  <2>1. pc = "body" /\ pc' = "finalize" /\ snap' = snap
    BY <1>4 DEF Close, BodyReady
  <2> QED
    BY <1>4, <2>1 DEF Close, FallbackInv, ClaimsLocated, FallbacksCounted, Running, history
<1>5. CASE CommitReportAgain
  <2>1. /\ loop'.step = loop.step /\ loop'.data = loop.data /\ loop.step = "close"
        /\ snap'.done = "report" /\ pc = "body" /\ pc' = "body"
        /\ ckpt' = ckpt /\ fallbacks' = fallbacks
    BY <1>0, <1>5 DEF CommitReportAgain, Working, AdjInv, AdjTypeOK, TypeOK, SnapshotType,
       history
  <2> QED
    BY <2>1 DEF FallbackInv, ClaimsLocated, FallbacksCounted, Running
<1> QED
  BY <1>1, <1>2, <1>3, <1>4, <1>5

LEMMA FallbackOutside ==
  AdjInv /\ FallbackInv /\ (AdjPrelude \/ AdjClosing \/ AdjStepError) => FallbackInv'
<1> SUFFICES ASSUME AdjInv, FallbackInv
             PROVE  AdjPrelude \/ AdjClosing \/ AdjStepError => FallbackInv'
  OBVIOUS
<1>0. TypeOK
  BY DEF AdjInv, AdjTypeOK
<1>1. CASE AdjPrelude
  <2>1. /\ loop' = loop /\ ckpt' = ckpt /\ fallbacks' = fallbacks
        /\ pc \in {"idle", "prelude"} /\ pc' \in {"prelude", "body"}
        /\ pc = "idle" => snap' = snap
    BY <1>1 DEF AdjPrelude, Outside, history, Start, PreludeAdvance, PreludeCommit
  <2>2. snap'.done = snap.done \/ snap'.done = "ingest"
    <3>1. CASE Start
      BY <3>1 DEF Start
    <3>2. CASE PreludeAdvance
      BY <1>0, <3>2, AdvanceKeeps DEF PreludeAdvance
    <3>3. CASE PreludeCommit
      BY <1>0, <3>3 DEF PreludeCommit, TypeOK, SnapshotType
    <3> QED
      BY <1>1, <3>1, <3>2, <3>3 DEF AdjPrelude
  <2>3. loop.step = "propose" /\ fallbacks = 0
    BY <2>1 DEF AdjInv, LoopPhase, FallbackInv, FallbacksCounted
  <2> QED
    BY <2>1, <2>2, <2>3 DEF FallbackInv, ClaimsLocated, FallbacksCounted, Running
<1>2. CASE AdjClosing
  <2>1. /\ loop' = loop /\ ckpt' = ckpt /\ fallbacks' = fallbacks
        /\ pc \in ClosingPcs /\ pc' \in ClosingPcs \cup {"returned"}
    BY <1>2 DEF AdjClosing, Outside, history, CloseStep, EnterAction, BlockAction,
       DispatchAction, RefuseAction, SkipAction, CommitAction, EnterObserve,
       ObserveBuiltin, ObserveSource, ObserveDone, CommitObserve, EnterFinished,
       PersistFinish, EmitFinalized, ClosingPcs
  <2>2. snap'.done = snap.done \/ snap'.done \in {"action", "observe"}
    <3>1. CASE EnterAction \/ EnterObserve
      BY <1>0, <3>1, AdvanceKeeps DEF EnterAction, EnterObserve
    <3>2. CASE CommitAction \/ CommitObserve
      BY <1>0, <3>2, CheckpointStores DEF CommitAction, CommitObserve
    <3>3. CASE PersistFinish
      BY <1>0, <3>3 DEF PersistFinish, TypeOK, SnapshotType
    <3> QED
      BY <1>2, <3>1, <3>2, <3>3 DEF AdjClosing, CloseStep, BlockAction, DispatchAction,
         RefuseAction, SkipAction, ObserveBuiltin, ObserveSource, ObserveDone,
         EnterFinished, EmitFinalized
  <2> QED
    BY <2>1, <2>2 DEF FallbackInv, ClaimsLocated, FallbacksCounted, Running, ClosingPcs
<1>3. CASE AdjStepError
  <2>1. /\ loop' = loop /\ ckpt' = ckpt /\ fallbacks' = fallbacks /\ snap' = snap
        /\ pc' \in {"down", "failing"}
        /\ pc \notin {"idle", "down", "returned"}
    BY <1>3 DEF AdjStepError, Outside, history, StepError, ClosingPcs
  <2> QED
    BY <2>1 DEF FallbackInv, ClaimsLocated, FallbacksCounted, Running
<1> QED
  BY <1>1, <1>2, <1>3

LEMMA FallbackFailures ==
  AdjInv /\ FallbackInv /\ (AdjCrash \/ AdjFailSession \/ AdjResume) => FallbackInv'
<1> SUFFICES ASSUME AdjInv, FallbackInv
             PROVE  AdjCrash \/ AdjFailSession \/ AdjResume => FallbackInv'
  OBVIOUS
<1>0. TypeOK
  BY DEF AdjInv, AdjTypeOK
<1>1. CASE AdjCrash
  BY <1>1 DEF AdjCrash, Crash, history, FallbackInv, ClaimsLocated, FallbacksCounted, Running
<1>2. CASE AdjFailSession
  <2>1. /\ fallbacks' = fallbacks /\ pc' = "down" /\ pc = "failing"
        /\ snap'.done = snap.done
    BY <1>0, <1>2, FailKeeps DEF AdjFailSession, FailSession, history
  <2>2. ckpt'.fb = ckpt.fb /\ ckpt'.claims \in {ckpt.claims, loop.data.claims}
    BY <1>2, GraphsType DEF AdjFailSession
  <2>3. ckpt.claims # "none" => ckpt'.claims # "none"
    BY <2>1, <2>2 DEF FallbackInv, ClaimsLocated, Running
  <2> QED
    BY <2>1, <2>2, <2>3 DEF FallbackInv, ClaimsLocated, FallbacksCounted, Running
<1>3. CASE AdjResume
  <2>1. /\ fallbacks' = fallbacks /\ ckpt' = ckpt /\ snap' = snap
    BY <1>3 DEF AdjResume, Resume, history
  <2>2. CASE AlreadyFinished
    <3>1. pc' = "returned"
      BY <1>3, <2>2 DEF AdjResume, Resume
    <3> QED
      BY <2>1, <3>1 DEF FallbackInv, ClaimsLocated, FallbacksCounted, Running
  <2>3. CASE ~AlreadyFinished
    <3>1. /\ pc' = ResumePc /\ loop'.step = RestoredStep
          /\ loop'.data.fb = ckpt.fb /\ loop'.data.claims = ckpt.claims
      BY <1>3, <2>3, RestoredType DEF AdjResume, Resume
    <3>2. /\ pc' \in {"prelude", "body", "finalize"}
          /\ pc' = "prelude" => snap.done = "created"
      BY <3>1 DEF ResumePc
    <3>3. ClaimsLocated'
      BY <2>1, <3>1, <3>2, RestoredType DEF FallbackInv, ClaimsLocated
    <3>4. FallbacksCounted'
      BY <2>1, <3>1, <3>2, RestoredType DEF FallbackInv, FallbacksCounted
    <3> QED
      BY <3>3, <3>4 DEF FallbackInv
  <2> QED
    BY <2>2, <2>3
<1> QED
  BY <1>1, <1>2, <1>3

LEMMA FallbackNext == AdjInv /\ FallbackInv /\ [AdjNext]_adjVars => FallbackInv'
<1>1. CASE UNCHANGED adjVars \/ (Returned /\ Outside)
  BY <1>1 DEF adjVars, vars, history, Returned, Outside, FallbackInv, ClaimsLocated,
     FallbacksCounted, Running
<1> QED
  BY <1>1, FallbackCommits, FallbackMoves, FallbackOutside, FallbackFailures
     DEF AdjNext, AdjEngineStep, AdjBody

LEMMA FallbackInvariant == AdjSpec => []FallbackInv
  BY AdjInvariant, FallbackInit, FallbackNext, PTL DEF AdjSpec

\* The fallback rounds a session commits in its whole life stay within
\* MaxFallbackRounds: decideAdjudicationFallback reads the round from the
\* checkpoint, and no crash, failed phase or resume gives a round back.
THEOREM FallbacksAreBounded == AdjSpec => []FallbackBudget
<1>1. FallbackInv => FallbackBudget
  BY DEF FallbackInv, FallbacksCounted, FallbackBudget
<1> QED
  BY <1>1, FallbackInvariant, PTL

-----------------------------------------------------------------------------
(* Where runs continue: the step after a checkpoint, fresh and resumed.    *)

\* The step a checkpoint of the given one leads to, by the data it stores.
Continues(from, fresh, stored, step) ==
  \/ from = "propose" /\ step = (IF stored.claims = "none" THEN "noClaims" ELSE "challenge")
  \/ from = "challenge" /\ step = "verify"
  \/ from = "verify" /\ step = StepAfterVerify(stored)
  \/ from = "revise" /\ step = StepAfterRevision(stored)
  \/ from = "adjudicate" /\ step = StepAfterDecision(fresh, stored)
  \/ from = "ingest" /\ step = (IF stored.material THEN "challenge" ELSE "report")
  \/ /\ from = "reviseAgain" /\ stored.rr > MaxRevisionRounds
     /\ step = (IF stored.material THEN "challenge" ELSE "report")
  \/ from = "report" /\ step = "close"

\* What all checkpoints of the body have in common.
Commits(stored, step, next) ==
  /\ pc = "body" /\ loop.entered /\ run.phase = PhaseOf[loop.step]
  /\ run.phase = "report" => snap.done # "report"
  /\ Checkpoint(stored, step, next)
  /\ next.claims = stored.claims
  /\ IF loop.step = "propose" THEN stored.claims # "partial"
                             ELSE stored.claims = loop.data.claims
  /\ Continues(loop.step, run.fresh, stored, step)

Commit == \/ CommitPropose \/ CommitChallenge \/ CommitVerify \/ CommitRevise
          \/ CommitAdjudicate \/ CommitIngest \/ CommitReviseAgain \/ CommitReport

LEMMA EveryCommit ==
  ASSUME AdjInv, Commit
  PROVE  \E stored, next \in DataType, step \in Steps : Commits(stored, step, next)
<1>0. ASSUME NEW step, Working(step)
      PROVE  /\ pc = "body" /\ loop.entered /\ loop.step = step
             /\ run.phase = PhaseOf[loop.step]
             /\ step # "close" => snap.done # "report"
  BY <1>0, WorkingPhase DEF Working
<1>1. CASE CommitPropose
  <2> DEFINE empty == loop.data.claims = "none"
             step == IF empty THEN "noClaims" ELSE "challenge"
             next == [loop.data EXCEPT !.claims = IF empty THEN "none" ELSE "all",
                                       !.rr = 0, !.vr = 0, !.fb = 0, !.material = TRUE]
  <2>1. Working("propose") /\ Checkpoint(next, step, next)
    BY <1>1 DEF CommitPropose
  <2>2. /\ next \in DataType /\ step \in Steps /\ next.claims \in {"none", "all"}
        /\ step = (IF next.claims = "none" THEN "noClaims" ELSE "challenge")
    BY <2>1, WorkingPhase, StepNames DEF DataType
  <2> HIDE DEF next, step
  <2>3. Commits(next, step, next)
    BY <1>0, <2>1, <2>2 DEF Commits, Continues
  <2> QED BY <2>2, <2>3
<1>2. CASE CommitChallenge
  <2> DEFINE next == [loop.data EXCEPT !.material = TRUE]
  <2>1. Working("challenge") /\ Checkpoint(next, "verify", next)
    BY <1>2 DEF CommitChallenge
  <2>2. next \in DataType /\ "verify" \in Steps /\ next.claims = loop.data.claims
    BY <2>1, WorkingPhase, StepNames DEF DataType
  <2> HIDE DEF next
  <2>3. Commits(next, "verify", next)
    BY <1>0, <2>1, <2>2 DEF Commits, Continues
  <2> QED BY <2>2, <2>3
<1>3. CASE CommitVerify
  <2>1. PICK pending \in BOOLEAN :
          LET next == [loop.data EXCEPT !.vr = @ + 1, !.pending = pending, !.material = TRUE]
          IN Checkpoint(next, StepAfterVerify(next), next)
    BY <1>3 DEF CommitVerify
  <2> DEFINE next == [loop.data EXCEPT !.vr = @ + 1, !.pending = pending, !.material = TRUE]
  <2>2. Working("verify") /\ Checkpoint(next, StepAfterVerify(next), next)
    BY <1>3, <2>1 DEF CommitVerify
  <2>3. next \in DataType /\ next.claims = loop.data.claims
    BY <2>2, WorkingPhase DEF DataType
  <2> HIDE DEF next
  <2>4. StepAfterVerify(next) \in Steps
    BY LoopSteps, StepNames
  <2>5. Commits(next, StepAfterVerify(next), next)
    BY <1>0, <2>2, <2>3 DEF Commits, Continues
  <2> QED BY <2>3, <2>4, <2>5
<1>4. CASE CommitRevise
  <2>1. PICK material \in BOOLEAN :
          LET stored == [loop.data EXCEPT !.rr = @ + 1, !.material = material]
          IN Checkpoint(stored, StepAfterRevision(stored),
                        CountersAfterRevision(run.fresh, stored))
    BY <1>4 DEF CommitRevise
  <2> DEFINE stored == [loop.data EXCEPT !.rr = @ + 1, !.material = material]
             next == CountersAfterRevision(run.fresh, stored)
  <2>2. Working("revise") /\ Checkpoint(stored, StepAfterRevision(stored), next)
    BY <1>4, <2>1 DEF CommitRevise
  <2>3. stored \in DataType /\ stored.claims = loop.data.claims
    BY <2>2, WorkingPhase DEF DataType
  <2> HIDE DEF stored
  <2>4. next \in DataType /\ next.claims = loop.data.claims
    BY <2>3 DEF CountersAfterRevision, DataType
  <2>5. StepAfterRevision(stored) \in Steps
    BY LoopSteps, StepNames
  <2> HIDE DEF next
  <2>6. Commits(stored, StepAfterRevision(stored), next)
    BY <1>0, <2>2, <2>3, <2>4 DEF Commits, Continues
  <2> QED BY <2>3, <2>4, <2>5, <2>6
<1>5. CASE CommitAdjudicate
  <2>1. PICK found \in Findings :
          LET next == [loop.data EXCEPT !.outcome = found.outcome,
                         !.leftover = found.leftover, !.records = found.records,
                         !.material = TRUE]
          IN Checkpoint(next, StepAfterDecision(run.fresh, next), next)
    BY <1>5 DEF CommitAdjudicate
  <2> DEFINE next == [loop.data EXCEPT !.outcome = found.outcome,
                        !.leftover = found.leftover, !.records = found.records,
                        !.material = TRUE]
  <2>2. /\ Working("adjudicate")
        /\ Checkpoint(next, StepAfterDecision(run.fresh, next), next)
    BY <1>5, <2>1 DEF CommitAdjudicate
  <2>3. next \in DataType /\ next.claims = loop.data.claims
    BY <2>2, WorkingPhase DEF DataType, Findings
  <2> HIDE DEF next
  <2>4. run.fresh \in BOOLEAN /\ request \in Requests
    BY DEF AdjInv, AdjTypeOK, TypeOK, RunType
  <2>5. StepAfterDecision(run.fresh, next) \in Steps
    BY <2>3, <2>4, DecisionSteps, StepNames
  <2>6. Commits(next, StepAfterDecision(run.fresh, next), next)
    BY <1>0, <2>2, <2>3 DEF Commits, Continues
  <2> QED BY <2>3, <2>5, <2>6
<1>6. ASSUME NEW stored \in DataType, Fallen(stored), stored.claims = loop.data.claims,
             \/ Working("ingest")
             \/ Working("reviseAgain") /\ stored.rr > MaxRevisionRounds
      PROVE  \E s, next \in DataType, step \in Steps : Commits(s, step, next)
  <2> DEFINE step == IF stored.material THEN "challenge" ELSE "report"
             next == IF stored.material THEN [stored EXCEPT !.rr = 0, !.vr = 0] ELSE stored
  <2>1. next \in DataType /\ next.claims = stored.claims /\ step \in Steps
    BY StepNames DEF DataType
  <2>2. Checkpoint(stored, step, next)
    BY <1>6 DEF Fallen
  <2> HIDE DEF next
  <2>3. Commits(stored, step, next)
    BY <1>0, <1>6, <2>1, <2>2 DEF Commits, Continues
  <2> QED BY <2>1, <2>3
<1>7. CASE CommitIngest
  <2>1. PICK newEvidence \in BOOLEAN :
          Fallen([loop.data EXCEPT !.vr = 0, !.fb = @ + 1, !.material = newEvidence])
    BY <1>7 DEF CommitIngest
  <2> DEFINE stored == [loop.data EXCEPT !.vr = 0, !.fb = @ + 1, !.material = newEvidence]
  <2>2. Working("ingest") /\ Fallen(stored)
    BY <1>7, <2>1 DEF CommitIngest
  <2>3. stored \in DataType /\ stored.claims = loop.data.claims
    BY <2>2, WorkingPhase DEF DataType
  <2> HIDE DEF stored
  <2> QED BY <1>6, <2>2, <2>3
<1>8. CASE CommitReviseAgain
  <2>1. PICK material \in BOOLEAN, outcome \in AdjOutcomes :
          Fallen([loop.data EXCEPT !.rr = MaxRevisionRounds + loop.data.fb + 1, !.vr = 0,
                    !.fb = @ + 1, !.material = material, !.outcome = outcome])
    BY <1>8 DEF CommitReviseAgain
  <2> DEFINE stored == [loop.data EXCEPT !.rr = MaxRevisionRounds + loop.data.fb + 1,
                          !.vr = 0, !.fb = @ + 1, !.material = material,
                          !.outcome = outcome]
  <2>2. Working("reviseAgain") /\ Fallen(stored)
    BY <1>8, <2>1 DEF CommitReviseAgain
  <2>3. /\ stored \in DataType /\ stored.claims = loop.data.claims
        /\ stored.rr = MaxRevisionRounds + loop.data.fb + 1
    BY <2>2, WorkingPhase DEF DataType
  <2>4. loop.data.fb \in Nat
    BY <2>2, WorkingPhase DEF DataType
  <2>5. stored.rr > MaxRevisionRounds
    BY <2>3, <2>4, PolicyAssumption
  <2> HIDE DEF stored
  <2> QED BY <1>6, <2>2, <2>3, <2>5
<1>9. CASE CommitReport
  <2>1. Working("report") /\ Checkpoint(loop.data, "close", loop.data)
    BY <1>9 DEF CommitReport
  <2>2. loop.data \in DataType /\ "close" \in Steps
    BY <2>1, WorkingPhase, StepNames
  <2>3. Commits(loop.data, "close", loop.data)
    BY <1>0, <2>1 DEF Commits, Continues
  <2> QED BY <2>2, <2>3
<1> QED BY <1>1, <1>2, <1>3, <1>4, <1>5, <1>7, <1>8, <1>9 DEF Commit

\* What a checkpoint stores decides as what the run went on with.
LEMMA StoredDecides ==
  ASSUME AdjInv, NEW stored \in DataType, NEW next \in DataType, NEW step \in Steps,
         Commits(stored, step, next)
  PROVE  /\ snap'.done = run.phase /\ run' = run /\ pc' = "body" /\ request' = request
         /\ loop'.step = step /\ ~loop'.entered /\ loop'.data.claims = stored.claims
         /\ ckpt'.claims = stored.claims /\ ckpt'.material = stored.material
         /\ ckpt'.rr = stored.rr /\ plan' = step /\ failures' = failures
         /\ FallbackTarget(ckpt)' = FallbackTarget(stored)
         /\ StepAfterVerify(ckpt)' = StepAfterVerify(stored)
         /\ StepAfterRevision(ckpt)' = StepAfterRevision(stored)
<1>1. /\ ckpt' = [stored EXCEPT !.records = @ \/ ckpt.records]
      /\ request' = request /\ plan' = step /\ pc' = pc /\ failures' = failures
  BY DEF Commits, Checkpoint
<1>2. /\ ckpt'.claims = stored.claims /\ ckpt'.material = stored.material
      /\ ckpt'.rr = stored.rr /\ ckpt'.vr = stored.vr /\ ckpt'.pending = stored.pending
      /\ ckpt'.outcome = stored.outcome /\ ckpt'.leftover = stored.leftover
      /\ ckpt'.fb = stored.fb
  BY <1>1 DEF DataType
<1>3. FallbackTarget(ckpt)' = FallbackTarget(stored)
  BY <1>1, <1>2 DEF FallbackTarget, FallbackCause
<1>4. StepAfterVerify(ckpt)' = StepAfterVerify(stored)
  BY <1>1, <1>2 DEF StepAfterVerify
<1>5. StepAfterRevision(ckpt)' = StepAfterRevision(stored)
  BY <1>1, <1>2 DEF StepAfterRevision
<1> QED BY <1>1, <1>2, <1>3, <1>4, <1>5, CheckpointStep DEF Commits

-----------------------------------------------------------------------------
(* Refused transitions.                                                    *)

LEMMA Transitions ==
  /\ AllowedTransition("ingest", "propose") /\ AllowedTransition("ingest", "challenge")
  /\ AllowedTransition("ingest", "adjudicate") /\ AllowedTransition("propose", "challenge")
  /\ AllowedTransition("propose", "report") /\ AllowedTransition("challenge", "verify")
  /\ AllowedTransition("verify", "revise") /\ AllowedTransition("verify", "adjudicate")
  /\ AllowedTransition("revise", "challenge") /\ AllowedTransition("revise", "adjudicate")
  /\ AllowedTransition("adjudicate", "ingest") /\ AllowedTransition("adjudicate", "revise")
  /\ AllowedTransition("adjudicate", "report")
BY DEF AllowedTransition, Successors, Phases, PreludePhases, AdjudicationPhases

\* A decision that does not fall back to a revision goes on as the fresh run
\* does; one that does leads a resumed run to the challenge.
LEMMA DecisionTargets ==
  ASSUME NEW fresh \in BOOLEAN, NEW data \in DataType, request \in Requests
  PROVE  /\ FallbackTarget(data) # "revise" =>
              StepAfterDecision(fresh, data) \in {"report", "ingest"}
         /\ StepAfterDecision(fresh, data) = "challenge" =>
              ~fresh /\ FallbackTarget(data) = "revise"
<1>1. FallbackCause(data) = "none" \/ FallbackCause(data) \in FallbackCauses
  BY DEF FallbackCause, FallbackCauses
<1>2. FallbackTarget(data) \in FallbackTargets
  BY <1>1, PolicyAssumption DEF FallbackTarget, FallbackTargets
<1>3. CASE FallbackTarget(data) = "stop"
  BY <1>3 DEF StepAfterDecision
<1>4. CASE FallbackTarget(data) = "ingest"
  BY <1>4 DEF StepAfterDecision
<1>5. CASE FallbackTarget(data) = "revise"
  BY <1>5 DEF StepAfterDecision
<1> QED BY <1>2, <1>3, <1>4, <1>5 DEF FallbackTargets

LEMMA CommitAllowed ==
  ASSUME AdjInv, Commit
  PROVE  RefusedAfterDecisionOnly'
<1>1. PICK stored \in DataType, next \in DataType, step \in Steps : Commits(stored, step, next)
  BY EveryCommit
<1>2. /\ snap'.done = run.phase /\ run' = run /\ loop'.step = step
      /\ FallbackTarget(ckpt)' = FallbackTarget(stored)
  BY <1>1, StoredDecides
<1>3. /\ EntryPhase' = (IF step = "report" /\ run.phase \in {"ingest", "revise"}
                          THEN "adjudicate" ELSE PhaseOf[step])
      /\ run.phase = PhaseOf[loop.step]
  BY <1>1, <1>2 DEF EntryPhase, Commits
<1>4. ASSUME AllowedTransition(run.phase, EntryPhase') PROVE RefusedAfterDecisionOnly'
  BY <1>2, <1>4 DEF RefusedAfterDecisionOnly, Rejected
<1>5. ASSUME step = "close" PROVE RefusedAfterDecisionOnly'
  BY <1>2, <1>5 DEF RefusedAfterDecisionOnly, Rejected
<1>6. Continues(loop.step, run.fresh, stored, step)
  BY <1>1 DEF Commits
<1>7. CASE loop.step \in {"propose", "challenge", "report"}
  BY <1>3, <1>4, <1>5, <1>6, <1>7, Transitions, StepNames DEF Continues
<1>8. CASE loop.step \in {"verify", "revise"}
  BY <1>3, <1>4, <1>6, <1>8, Transitions, StepNames, LoopSteps DEF Continues
<1>9. CASE loop.step \in {"ingest", "reviseAgain"}
  BY <1>3, <1>4, <1>6, <1>9, Transitions, StepNames DEF Continues
<1>10. CASE loop.step = "adjudicate"
  <2>1. step = StepAfterDecision(run.fresh, stored) /\ run.phase = "adjudicate"
    BY <1>3, <1>6, <1>10, StepNames DEF Continues
  <2>2. run.fresh \in BOOLEAN /\ request \in Requests
    BY DEF AdjInv, AdjTypeOK, TypeOK, RunType
  <2>3. CASE step \in {"report", "ingest", "reviseAgain"}
    BY <1>3, <1>4, <2>1, <2>3, Transitions, StepNames
  <2>4. CASE step = "challenge"
    <3>1. ~run.fresh /\ FallbackTarget(stored) = "revise"
      BY <2>1, <2>2, <2>4, DecisionTargets
    <3>2. PartingDecision'
      BY <1>2, <2>1, <3>1 DEF PartingDecision
    <3> QED BY <1>2, <3>1, <3>2 DEF RefusedAfterDecisionOnly
  <2> QED BY <2>1, <2>2, <2>3, <2>4, DecisionSteps
<1> QED BY <1>6, <1>7, <1>8, <1>9, <1>10 DEF Continues

LEMMA ResumeAllowed ==
  ASSUME AdjInv, AdjResume
  PROVE  RefusedAfterDecisionOnly'
<1>1. CASE pc' # "body"
  BY <1>1 DEF RefusedAfterDecisionOnly, Rejected
<1>2. CASE pc' = "body"
  <2>1. /\ ~AlreadyFinished /\ pc' = ResumePc /\ run'.phase = snap.done /\ ~run'.fresh
        /\ snap' = snap /\ ckpt' = ckpt /\ request' = request
        /\ loop'.step = RestoredStep /\ loop'.entered = (snap.done = "report")
    BY <1>2, RestoredType DEF AdjResume, Resume, RestoredRun
  <2>2. EntryPhase' = (IF RestoredStep = "report" /\ snap.done \in {"ingest", "revise"}
                         THEN "adjudicate" ELSE PhaseOf[RestoredStep])
    BY <2>1 DEF EntryPhase
  <2>3. ASSUME AllowedTransition(snap.done, EntryPhase') PROVE RefusedAfterDecisionOnly'
    BY <2>1, <2>3 DEF RefusedAfterDecisionOnly, Rejected
  <2>4. ASSUME RestoredStep = "close" PROVE RefusedAfterDecisionOnly'
    BY <2>1, <2>4 DEF RefusedAfterDecisionOnly, Rejected
  <2>5. snap.done # "created"
    BY <1>2, <2>1 DEF ResumePc
  <2>6. CASE snap.done \in {"ingest", "propose", "challenge"}
    BY <2>2, <2>3, <2>6, Transitions, StepNames DEF RestoredStep
  <2>7. CASE snap.done \in {"verify", "revise"}
    <3>1. \/ snap.done = "verify" /\ RestoredStep = StepAfterVerify(ckpt)
          \/ snap.done = "revise" /\ RestoredStep = StepAfterRevision(ckpt)
      BY <2>7 DEF RestoredStep, ResumeRevision
    <3> QED BY <2>2, <2>3, <3>1, Transitions, StepNames, LoopSteps
  <2>8. CASE snap.done = "adjudicate"
    <3>1. RestoredStep = ResumeDecision(ckpt)
      BY <2>8 DEF RestoredStep
    <3>2. FALSE \in BOOLEAN /\ request \in Requests /\ ckpt \in DataType
      BY DEF AdjInv, AdjTypeOK, TypeOK
    <3>3. PartingDecision' = PartingDecision
      BY <2>1 DEF PartingDecision, FallbackTarget, FallbackCause
    <3>4. CASE PartingDecision
      BY <2>1, <3>3, <3>4 DEF RefusedAfterDecisionOnly
    <3>5. CASE ~PartingDecision
      <4>1. RestoredStep = StepAfterDecision(FALSE, ckpt) /\ FallbackTarget(ckpt) # "revise"
        BY <2>8, <3>1, <3>5 DEF ResumeDecision, PartingDecision
      <4>2. RestoredStep \in {"report", "ingest"}
        BY <3>2, <4>1, DecisionTargets
      <4> QED BY <2>2, <2>3, <2>8, <4>2, Transitions, StepNames
    <3> QED BY <3>4, <3>5
  <2>9. CASE snap.done \notin {"created", "ingest", "propose", "challenge", "verify",
                              "revise", "adjudicate"}
    BY <2>4, <2>9 DEF RestoredStep
  <2> QED BY <2>5, <2>6, <2>7, <2>8, <2>9
<1> QED BY <1>1, <1>2

LEMMA RefusedNext ==
  AdjInv /\ RefusedAfterDecisionOnly /\ [AdjNext]_adjVars => RefusedAfterDecisionOnly'
<1> SUFFICES ASSUME AdjInv, RefusedAfterDecisionOnly, [AdjNext]_adjVars
             PROVE  RefusedAfterDecisionOnly'
  OBVIOUS
<1>0. TypeOK
  BY DEF AdjInv, AdjTypeOK
<1>1. ASSUME ~Rejected' PROVE RefusedAfterDecisionOnly'
  BY <1>1 DEF RefusedAfterDecisionOnly
<1>2. CASE pc' # "body"
  BY <1>1, <1>2 DEF Rejected
<1>3. CASE UNCHANGED adjVars \/ (Returned /\ Outside) \/ ProposeSome
  <2>1. CASE UNCHANGED adjVars \/ (Returned /\ Outside)
    <3>1. UNCHANGED <<request, pc, run, snap, loop, ckpt>>
      BY <2>1 DEF adjVars, vars, Returned, Outside
    <3> QED BY <3>1 DEF RefusedAfterDecisionOnly, Rejected, EntryPhase, PartingDecision,
       FallbackTarget, FallbackCause
  <2>2. CASE ProposeSome
    <3>1. loop'.entered
      BY <2>2 DEF ProposeSome, Working, AdjInv, AdjTypeOK
    <3> QED BY <1>1, <3>1 DEF Rejected
  <2> QED BY <1>3, <2>1, <2>2
<1>4. CASE EnterPhase
  <2>1. /\ Advance(EntryPhase) /\ loop.step # "close" /\ loop'.step = loop.step
        /\ loop'.entered = (EntryPhase = PhaseOf[loop.step])
    BY <1>4 DEF EnterPhase, AdjInv, AdjTypeOK
  <2>2. run'.phase = EntryPhase
    BY <1>0, <2>1, AdvanceKeeps
  <2>3. CASE EntryPhase = PhaseOf[loop.step]
    BY <1>1, <2>1, <2>3 DEF Rejected
  <2>4. CASE EntryPhase # PhaseOf[loop.step]
    <3>1. EntryPhase = "adjudicate" /\ loop.step = "report"
      BY <2>4 DEF EntryPhase
    <3>2. EntryPhase' = "report"
      BY <2>1, <2>2, <3>1, StepNames DEF EntryPhase
    <3> QED BY <1>1, <2>2, <3>1, <3>2, Transitions DEF Rejected
  <2> QED BY <2>3, <2>4
<1>5. CASE CommitReportAgain
  <2>1. loop'.step = "close"
    BY <1>5 DEF CommitReportAgain, Working, AdjInv, AdjTypeOK
  <2> QED BY <1>1, <2>1 DEF Rejected
<1>6. CASE AdjPrelude
  <2>1. pc' = "body" => run'.phase = "ingest"
    BY <1>0, <1>6 DEF AdjPrelude, Start, PreludeAdvance, PreludeCommit
  <2>2. loop'.step = "propose"
    BY <1>6 DEF AdjPrelude, Outside, Start, PreludeAdvance, PreludeCommit, AdjInv, LoopPhase
  <2>3. EntryPhase' = "propose"
    BY <2>2, StepNames DEF EntryPhase
  <2> QED BY <1>1, <1>2, <2>1, <2>3, Transitions DEF Rejected
<1>7. CASE AdjClosing \/ AdjStepError \/ AdjFailSession \/ AdjCrash \/ RejectPhase \/ Close
  <2>1. pc' # "body"
    BY <1>7 DEF AdjClosing, CloseStep, EnterAction, BlockAction, DispatchAction,
       RefuseAction, SkipAction, CommitAction, EnterObserve, ObserveBuiltin,
       ObserveSource, ObserveDone, CommitObserve, EnterFinished, PersistFinish,
       EmitFinalized, AdjStepError, StepError, AdjFailSession, FailSession, AdjCrash,
       Crash, RejectPhase, Close, BodyReady
  <2> QED BY <1>2, <2>1
<1> QED
  BY <1>3, <1>4, <1>5, <1>6, <1>7, CommitAllowed, ResumeAllowed
     DEF AdjNext, AdjEngineStep, AdjBody, Commit

\* Whatever the policies, the answers, the crashes and the failures, the state
\* machine refuses the workflow a phase only after a resume at a decision that
\* has no records or falls back to revise (resumeAdjudicationDecision).
THEOREM RefusedOnlyThere == AdjSpec => []RefusedAfterDecisionOnly
<1>1. AdjInit => RefusedAfterDecisionOnly
  BY DEF AdjInit, Init, RefusedAfterDecisionOnly, Rejected
<1> QED
  BY <1>1, AdjInvariant, RefusedNext, PTL DEF AdjSpec

-----------------------------------------------------------------------------
(* Resumed where it was.                                                   *)

\* The claims in memory are those stored, except while proposers answer.
ClaimsStored ==
  /\ ckpt.claims # "partial"
  /\ pc \in {"idle", "prelude"} => snap.done = "created"
  /\ pc \in {"idle", "prelude", "failing"} \cup ClosingPcs => loop.data.claims = ckpt.claims
  /\ pc = "body" => \/ loop.data.claims = ckpt.claims
                    \/ loop.step = "propose" /\ loop.entered
  /\ pc \in {"down", "returned"} => loop.data.claims # "partial"
  /\ pc = "failing" => ~loop.entered

\* The step the run was about to take is the one its checkpoint leads to.
PlanLeads ==
  /\ snap.done = "created" => ckpt.claims = "none" /\ plan = "propose"
  /\ snap.done = "ingest" =>
       plan = (IF ckpt.claims = "none" THEN "propose"
               ELSE IF ckpt.material THEN "challenge" ELSE "report")
  /\ snap.done = "propose" =>
       plan = (IF ckpt.claims = "none" THEN "noClaims" ELSE "challenge")
  /\ snap.done = "challenge" => plan = "verify"
  /\ snap.done = "verify" => plan = StepAfterVerify(ckpt)
  /\ snap.done = "revise" => \/ plan = StepAfterRevision(ckpt)
                             \/ ~ckpt.material /\ ckpt.rr > MaxRevisionRounds
  /\ snap.done = "adjudicate" =>
       \E fresh \in BOOLEAN : plan = StepAfterDecision(fresh, ckpt)
  /\ snap.done = "report" => plan = "close"

PlanInv ==
  /\ snap.done \in {"created", "ingest", "propose", "challenge", "verify", "revise",
                    "adjudicate", "report", "action", "observe"}
  /\ failures = 0 => ClaimsStored /\ PlanLeads

LEMMA PlanCommit ==
  ASSUME AdjInv, FallbackInv, PlanInv, Commit
  PROVE  PlanInv'
<1>1. PICK stored \in DataType, next \in DataType, step \in Steps : Commits(stored, step, next)
  BY EveryCommit
<1>2. /\ snap'.done = run.phase /\ pc' = "body" /\ request' = request
      /\ loop'.step = step /\ ~loop'.entered /\ loop'.data.claims = stored.claims
      /\ ckpt'.claims = stored.claims /\ ckpt'.material = stored.material
      /\ ckpt'.rr = stored.rr /\ plan' = step /\ failures' = failures
      /\ FallbackTarget(ckpt)' = FallbackTarget(stored)
      /\ StepAfterVerify(ckpt)' = StepAfterVerify(stored)
      /\ StepAfterRevision(ckpt)' = StepAfterRevision(stored)
  BY <1>1, StoredDecides
<1>3. /\ pc = "body" /\ loop.entered /\ run.phase = PhaseOf[loop.step]
      /\ Continues(loop.step, run.fresh, stored, step)
      /\ IF loop.step = "propose" THEN stored.claims # "partial"
                                  ELSE stored.claims = loop.data.claims
  BY <1>1 DEF Commits
<1>4. \A fresh \in BOOLEAN : StepAfterDecision(fresh, ckpt)' = StepAfterDecision(fresh, stored)
  BY <1>2 DEF StepAfterDecision
<1>5. run.fresh \in BOOLEAN
  BY DEF AdjInv, AdjTypeOK, TypeOK, RunType
<1>6. loop.step \notin {"propose", "noClaims", "close"} => stored.claims # "none"
  BY <1>3 DEF FallbackInv, ClaimsLocated
<1>7. /\ snap'.done \in {"propose", "challenge", "verify", "revise", "adjudicate", "ingest",
                         "report"}
      /\ PlanLeads'
  <2>1. CASE loop.step = "propose"
    BY <1>2, <1>3, <2>1, StepNames DEF Continues, PlanLeads
  <2>2. CASE loop.step = "challenge"
    BY <1>2, <1>3, <2>2, StepNames DEF Continues, PlanLeads
  <2>3. CASE loop.step = "verify"
    BY <1>2, <1>3, <2>3, StepNames DEF Continues, PlanLeads
  <2>4. CASE loop.step = "revise"
    BY <1>2, <1>3, <2>4, StepNames DEF Continues, PlanLeads
  <2>5. CASE loop.step = "adjudicate"
    <3>1. snap'.done = "adjudicate" /\ plan' = StepAfterDecision(run.fresh, stored)
      BY <1>2, <1>3, <2>5, StepNames DEF Continues
    <3>2. \E fresh \in BOOLEAN : plan' = StepAfterDecision(fresh, ckpt)'
      BY <1>4, <1>5, <3>1
    <3> QED BY <3>1, <3>2 DEF PlanLeads
  <2>6. CASE loop.step = "ingest"
    BY <1>2, <1>3, <1>6, <2>6, StepNames DEF Continues, PlanLeads
  <2>7. CASE loop.step = "reviseAgain"
    <3>1. /\ snap'.done = "revise" /\ ckpt'.rr > MaxRevisionRounds
          /\ plan' = (IF ckpt'.material THEN "challenge" ELSE "report")
      BY <1>2, <1>3, <2>7, StepNames DEF Continues
    <3>2. ckpt'.material => plan' = StepAfterRevision(ckpt)'
      BY <3>1 DEF StepAfterRevision
    <3> QED BY <3>1, <3>2 DEF PlanLeads
  <2>8. CASE loop.step = "report"
    BY <1>2, <1>3, <2>8, StepNames DEF Continues, PlanLeads
  <2> QED BY <1>3, <2>1, <2>2, <2>3, <2>4, <2>5, <2>6, <2>7, <2>8 DEF Continues
<1>8. failures = 0 => ClaimsStored'
  <2> SUFFICES ASSUME failures = 0 PROVE ClaimsStored'
    OBVIOUS
  <2>1. stored.claims # "partial"
    BY <1>3 DEF PlanInv, ClaimsStored
  <2> QED BY <1>2, <2>1 DEF ClaimsStored, ClosingPcs
<1> QED BY <1>2, <1>7, <1>8 DEF PlanInv

\* A step that leaves the checkpoint and the phase completed leaves the plan.
LEMMA PlanLeadsKept ==
  ASSUME PlanLeads, snap'.done = snap.done, ckpt' = ckpt, plan' = plan, request' = request
  PROVE  PlanLeads'
<1>1. /\ StepAfterVerify(ckpt)' = StepAfterVerify(ckpt)
      /\ StepAfterRevision(ckpt)' = StepAfterRevision(ckpt)
      /\ \A fresh \in BOOLEAN : StepAfterDecision(fresh, ckpt)' = StepAfterDecision(fresh, ckpt)
  BY DEF StepAfterVerify, StepAfterRevision, StepAfterDecision, FallbackTarget, FallbackCause
<1> QED BY <1>1 DEF PlanLeads

LEMMA PlanMoves ==
  ASSUME AdjInv, PlanInv,
         EnterPhase \/ RejectPhase \/ ProposeSome \/ CommitReportAgain \/ Close
  PROVE  PlanInv'
<1>0. TypeOK /\ ckpt \in DataType /\ loop \in [step : Steps, entered : BOOLEAN, data : DataType]
  BY DEF AdjInv, AdjTypeOK
<1> USE DEF PlanInv
<1>1. CASE EnterPhase
  <2>1. /\ loop'.step = loop.step /\ loop'.data = loop.data /\ ~loop.entered /\ pc = "body"
        /\ ckpt' = [ckpt EXCEPT !.claims = loop.data.claims] /\ pc' = pc
        /\ plan' = plan /\ failures' = failures /\ request' = request
    BY <1>0, <1>1 DEF EnterPhase, history
  <2>2. snap'.done = snap.done
    BY <1>0, <1>1, AdvanceKeeps DEF EnterPhase
  <2>3. ASSUME failures = 0 PROVE ckpt' = ckpt /\ loop.data.claims = ckpt.claims
    BY <1>0, <2>1, <2>3 DEF ClaimsStored, DataType
  <2>4. failures = 0 => ClaimsStored'
    BY <2>1, <2>2, <2>3 DEF ClaimsStored, ClosingPcs
  <2>5. failures = 0 => PlanLeads'
    BY <2>1, <2>2, <2>3, PlanLeadsKept
  <2> QED BY <2>1, <2>2, <2>4, <2>5
<1>2. CASE RejectPhase
  <2>1. /\ ~loop.entered /\ pc = "body" /\ pc' = "failing" /\ loop' = loop /\ ckpt' = ckpt
        /\ snap' = snap /\ plan' = plan /\ failures' = failures /\ request' = request
    BY <1>2 DEF RejectPhase, Rejected, history
  <2>2. failures = 0 => ClaimsStored'
    BY <2>1 DEF ClaimsStored, ClosingPcs
  <2> QED BY <2>1, <2>2, PlanLeadsKept
<1>3. CASE ProposeSome
  <2>1. /\ loop'.step = "propose" /\ loop'.entered /\ pc = "body" /\ pc' = "body"
        /\ ckpt' = ckpt /\ snap' = snap /\ plan' = plan /\ failures' = failures
        /\ request' = request
    BY <1>0, <1>3 DEF ProposeSome, Working, history, vars
  <2>2. failures = 0 => ClaimsStored'
    BY <2>1 DEF ClaimsStored, ClosingPcs
  <2> QED BY <2>1, <2>2, PlanLeadsKept
<1>4. CASE Close
  <2>1. /\ pc = "body" /\ pc' = "finalize" /\ loop' = loop /\ ckpt' = ckpt /\ snap' = snap
        /\ plan' = plan /\ failures' = failures /\ request' = request
        /\ loop.step \in {"close", "noClaims"}
    BY <1>4 DEF Close, BodyReady, Working, history
  <2>2. failures = 0 => ClaimsStored'
    BY <2>1 DEF ClaimsStored, ClosingPcs
  <2> QED BY <2>1, <2>2, PlanLeadsKept
<1>5. CASE CommitReportAgain
  <2>1. /\ pc = "body" /\ loop.step = "close" /\ loop.entered /\ snap'.done = "report"
        /\ loop'.step = "close" /\ loop'.data = loop.data /\ ~loop'.entered /\ pc' = pc
        /\ ckpt' = ckpt /\ plan' = plan /\ failures' = failures /\ request' = request
    BY <1>0, <1>5 DEF CommitReportAgain, Working, history, TypeOK, SnapshotType
  <2>2. snap.done = "report"
    BY <2>1 DEF AdjInv, LoopPhase
  <2>3. failures = 0 => ClaimsStored'
    BY <2>1 DEF ClaimsStored, ClosingPcs
  <2> QED BY <2>1, <2>2, <2>3, PlanLeadsKept
<1> QED BY <1>1, <1>2, <1>3, <1>4, <1>5

LEMMA PlanOutside ==
  ASSUME AdjInv, PlanInv, AdjPrelude \/ AdjClosing \/ AdjStepError
  PROVE  PlanInv'
<1>0. TypeOK
  BY DEF AdjInv, AdjTypeOK
<1> USE DEF PlanInv
<1>1. loop' = loop /\ ckpt' = ckpt /\ plan' = plan
  BY DEF AdjPrelude, AdjClosing, AdjStepError, Outside, history
<1>2. CASE AdjPrelude
  <2>1. CASE Start \/ PreludeAdvance
    <3>1. /\ pc \in {"idle", "prelude"} /\ pc' = "prelude" /\ failures' = failures
          /\ request' = request
      BY <2>1 DEF Start, PreludeAdvance
    <3>2. snap'.done = snap.done
      BY <1>0, <2>1, AdvanceKeeps DEF Start, PreludeAdvance
    <3>3. failures = 0 => ClaimsStored'
      BY <1>1, <3>1, <3>2 DEF ClaimsStored, ClosingPcs
    <3> QED BY <1>1, <3>1, <3>2, <3>3, PlanLeadsKept
  <2>2. CASE PreludeCommit
    <3>1. /\ pc = "prelude" /\ pc' = "body" /\ failures' = failures /\ snap'.done = "ingest"
      BY <1>0, <2>2 DEF PreludeCommit, TypeOK, SnapshotType
    <3>2. failures = 0 => ckpt.claims = "none" /\ plan = "propose" /\ loop.data.claims = "none"
      BY <3>1 DEF ClaimsStored, PlanLeads
    <3>3. failures = 0 => ClaimsStored' /\ PlanLeads'
      BY <1>1, <3>1, <3>2 DEF ClaimsStored, PlanLeads, ClosingPcs
    <3> QED BY <3>1, <3>3
  <2> QED BY <1>2, <2>1, <2>2 DEF AdjPrelude
<1>3. CASE AdjClosing
  <2>1. /\ pc \in ClosingPcs /\ pc' \in ClosingPcs \cup {"returned"} /\ failures' = failures
        /\ request' = request
    BY <1>3 DEF AdjClosing, CloseStep, EnterAction, BlockAction,
       DispatchAction, RefuseAction, SkipAction, CommitAction, EnterObserve,
       ObserveBuiltin, ObserveSource, ObserveDone, CommitObserve, EnterFinished,
       PersistFinish, EmitFinalized, ClosingPcs
  <2>2. snap'.done = snap.done \/ snap'.done \in {"action", "observe"}
    <3>1. CASE EnterAction \/ EnterObserve
      BY <1>0, <3>1, AdvanceKeeps DEF EnterAction, EnterObserve
    <3>2. CASE CommitAction \/ CommitObserve
      BY <1>0, <3>2, CheckpointStores DEF CommitAction, CommitObserve
    <3>3. CASE PersistFinish
      BY <1>0, <3>3 DEF PersistFinish, TypeOK, SnapshotType
    <3> QED
      BY <1>3, <3>1, <3>2, <3>3 DEF AdjClosing, CloseStep, BlockAction, DispatchAction,
         RefuseAction, SkipAction, ObserveBuiltin, ObserveSource, ObserveDone,
         EnterFinished, EmitFinalized
  <2>3. failures = 0 => ClaimsStored'
    BY <1>1, <2>1 DEF ClaimsStored, ClosingPcs
  <2>4. failures = 0 => PlanLeads'
    <3>1. CASE snap'.done = snap.done
      BY <1>1, <2>1, <3>1, PlanLeadsKept
    <3>2. CASE snap'.done \in {"action", "observe"}
      BY <3>2 DEF PlanLeads
    <3> QED BY <2>2, <3>1, <3>2
  <2> QED BY <2>1, <2>2, <2>3, <2>4
<1>4. CASE AdjStepError
  <2>1. snap' = snap /\ failures' = failures + 1 /\ failures \in Nat
    BY <1>0, <1>4 DEF AdjStepError, StepError, TypeOK
  <2> QED BY <2>1
<1> QED BY <1>2, <1>3, <1>4

LEMMA PlanFailures ==
  ASSUME AdjInv, PlanInv, AdjCrash \/ AdjFailSession \/ AdjResume
  PROVE  PlanInv'
<1>0. TypeOK /\ ckpt \in DataType
  BY DEF AdjInv, AdjTypeOK
<1> USE DEF PlanInv
<1>1. plan' = plan /\ request' = request /\ failures' = failures
  BY DEF AdjCrash, AdjFailSession, AdjResume, Crash, FailSession, Resume, history
<1>2. CASE AdjCrash
  <2>1. snap' = snap /\ ckpt' = ckpt /\ pc' = "down" /\ loop'.data.claims = "none"
    BY <1>2 DEF AdjCrash, Crash, NoLoop, NoData
  <2>2. failures = 0 => ClaimsStored'
    BY <2>1 DEF ClaimsStored, ClosingPcs
  <2> QED BY <1>1, <2>1, <2>2, PlanLeadsKept
<1>3. CASE AdjFailSession
  <2>1. pc = "failing" /\ pc' = "down" /\ snap'.done = snap.done /\ loop'.data.claims = "none"
    BY <1>0, <1>3, FailKeeps DEF AdjFailSession, FailSession, NoLoop, NoData
  <2>2. ASSUME failures = 0 PROVE ckpt' = ckpt
    <3>1. ~loop.entered /\ loop.data.claims = ckpt.claims
      BY <2>1, <2>2 DEF ClaimsStored
    <3>2. GraphsInMemory = {[ckpt EXCEPT !.claims = loop.data.claims]}
      BY <3>1 DEF GraphsInMemory
    <3>3. [ckpt EXCEPT !.claims = loop.data.claims] = ckpt
      BY <1>0, <3>1 DEF DataType
    <3> QED BY <1>3, <3>2, <3>3 DEF AdjFailSession
  <2>3. failures = 0 => ClaimsStored'
    BY <2>1, <2>2 DEF ClaimsStored, ClosingPcs
  <2>4. failures = 0 => PlanLeads'
    BY <1>1, <2>1, <2>2, PlanLeadsKept
  <2> QED BY <1>1, <2>1, <2>3, <2>4
<1>4. CASE AdjResume
  <2>1. snap' = snap /\ ckpt' = ckpt
    BY <1>4 DEF AdjResume, Resume
  <2>2. CASE AlreadyFinished
    <3>1. pc' = "returned" /\ loop'.data.claims = "none"
      BY <1>4, <2>2 DEF AdjResume, Resume, NoLoop, NoData
    <3>2. failures = 0 => ClaimsStored'
      BY <2>1, <3>1 DEF ClaimsStored, ClosingPcs
    <3> QED BY <1>1, <2>1, <3>2, PlanLeadsKept
  <2>3. CASE ~AlreadyFinished
    <3>1. /\ pc' = ResumePc /\ loop'.data.claims = ckpt.claims
      BY <1>4, <2>3, RestoredType DEF AdjResume, Resume
    <3>2. /\ pc' \in {"prelude", "body", "finalize"}
          /\ pc' = "prelude" => snap.done = "created"
      BY <3>1 DEF ResumePc
    <3>3. failures = 0 => ClaimsStored'
      BY <2>1, <3>1, <3>2 DEF ClaimsStored, ClosingPcs
    <3> QED BY <1>1, <2>1, <3>3, PlanLeadsKept
  <2> QED BY <2>2, <2>3
<1> QED BY <1>2, <1>3, <1>4

LEMMA PlanNext == AdjInv /\ FallbackInv /\ PlanInv /\ [AdjNext]_adjVars => PlanInv'
<1> SUFFICES ASSUME AdjInv, FallbackInv, PlanInv, [AdjNext]_adjVars PROVE PlanInv'
  OBVIOUS
<1>1. CASE UNCHANGED adjVars \/ (Returned /\ Outside)
  <2>1. UNCHANGED adjVars
    BY <1>1 DEF adjVars, history, Returned, Outside
  <2>2. UNCHANGED <<request, pc, snap, failures, loop, ckpt, plan>>
    BY <2>1 DEF adjVars, vars
  <2>3. ClaimsStored => ClaimsStored'
    BY <2>2 DEF ClaimsStored
  <2> QED BY <2>2, <2>3, PlanLeadsKept DEF PlanInv
<1> QED
  BY <1>1, PlanCommit, PlanMoves, PlanOutside, PlanFailures
     DEF AdjNext, AdjEngineStep, AdjBody, Commit

LEMMA PlanInvariant == AdjSpec => []PlanInv
<1>1. AdjInit => PlanInv
  <2> SUFFICES ASSUME AdjInit PROVE PlanInv
    OBVIOUS
  <2>1. /\ ckpt.claims = "none" /\ loop.data.claims = "none" /\ plan = "propose"
        /\ pc = "idle" /\ snap.done = "created"
    BY DEF AdjInit, Init, NoLoop, NoData, NewSnapshot
  <2> QED BY <2>1 DEF PlanInv, ClaimsStored, PlanLeads, ClosingPcs
<1> QED
  BY <1>1, AdjInvariant, FallbackInvariant, PlanNext, PTL DEF AdjSpec

\* As long as no step has failed, no run goes past its proposals with the claims
\* of some of the proposers only, however often it crashes and is resumed.
THEOREM ProposalsAreComplete == AdjSpec => []ProposalsComplete
<1>1. AdjInv /\ PlanInv => ProposalsComplete
  <2> SUFFICES ASSUME AdjInv, PlanInv, failures = 0, loop.step # "propose"
               PROVE  loop.data.claims # "partial"
    BY DEF ProposalsComplete
  <2>1. pc \in Pcs
    BY DEF AdjInv, AdjTypeOK, TypeOK
  <2> QED BY <2>1 DEF PlanInv, ClaimsStored, Pcs
<1> QED
  BY <1>1, AdjInvariant, PlanInvariant, PTL

\* As long as no step has failed, a resumed run takes the step the run before it
\* was about to take, for every policy and every checkpoint but the two named by
\* PartingDecision and FruitlessFallback.
THEOREM ResumeGoesOn == AdjSpec => ResumeContinues
<1> DEFINE Continued == pc = "down" /\ pc' = "body" /\ failures = 0 /\ ~PartingDecision
                          /\ ~FruitlessFallback => loop'.step = plan
<1>1. AdjInv /\ FallbackInv /\ PlanInv /\ [AdjNext]_adjVars => [Continued]_adjVars
  <2> SUFFICES ASSUME AdjInv, FallbackInv, PlanInv, AdjNext, pc = "down", pc' = "body",
                      failures = 0, ~PartingDecision, ~FruitlessFallback
               PROVE  loop'.step = plan
    OBVIOUS
  <2>1. AdjResume
    BY DEF AdjNext, AdjEngineStep, AdjPrelude, AdjBody, AdjClosing, AdjStepError,
       AdjFailSession, AdjCrash, Returned, Start, PreludeAdvance, PreludeCommit,
       EnterPhase, RejectPhase, Rejected, ProposeSome, Working, CommitPropose,
       CommitChallenge, CommitVerify, CommitRevise, CommitAdjudicate, CommitIngest,
       CommitReviseAgain, CommitReport, CommitReportAgain, Close, BodyReady, StepError,
       FailSession, Crash, Running, CloseStep, EnterAction, BlockAction, ActionDue,
       DispatchAction, RefuseAction, SkipAction, CommitAction, EnterObserve,
       ObserveBuiltin, ObserveSource, ObserveDone, CommitObserve, EnterFinished,
       PersistFinish, EmitFinalized, ClosingPcs, vars
  <2>2. ~AlreadyFinished /\ ResumePc = "body" /\ loop'.step = RestoredStep
    BY <2>1, RestoredType DEF AdjResume, Resume
  <2>3. /\ snap.done \in {"ingest", "propose", "challenge", "verify", "revise",
                          "adjudicate", "report"}
        /\ PlanLeads
    BY <2>2 DEF ResumePc, PlanInv
  <2>4. CASE snap.done \in {"propose", "challenge", "verify", "report"}
    BY <2>2, <2>3, <2>4 DEF PlanLeads, RestoredStep
  <2>5. CASE snap.done = "ingest"
    BY <2>2, <2>3, <2>5 DEF PlanLeads, RestoredStep, FruitlessFallback
  <2>6. CASE snap.done = "revise"
    <3>1. ckpt.claims # "none"
      BY <2>6 DEF FallbackInv, ClaimsLocated
    <3>2. plan = StepAfterRevision(ckpt)
      BY <2>3, <2>6, <3>1 DEF PlanLeads, FruitlessFallback
    <3> QED BY <2>2, <2>6, <3>2 DEF RestoredStep, ResumeRevision
  <2>7. CASE snap.done = "adjudicate"
    <3>1. ckpt.records /\ FallbackTarget(ckpt) # "revise"
      BY <2>7 DEF PartingDecision
    <3>2. ckpt \in DataType /\ request \in Requests
      BY DEF AdjInv, AdjTypeOK, TypeOK
    <3>3. PICK fresh \in BOOLEAN : plan = StepAfterDecision(fresh, ckpt)
      BY <2>3, <2>7 DEF PlanLeads
    <3>4. StepAfterDecision(fresh, ckpt) = StepAfterDecision(FALSE, ckpt)
      BY <3>1, <3>2, DecisionTargets DEF StepAfterDecision
    <3> QED BY <2>2, <2>7, <3>1, <3>3, <3>4 DEF RestoredStep, ResumeDecision
  <2> QED BY <2>3, <2>4, <2>5, <2>6, <2>7
<1> QED
  BY <1>1, AdjInvariant, FallbackInvariant, PlanInvariant, PTL DEF AdjSpec, ResumeContinues

-----------------------------------------------------------------------------
(* The engine comes to its end.                                            *)

\* What is left of the body: the fallback rounds, the revisions of the cycle, and
\* the steps to its end.  Proposals are made before any fallback; a step the state
\* machine refuses is the last one.
StepsLeft ==
  [step \in Steps |->
     CASE step = "propose" -> 8 [] step = "challenge" -> 7 [] step = "verify" -> 6
       [] step = "revise" -> 5 [] step = "adjudicate" -> 4
       [] step \in {"ingest", "reviseAgain"} -> 3 [] step \in {"noClaims", "report"} -> 2
       [] OTHER -> 1]

\* What is left of a step: its phase is entered, maybe through another one, and some
\* of the proposals may come before the others.
StepLeft ==
  CASE loop.step = "close" -> (IF loop.entered THEN 1 ELSE 0)
    [] loop.step # "close" /\ loop.entered ->
         (IF loop.step = "propose" /\ loop.data.claims = "none" THEN 1 ELSE 0)
    [] OTHER -> IF EntryPhase = PhaseOf[loop.step] THEN 2 ELSE 3

FallbacksLeft ==
  IF loop.step = "propose" THEN MaxFallbackRounds + 1
  ELSE IF loop.data.fb < MaxFallbackRounds THEN MaxFallbackRounds - loop.data.fb ELSE 0
RevisionsLeft ==
  IF loop.data.rr < MaxRevisionRounds THEN MaxRevisionRounds - loop.data.rr ELSE 0
BodyLeft == IF Rejected THEN 0 ELSE 4 * StepsLeft[loop.step] + StepLeft

AdjLeft ==
  IF pc = "body" THEN Measure(PcRank[pc], FallbacksLeft, RevisionsLeft, BodyLeft)
                 ELSE Measure(PcRank[pc], 0, 0, PartLeft)

\* Only a stopped session that is resumed has more before it than it had; every
\* other step, also one of the resumed workflow with its own counters, brings the
\* engine nearer to its end: no order of phases, revisions and fallbacks is
\* followed forever.
AdjGoesOn == [][pc # "down" => <<AdjLeft', AdjLeft>> \in Fewer]_adjVars

\* Where a revision has been begun there is one left to count.
RevisionInv ==
  pc = "body" /\ loop.step = "revise" => loop.data.rr < MaxRevisionRounds

LEMMA StepsLeftIs ==
  /\ \A step \in Steps : StepsLeft[step] \in Nat /\ StepsLeft[step] >= 1
  /\ StepsLeft["propose"] = 8 /\ StepsLeft["challenge"] = 7 /\ StepsLeft["verify"] = 6
  /\ StepsLeft["revise"] = 5 /\ StepsLeft["adjudicate"] = 4 /\ StepsLeft["ingest"] = 3
  /\ StepsLeft["reviseAgain"] = 3 /\ StepsLeft["noClaims"] = 2 /\ StepsLeft["report"] = 2
  /\ StepsLeft["close"] = 1
<1>1. \A step \in Steps : StepsLeft[step] =
        CASE step = "propose" -> 8 [] step = "challenge" -> 7 [] step = "verify" -> 6
          [] step = "revise" -> 5 [] step = "adjudicate" -> 4
          [] step \in {"ingest", "reviseAgain"} -> 3 [] step \in {"noClaims", "report"} -> 2
          [] OTHER -> 1
  BY DEF StepsLeft
<1> HIDE DEF StepsLeft
<1>2. \A step \in Steps : StepsLeft[step] \in Nat /\ StepsLeft[step] >= 1
  BY <1>1
<1> QED BY <1>1, <1>2, StepNames

\* The parts of the measure are numbers, and how far they reach.
MeasureFacts ==
  /\ FallbacksLeft \in Nat /\ RevisionsLeft \in Nat /\ BodyLeft \in Nat
  /\ BodyLeft <= 4 * StepsLeft[loop.step] + 3
  /\ ~Rejected => BodyLeft = 4 * StepsLeft[loop.step] + StepLeft
  /\ StepLeft \in 0 .. 3 /\ StepsLeft[loop.step] \in Nat

LEMMA BodyLeftIs == AdjTypeOK => MeasureFacts
<1> SUFFICES ASSUME AdjTypeOK PROVE MeasureFacts
  OBVIOUS
<1>1. /\ loop.data.fb \in Nat /\ loop.data.rr \in Nat /\ loop.step \in Steps
      /\ MaxFallbackRounds \in Nat /\ MaxRevisionRounds \in Nat
  BY PolicyAssumption DEF AdjTypeOK, DataType
<1>2. FallbacksLeft \in Nat /\ RevisionsLeft \in Nat
  BY <1>1 DEF FallbacksLeft, RevisionsLeft
<1>3. StepLeft \in 0 .. 3 /\ StepsLeft[loop.step] \in Nat
  BY <1>1, StepsLeftIs DEF StepLeft
<1>4. /\ BodyLeft \in Nat /\ BodyLeft <= 4 * StepsLeft[loop.step] + 3
      /\ ~Rejected => BodyLeft = 4 * StepsLeft[loop.step] + StepLeft
  BY <1>3 DEF BodyLeft
<1> QED BY <1>2, <1>3, <1>4 DEF MeasureFacts

LEMMA PrimedFacts == AdjTypeOK' => MeasureFacts'
BY BodyLeftIs, PTL

LEMMA AdjLowers ==
  ASSUME AdjTypeOK, AdjTypeOK',
         \/ PcRank[pc'] < PcRank[pc]
         \/ pc' = pc /\ pc # "body" /\ PartLeft' < PartLeft
         \/ /\ pc' = pc /\ pc = "body"
            /\ \/ FallbacksLeft' < FallbacksLeft
               \/ FallbacksLeft' = FallbacksLeft /\ RevisionsLeft' < RevisionsLeft
               \/ FallbacksLeft' = FallbacksLeft /\ RevisionsLeft' = RevisionsLeft
                    /\ BodyLeft' < BodyLeft
  PROVE  <<AdjLeft', AdjLeft>> \in Fewer
<1>1. TypeOK /\ TypeOK'
  BY DEF AdjTypeOK
<1>2. /\ FallbacksLeft \in Nat /\ RevisionsLeft \in Nat /\ BodyLeft \in Nat
      /\ FallbacksLeft' \in Nat /\ RevisionsLeft' \in Nat /\ BodyLeft' \in Nat
  BY BodyLeftIs, PrimedFacts DEF MeasureFacts
<1> QED BY <1>1, <1>2, MeasuresFall DEF AdjLeft

\* A checkpoint uses up a fallback round, a revision, or a step; or the step it
\* leads to is refused.
LEMMA CommitLowers ==
  ASSUME AdjInv, AdjInv', NEW from, Working(from), from # "close",
         NEW stored \in DataType, NEW next \in DataType, NEW step \in Steps \ {"propose"},
         Checkpoint(stored, step, next),
         from # "propose" =>
           \/ next.fb = loop.data.fb + 1 /\ loop.data.fb < MaxFallbackRounds
           \/ /\ next.fb = loop.data.fb
              /\ next.rr = loop.data.rr + 1 /\ loop.data.rr < MaxRevisionRounds
           \/ /\ next.fb = loop.data.fb /\ next.rr = loop.data.rr
              /\ \/ StepsLeft[step] < StepsLeft[from]
                 \/ from = "adjudicate" /\ step = "challenge"
  PROVE  <<AdjLeft', AdjLeft>> \in Fewer
<1>1. /\ pc = "body" /\ loop.step = from /\ loop.entered /\ run.phase = PhaseOf[from]
      /\ from \in Steps /\ loop.data \in DataType
  BY WorkingPhase DEF Working
<1>2. /\ loop'.step = step /\ ~loop'.entered /\ loop'.data = next
      /\ run' = run /\ pc' = "body"
  BY <1>1 DEF Checkpoint
<1>3. AdjTypeOK /\ AdjTypeOK' /\ ~Rejected
  BY <1>1 DEF AdjInv, Rejected
<1>4. /\ BodyLeft >= 4 * StepsLeft[from] /\ StepsLeft[from] \in Nat /\ StepsLeft[from] >= 1
  <2>1. BodyLeft = 4 * StepsLeft[from] + StepLeft /\ StepLeft \in 0 .. 3
    BY <1>1, <1>3, BodyLeftIs DEF MeasureFacts
  <2>2. StepsLeft[from] \in Nat /\ StepsLeft[from] >= 1
    BY <1>1, StepsLeftIs
  <2> QED BY <2>1, <2>2
<1>5. /\ BodyLeft' <= 4 * StepsLeft[step] + 3 /\ BodyLeft' \in Nat
  <2>1. BodyLeft' <= 4 * StepsLeft[loop'.step] + 3 /\ BodyLeft' \in Nat
    BY <1>3, PrimedFacts DEF MeasureFacts
  <2> QED BY <1>2, <2>1
<1>6. StepsLeft[step] \in Nat
  BY StepsLeftIs
<1>7. /\ next.fb \in Nat /\ next.rr \in Nat /\ loop.data.fb \in Nat /\ loop.data.rr \in Nat
      /\ MaxFallbackRounds \in Nat /\ MaxRevisionRounds \in Nat
  <2>1. \A data \in DataType : data.fb \in Nat /\ data.rr \in Nat
    BY DEF DataType
  <2>2. next.fb \in Nat /\ next.rr \in Nat
    BY <2>1
  <2>3. loop.data.fb \in Nat /\ loop.data.rr \in Nat
    BY <1>1, <2>1
  <2>4. MaxFallbackRounds \in Nat /\ MaxRevisionRounds \in Nat
    BY PolicyAssumption
  <2> QED BY <2>2, <2>3, <2>4
<1>8. /\ FallbacksLeft' = IF next.fb < MaxFallbackRounds THEN MaxFallbackRounds - next.fb ELSE 0
      /\ RevisionsLeft' = IF next.rr < MaxRevisionRounds THEN MaxRevisionRounds - next.rr ELSE 0
  BY <1>2 DEF FallbacksLeft, RevisionsLeft
<1>9. CASE from = "propose"
  <2>1. FallbacksLeft' < FallbacksLeft
    BY <1>1, <1>7, <1>8, <1>9 DEF FallbacksLeft
  <2> QED BY <1>1, <1>2, <1>3, <2>1, AdjLowers
<1>10. CASE from # "propose"
  <2>1. /\ FallbacksLeft = IF loop.data.fb < MaxFallbackRounds
                             THEN MaxFallbackRounds - loop.data.fb ELSE 0
        /\ RevisionsLeft = IF loop.data.rr < MaxRevisionRounds
                             THEN MaxRevisionRounds - loop.data.rr ELSE 0
    BY <1>1, <1>10 DEF FallbacksLeft, RevisionsLeft
  <2>2. CASE next.fb = loop.data.fb + 1 /\ loop.data.fb < MaxFallbackRounds
    <3>1. FallbacksLeft' < FallbacksLeft
      BY <1>7, <1>8, <2>1, <2>2
    <3> QED BY <1>1, <1>2, <1>3, <3>1, AdjLowers
  <2>3. CASE /\ next.fb = loop.data.fb
             /\ next.rr = loop.data.rr + 1 /\ loop.data.rr < MaxRevisionRounds
    <3>1. FallbacksLeft' = FallbacksLeft /\ RevisionsLeft' < RevisionsLeft
      BY <1>7, <1>8, <2>1, <2>3
    <3> QED BY <1>1, <1>2, <1>3, <3>1, AdjLowers
  <2>4. CASE /\ next.fb = loop.data.fb /\ next.rr = loop.data.rr
             /\ StepsLeft[step] < StepsLeft[from]
    <3>1. FallbacksLeft' = FallbacksLeft /\ RevisionsLeft' = RevisionsLeft
      BY <1>8, <2>1, <2>4
    <3>2. BodyLeft' < BodyLeft
      <4>1. BodyLeft \in Nat
        BY <1>3, BodyLeftIs DEF MeasureFacts
      <4> QED BY <1>4, <1>5, <1>6, <2>4, <4>1
    <3> QED BY <1>1, <1>2, <1>3, <3>1, <3>2, AdjLowers
  <2>5. CASE /\ next.fb = loop.data.fb /\ next.rr = loop.data.rr
             /\ from = "adjudicate" /\ step = "challenge"
    <3>1. FallbacksLeft' = FallbacksLeft /\ RevisionsLeft' = RevisionsLeft
      BY <1>8, <2>1, <2>5
    <3>2. ~AllowedTransition("adjudicate", "challenge")
      BY DEF AllowedTransition, Successors, Phases, AdjudicationPhases, Closing
    <3>3. /\ run'.phase = "adjudicate" /\ loop'.step = "challenge"
          /\ PhaseOf["challenge"] = "challenge"
      BY <1>1, <1>2, <2>5, StepNames
    <3>4. EntryPhase' = "challenge"
      BY <3>3 DEF EntryPhase
    <3>5. Rejected'
      BY <1>2, <2>5, <3>2, <3>3, <3>4 DEF Rejected
    <3>6. BodyLeft' = 0
      BY <3>5 DEF BodyLeft
    <3>7. BodyLeft' < BodyLeft
      <4>1. BodyLeft \in Nat
        BY <1>3, BodyLeftIs DEF MeasureFacts
      <4> QED BY <1>4, <3>6, <4>1
    <3> QED BY <1>1, <1>2, <1>3, <3>1, <3>7, AdjLowers
  <2> QED BY <1>10, <2>2, <2>3, <2>4, <2>5
<1> QED BY <1>9, <1>10

LEMMA CommitsLower ==
  ASSUME AdjInv, AdjInv', FallbackInv, RevisionInv, Commit
  PROVE  <<AdjLeft', AdjLeft>> \in Fewer /\ RevisionInv'
<1>0. ASSUME NEW stored \in DataType, NEW next \in DataType, NEW step \in Steps,
             Checkpoint(stored, step, next),
             step = "revise" => next.rr < MaxRevisionRounds
      PROVE  RevisionInv'
  BY <1>0 DEF Checkpoint, RevisionInv
<1>1. CASE CommitPropose
  <2> DEFINE empty == loop.data.claims = "none"
             step == IF empty THEN "noClaims" ELSE "challenge"
             next == [loop.data EXCEPT !.claims = IF empty THEN "none" ELSE "all",
                                       !.rr = 0, !.vr = 0, !.fb = 0, !.material = TRUE]
  <2>1. Working("propose") /\ Checkpoint(next, step, next)
    BY <1>1 DEF CommitPropose
  <2>2. next \in DataType /\ step \in Steps \ {"propose"} /\ step # "revise"
    BY <2>1, WorkingPhase, StepNames DEF DataType
  <2> HIDE DEF next, step
  <2> QED BY <1>0, <2>1, <2>2, CommitLowers
<1>2. CASE CommitChallenge
  <2> DEFINE next == [loop.data EXCEPT !.material = TRUE]
  <2>1. Working("challenge") /\ Checkpoint(next, "verify", next)
    BY <1>2 DEF CommitChallenge
  <2>2. /\ next \in DataType /\ "verify" \in Steps
        /\ next.fb = loop.data.fb /\ next.rr = loop.data.rr
    BY <2>1, WorkingPhase, StepNames DEF DataType
  <2> HIDE DEF next
  <2> QED BY <1>0, <2>1, <2>2, StepsLeftIs, CommitLowers
<1>3. CASE CommitVerify
  <2>1. PICK pending \in BOOLEAN :
          LET next == [loop.data EXCEPT !.vr = @ + 1, !.pending = pending, !.material = TRUE]
          IN Checkpoint(next, StepAfterVerify(next), next)
    BY <1>3 DEF CommitVerify
  <2> DEFINE next == [loop.data EXCEPT !.vr = @ + 1, !.pending = pending, !.material = TRUE]
             step == StepAfterVerify(next)
  <2>2. Working("verify") /\ Checkpoint(next, step, next)
    BY <1>3, <2>1 DEF CommitVerify
  <2>3. next \in DataType /\ next.fb = loop.data.fb /\ next.rr = loop.data.rr
    BY <2>2, WorkingPhase DEF DataType
  <2> HIDE DEF next
  <2>4. /\ step \in Steps /\ step \in {"adjudicate", "revise"}
        /\ step = "revise" => next.rr < MaxRevisionRounds
    <3>1. next.rr \in Nat /\ MaxRevisionRounds \in Nat
      BY <2>3, PolicyAssumption DEF DataType
    <3> QED BY <3>1, LoopSteps, StepNames DEF StepAfterVerify
  <2> HIDE DEF step
  <2>5. StepsLeft[step] < StepsLeft["verify"]
    BY <2>4, StepsLeftIs
  <2> QED BY <1>0, <2>2, <2>3, <2>4, <2>5, CommitLowers
<1>4. CASE CommitRevise
  <2>1. PICK material \in BOOLEAN :
          LET stored == [loop.data EXCEPT !.rr = @ + 1, !.material = material]
          IN Checkpoint(stored, StepAfterRevision(stored),
                        CountersAfterRevision(run.fresh, stored))
    BY <1>4 DEF CommitRevise
  <2> DEFINE stored == [loop.data EXCEPT !.rr = @ + 1, !.material = material]
             next == CountersAfterRevision(run.fresh, stored)
             step == StepAfterRevision(stored)
  <2>2. Working("revise") /\ Checkpoint(stored, step, next)
    BY <1>4, <2>1 DEF CommitRevise
  <2>3. /\ stored \in DataType
        /\ stored.fb = loop.data.fb /\ stored.rr = loop.data.rr + 1
    BY <2>2, WorkingPhase DEF DataType
  <2> HIDE DEF stored
  <2>4. next \in DataType /\ next.fb = stored.fb /\ next.rr = stored.rr
    BY <2>3 DEF CountersAfterRevision, DataType
  <2>5. step \in Steps /\ step \in {"challenge", "adjudicate"}
    BY LoopSteps, StepNames
  <2>6. loop.data.rr < MaxRevisionRounds
    BY <2>2 DEF RevisionInv, Working
  <2> HIDE DEF next, step
  <2> QED BY <1>0, <2>2, <2>3, <2>4, <2>5, <2>6, CommitLowers
<1>5. CASE CommitAdjudicate
  <2>1. PICK found \in Findings :
          LET next == [loop.data EXCEPT !.outcome = found.outcome,
                         !.leftover = found.leftover, !.records = found.records,
                         !.material = TRUE]
          IN Checkpoint(next, StepAfterDecision(run.fresh, next), next)
    BY <1>5 DEF CommitAdjudicate
  <2> DEFINE next == [loop.data EXCEPT !.outcome = found.outcome,
                        !.leftover = found.leftover, !.records = found.records,
                        !.material = TRUE]
             step == StepAfterDecision(run.fresh, next)
  <2>2. Working("adjudicate") /\ Checkpoint(next, step, next)
    BY <1>5, <2>1 DEF CommitAdjudicate
  <2>3. next \in DataType /\ next.fb = loop.data.fb /\ next.rr = loop.data.rr
    BY <2>2, WorkingPhase DEF DataType, Findings
  <2> HIDE DEF next
  <2>4. run.fresh \in BOOLEAN /\ request \in Requests
    BY DEF AdjInv, AdjTypeOK, TypeOK, RunType
  <2>5. step \in {"report", "ingest", "reviseAgain", "challenge"} /\ step \in Steps
    BY <2>3, <2>4, DecisionSteps, StepNames
  <2> HIDE DEF step
  <2>6. step = "challenge" \/ StepsLeft[step] < StepsLeft["adjudicate"]
    BY <2>5, StepsLeftIs
  <2> QED BY <1>0, <2>2, <2>3, <2>5, <2>6, CommitLowers
<1>6. ASSUME NEW from \in {"ingest", "reviseAgain"}, Working(from),
             NEW stored \in DataType, Fallen(stored), stored.fb = loop.data.fb + 1
      PROVE  <<AdjLeft', AdjLeft>> \in Fewer /\ RevisionInv'
  <2> DEFINE step == IF stored.material THEN "challenge" ELSE "report"
             next == IF stored.material THEN [stored EXCEPT !.rr = 0, !.vr = 0] ELSE stored
  <2>1. next \in DataType /\ next.fb = stored.fb /\ step \in Steps \ {"propose", "revise"}
    BY StepNames DEF DataType
  <2>2. Checkpoint(stored, step, next)
    BY <1>6 DEF Fallen
  <2>3. loop.data.fb < MaxFallbackRounds
    <3>1. loop.data.fb = fallbacks /\ fallbacks < MaxFallbackRounds
      BY <1>6 DEF FallbackInv, FallbacksCounted, Working
    <3> QED BY <3>1
  <2> HIDE DEF next, step
  <2> QED BY <1>0, <1>6, <2>1, <2>2, <2>3, CommitLowers
<1>7. CASE CommitIngest
  <2>1. PICK newEvidence \in BOOLEAN :
          Fallen([loop.data EXCEPT !.vr = 0, !.fb = @ + 1, !.material = newEvidence])
    BY <1>7 DEF CommitIngest
  <2> DEFINE stored == [loop.data EXCEPT !.vr = 0, !.fb = @ + 1, !.material = newEvidence]
  <2>2. Working("ingest") /\ Fallen(stored)
    BY <1>7, <2>1 DEF CommitIngest
  <2>3. stored \in DataType /\ stored.fb = loop.data.fb + 1
    BY <2>2, WorkingPhase DEF DataType
  <2> HIDE DEF stored
  <2> QED BY <1>6, <2>2, <2>3
<1>8. CASE CommitReviseAgain
  <2>1. PICK material \in BOOLEAN, outcome \in AdjOutcomes :
          Fallen([loop.data EXCEPT !.rr = MaxRevisionRounds + loop.data.fb + 1, !.vr = 0,
                    !.fb = @ + 1, !.material = material, !.outcome = outcome])
    BY <1>8 DEF CommitReviseAgain
  <2> DEFINE stored == [loop.data EXCEPT !.rr = MaxRevisionRounds + loop.data.fb + 1,
                          !.vr = 0, !.fb = @ + 1, !.material = material,
                          !.outcome = outcome]
  <2>2. Working("reviseAgain") /\ Fallen(stored)
    BY <1>8, <2>1 DEF CommitReviseAgain
  <2>3. stored \in DataType /\ stored.fb = loop.data.fb + 1
    BY <2>2, WorkingPhase DEF DataType
  <2> HIDE DEF stored
  <2> QED BY <1>6, <2>2, <2>3
<1>9. CASE CommitReport
  <2>1. Working("report") /\ Checkpoint(loop.data, "close", loop.data)
    BY <1>9 DEF CommitReport
  <2>2. loop.data \in DataType /\ "close" \in Steps
    BY <2>1, WorkingPhase, StepNames
  <2> QED BY <1>0, <2>1, <2>2, StepsLeftIs, CommitLowers
<1> QED BY <1>1, <1>2, <1>3, <1>4, <1>5, <1>7, <1>8, <1>9 DEF Commit

\* The other steps of the body.
LEMMA MovesLower ==
  ASSUME AdjInv, AdjInv', RevisionInv,
         EnterPhase \/ RejectPhase \/ ProposeSome \/ CommitReportAgain \/ Close
  PROVE  <<AdjLeft', AdjLeft>> \in Fewer /\ RevisionInv'
<1>0. AdjTypeOK /\ AdjTypeOK' /\ MeasureFacts /\ MeasureFacts'
  BY BodyLeftIs, PrimedFacts DEF AdjInv
<1>1. ASSUME pc = "body", pc' = "body", loop'.step = loop.step,
             loop'.data.fb = loop.data.fb, loop'.data.rr = loop.data.rr,
             ~Rejected, StepLeft' < StepLeft
      PROVE  <<AdjLeft', AdjLeft>> \in Fewer /\ RevisionInv'
  <2>1. FallbacksLeft' = FallbacksLeft /\ RevisionsLeft' = RevisionsLeft
    BY <1>1 DEF FallbacksLeft, RevisionsLeft
  <2>2. BodyLeft' < BodyLeft
    <3>1. /\ BodyLeft = 4 * StepsLeft[loop.step] + StepLeft
          /\ StepLeft \in 0 .. 3 /\ StepsLeft[loop.step] \in Nat
      BY <1>0, <1>1 DEF MeasureFacts
    <3>2. StepLeft' \in 0 .. 3
      BY <1>0 DEF MeasureFacts
    <3>3. BodyLeft' \in {0, 4 * StepsLeft[loop.step] + StepLeft'}
      BY <1>1 DEF BodyLeft
    <3> QED BY <1>1, <3>1, <3>2, <3>3
  <2>3. RevisionInv'
    BY <1>1 DEF RevisionInv
  <2> QED BY <1>0, <1>1, <2>1, <2>2, <2>3, AdjLowers
<1>2. CASE EnterPhase
  <2>1. /\ pc = "body" /\ pc' = "body" /\ ~loop.entered /\ loop.step # "close"
        /\ AllowedTransition(run.phase, EntryPhase) /\ run'.phase = EntryPhase
        /\ loop' = [loop EXCEPT !.entered = (EntryPhase = PhaseOf[loop.step])]
    BY <1>0, <1>2, AdvanceKeeps DEF EnterPhase, Advance, AdjTypeOK, TypeOK
  <2>2. /\ loop'.step = loop.step /\ loop'.data = loop.data
        /\ loop'.entered = (EntryPhase = PhaseOf[loop.step]) /\ ~Rejected
    BY <1>0, <2>1 DEF AdjTypeOK, Rejected
  <2>3. StepLeft = IF EntryPhase = PhaseOf[loop.step] THEN 2 ELSE 3
    BY <2>1 DEF StepLeft
  <2>4. CASE EntryPhase = PhaseOf[loop.step]
    <3>0. loop'.entered /\ loop'.step # "close"
      BY <2>1, <2>2, <2>4
    <3>1. StepLeft' \in {0, 1}
      BY <3>0 DEF StepLeft
    <3> QED BY <1>1, <2>1, <2>2, <2>3, <2>4, <3>1
  <2>5. CASE EntryPhase # PhaseOf[loop.step]
    <3>1. run'.phase = "adjudicate"
      BY <2>1, <2>5 DEF EntryPhase
    <3>2. EntryPhase' = PhaseOf[loop'.step]
      BY <3>1 DEF EntryPhase
    <3>3. StepLeft' = 2
      BY <2>1, <2>2, <2>5, <3>2 DEF StepLeft
    <3> QED BY <1>1, <2>1, <2>2, <2>3, <2>5, <3>3
  <2> QED BY <2>4, <2>5
<1>3. CASE ProposeSome
  <2>1. /\ pc = "body" /\ pc' = "body" /\ loop.step = "propose" /\ loop.entered
        /\ loop.data.claims = "none" /\ loop' = [loop EXCEPT !.data.claims = "partial"]
    BY <1>3 DEF ProposeSome, Working, vars
  <2>2. /\ loop'.step = "propose" /\ loop'.entered /\ loop'.data.claims = "partial"
        /\ loop'.data.fb = loop.data.fb /\ loop'.data.rr = loop.data.rr
    BY <1>0, <2>1 DEF AdjTypeOK, DataType
  <2>3. StepLeft = 1 /\ StepLeft' = 0 /\ ~Rejected
    BY <2>1, <2>2 DEF StepLeft, Rejected
  <2> QED BY <1>1, <2>1, <2>2, <2>3
<1>4. CASE CommitReportAgain
  <2>1. /\ pc = "body" /\ pc' = "body" /\ loop.step = "close" /\ loop.entered
        /\ loop' = [loop EXCEPT !.entered = FALSE]
    BY <1>4 DEF CommitReportAgain, Working
  <2>2. loop'.step = "close" /\ ~loop'.entered /\ loop'.data = loop.data
    BY <1>0, <2>1 DEF AdjTypeOK
  <2>3. StepLeft = 1 /\ StepLeft' = 0 /\ ~Rejected
    BY <2>1, <2>2 DEF StepLeft, Rejected
  <2> QED BY <1>1, <2>1, <2>2, <2>3
<1>5. CASE RejectPhase \/ Close
  <2>1. pc = "body" /\ pc' \in {"failing", "finalize"}
    BY <1>5 DEF RejectPhase, Rejected, Close, BodyReady, Working
  <2>2. PcRank[pc'] < PcRank[pc]
    BY <2>1, PcRankIs
  <2>3. RevisionInv'
    BY <2>1 DEF RevisionInv
  <2> QED BY <1>0, <2>2, <2>3, AdjLowers
<1> QED BY <1>2, <1>3, <1>4, <1>5

LEMMA RevisionResumed ==
  ASSUME AdjInv, AdjResume
  PROVE  RevisionInv'
<1>1. CASE AlreadyFinished
  BY <1>1 DEF AdjResume, Resume, RevisionInv
<1>2. CASE ~AlreadyFinished
  <2>1. loop' = RestoredLoop
    BY <1>2 DEF AdjResume
  <2>2. ASSUME RestoredStep = "revise" PROVE RestoredLoop.data.rr < MaxRevisionRounds
    <3>1. ckpt \in DataType /\ request \in Requests /\ FALSE \in BOOLEAN
      BY DEF AdjInv, AdjTypeOK, TypeOK
    <3>2. StepAfterDecision(FALSE, ckpt) # "revise"
      BY <3>1, DecisionSteps
    <3>3. ResumeDecision(ckpt) # "revise"
      BY <3>2 DEF ResumeDecision
    <3>4. StepAfterRevision(ckpt) # "revise"
      BY LoopSteps
    <3>5. snap.done = "verify" /\ StepAfterVerify(ckpt) = "revise"
      BY <2>2, <3>3, <3>4 DEF RestoredStep, ResumeRevision
    <3>6. ckpt.rr < MaxRevisionRounds
      <4>1. ckpt.rr \in Nat /\ MaxRevisionRounds \in Nat
        BY <3>1, PolicyAssumption DEF DataType
      <4> QED BY <3>5, <4>1 DEF StepAfterVerify
    <3>7. RestoredLoop.data = ckpt
      BY <3>5 DEF RestoredLoop
    <3> QED BY <3>6, <3>7
  <2>3. RestoredLoop.step = RestoredStep
    BY DEF RestoredLoop
  <2> QED BY <2>1, <2>2, <2>3 DEF RevisionInv
<1> QED BY <1>1, <1>2

\* The steps of the session around the body.
LEMMA OutsideLower ==
  ASSUME AdjInv, AdjInv', AdjPrelude \/ AdjClosing \/ AdjStepError \/ AdjFailSession \/ AdjCrash
  PROVE  <<AdjLeft', AdjLeft>> \in Fewer /\ RevisionInv'
<1>1. TypeOK /\ AdjTypeOK /\ AdjTypeOK'
  BY DEF AdjInv, AdjTypeOK
<1>2. \/ PcRank[pc'] < PcRank[pc]
      \/ pc' = pc /\ pc # "body" /\ PartLeft' < PartLeft
  BY <1>1, SessionStepLowers DEF AdjPrelude, AdjClosing, AdjStepError, AdjFailSession, AdjCrash
<1>3. pc' = "body" => loop'.step = "propose"
  <2>1. CASE AdjPrelude
    BY <2>1 DEF AdjPrelude, Outside, Start, PreludeAdvance, PreludeCommit, AdjInv, LoopPhase
  <2>2. CASE AdjClosing
    <3>1. pc' # "body"
      BY <2>2 DEF AdjClosing, CloseStep, EnterAction, BlockAction, DispatchAction,
         RefuseAction, SkipAction, CommitAction, EnterObserve, ObserveBuiltin,
         ObserveSource, ObserveDone, CommitObserve, EnterFinished, PersistFinish,
         EmitFinalized
    <3> QED BY <3>1
  <2>3. CASE AdjStepError \/ AdjFailSession \/ AdjCrash
    BY <2>3 DEF AdjStepError, AdjFailSession, AdjCrash, StepError, FailSession, Crash
  <2> QED BY <2>1, <2>2, <2>3
<1>4. RevisionInv'
  BY <1>3 DEF RevisionInv
<1> QED BY <1>1, <1>2, <1>4, AdjLowers

LEMMA GoesOnNext ==
  AdjInv /\ AdjInv' /\ FallbackInv /\ RevisionInv /\ [AdjNext]_adjVars
    => RevisionInv' /\ [pc # "down" => <<AdjLeft', AdjLeft>> \in Fewer]_adjVars
<1> SUFFICES ASSUME AdjInv, AdjInv', FallbackInv, RevisionInv, [AdjNext]_adjVars
             PROVE  /\ RevisionInv'
                    /\ \/ UNCHANGED adjVars
                       \/ pc # "down" => <<AdjLeft', AdjLeft>> \in Fewer
  OBVIOUS
<1>1. CASE UNCHANGED adjVars \/ (Returned /\ Outside)
  <2>1. UNCHANGED adjVars
    BY <1>1 DEF Returned, Outside, adjVars, history
  <2> QED BY <2>1 DEF RevisionInv, adjVars, vars
<1>2. CASE AdjBody
  BY <1>2, CommitsLower, MovesLower DEF AdjBody, Commit
<1>3. CASE AdjPrelude \/ AdjClosing \/ AdjStepError \/ AdjFailSession \/ AdjCrash
  BY <1>3, OutsideLower
<1>4. CASE AdjResume
  BY <1>4, RevisionResumed DEF AdjResume, Resume
<1> QED BY <1>1, <1>2, <1>3, <1>4 DEF AdjNext, AdjEngineStep

\* Every step of an adjudication session lowers the engine's measure, whose order
\* has no infinite descent, but for the one that resumes a stopped session: for no
\* policy, no answer of agents, verifier or arbiter and no checkpoint it is resumed
\* from does the workflow (startAdjudication, resumeAdjudication) go round forever.
THEOREM AdjudicationComesToItsEnd == AdjSpec => AdjGoesOn
<1>1. AdjInit => RevisionInv
  BY DEF AdjInit, Init, RevisionInv
<1> QED
  BY <1>1, AdjInvariant, FallbackInvariant, GoesOnNext, PTL DEF AdjSpec, AdjGoesOn
=============================================================================
