----------------------- MODULE SessionLifecycle_proofs -----------------------
(***************************************************************************)
(* What holds of every session of SessionLifecycle, whatever the requests  *)
(* and however many crashes and failures: its types, that an action is not *)
(* dispatched again once its output is committed nor more often than       *)
(* outputs were destroyed, that a stored result is what the stored action  *)
(* and data justify, that no source is left out of the observations, and   *)
(* that a finished session stands. At the end, the measure by which the    *)
(* workflows are shown to come to their end.                               *)
(***************************************************************************)
EXTENDS SessionLifecycle, WellFoundedInduction, TLAPS

\* The action output in memory and the one in the snapshot, by program counter.
ActionLocated ==
  /\ ~Running => run.action = "none"
  /\ pc \in {"prelude", "body"} => run.action = "none"
  /\ pc = "idle" => snap.action = "none"
  /\ Running /\ snap.action # "none" => run.action = snap.action
  /\ pc \in {"finish", "persist", "emit"} => snap.action = run.action
  /\ snap.action # "none" => snap.done \in {"action", "observe"}

\* Every dispatch is accounted for by an output that still exists or was lost.
DispatchesAccounted ==
  dispatched <= lost + (IF run.action # "none" \/ snap.action # "none" THEN 1 ELSE 0)

ActionInv == ActionLocated /\ DispatchesAccounted

\* What a terminal state must agree with: action output, data and reopening.
Justifies(terminal, action, outcome, reopen) ==
  \/ terminal = TerminalOf(action, outcome)
  \/ reopen /\ terminal = "requires_human_review"

\* From the gate on the run holds a justified terminal state; the observe
\* checkpoint stores what justifies it.
TerminalLocated ==
  /\ pc \in ClosingPcs \ {"finalize", "gate"} =>
       Justifies(run.terminal, run.action, run.outcome, run.reopen)
  /\ pc \in {"finish", "persist", "emit"} =>
       <<snap.action, snap.outcome, snap.reopen>> = <<run.action, run.outcome, run.reopen>>

\* A stored result is final: the session is finished and nothing runs but the
\* end of finishSession or its failure handler.
ResultFinal ==
  Genuine =>
    /\ snap.phase = "finished"
    /\ pc \in {"emit", "failing", "down", "returned"}
    /\ pc \in {"emit", "failing"} => run.reopen = snap.reopen
    /\ Justifies(snap.result, snap.action, snap.outcome, snap.reopen)

ResultInv == TerminalLocated /\ ResultFinal

-----------------------------------------------------------------------------
(* Types.                                                                  *)

\* The phases of every body and of the prelude are phases of the machine.
LEMMA PhaseNames ==
  /\ \A mode \in WorkflowModes : BodyPhases(mode) \subseteq Phases
  /\ {"created", "frame", "ingest", "report", "action", "observe",
      "finished", "failed"} \subseteq Phases
BY DEF WorkflowModes, BodyPhases, Phases, PreludePhases, AdjudicationPhases,
       DebatePhases, DelphiPhases, FinalPhases

\* Every request has a mode, and its body can only find terminal states.
LEMMA RequestModes ==
  ASSUME request \in Requests
  PROVE  /\ request \in RequestType
         /\ request.mode \in WorkflowModes
         /\ request.sources \in Nat
         /\ Outcomes(request.mode) \subseteq TerminalStates
BY RequestsAssumption DEF RequestType, Outcomes, TerminalStates

LEMMA AdvanceType ==
  ASSUME TypeOK, NEW next \in Phases, Advance(next)
  PROVE  run' \in RunType /\ snap' \in SnapshotType
BY DEF TypeOK, Advance, RunType, SnapshotType

LEMMA CheckpointType ==
  ASSUME TypeOK, NEW completed \in Phases, SaveWorkflowCheckpoint(completed)
  PROVE  snap' \in SnapshotType
BY DEF TypeOK, SaveWorkflowCheckpoint, RunType, SnapshotType

LEMMA NoRunType == NoRun \in RunType
BY PhaseNames DEF NoRun, RunType, TerminalStates, ActionStates

LEMMA InitType == Init => TypeOK
<1>1. NewSnapshot \in SnapshotType
  BY PhaseNames DEF NewSnapshot, SnapshotType, ActionStates
<1> QED
  BY <1>1, NoRunType, BoundsAssumption DEF Init, TypeOK, Pcs

LEMMA PreludeType == TypeOK /\ (Start \/ PreludeAdvance \/ PreludeCommit) => TypeOK'
<1> SUFFICES ASSUME TypeOK PROVE (Start \/ PreludeAdvance \/ PreludeCommit) => TypeOK'
  OBVIOUS
<1>1. CASE Start
  <2>1. run' \in RunType
    BY <1>1, NoRunType DEF Start, RunType
  <2> QED
    BY <1>1, <2>1 DEF Start, TypeOK, Pcs
<1>2. CASE PreludeAdvance
  BY <1>2, AdvanceType, PhaseNames DEF PreludeAdvance, TypeOK
<1>3. CASE PreludeCommit
  <2>1. snap' \in SnapshotType
    BY <1>3, PhaseNames DEF PreludeCommit, TypeOK, SnapshotType
  <2> QED
    BY <1>3, <2>1 DEF PreludeCommit, TypeOK, Pcs
<1> QED
  BY <1>1, <1>2, <1>3

LEMMA BodyType == TypeOK /\ BodyStep => TypeOK'
<1> SUFFICES ASSUME TypeOK PROVE BodyStep => TypeOK'
  OBVIOUS
<1>1. CASE BodyAdvance
  <2>1. PICK next \in BodyPhases(request.mode) : Advance(next)
    BY <1>1 DEF BodyAdvance
  <2>2. next \in Phases
    BY RequestModes, PhaseNames DEF TypeOK
  <2> QED
    BY <1>1, <2>1, <2>2, AdvanceType DEF BodyAdvance, TypeOK
<1>2. CASE BodyCommit
  <2>1. snap' \in SnapshotType
    BY <1>2, RequestModes DEF BodyCommit, TypeOK, SnapshotType, RunType
  <2> QED
    BY <1>2, <2>1 DEF BodyCommit, TypeOK
<1>3. CASE BodyReady
  <2>1. run' \in RunType
    BY <1>3 DEF BodyReady, TypeOK, SnapshotType, RunType, TerminalStates
  <2> QED
    BY <1>3, <2>1 DEF BodyReady, TypeOK, Pcs, ClosingPcs
<1>4. CASE BodyRejected
  BY <1>4 DEF BodyRejected, TypeOK, Pcs
<1> QED
  BY <1>1, <1>2, <1>3, <1>4 DEF BodyStep

LEMMA SetActionType ==
  ASSUME TypeOK, NEW action \in ActionStates, SetAction(action)
  PROVE  run' \in RunType
<1>1. TerminalOf(action, run.outcome) \in TerminalStates \cup {"none"}
  BY DEF TypeOK, RunType, TerminalOf, TerminalStates
<1> QED
  BY <1>1 DEF SetAction, TypeOK, RunType

LEMMA CloseType == TypeOK /\ CloseStep => TypeOK'
<1> SUFFICES ASSUME TypeOK PROVE CloseStep => TypeOK'
  OBVIOUS
<1>1. CASE EnterAction
  BY <1>1, AdvanceType, PhaseNames DEF EnterAction, TypeOK, Pcs, ClosingPcs
<1>2. CASE BlockAction
  BY <1>2, SetActionType DEF BlockAction, TypeOK, Pcs, ClosingPcs, ActionStates
<1>3. CASE DispatchAction
  BY <1>3, SetActionType DEF DispatchAction, TypeOK, Pcs, ClosingPcs, ActionStates
<1>4. CASE RefuseAction
  BY <1>4, SetActionType DEF RefuseAction, TypeOK, Pcs, ClosingPcs, ActionStates
<1>5. CASE SkipAction
  <2>1. run.action \in ActionStates
    BY DEF TypeOK, RunType
  <2> QED
    BY <1>5, <2>1, SetActionType DEF SkipAction, TypeOK, Pcs, ClosingPcs
<1>6. CASE CommitAction
  BY <1>6, CheckpointType, PhaseNames DEF CommitAction, TypeOK, Pcs, ClosingPcs
<1>7. CASE EnterObserve
  BY <1>7, AdvanceType, PhaseNames DEF EnterObserve, TypeOK, Pcs, ClosingPcs
<1>8. CASE ObserveBuiltin
  <2>1. run' \in RunType
    BY <1>8 DEF ObserveBuiltin, TypeOK, RunType
  <2> QED
    BY <1>8, <2>1 DEF ObserveBuiltin, TypeOK, Pcs, ClosingPcs
<1>9. CASE ObserveSource
  <2>1. \/ run' = [run EXCEPT !.observed = @ + 1, !.reopen = TRUE,
                             !.terminal = "requires_human_review"]
        \/ run' = [run EXCEPT !.observed = @ + 1]
    BY <1>9 DEF ObserveSource
  <2>2. run.observed + 1 \in Nat /\ "requires_human_review" \in TerminalStates
    BY DEF TypeOK, RunType, TerminalStates
  <2>3. run' \in RunType
    <3>1. CASE run' = [run EXCEPT !.observed = @ + 1]
      BY <3>1, <2>2 DEF TypeOK, RunType
    <3>2. CASE run' = [run EXCEPT !.observed = @ + 1, !.reopen = TRUE,
                                  !.terminal = "requires_human_review"]
      BY <3>2, <2>2 DEF TypeOK, RunType
    <3> QED
      BY <2>1, <3>1, <3>2
  <2> QED
    BY <1>9, <2>3 DEF ObserveSource, TypeOK
<1>10. CASE ObserveDone
  BY <1>10 DEF ObserveDone, TypeOK, Pcs, ClosingPcs
<1>11. CASE CommitObserve
  BY <1>11, CheckpointType, PhaseNames DEF CommitObserve, TypeOK, Pcs, ClosingPcs
<1>12. CASE EnterFinished
  <2>1. run' \in RunType
    BY <1>12, PhaseNames DEF EnterFinished, TypeOK, RunType
  <2> QED
    BY <1>12, <2>1 DEF EnterFinished, TypeOK, Pcs, ClosingPcs
<1>13. CASE PersistFinish
  <2>1. snap' \in SnapshotType
    BY <1>13, PhaseNames DEF PersistFinish, TypeOK, RunType, SnapshotType
  <2> QED
    BY <1>13, <2>1 DEF PersistFinish, TypeOK, Pcs, ClosingPcs
<1>14. CASE EmitFinalized
  BY <1>14, NoRunType DEF EmitFinalized, TypeOK, Pcs
<1> QED
  BY <1>1, <1>2, <1>3, <1>4, <1>5, <1>6, <1>7, <1>8, <1>9, <1>10, <1>11, <1>12,
     <1>13, <1>14 DEF CloseStep

LEMMA FailureType == TypeOK /\ (StepError \/ FailSession \/ Crash \/ Resume) => TypeOK'
<1> SUFFICES ASSUME TypeOK PROVE (StepError \/ FailSession \/ Crash \/ Resume) => TypeOK'
  OBVIOUS
<1>1. CASE StepError
  BY <1>1, NoRunType, BoundsAssumption DEF StepError, TypeOK, Pcs
<1>2. CASE FailSession
  <2>1. PartialState(snap) \in SnapshotType
    BY DEF PartialState, TypeOK, RunType, SnapshotType
  <2>2. ASSUME NEW kept \in SnapshotType
        PROVE  StoreFailure(kept) \in SnapshotType
    <3>1. FailurePhase \in Phases
      BY PhaseNames DEF FailurePhase, TypeOK, RunType
    <3> QED
      BY <2>2, <3>1 DEF StoreFailure, SnapshotType
  <2>3. snap' \in SnapshotType
    BY <1>2, <2>1, <2>2 DEF FailSession, TypeOK
  <2>4. lost' \in Nat
    BY <1>2 DEF FailSession, LoseOutput, TypeOK
  <2> QED
    BY <1>2, <2>3, <2>4, NoRunType DEF FailSession, TypeOK, Pcs
<1>3. CASE Crash
  <2>1. lost' \in Nat
    BY <1>3 DEF Crash, LoseOutput, TypeOK
  <2> QED
    BY <1>3, <2>1, NoRunType, BoundsAssumption DEF Crash, TypeOK, Pcs
<1>4. CASE Resume
  <2>1. RestoredRun \in RunType
    BY DEF RestoredRun, TypeOK, RunType, SnapshotType, TerminalStates
  <2>2. ResumePc \in Pcs
    BY DEF ResumePc, Pcs, ClosingPcs
  <2> QED
    BY <1>4, <2>1, <2>2, NoRunType DEF Resume, TypeOK, Pcs
<1> QED
  BY <1>1, <1>2, <1>3, <1>4

LEMMA NextType == TypeOK /\ [Next]_vars => TypeOK'
<1>1. CASE UNCHANGED vars
  BY <1>1 DEF TypeOK, vars
<1>2. CASE Returned
  BY <1>2 DEF Returned, TypeOK, vars
<1> QED
  BY <1>1, <1>2, PreludeType, BodyType, CloseType, FailureType DEF Next, EngineStep

\* Every state of every session is well typed: in particular phases are always
\* phases of the state machine, and no counter leaves its bound.
THEOREM TypeCorrect == Spec => []TypeOK
BY InitType, NextType, PTL DEF Spec

-----------------------------------------------------------------------------
(* The action: where its output is, and how often it is dispatched.        *)

LEMMA ActionInit == Init => ActionInv
BY DEF Init, ActionInv, ActionLocated, DispatchesAccounted, Running, NoRun, NewSnapshot

\* The fields a phase change, a checkpoint and an action output leave alone.
LEMMA AdvanceKeeps ==
  ASSUME TypeOK, NEW next, Advance(next)
  PROVE  /\ run'.action = run.action /\ run'.outcome = run.outcome
         /\ run'.reopen = run.reopen /\ run'.terminal = run.terminal
         /\ run'.observed = run.observed
         /\ snap'.action = snap.action /\ snap'.outcome = snap.outcome
         /\ snap'.reopen = snap.reopen /\ snap'.result = snap.result
         /\ snap'.done = snap.done
         /\ snap'.phase = next /\ run'.phase = next
BY DEF TypeOK, Advance, RunType, SnapshotType

LEMMA CheckpointStores ==
  ASSUME TypeOK, NEW completed, SaveWorkflowCheckpoint(completed)
  PROVE  /\ snap'.action = run.action /\ snap'.outcome = run.outcome
         /\ snap'.reopen = run.reopen /\ snap'.done = completed
         /\ snap'.phase = completed /\ snap'.result = snap.result
BY DEF TypeOK, SaveWorkflowCheckpoint, RunType, SnapshotType

LEMMA SetActionKeeps ==
  ASSUME TypeOK, NEW action, SetAction(action)
  PROVE  /\ run'.action = action /\ run'.outcome = run.outcome
         /\ run'.reopen = run.reopen /\ run'.phase = run.phase
         /\ run'.terminal = TerminalOf(action, run.outcome)
BY DEF TypeOK, SetAction, RunType

LEMMA ActionPrelude ==
  TypeOK /\ ActionInv /\ (Start \/ PreludeAdvance \/ PreludeCommit) => ActionInv'
<1> SUFFICES ASSUME TypeOK, ActionInv
             PROVE  (Start \/ PreludeAdvance \/ PreludeCommit) => ActionInv'
  OBVIOUS
<1> USE DEF ActionInv, ActionLocated, DispatchesAccounted, Running
<1>1. CASE Start
  <2>1. run'.action = "none"
    BY <1>1 DEF Start, NoRun
  <2> QED
    BY <1>1, <2>1 DEF Start
<1>2. CASE PreludeAdvance
  BY <1>2, AdvanceKeeps DEF PreludeAdvance
<1>3. CASE PreludeCommit
  <2>1. snap'.action = snap.action /\ snap.action = "none"
    BY <1>3 DEF PreludeCommit, TypeOK, SnapshotType
  <2> QED
    BY <1>3, <2>1 DEF PreludeCommit
<1> QED
  BY <1>1, <1>2, <1>3

LEMMA ActionBody == TypeOK /\ ActionInv /\ BodyStep => ActionInv'
<1> SUFFICES ASSUME TypeOK, ActionInv PROVE BodyStep => ActionInv'
  OBVIOUS
<1> USE DEF ActionInv, ActionLocated, DispatchesAccounted, Running
<1>1. CASE BodyAdvance
  BY <1>1, AdvanceKeeps DEF BodyAdvance
<1>2. CASE BodyCommit
  <2>1. snap'.action = snap.action /\ snap.action = "none"
    BY <1>2 DEF BodyCommit, TypeOK, SnapshotType
  <2> QED
    BY <1>2, <2>1 DEF BodyCommit
<1>3. CASE BodyReady
  <2>1. run'.action = run.action
    BY <1>3 DEF BodyReady, TypeOK, RunType
  <2> QED
    BY <1>3, <2>1 DEF BodyReady
<1>4. CASE BodyRejected
  BY <1>4 DEF BodyRejected
<1> QED
  BY <1>1, <1>2, <1>3, <1>4 DEF BodyStep

LEMMA ActionClose == TypeOK /\ ActionInv /\ CloseStep => ActionInv'
<1> SUFFICES ASSUME TypeOK, ActionInv PROVE CloseStep => ActionInv'
  OBVIOUS
<1> USE DEF ActionInv, ActionLocated, DispatchesAccounted, Running
<1>1. CASE EnterAction
  BY <1>1, AdvanceKeeps DEF EnterAction
<1>2. CASE BlockAction
  <2>1. run'.action = "blocked" /\ run.action = "none"
    BY <1>2, SetActionKeeps DEF BlockAction, ActionDue
  <2> QED
    BY <1>2, <2>1 DEF BlockAction, TypeOK
<1>3. CASE DispatchAction
  <2>1. run'.action # "none"
    BY <1>3, SetActionKeeps DEF DispatchAction
  <2>2. snap.action = "none" /\ run.action = "none"
    BY <1>3 DEF DispatchAction, ActionDue
  <2>3. dispatched <= lost
    BY <2>2 DEF TypeOK
  <2>4. dispatched + 1 <= lost + 1
    BY <2>3 DEF TypeOK
  <2> QED
    BY <1>3, <2>1, <2>2, <2>4 DEF DispatchAction
<1>4. CASE RefuseAction
  <2>1. run'.action = "failed" /\ run.action = "none"
    BY <1>4, SetActionKeeps DEF RefuseAction, ActionDue
  <2> QED
    BY <1>4, <2>1 DEF RefuseAction, TypeOK
<1>5. CASE SkipAction
  <2>1. run'.action = run.action
    BY <1>5, SetActionKeeps DEF SkipAction
  <2> QED
    BY <1>5, <2>1 DEF SkipAction
<1>6. CASE CommitAction
  <2>1. CASE run.phase = "action"
    BY <1>6, <2>1, CheckpointStores DEF CommitAction
  <2>2. CASE run.phase # "action"
    BY <1>6, <2>2 DEF CommitAction
  <2> QED
    BY <2>1, <2>2
<1>7. CASE EnterObserve
  BY <1>7, AdvanceKeeps DEF EnterObserve
<1>8. CASE ObserveBuiltin
  <2>1. run'.action = run.action
    BY <1>8 DEF ObserveBuiltin, TypeOK, RunType
  <2> QED
    BY <1>8, <2>1 DEF ObserveBuiltin
<1>9. CASE ObserveSource
  <2>1. run'.action = run.action
    BY <1>9 DEF ObserveSource, TypeOK, RunType
  <2> QED
    BY <1>9, <2>1 DEF ObserveSource
<1>10. CASE ObserveDone
  BY <1>10 DEF ObserveDone
<1>11. CASE CommitObserve
  BY <1>11, CheckpointStores DEF CommitObserve
<1>12. CASE EnterFinished
  <2>1. run'.action = run.action
    BY <1>12 DEF EnterFinished, TypeOK, RunType
  <2> QED
    BY <1>12, <2>1 DEF EnterFinished
<1>13. CASE PersistFinish
  <2>1. snap'.action = snap.action /\ snap'.done = snap.done
    BY <1>13 DEF PersistFinish, TypeOK, SnapshotType
  <2> QED
    BY <1>13, <2>1 DEF PersistFinish
<1>14. CASE EmitFinalized
  <2>1. run'.action = "none" /\ snap.action = run.action
    BY <1>14 DEF EmitFinalized, NoRun
  <2> QED
    BY <1>14, <2>1 DEF EmitFinalized
<1> HIDE DEF ActionInv, ActionLocated, DispatchesAccounted, Running
<1> QED
  BY <1>1, <1>2, <1>3, <1>4, <1>5, <1>6, <1>7, <1>8, <1>9, <1>10, <1>11, <1>12,
     <1>13, <1>14 DEF CloseStep

\* Dying loses the output in memory exactly when the snapshot has none.
LEMMA LoseAccounted ==
  ASSUME TypeOK, DispatchesAccounted, LoseOutput, run' = NoRun,
         dispatched' = dispatched, snap'.action = snap.action
  PROVE  DispatchesAccounted'
<1>1. run'.action = "none"
  BY DEF NoRun
<1>2. CASE run.action # "none" /\ snap.action = "none"
  BY <1>1, <1>2 DEF DispatchesAccounted, LoseOutput, TypeOK
<1>3. CASE ~(run.action # "none" /\ snap.action = "none")
  BY <1>1, <1>3 DEF DispatchesAccounted, LoseOutput, TypeOK
<1> QED
  BY <1>2, <1>3

\* failSession changes neither the action nor what is complete.
LEMMA FailKeeps ==
  ASSUME TypeOK, FailSession
  PROVE  /\ snap'.action = snap.action /\ snap'.done = snap.done
         /\ snap'.outcome = snap.outcome
         /\ snap'.reopen \in {snap.reopen, run.reopen}
         /\ \/ snap'.result = "failure"
            \/ snap'.result = snap.result /\ snap'.phase = snap.phase
<1>1. PICK kept \in {snap, PartialState(snap)} : snap' \in {kept, StoreFailure(kept)}
  BY DEF FailSession
<1>2. /\ kept \in SnapshotType
      /\ kept.action = snap.action /\ kept.done = snap.done
      /\ kept.outcome = snap.outcome /\ kept.result = snap.result
      /\ kept.phase = snap.phase
      /\ kept.reopen \in {snap.reopen, run.reopen}
  BY DEF PartialState, TypeOK, RunType, SnapshotType
<1>3. CASE snap' = kept
  BY <1>2, <1>3
<1>4. CASE snap' = StoreFailure(kept)
  BY <1>2, <1>4 DEF StoreFailure, SnapshotType
<1> QED
  BY <1>1, <1>3, <1>4

LEMMA ActionFailure ==
  TypeOK /\ ActionInv /\ (StepError \/ FailSession \/ Crash \/ Resume) => ActionInv'
<1> SUFFICES ASSUME TypeOK, ActionInv
             PROVE  (StepError \/ FailSession \/ Crash \/ Resume) => ActionInv'
  OBVIOUS
<1> USE DEF ActionInv, ActionLocated, Running
<1>1. CASE StepError
  <2>1. CASE pc = "prelude" /\ run.fresh
    <3>1. run'.action = "none" /\ run.action = "none"
      BY <1>1, <2>1 DEF StepError, NoRun
    <3> QED
      BY <1>1, <2>1, <3>1 DEF StepError, DispatchesAccounted
  <2>2. CASE ~(pc = "prelude" /\ run.fresh)
    BY <1>1, <2>2 DEF StepError, ClosingPcs, DispatchesAccounted
  <2> QED
    BY <2>1, <2>2
<1>2. CASE FailSession
  <2>1. run'.action = "none"
    BY <1>2 DEF FailSession, NoRun
  <2> QED
    BY <1>2, <2>1, LoseAccounted, FailKeeps DEF FailSession
<1>3. CASE Crash
  <2>1. run'.action = "none"
    BY <1>3 DEF Crash, NoRun
  <2> QED
    BY <1>3, <2>1, LoseAccounted DEF Crash
<1>4. CASE Resume
  <2>1. CASE AlreadyFinished
    BY <1>4, <2>1 DEF Resume, NoRun, DispatchesAccounted
  <2>2. CASE ~AlreadyFinished
    <3>1. run'.action = snap.action
      BY <1>4, <2>2 DEF Resume, RestoredRun
    <3>2. CASE snap.done \in {"action", "observe"}
      <4>1. pc' = "finalize"
        BY <1>4, <2>2, <3>2 DEF Resume, ResumePc
      <4> QED
        BY <1>4, <3>1, <4>1 DEF Resume, DispatchesAccounted
    <3>3. CASE snap.done \notin {"action", "observe"}
      <4>1. snap.action = "none" /\ pc' \in {"prelude", "body"}
        BY <1>4, <2>2, <3>3 DEF Resume, ResumePc
      <4> QED
        BY <1>4, <3>1, <4>1 DEF Resume, DispatchesAccounted
    <3> QED
      BY <3>2, <3>3
  <2> QED
    BY <2>1, <2>2
<1> QED
  BY <1>1, <1>2, <1>3, <1>4

LEMMA ActionNext == TypeOK /\ ActionInv /\ [Next]_vars => ActionInv'
<1>1. CASE UNCHANGED vars
  BY <1>1 DEF ActionInv, ActionLocated, DispatchesAccounted, Running, vars
<1>2. CASE Returned
  BY <1>1, <1>2 DEF Returned, ActionInv, ActionLocated, DispatchesAccounted, Running, vars
<1> QED
  BY <1>1, <1>2, ActionPrelude, ActionBody, ActionClose, ActionFailure
     DEF Next, EngineStep

LEMMA ActionInvariant == Spec => [](TypeOK /\ ActionInv)
BY InitType, NextType, ActionInit, ActionNext, PTL DEF Spec

\* However often a session crashes, fails and is resumed, its action is handed
\* to the actor once, and once more for each output that was destroyed before
\* the action checkpoint (finalizeWorkflow, gatedAction).
THEOREM ActionIsAccounted == Spec => []ActionAccounted
<1>1. TypeOK /\ ActionInv => ActionAccounted
  BY DEF TypeOK, ActionInv, DispatchesAccounted, ActionAccounted
<1> QED
  BY <1>1, ActionInvariant, PTL

\* An action whose output is in the snapshot is never dispatched again.
THEOREM ActionIsCommittedOnce == Spec => ActionCommittedOnce
<1>1. TypeOK /\ ActionInv /\ [Next]_vars
        => [snap.action # "none" => dispatched' = dispatched]_vars
  <2> SUFFICES ASSUME TypeOK, ActionInv, Next, snap.action # "none"
               PROVE  dispatched' = dispatched
    BY DEF vars
  <2>1. ~DispatchAction
    BY DEF DispatchAction, ActionDue, ActionInv, ActionLocated, Running
  <2> QED
    BY <2>1 DEF Next, EngineStep, Start, PreludeAdvance, PreludeCommit, BodyStep,
       BodyAdvance, BodyCommit, BodyReady, BodyRejected, CloseStep, EnterAction,
       BlockAction, RefuseAction, SkipAction, CommitAction, EnterObserve,
       ObserveBuiltin, ObserveSource, ObserveDone, CommitObserve, EnterFinished,
       PersistFinish, EmitFinalized, StepError, FailSession, Crash, Resume,
       Returned, vars
<1> QED
  BY <1>1, ActionInvariant, PTL DEF Spec, ActionCommittedOnce

-----------------------------------------------------------------------------
(* The result.                                                             *)

LEMMA ResultInit == Init => ResultInv
BY DEF Init, ResultInv, TerminalLocated, ResultFinal, Genuine, NewSnapshot,
       TerminalStates, ClosingPcs

\* Before finishSession has stored a result a step that leaves the stored result
\* alone and ends before the gate's checkpoint has nothing to justify.
LEMMA ResultEarly ==
  ASSUME ResultInv, pc \notin {"emit", "failing", "down", "returned"},
         snap'.result = snap.result, pc' \notin ClosingPcs \ {"finalize", "gate"}
  PROVE  ResultInv'
<1>1. ~Genuine
  BY DEF ResultInv, ResultFinal
<1>2. ~Genuine'
  BY <1>1 DEF Genuine
<1>3. pc' \notin {"finish", "persist", "emit"}
  BY DEF ClosingPcs
<1> QED
  BY <1>2, <1>3 DEF ResultInv, TerminalLocated, ResultFinal

\* From the gate to the observe checkpoint only the run's fields matter.
LEMMA ResultClosing ==
  ASSUME ResultInv, pc \notin {"emit", "failing", "down", "returned"},
         snap'.result = snap.result, pc' \notin {"finish", "persist", "emit"},
         Justifies(run'.terminal, run'.action, run'.outcome, run'.reopen)
  PROVE  ResultInv'
<1>1. ~Genuine
  BY DEF ResultInv, ResultFinal
<1>2. ~Genuine'
  BY <1>1 DEF Genuine
<1> QED
  BY <1>2 DEF ResultInv, TerminalLocated, ResultFinal, Justifies

LEMMA ResultBody ==
  TypeOK /\ ResultInv /\ (Start \/ PreludeAdvance \/ PreludeCommit \/ BodyStep)
    => ResultInv'
<1> SUFFICES ASSUME TypeOK, ResultInv,
                    Start \/ PreludeAdvance \/ PreludeCommit \/ BodyStep
             PROVE  ResultInv'
  OBVIOUS
<1>1. pc \in {"idle", "prelude", "body"}
  BY DEF Start, PreludeAdvance, PreludeCommit, BodyStep, BodyAdvance, BodyCommit,
         BodyReady, BodyRejected
<1>2. pc' \in {"prelude", "body", "finalize"} \/ pc' = "failing"
  BY DEF Start, PreludeAdvance, PreludeCommit, BodyStep, BodyAdvance, BodyCommit,
         BodyReady, BodyRejected
<1>3. snap'.result = snap.result
  <2>1. CASE PreludeAdvance
    BY <2>1, AdvanceKeeps DEF PreludeAdvance
  <2>2. CASE BodyAdvance
    BY <2>2, AdvanceKeeps DEF BodyAdvance
  <2>3. CASE PreludeCommit
    BY <2>3 DEF PreludeCommit, TypeOK, SnapshotType
  <2>4. CASE BodyCommit
    BY <2>4 DEF BodyCommit, TypeOK, SnapshotType
  <2> QED
    BY <2>1, <2>2, <2>3, <2>4 DEF Start, BodyStep, BodyReady, BodyRejected
<1> QED
  BY <1>1, <1>2, <1>3, ResultEarly DEF ClosingPcs

LEMMA ResultClose == TypeOK /\ ResultInv /\ CloseStep => ResultInv'
<1> SUFFICES ASSUME TypeOK, ResultInv PROVE CloseStep => ResultInv'
  OBVIOUS
<1>1. CASE EnterAction
  <2>1. snap'.result = snap.result
    BY <1>1, AdvanceKeeps DEF EnterAction
  <2> QED
    BY <1>1, <2>1, ResultEarly DEF EnterAction, ClosingPcs
<1>2. ASSUME NEW action, SetAction(action), pc = "gate", pc' = "commitAction", snap' = snap
      PROVE  ResultInv'
  <2>1. Justifies(run'.terminal, run'.action, run'.outcome, run'.reopen)
    BY <1>2, SetActionKeeps DEF Justifies
  <2> QED
    BY <1>2, <2>1, ResultClosing
<1>3. CASE BlockAction
  BY <1>2, <1>3 DEF BlockAction
<1>4. CASE DispatchAction
  BY <1>2, <1>4 DEF DispatchAction
<1>5. CASE RefuseAction
  BY <1>2, <1>5 DEF RefuseAction
<1>6. CASE SkipAction
  BY <1>2, <1>6 DEF SkipAction
<1>7. CASE CommitAction
  <2>1. snap'.result = snap.result
    BY <1>7, CheckpointStores DEF CommitAction
  <2>2. Justifies(run'.terminal, run'.action, run'.outcome, run'.reopen)
    BY <1>7 DEF CommitAction, ResultInv, TerminalLocated, ClosingPcs
  <2> QED
    BY <1>7, <2>1, <2>2, ResultClosing DEF CommitAction
<1>8. CASE EnterObserve
  <2>1. /\ snap'.result = snap.result /\ run'.terminal = run.terminal
        /\ run'.action = run.action /\ run'.outcome = run.outcome
        /\ run'.reopen = run.reopen
    BY <1>8, AdvanceKeeps DEF EnterObserve
  <2>2. Justifies(run'.terminal, run'.action, run'.outcome, run'.reopen)
    BY <1>8, <2>1 DEF EnterObserve, ResultInv, TerminalLocated, ClosingPcs
  <2> QED
    BY <1>8, <2>1, <2>2, ResultClosing DEF EnterObserve
<1>9. CASE ObserveBuiltin
  <2>1. /\ run'.terminal = run.terminal /\ run'.action = run.action
        /\ run'.outcome = run.outcome /\ run'.reopen = run.reopen
    BY <1>9 DEF ObserveBuiltin, TypeOK, RunType
  <2>2. Justifies(run'.terminal, run'.action, run'.outcome, run'.reopen)
    BY <1>9, <2>1 DEF ObserveBuiltin, ResultInv, TerminalLocated, ClosingPcs
  <2> QED
    BY <1>9, <2>2, ResultClosing DEF ObserveBuiltin
<1>10. CASE ObserveSource
  <2>1. \/ run' = [run EXCEPT !.observed = @ + 1, !.reopen = TRUE,
                             !.terminal = "requires_human_review"]
        \/ run' = [run EXCEPT !.observed = @ + 1]
    BY <1>10 DEF ObserveSource
  <2>2. Justifies(run.terminal, run.action, run.outcome, run.reopen)
    BY <1>10 DEF ObserveSource, ResultInv, TerminalLocated, ClosingPcs
  <2>3. Justifies(run'.terminal, run'.action, run'.outcome, run'.reopen)
    <3>1. CASE run' = [run EXCEPT !.observed = @ + 1]
      BY <2>2, <3>1 DEF TypeOK, RunType
    <3>2. CASE run' = [run EXCEPT !.observed = @ + 1, !.reopen = TRUE,
                                  !.terminal = "requires_human_review"]
      BY <3>2 DEF TypeOK, RunType, Justifies
    <3> QED
      BY <2>1, <3>1, <3>2
  <2> QED
    BY <1>10, <2>3, ResultClosing DEF ObserveSource
<1>11. CASE ObserveDone
  <2>1. Justifies(run'.terminal, run'.action, run'.outcome, run'.reopen)
    BY <1>11 DEF ObserveDone, ResultInv, TerminalLocated, ClosingPcs
  <2> QED
    BY <1>11, <2>1, ResultClosing DEF ObserveDone
<1>12. CASE CommitObserve
  <2>1. /\ snap'.result = snap.result /\ snap'.action = run.action
        /\ snap'.outcome = run.outcome /\ snap'.reopen = run.reopen
        /\ run' = run /\ pc' = "finish"
    BY <1>12, CheckpointStores DEF CommitObserve
  <2>2. Justifies(run.terminal, run.action, run.outcome, run.reopen)
    BY <1>12 DEF CommitObserve, ResultInv, TerminalLocated, ClosingPcs
  <2>3. ~Genuine'
    BY <1>12, <2>1 DEF CommitObserve, ResultInv, ResultFinal, Genuine
  <2> QED
    BY <2>1, <2>2, <2>3 DEF ResultInv, TerminalLocated, ResultFinal
<1>13. CASE EnterFinished
  <2>1. /\ run'.terminal = run.terminal /\ run'.action = run.action
        /\ run'.outcome = run.outcome /\ run'.reopen = run.reopen
        /\ snap' = snap /\ pc' = "persist" /\ pc = "finish"
    BY <1>13 DEF EnterFinished, TypeOK, RunType
  <2>2. ~Genuine'
    BY <2>1 DEF ResultInv, ResultFinal, Genuine
  <2>3. Justifies(run.terminal, run.action, run.outcome, run.reopen)
    BY <2>1 DEF ResultInv, TerminalLocated, ClosingPcs
  <2>4. <<snap.action, snap.outcome, snap.reopen>> = <<run.action, run.outcome, run.reopen>>
    BY <2>1 DEF ResultInv, TerminalLocated
  <2> QED
    BY <2>1, <2>2, <2>3, <2>4 DEF ResultInv, TerminalLocated, ResultFinal
<1>14. CASE PersistFinish
  <2>1. /\ snap'.action = snap.action /\ snap'.outcome = snap.outcome
        /\ snap'.reopen = snap.reopen /\ snap'.phase = "finished"
        /\ snap'.result = run.terminal
        /\ run' = run /\ pc' = "emit" /\ pc = "persist"
    BY <1>14 DEF PersistFinish, TypeOK, SnapshotType
  <2>2. Justifies(run.terminal, run.action, run.outcome, run.reopen)
    BY <2>1 DEF ResultInv, TerminalLocated, ClosingPcs
  <2>3. <<snap.action, snap.outcome, snap.reopen>> = <<run.action, run.outcome, run.reopen>>
    BY <2>1 DEF ResultInv, TerminalLocated
  <2> QED
    BY <2>1, <2>2, <2>3 DEF ResultInv, TerminalLocated, ResultFinal
<1>15. CASE EmitFinalized
  BY <1>15 DEF EmitFinalized, ResultInv, TerminalLocated, ResultFinal, Genuine, ClosingPcs
<1> QED
  BY <1>1, <1>3, <1>4, <1>5, <1>6, <1>7, <1>8, <1>9, <1>10, <1>11, <1>12,
     <1>13, <1>14, <1>15 DEF CloseStep

LEMMA ResultFailure ==
  TypeOK /\ ResultInv /\ (StepError \/ FailSession \/ Crash \/ Resume) => ResultInv'
<1> SUFFICES ASSUME TypeOK, ResultInv
             PROVE  (StepError \/ FailSession \/ Crash \/ Resume) => ResultInv'
  OBVIOUS
<1>1. ASSUME snap' = snap, pc' \in {"failing", "down", "returned"},
             pc' = "failing" => run' = run /\ (Genuine => pc = "emit")
      PROVE  ResultInv'
  <2>1. pc' \notin ClosingPcs
    BY <1>1 DEF ClosingPcs
  <2>2. pc' = "failing" /\ Genuine => run'.reopen = snap'.reopen
    BY <1>1 DEF ResultInv, ResultFinal
  <2>3. Genuine' = Genuine
    BY <1>1 DEF Genuine
  <2> QED
    BY <1>1, <2>1, <2>2, <2>3 DEF ResultInv, TerminalLocated, ResultFinal, ClosingPcs
<1>2. CASE StepError
  <2>1. Genuine => pc = "emit"
    BY <1>2 DEF StepError, ResultInv, ResultFinal, ClosingPcs
  <2> QED
    BY <1>1, <1>2, <2>1 DEF StepError
<1>3. CASE FailSession
  <2>1. pc' = "down" /\ pc = "failing"
    BY <1>3 DEF FailSession
  <2>2. TerminalLocated'
    BY <2>1 DEF TerminalLocated, ClosingPcs
  <2>3. ASSUME Genuine' PROVE snap'.result = snap.result /\ snap'.phase = snap.phase
    BY <1>3, <2>3, FailKeeps DEF Genuine, TerminalStates
  <2>4. Genuine' => Genuine
    BY <2>3 DEF Genuine
  <2>5. Genuine' => snap'.reopen = snap.reopen
    BY <1>3, <2>1, <2>4, FailKeeps DEF ResultInv, ResultFinal
  <2>6. snap'.action = snap.action /\ snap'.outcome = snap.outcome
    BY <1>3, FailKeeps
  <2> QED
    BY <2>1, <2>2, <2>3, <2>4, <2>5, <2>6 DEF ResultInv, ResultFinal
<1>4. CASE Crash
  BY <1>1, <1>4 DEF Crash
<1>5. CASE Resume
  <2>1. CASE AlreadyFinished
    BY <1>1, <1>5, <2>1 DEF Resume
  <2>2. CASE ~AlreadyFinished
    <3>1. ~Genuine /\ snap' = snap
      BY <1>5, <2>2 DEF Resume, AlreadyFinished, Genuine, TerminalStates, ResultInv,
         ResultFinal
    <3>2. ~Genuine'
      BY <3>1 DEF Genuine
    <3>3. pc' \in {"prelude", "body", "finalize"}
      BY <1>5, <2>2 DEF Resume, ResumePc
    <3> QED
      BY <3>2, <3>3 DEF ResultInv, TerminalLocated, ResultFinal, ClosingPcs
  <2> QED
    BY <2>1, <2>2
<1> QED
  BY <1>2, <1>3, <1>4, <1>5

LEMMA ResultNext == TypeOK /\ ResultInv /\ [Next]_vars => ResultInv'
<1>1. CASE UNCHANGED vars
  BY <1>1 DEF ResultInv, TerminalLocated, ResultFinal, Genuine, vars
<1>2. CASE Returned
  BY <1>1, <1>2 DEF Returned
<1> QED
  BY <1>1, <1>2, ResultBody, ResultClose, ResultFailure DEF Next, EngineStep

\* Whatever crashes, failures and resumes lie between, a stored result is what
\* the stored action and workflow data justify, or the human review a reopened
\* case asks for (determineWorkflowTerminalState, runObservePhase, finishSession).
THEOREM ResultIsJustified == Spec => []ResultJustified
<1>1. ResultInv => ResultJustified
  BY DEF ResultInv, ResultFinal, Justifies, ResultJustified
<1> QED
  BY <1>1, InitType, NextType, ResultInit, ResultNext, PTL DEF Spec

-----------------------------------------------------------------------------
(* Observations and the end of a session, of sessions in which no step fails. *)

\* Where a run is before its body has handed over a result.
Early == {"idle", "prelude", "body", "failing"}

\* Observations are stored all at once, a result on top of them, and a finished
\* snapshot is left to the end of finishSession and to Resume.
SnapshotComplete ==
  /\ snap.observed = IF snap.done = "observe" THEN 1 + request.sources ELSE 0
  /\ snap.done \in {"report", "action", "observe"} => snap.outcome \in TerminalStates
  /\ snap.done # "finished"
  /\ Genuine => snap.done = "observe"
  /\ snap.phase = "finished" => Genuine /\ pc \in {"emit", "down", "returned"}

\* The run has the stored observations until it makes all of them itself.
MemoryComplete ==
  /\ pc \in Early => /\ run.observed = 0
                     /\ run.phase \notin {"action", "observe", "finished"}
                     /\ snap.done \notin {"action", "observe"}
  /\ pc \in ClosingPcs => run.outcome \in TerminalStates
  /\ pc \in {"finalize", "gate", "commitAction", "enterObserve", "observe"} =>
       /\ run.observed = snap.observed
       /\ snap.done = "observe" => run.phase = "observe"
  /\ pc = "sources" => run.observed <= 1 + request.sources
  /\ pc = "commitObserve" => run.observed = 1 + request.sources
  /\ pc \in {"finish", "persist"} => snap.done = "observe"

CompleteInv == failures = 0 => SnapshotComplete /\ MemoryComplete

\* What the steps of one session without a failure start from.
CompleteState == TypeOK /\ ResultInv /\ SnapshotComplete /\ MemoryComplete

LEMMA CompleteInit == Init => CompleteInv
BY DEF Init, CompleteInv, SnapshotComplete, MemoryComplete, Early, Genuine, NoRun,
       NewSnapshot, TerminalStates, ClosingPcs

\* Before a result is stored the snapshot is not finished.
LEMMA NotYetGenuine ==
  ASSUME CompleteState, pc \notin {"emit", "failing", "down", "returned"}
  PROVE  ~Genuine /\ snap.phase # "finished"
BY DEF CompleteState, ResultInv, ResultFinal, SnapshotComplete

LEMMA BodyPhasesEarly ==
  ASSUME request \in Requests, NEW next \in BodyPhases(request.mode)
  PROVE  next \notin {"action", "observe", "finished"}
<1>1. request.mode \in WorkflowModes
  BY RequestModes
<1> QED
  BY <1>1 DEF WorkflowModes, BodyPhases, AdjudicationPhases, DebatePhases, DelphiPhases

LEMMA CompletePrelude ==
  ASSUME CompleteState, Start \/ PreludeAdvance \/ PreludeCommit \/ BodyStep
  PROVE  SnapshotComplete' /\ MemoryComplete'
<1> USE DEF SnapshotComplete, MemoryComplete, Early
<1>t. TypeOK /\ SnapshotComplete /\ MemoryComplete
  BY DEF CompleteState
<1>g. pc \in {"idle", "prelude", "body"} => ~Genuine /\ snap.phase # "finished"
  BY NotYetGenuine
<1>1. CASE Start
  <2>1. /\ run'.observed = 0 /\ run'.phase = "created"
        /\ snap' = snap /\ pc = "idle" /\ pc' = "prelude" /\ request' = request
    BY <1>1 DEF Start, NoRun
  <2>2. Genuine' = Genuine
    BY <2>1 DEF Genuine
  <2> QED
    BY <1>t, <1>g, <2>1, <2>2 DEF ClosingPcs
<1>2. ASSUME pc \in {"prelude", "body"}, pc' = pc, request' = request,
             NEW next, next \notin {"action", "observe", "finished"}, Advance(next)
      PROVE  SnapshotComplete' /\ MemoryComplete'
  <2>1. /\ run'.observed = run.observed /\ run'.phase = next /\ snap'.done = snap.done
        /\ snap'.outcome = snap.outcome /\ snap'.phase = next
        /\ snap'.result = snap.result
    BY <1>t, <1>2, AdvanceKeeps
  <2>2. snap'.observed = snap.observed
    BY <1>t, <1>2 DEF Advance, TypeOK, SnapshotType
  <2>3. Genuine' = Genuine
    BY <2>1 DEF Genuine
  <2> QED
    BY <1>t, <1>g, <1>2, <2>1, <2>2, <2>3 DEF ClosingPcs
<1>3. CASE PreludeAdvance
  BY <1>2, <1>3 DEF PreludeAdvance
<1>4. CASE BodyAdvance
  BY <1>t, <1>2, <1>4, BodyPhasesEarly DEF BodyAdvance, TypeOK
<1>5. CASE PreludeCommit
  <2>1. /\ snap'.done = "ingest" /\ snap'.phase = "ingest"
        /\ snap'.observed = snap.observed /\ snap'.result = snap.result
        /\ pc = "prelude" /\ pc' = "body" /\ run' = run /\ request' = request
    BY <1>t, <1>5 DEF PreludeCommit, TypeOK, SnapshotType
  <2>2. Genuine' = Genuine
    BY <2>1 DEF Genuine
  <2> QED
    BY <1>t, <1>g, <2>1, <2>2 DEF ClosingPcs
<1>6. CASE BodyCommit
  <2>1. PICK outcome \in Outcomes(request.mode) :
          snap' = [snap EXCEPT !.phase = run.phase, !.done = run.phase,
                     !.outcome = IF run.phase = "report" /\ snap.done # "report"
                                   THEN outcome ELSE @]
    BY <1>6 DEF BodyCommit
  <2>2. /\ snap'.done = run.phase /\ snap'.phase = run.phase
        /\ snap'.observed = snap.observed /\ snap'.result = snap.result
        /\ snap'.outcome = (IF run.phase = "report" /\ snap.done # "report"
                              THEN outcome ELSE snap.outcome)
    BY <1>t, <2>1 DEF TypeOK, SnapshotType
  <2>3. outcome \in TerminalStates
    BY <1>t, RequestModes DEF TypeOK
  <2>4. pc = "body" /\ pc' = "body" /\ run' = run /\ request' = request
    BY <1>6 DEF BodyCommit
  <2>5. Genuine' = Genuine
    BY <2>2 DEF Genuine
  <2> QED
    BY <1>t, <1>g, <2>2, <2>3, <2>4, <2>5 DEF ClosingPcs
<1>7. CASE BodyReady
  <2>1. /\ run'.observed = run.observed /\ run'.outcome \in {snap.outcome, "insufficient_evidence"}
        /\ run'.outcome = snap.outcome => snap.done = "report" \/ run'.outcome = "insufficient_evidence"
    BY <1>t, <1>7 DEF BodyReady, TypeOK, RunType
  <2>2. run'.outcome \in TerminalStates
    BY <1>t, <2>1 DEF TerminalStates
  <2>3. pc = "body" /\ pc' = "finalize" /\ snap' = snap /\ request' = request
    BY <1>7 DEF BodyReady
  <2>4. Genuine' = Genuine
    BY <2>3 DEF Genuine
  <2> QED
    BY <1>t, <1>g, <2>1, <2>2, <2>3, <2>4
<1>8. CASE BodyRejected
  <2>1. pc = "body" /\ pc' = "failing" /\ snap' = snap /\ run' = run /\ request' = request
    BY <1>8 DEF BodyRejected
  <2>2. Genuine' = Genuine
    BY <2>1 DEF Genuine
  <2> QED
    BY <1>t, <1>g, <2>1, <2>2 DEF ClosingPcs
<1> QED
  BY <1>1, <1>3, <1>4, <1>5, <1>6, <1>7, <1>8 DEF BodyStep

\* A step of the closing sequence before the result is stored changes neither
\* the snapshot's result nor, without a checkpoint, what it holds.
LEMMA CompleteClose ==
  ASSUME CompleteState, CloseStep
  PROVE  SnapshotComplete' /\ MemoryComplete'
<1> USE DEF SnapshotComplete, MemoryComplete, Early
<1>t. /\ TypeOK /\ SnapshotComplete /\ MemoryComplete
      /\ run.observed \in Nat /\ request.sources \in Nat
  BY RequestModes DEF CompleteState, TypeOK, RunType
<1>g. pc \in ClosingPcs \ {"emit"} => ~Genuine /\ snap.phase # "finished"
  BY NotYetGenuine DEF ClosingPcs
<1>r. request' = request
  BY DEF CloseStep, EnterAction, BlockAction, DispatchAction, RefuseAction, SkipAction,
         CommitAction, EnterObserve, ObserveBuiltin, ObserveSource, ObserveDone,
         CommitObserve, EnterFinished, PersistFinish, EmitFinalized
<1>1. CASE EnterAction
  <2>1. pc = "finalize" /\ pc' = "gate"
    BY <1>1 DEF EnterAction
  <2>2. CASE NeedsAction /\ run.phase \notin {"action", "observe"}
    <3>1. Advance("action")
      BY <1>1, <2>2 DEF EnterAction
    <3>2. /\ run'.observed = run.observed /\ run'.outcome = run.outcome
          /\ snap'.done = snap.done /\ snap'.outcome = snap.outcome
          /\ snap'.result = snap.result /\ snap'.phase = "action" /\ run'.phase = "action"
      BY <1>t, <3>1, AdvanceKeeps
    <3>3. snap'.observed = snap.observed
      BY <1>t, <3>1 DEF Advance, TypeOK, SnapshotType
    <3>4. Genuine' = Genuine
      BY <3>2 DEF Genuine
    <3> QED BY <1>t, <1>g, <1>r, <2>1, <2>2, <3>2, <3>3, <3>4 DEF ClosingPcs
  <2>3. CASE ~(NeedsAction /\ run.phase \notin {"action", "observe"})
    <3>1. run' = run /\ snap' = snap
      BY <1>1, <2>3 DEF EnterAction
    <3>2. Genuine' = Genuine
      BY <3>1 DEF Genuine
    <3> QED BY <1>t, <1>g, <1>r, <2>1, <3>1, <3>2 DEF ClosingPcs
  <2> QED BY <2>2, <2>3
<1>2. ASSUME NEW action, SetAction(action), pc = "gate", pc' = "commitAction", snap' = snap
      PROVE  SnapshotComplete' /\ MemoryComplete'
  <2>1. /\ run'.outcome = run.outcome /\ run'.phase = run.phase
        /\ run'.observed = run.observed
    BY <1>t, <1>2 DEF SetAction, TypeOK, RunType
  <2>2. Genuine' = Genuine
    BY <1>2 DEF Genuine
  <2> QED BY <1>t, <1>g, <1>r, <1>2, <2>1, <2>2 DEF ClosingPcs
<1>3. CASE BlockAction
  BY <1>2, <1>3 DEF BlockAction
<1>4. CASE DispatchAction
  BY <1>2, <1>4 DEF DispatchAction
<1>5. CASE RefuseAction
  BY <1>2, <1>5 DEF RefuseAction
<1>6. CASE SkipAction
  BY <1>2, <1>6 DEF SkipAction
<1>7. ASSUME NEW completed \in {"action", "observe"}, SaveWorkflowCheckpoint(completed)
      PROVE  /\ snap'.done = completed /\ snap'.observed = run.observed
             /\ snap'.outcome = run.outcome /\ snap'.phase = completed
             /\ Genuine' = Genuine
  <2>1. /\ snap'.done = completed /\ snap'.observed = run.observed
        /\ snap'.outcome = run.outcome /\ snap'.phase = completed
        /\ snap'.result = snap.result
    BY <1>t, <1>7 DEF SaveWorkflowCheckpoint, TypeOK, SnapshotType
  <2> QED BY <2>1 DEF Genuine
<1>8. CASE CommitAction
  <2>1. pc = "commitAction" /\ pc' = "enterObserve" /\ run' = run
    BY <1>8 DEF CommitAction
  <2>2. CASE run.phase = "action"
    <3>1. SaveWorkflowCheckpoint("action")
      BY <1>8, <2>2 DEF CommitAction
    <3> QED BY <1>t, <1>g, <1>r, <1>7, <2>1, <2>2, <3>1 DEF ClosingPcs
  <2>3. CASE run.phase # "action"
    <3>1. snap' = snap
      BY <1>8, <2>3 DEF CommitAction
    <3>2. Genuine' = Genuine
      BY <3>1 DEF Genuine
    <3> QED BY <1>t, <1>g, <1>r, <2>1, <3>1, <3>2 DEF ClosingPcs
  <2> QED BY <2>2, <2>3
<1>9. CASE EnterObserve
  <2>1. pc = "enterObserve" /\ pc' = "observe"
    BY <1>9 DEF EnterObserve
  <2>2. CASE run.phase # "observe"
    <3>1. Advance("observe")
      BY <1>9, <2>2 DEF EnterObserve
    <3>2. /\ run'.observed = run.observed /\ run'.outcome = run.outcome
          /\ snap'.done = snap.done /\ snap'.outcome = snap.outcome
          /\ snap'.result = snap.result /\ snap'.phase = "observe" /\ run'.phase = "observe"
      BY <1>t, <3>1, AdvanceKeeps
    <3>3. snap'.observed = snap.observed
      BY <1>t, <3>1 DEF Advance, TypeOK, SnapshotType
    <3>4. Genuine' = Genuine
      BY <3>2 DEF Genuine
    <3> QED BY <1>t, <1>g, <1>r, <2>1, <3>2, <3>3, <3>4 DEF ClosingPcs
  <2>3. CASE run.phase = "observe"
    <3>1. run' = run /\ snap' = snap
      BY <1>9, <2>3 DEF EnterObserve
    <3>2. Genuine' = Genuine
      BY <3>1 DEF Genuine
    <3> QED BY <1>t, <1>g, <1>r, <2>1, <3>1, <3>2 DEF ClosingPcs
  <2> QED BY <2>2, <2>3
<1>10. CASE ObserveBuiltin
  <2>1. pc = "observe" /\ snap' = snap
    BY <1>10 DEF ObserveBuiltin
  <2>2. Genuine' = Genuine
    BY <2>1 DEF Genuine
  <2>3. CASE run.observed = 0
    <3>1. run'.observed = 1 /\ run'.outcome = run.outcome /\ pc' = "sources"
      BY <1>t, <1>10, <2>3 DEF ObserveBuiltin, TypeOK, RunType
    <3> QED BY <1>t, <1>g, <1>r, <2>1, <2>2, <3>1 DEF ClosingPcs
  <2>4. CASE run.observed # 0
    <3>1. run' = run /\ pc' = "commitObserve"
      BY <1>10, <2>4 DEF ObserveBuiltin
    <3>2. run.observed = 1 + request.sources
      BY <1>t, <2>1, <2>4
    <3> QED BY <1>t, <1>g, <1>r, <2>1, <2>2, <3>1, <3>2 DEF ClosingPcs
  <2> QED BY <2>3, <2>4
<1>11. CASE ObserveSource
  <2>1. /\ pc = "sources" /\ pc' = "sources" /\ snap' = snap
        /\ run.observed <= request.sources
        /\ \/ run' = [run EXCEPT !.observed = @ + 1, !.reopen = TRUE,
                                 !.terminal = "requires_human_review"]
           \/ run' = [run EXCEPT !.observed = @ + 1]
    BY <1>11 DEF ObserveSource
  <2>2. run'.observed = run.observed + 1 /\ run'.outcome = run.outcome
    BY <1>t, <2>1 DEF TypeOK, RunType
  <2>3. Genuine' = Genuine
    BY <2>1 DEF Genuine
  <2> QED BY <1>t, <1>g, <1>r, <2>1, <2>2, <2>3 DEF ClosingPcs
<1>12. CASE ObserveDone
  <2>1. /\ pc = "sources" /\ pc' = "commitObserve" /\ snap' = snap /\ run' = run
        /\ run.observed > request.sources
    BY <1>12 DEF ObserveDone
  <2>2. Genuine' = Genuine
    BY <2>1 DEF Genuine
  <2>3. run.observed = 1 + request.sources
    BY <1>t, <2>1
  <2> QED BY <1>t, <1>g, <1>r, <2>1, <2>2, <2>3 DEF ClosingPcs
<1>13. CASE CommitObserve
  <2>1. pc = "commitObserve" /\ pc' = "finish" /\ run' = run /\ SaveWorkflowCheckpoint("observe")
    BY <1>13 DEF CommitObserve
  <2> QED BY <1>t, <1>g, <1>r, <1>7, <2>1 DEF ClosingPcs
<1>14. CASE EnterFinished
  <2>1. /\ pc = "finish" /\ pc' = "persist" /\ snap' = snap /\ run'.outcome = run.outcome
    BY <1>t, <1>14 DEF EnterFinished, TypeOK, RunType
  <2>2. Genuine' = Genuine
    BY <2>1 DEF Genuine
  <2> QED BY <1>t, <1>g, <1>r, <2>1, <2>2 DEF ClosingPcs
<1>15. CASE PersistFinish
  <2>1. /\ pc = "persist" /\ pc' = "emit" /\ run' = run
        /\ snap'.phase = "finished" /\ snap'.result = run.terminal
        /\ snap'.done = snap.done /\ snap'.observed = snap.observed
        /\ snap'.outcome = snap.outcome
    BY <1>t, <1>15 DEF PersistFinish, TypeOK, SnapshotType
  <2>2. Justifies(run.terminal, run.action, run.outcome, run.reopen)
    BY <2>1 DEF CompleteState, ResultInv, TerminalLocated, ClosingPcs
  <2>3. run.terminal \in TerminalStates
    BY <1>t, <2>1, <2>2 DEF Justifies, TerminalOf, TerminalStates, ClosingPcs
  <2>4. Genuine'
    BY <2>1, <2>3 DEF Genuine
  <2> QED BY <1>t, <1>g, <1>r, <2>1, <2>4 DEF ClosingPcs
<1>16. CASE EmitFinalized
  <2>1. pc = "emit" /\ pc' = "returned" /\ snap' = snap
    BY <1>16 DEF EmitFinalized
  <2>2. Genuine' = Genuine
    BY <2>1 DEF Genuine
  <2> QED BY <1>t, <1>r, <2>1, <2>2 DEF ClosingPcs
<1> QED
  BY <1>1, <1>3, <1>4, <1>5, <1>6, <1>8, <1>9, <1>10, <1>11, <1>12, <1>13, <1>14,
     <1>15, <1>16 DEF CloseStep

LEMMA CompleteFailure ==
  ASSUME CompleteState, FailSession \/ Crash \/ Resume
  PROVE  SnapshotComplete' /\ MemoryComplete'
<1> USE DEF SnapshotComplete, MemoryComplete, Early
<1>t. TypeOK /\ SnapshotComplete /\ MemoryComplete
  BY DEF CompleteState
<1>1. CASE FailSession
  <2>1. pc = "failing" /\ pc' = "down" /\ request' = request
    BY <1>1 DEF FailSession
  <2>2. PICK kept \in {snap, PartialState(snap)} : snap' \in {kept, StoreFailure(kept)}
    BY <1>1 DEF FailSession
  <2>3. /\ kept \in SnapshotType /\ kept.observed = 0 /\ kept.phase = snap.phase
        /\ kept.done = snap.done /\ kept.outcome = snap.outcome
        /\ kept.result = snap.result
    <3>1. /\ snap \in SnapshotType /\ snap.observed = 0
          /\ run.observed = 0 /\ run.reopen \in BOOLEAN
      BY <1>t, <2>1 DEF TypeOK, RunType, SnapshotType
    <3>2. CASE kept = snap
      BY <3>1, <3>2
    <3>3. CASE kept = PartialState(snap)
      <4>1. kept = [snap EXCEPT !.observed = 0, !.reopen = run.reopen]
        BY <3>1, <3>3 DEF PartialState
      <4> QED BY <3>1, <4>1 DEF SnapshotType
    <3> QED BY <3>2, <3>3
  <2>4. FailurePhase # "finished"
    BY <1>t, <2>1 DEF FailurePhase
  <2>5. CASE snap' = kept
    <3>1. Genuine' = Genuine
      BY <2>3, <2>5 DEF Genuine
    <3> QED BY <1>t, <2>1, <2>3, <2>5, <3>1 DEF ClosingPcs
  <2>6. CASE snap' = StoreFailure(kept)
    <3>1. /\ snap'.observed = 0 /\ snap'.done = snap.done /\ snap'.outcome = snap.outcome
          /\ snap'.phase # "finished" /\ snap'.result = "failure"
      BY <2>3, <2>4, <2>6 DEF StoreFailure, SnapshotType
    <3>2. ~Genuine'
      BY <3>1 DEF Genuine, TerminalStates
    <3> QED BY <1>t, <2>1, <3>1, <3>2 DEF ClosingPcs
  <2> QED BY <2>2, <2>5, <2>6
<1>2. CASE Crash
  <2>1. pc' = "down" /\ snap' = snap /\ request' = request
    BY <1>2 DEF Crash
  <2>2. Genuine' = Genuine
    BY <2>1 DEF Genuine
  <2> QED BY <1>t, <2>1, <2>2 DEF ClosingPcs
<1>3. CASE Resume
  <2>1. pc = "down" /\ snap' = snap /\ request' = request
    BY <1>3 DEF Resume
  <2>2. Genuine' = Genuine
    BY <2>1 DEF Genuine
  <2>3. CASE AlreadyFinished
    <3>1. pc' = "returned"
      BY <1>3, <2>3 DEF Resume
    <3> QED BY <1>t, <2>1, <2>2, <3>1 DEF ClosingPcs
  <2>4. CASE ~AlreadyFinished
    <3>1. snap.phase # "finished"
      BY <1>t, <2>4 DEF AlreadyFinished, Genuine, TerminalStates
    <3>2. /\ pc' = ResumePc /\ run'.phase = snap.done /\ run'.observed = snap.observed
          /\ run'.outcome = (IF snap.done \in {"action", "observe"} THEN snap.outcome
                                                                  ELSE "none")
      BY <1>3, <2>4 DEF Resume, RestoredRun
    <3>3. CASE snap.done \in {"action", "observe"}
      <4>1. pc' = "finalize"
        BY <3>2, <3>3 DEF ResumePc
      <4> QED BY <1>t, <2>1, <2>2, <3>1, <3>2, <3>3, <4>1 DEF ClosingPcs
    <3>4. CASE snap.done \notin {"action", "observe"}
      <4>1. pc' \in {"prelude", "body"}
        BY <3>2, <3>4 DEF ResumePc
      <4> QED BY <1>t, <2>1, <2>2, <3>1, <3>2, <3>4, <4>1 DEF ClosingPcs
    <3> QED BY <3>3, <3>4
  <2> QED BY <2>3, <2>4
<1> QED
  BY <1>1, <1>2, <1>3

LEMMA CompleteNext == TypeOK /\ ResultInv /\ CompleteInv /\ [Next]_vars => CompleteInv'
<1> SUFFICES ASSUME TypeOK, ResultInv, CompleteInv, [Next]_vars, failures' = 0
             PROVE  SnapshotComplete' /\ MemoryComplete'
  BY DEF CompleteInv
<1>1. ~StepError
  BY DEF StepError, TypeOK
<1>2. failures = 0
  BY <1>1 DEF Next, EngineStep, Start, PreludeAdvance, PreludeCommit, BodyStep,
     BodyAdvance, BodyCommit, BodyReady, BodyRejected, CloseStep, EnterAction,
     BlockAction, DispatchAction, RefuseAction, SkipAction, CommitAction, EnterObserve,
     ObserveBuiltin, ObserveSource, ObserveDone, CommitObserve, EnterFinished,
     PersistFinish, EmitFinalized, FailSession, Crash, Resume, Returned, vars
<1>3. CompleteState
  BY <1>2 DEF CompleteState, CompleteInv
<1>4. CASE UNCHANGED vars
  BY <1>3, <1>4 DEF CompleteState, SnapshotComplete, MemoryComplete, Genuine, vars
<1>5. CASE Returned
  BY <1>4, <1>5 DEF Returned
<1> QED
  BY <1>1, <1>3, <1>4, <1>5, CompletePrelude, CompleteClose, CompleteFailure
     DEF Next, EngineStep

LEMMA CompleteInvariant == Spec => [](TypeOK /\ ResultInv /\ CompleteInv)
BY InitType, NextType, ResultInit, ResultNext, CompleteInit, CompleteNext, PTL DEF Spec

\* However often the process dies, a session none of whose steps failed has its
\* built-in observation and every configured source recorded, once, when it has a
\* result (runObservePhase, finalizeWorkflow).
THEOREM ObservationsAreComplete == Spec => []ObservationsComplete
<1>1. CompleteInv => ObservationsComplete
  BY DEF CompleteInv, SnapshotComplete, ObservationsComplete
<1> QED
  BY <1>1, CompleteInvariant, PTL

\* Without a failed step nothing rewrites a finished session, whatever crashes
\* come between its result and its caller and however often it is resumed.
THEOREM FinishedStands == Spec => FinishedIsFinal
<1>1. TypeOK /\ ResultInv /\ CompleteInv /\ [Next]_vars
        => [failures = 0 /\ snap.phase = "finished" => snap' = snap]_vars
  <2> SUFFICES ASSUME CompleteInv, Next, failures = 0, snap.phase = "finished"
               PROVE  snap' = snap
    OBVIOUS
  <2>1. pc \in {"emit", "down", "returned"}
    BY DEF CompleteInv, SnapshotComplete
  <2> QED
    BY <2>1 DEF Next, EngineStep, Start, PreludeAdvance, PreludeCommit, BodyStep,
       BodyAdvance, BodyCommit, BodyReady, BodyRejected, CloseStep, EnterAction,
       BlockAction, DispatchAction, RefuseAction, SkipAction, CommitAction, EnterObserve,
       ObserveBuiltin, ObserveSource, ObserveDone, CommitObserve, EnterFinished,
       PersistFinish, EmitFinalized, StepError, FailSession, Crash, Resume, Returned, vars
<1> QED
  BY <1>1, CompleteInvariant, PTL DEF Spec, FinishedIsFinal

-----------------------------------------------------------------------------
(* How far an engine is from its end.                                      *)

\* Four numbers, compared from the left.
NatLess == {p \in Nat \X Nat : p[1] < p[2]}
Pairs == Nat \X Nat
Triples == Nat \X Pairs
Measures == Nat \X Triples
LessPairs == LexPairOrdering(NatLess, NatLess, Nat, Nat)
LessTriples == LexPairOrdering(NatLess, LessPairs, Nat, Pairs)
Fewer == LexPairOrdering(NatLess, LessTriples, Nat, Triples)

Measure(a, b, c, d) == <<a, <<b, <<c, d>>>>>>

\* There is no infinite sequence of measures of which each is below the one before:
\* an engine whose every step lowers its measure ends after finitely many steps.
THEOREM FewerIsWellFounded == IsWellFoundedOn(Fewer, Measures)
<1>1. IsWellFoundedOn(NatLess, Nat)
  BY NatLessThanWellFounded DEF NatLess, OpToRel
<1>2. IsWellFoundedOn(LessPairs, Pairs)
  BY <1>1, WFLexPairOrdering DEF LessPairs, Pairs
<1>3. IsWellFoundedOn(LessTriples, Triples)
  BY <1>1, <1>2, WFLexPairOrdering DEF LessTriples, Triples
<1> QED BY <1>1, <1>3, WFLexPairOrdering DEF Fewer, Measures

LEMMA LessIs == ASSUME NEW a \in Nat, NEW b \in Nat, a < b PROVE <<a, b>> \in NatLess
BY DEF NatLess

LEMMA FewerIf ==
  ASSUME NEW a \in Nat, NEW b \in Nat, NEW c \in Nat, NEW d \in Nat,
         NEW e \in Nat, NEW f \in Nat, NEW g \in Nat, NEW h \in Nat,
         \/ e < a
         \/ e = a /\ f < b
         \/ e = a /\ f = b /\ g < c
         \/ e = a /\ f = b /\ g = c /\ h < d
  PROVE  <<Measure(e, f, g, h), Measure(a, b, c, d)>> \in Fewer
<1> DEFINE old3 == <<c, d>>
           new3 == <<g, h>>
           old2 == <<b, old3>>
           new2 == <<f, new3>>
<1>1. old3 \in Pairs /\ new3 \in Pairs /\ old2 \in Triples /\ new2 \in Triples
  BY DEF Pairs, Triples
<1>2. ASSUME g < c \/ (g = c /\ h < d) PROVE <<new3, old3>> \in LessPairs
  BY <1>2, LessIs DEF LessPairs, LexPairOrdering
<1> HIDE DEF old3, new3
<1>3. ASSUME f < b \/ (f = b /\ <<new3, old3>> \in LessPairs)
      PROVE  <<new2, old2>> \in LessTriples
  BY <1>1, <1>3, LessIs DEF LessTriples, LexPairOrdering
<1> HIDE DEF old2, new2
<1>4. ASSUME e < a \/ (e = a /\ <<new2, old2>> \in LessTriples)
      PROVE  << <<e, new2>>, <<a, old2>> >> \in Fewer
  BY <1>1, <1>4, LessIs DEF Fewer, LexPairOrdering
<1>5. << <<e, new2>>, <<a, old2>> >> \in Fewer
  BY <1>2, <1>3, <1>4
<1> QED BY <1>5 DEF Measure, new2, old2, new3, old3

\* The parts of a run in their order, the last one first.
PcRank ==
  [c \in Pcs |->
     CASE c = "idle" -> 15 [] c = "prelude" -> 14 [] c = "body" -> 13
       [] c = "finalize" -> 12 [] c = "gate" -> 11 [] c = "commitAction" -> 10
       [] c = "enterObserve" -> 9 [] c = "observe" -> 8 [] c = "sources" -> 7
       [] c = "commitObserve" -> 6 [] c = "finish" -> 5 [] c = "persist" -> 4
       [] c = "emit" -> 3 [] c = "failing" -> 2 [] c = "down" -> 1 [] OTHER -> 0]

\* What is left to do where the engine stays for several steps: the phases of the
\* prelude, the sources to be asked.
PartLeft ==
  CASE pc = "prelude" -> (CASE run.phase = "created" -> 2 [] run.phase = "ingest" -> 0 [] OTHER -> 1)
    [] pc = "sources" -> IF run.observed <= request.sources
                           THEN request.sources + 1 - run.observed ELSE 0
    [] OTHER -> 0

LEMMA PcRankIs ==
  /\ \A c \in Pcs : PcRank[c] \in Nat
  /\ PcRank["idle"] = 15 /\ PcRank["prelude"] = 14 /\ PcRank["body"] = 13
  /\ PcRank["finalize"] = 12 /\ PcRank["gate"] = 11 /\ PcRank["commitAction"] = 10
  /\ PcRank["enterObserve"] = 9 /\ PcRank["observe"] = 8 /\ PcRank["sources"] = 7
  /\ PcRank["commitObserve"] = 6 /\ PcRank["finish"] = 5 /\ PcRank["persist"] = 4
  /\ PcRank["emit"] = 3 /\ PcRank["failing"] = 2 /\ PcRank["down"] = 1
  /\ PcRank["returned"] = 0
<1>1. /\ {"idle", "prelude", "body", "finalize", "gate", "commitAction", "enterObserve",
          "observe", "sources", "commitObserve", "finish", "persist", "emit", "failing",
          "down", "returned"} = Pcs
  BY DEF Pcs, ClosingPcs
<1>2. \A c \in Pcs : PcRank[c] =
        CASE c = "idle" -> 15 [] c = "prelude" -> 14 [] c = "body" -> 13
          [] c = "finalize" -> 12 [] c = "gate" -> 11 [] c = "commitAction" -> 10
          [] c = "enterObserve" -> 9 [] c = "observe" -> 8 [] c = "sources" -> 7
          [] c = "commitObserve" -> 6 [] c = "finish" -> 5 [] c = "persist" -> 4
          [] c = "emit" -> 3 [] c = "failing" -> 2 [] c = "down" -> 1 [] OTHER -> 0
  BY DEF PcRank
<1> HIDE DEF PcRank
<1>3. \A c \in Pcs : PcRank[c] \in Nat
  BY <1>1, <1>2
<1> QED BY <1>1, <1>2, <1>3

LEMMA PartLeftType == TypeOK => PartLeft \in Nat
<1> SUFFICES ASSUME TypeOK PROVE PartLeft \in Nat
  OBVIOUS
<1>1. run.observed \in Nat /\ request.sources \in Nat
  BY RequestsAssumption DEF TypeOK, RunType, RequestType
<1> QED BY <1>1 DEF PartLeft

\* A step outside the body goes on to a later part or has less left of its own.
LEMMA SessionStepLowers ==
  ASSUME TypeOK,
         Start \/ PreludeAdvance \/ PreludeCommit \/ CloseStep
           \/ StepError \/ FailSession \/ Crash
  PROVE  \/ PcRank[pc'] < PcRank[pc]
         \/ pc' = pc /\ pc # "body" /\ PartLeft' < PartLeft
<1>1. CASE Start \/ PreludeCommit
  BY <1>1, PcRankIs DEF Start, PreludeCommit
<1>2. CASE PreludeAdvance
  <2>1. PICK next \in {"frame", "ingest"} : Advance(next)
    BY <1>2 DEF PreludeAdvance
  <2>2. pc = "prelude" /\ pc' = "prelude" /\ run'.phase = next
    BY <1>2, <2>1 DEF PreludeAdvance, Advance, TypeOK, RunType
  <2>3. run.phase \in Phases /\ next \in Successors[run.phase]
    BY <2>1 DEF Advance, AllowedTransition, TypeOK, RunType
  <2>4. /\ next = "frame" => run.phase = "created"
        /\ next = "ingest" => run.phase \notin {"created", "ingest"}
    BY <2>3 DEF Successors, Closing
  <2> QED BY <2>1, <2>2, <2>4 DEF PartLeft
<1>3. CASE ObserveSource
  <2>1. /\ pc = "sources" /\ pc' = "sources" /\ request' = request
        /\ run.observed <= request.sources /\ run'.observed = run.observed + 1
    BY <1>3 DEF ObserveSource, TypeOK, RunType
  <2>2. run.observed \in Nat /\ request.sources \in Nat
    BY RequestsAssumption DEF TypeOK, RunType, RequestType
  <2> QED BY <2>1, <2>2 DEF PartLeft
<1>4. CASE CloseStep /\ ~ObserveSource
  <2>1. \/ pc = "finalize" /\ pc' = "gate"
        \/ pc = "gate" /\ pc' = "commitAction"
        \/ pc = "commitAction" /\ pc' = "enterObserve"
        \/ pc = "enterObserve" /\ pc' = "observe"
        \/ pc = "observe" /\ pc' \in {"sources", "commitObserve"}
        \/ pc = "sources" /\ pc' = "commitObserve"
        \/ pc = "commitObserve" /\ pc' = "finish"
        \/ pc = "finish" /\ pc' = "persist"
        \/ pc = "persist" /\ pc' = "emit"
        \/ pc = "emit" /\ pc' = "returned"
    BY <1>4 DEF CloseStep, EnterAction, BlockAction, DispatchAction, RefuseAction,
       SkipAction, CommitAction, EnterObserve, ObserveBuiltin, ObserveDone,
       CommitObserve, EnterFinished, PersistFinish, EmitFinalized
  <2> QED BY <2>1, PcRankIs
<1>5. CASE StepError \/ FailSession \/ Crash
  <2>1. \/ pc = "failing" /\ pc' = "down"
        \/ pc \in {"prelude", "body"} \cup ClosingPcs /\ pc' \in {"failing", "down"}
    BY <1>5 DEF StepError, FailSession, Crash, Running, TypeOK, Pcs
  <2> QED BY <2>1, PcRankIs DEF ClosingPcs
<1> QED BY <1>1, <1>2, <1>3, <1>4, <1>5

LEMMA PartLeftNext == TypeOK' => PartLeft' \in Nat
<1> SUFFICES ASSUME TypeOK' PROVE PartLeft' \in Nat
  OBVIOUS
<1>1. run'.observed \in Nat /\ request'.sources \in Nat
  BY RequestsAssumption DEF TypeOK, RunType, RequestType
<1> QED BY <1>1 DEF PartLeft

\* A workflow has three numbers of its own for what is left of its body.
LEMMA MeasuresFall ==
  ASSUME TypeOK, TypeOK',
         NEW b \in Nat, NEW c \in Nat, NEW d \in Nat,
         NEW f \in Nat, NEW g \in Nat, NEW h \in Nat,
         \/ PcRank[pc'] < PcRank[pc]
         \/ pc' = pc /\ pc # "body" /\ PartLeft' < PartLeft
         \/ /\ pc' = pc /\ pc = "body"
            /\ \/ f < b
               \/ f = b /\ g < c
               \/ f = b /\ g = c /\ h < d
  PROVE  << IF pc' = "body" THEN Measure(PcRank[pc'], f, g, h)
                            ELSE Measure(PcRank[pc'], 0, 0, PartLeft'),
            IF pc = "body" THEN Measure(PcRank[pc], b, c, d)
                           ELSE Measure(PcRank[pc], 0, 0, PartLeft) >> \in Fewer
<1>1. /\ PcRank[pc] \in Nat /\ PcRank[pc'] \in Nat
      /\ PartLeft \in Nat /\ PartLeft' \in Nat
  BY PcRankIs, PartLeftType, PartLeftNext DEF TypeOK
<1> QED BY <1>1, FewerIf
=============================================================================
