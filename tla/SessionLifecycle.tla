-------------------------- MODULE SessionLifecycle --------------------------
(***************************************************************************)
(* One consensus session from Start to its persisted result, as the Engine *)
(* drives it in every mode: the prelude (frame, ingest), a workflow body   *)
(* that ends in a report, and the closing sequence all modes share         *)
(* (gated action, observation, final result), with process crashes, failed *)
(* steps, failSession and Resume from the persisted snapshot.              *)
(*                                                                         *)
(* The body is abstract here: it walks legal phases and commits            *)
(* checkpoints until it is in phase "report".  AdjudicationRun refines it. *)
(***************************************************************************)
EXTENDS SessionPhases, Naturals

CONSTANTS
  Requests,     \* the requests a session may be started with
  MaxCrashes,   \* bound: process crashes of one session
  MaxFailures   \* bound: engine steps of one session that return an error

TerminalStates ==
  {"completed", "insufficient_evidence", "unresolved_conflict",
   "requires_human_review", "action_blocked_by_risk"}

\* What determineWorkflowTerminalState can find in the data a body leaves.
Outcomes(mode) ==
  {"completed", "insufficient_evidence", "unresolved_conflict"}
    \cup (IF mode = "adjudication" THEN {"requires_human_review"} ELSE {})

\* What the properties tell apart in a StartRequest: the mode, whether an
\* action is requested and passes the risk gate, how many observe sources it
\* names, and whether a contradiction reopens the case.
RequestType ==
  [mode : WorkflowModes, gate : {"none", "allows", "blocks"},
   sources : Nat, reopens : BOOLEAN]

ASSUME RequestsAssumption == Requests \subseteq RequestType
ASSUME BoundsAssumption == MaxCrashes \in Nat /\ MaxFailures \in Nat

VARIABLES
  request,      \* the request of this session
  pc,           \* where the engine is
  run,          \* the workflowRun and RunResult in memory
  snap,         \* the SessionSnapshot in the store
  dispatched,   \* history: action tasks handed to the actor
  lost,         \* history: actions whose output was lost before a checkpoint
  crashes, failures

vars == <<request, pc, run, snap, dispatched, lost, crashes, failures>>

ActionStates == {"none", "completed", "failed", "blocked"}

RunType ==
  [phase : Phases, fresh : BOOLEAN, outcome : TerminalStates \cup {"none"},
   action : ActionStates, observed : Nat, reopen : BOOLEAN,
   terminal : TerminalStates \cup {"none"}]

SnapshotType ==
  [phase : Phases, done : Phases, outcome : TerminalStates \cup {"none"},
   action : ActionStates, observed : Nat, reopen : BOOLEAN,
   result : TerminalStates \cup {"none", "failure"}]

NoRun ==
  [phase |-> "created", fresh |-> FALSE, outcome |-> "none", action |-> "none",
   observed |-> 0, reopen |-> FALSE, terminal |-> "none"]

NewSnapshot ==
  [phase |-> "created", done |-> "created", outcome |-> "none", action |-> "none",
   observed |-> 0, reopen |-> FALSE, result |-> "none"]

\* Where an engine that has finished its body can be.
ClosingPcs ==
  {"finalize", "gate", "commitAction", "enterObserve", "observe", "sources",
   "commitObserve", "finish", "persist", "emit"}

Pcs == {"idle", "prelude", "body", "failing", "down", "returned"} \cup ClosingPcs

Running == pc \notin {"idle", "down", "returned"}

TypeOK ==
  /\ request \in Requests
  /\ pc \in Pcs
  /\ run \in RunType
  /\ snap \in SnapshotType
  /\ dispatched \in Nat
  /\ lost \in Nat
  /\ crashes \in 0 .. MaxCrashes
  /\ failures \in 0 .. MaxFailures

Init ==
  /\ request \in Requests
  /\ pc = "idle"
  /\ run = NoRun
  /\ snap = NewSnapshot
  /\ dispatched = 0
  /\ lost = 0
  /\ crashes = 0
  /\ failures = 0

-----------------------------------------------------------------------------
(* Engine.Start, the prelude and the workflow body.                        *)

\* advancePhase: the transition in memory and its patch of the snapshot.  A
\* patch that fails differs from a step that fails before it only in memory
\* that failSession overwrites, so the two are one step here.
Advance(next) ==
  /\ AllowedTransition(run.phase, next)
  /\ run' = [run EXCEPT !.phase = next]
  /\ snap' = [snap EXCEPT !.phase = next]

\* A workflow checkpoint: the phase is complete and what the run holds for the
\* closing sequence is stored with it.
SaveWorkflowCheckpoint(completed) ==
  snap' = [snap EXCEPT !.phase = completed, !.done = completed,
                       !.outcome = run.outcome, !.action = run.action,
                       !.observed = run.observed, !.reopen = run.reopen]

Start ==
  /\ pc = "idle"
  /\ pc' = "prelude"
  /\ run' = [NoRun EXCEPT !.fresh = TRUE]
  /\ UNCHANGED <<request, snap, dispatched, lost, crashes, failures>>

\* created -> frame -> ingest.
PreludeAdvance ==
  /\ pc = "prelude"
  /\ \E next \in {"frame", "ingest"} : Advance(next)
  /\ UNCHANGED <<request, pc, dispatched, lost, crashes, failures>>

\* The ingest checkpoint ends the prelude.
PreludeCommit ==
  /\ pc = "prelude"
  /\ run.phase = "ingest"
  /\ snap' = [snap EXCEPT !.phase = "ingest", !.done = "ingest"]
  /\ pc' = "body"
  /\ UNCHANGED <<request, run, dispatched, lost, crashes, failures>>

BodyAdvance ==
  /\ pc = "body"
  /\ \E next \in BodyPhases(request.mode) : Advance(next)
  /\ UNCHANGED <<request, pc, dispatched, lost, crashes, failures>>

\* A checkpoint of the phase the body is in.  The first report checkpoint fixes
\* the data the terminal state is computed from.
BodyCommit ==
  /\ pc = "body"
  /\ \E outcome \in Outcomes(request.mode) :
       snap' = [snap EXCEPT !.phase = run.phase, !.done = run.phase,
                  !.outcome = IF run.phase = "report" /\ snap.done # "report"
                                THEN outcome ELSE @]
  /\ UNCHANGED <<request, pc, run, dispatched, lost, crashes, failures>>

\* The body hands its result to finalizeWorkflow.  Adjudication without any
\* claim does so from phase report with no report checkpoint.
BodyReady ==
  /\ pc = "body"
  /\ run.phase = "report"
  /\ \/ /\ snap.done = "report"
        /\ run' = [run EXCEPT !.outcome = snap.outcome]
     \/ /\ snap.done # "report"
        /\ request.mode = "adjudication"
        /\ run' = [run EXCEPT !.outcome = "insufficient_evidence"]
  /\ pc' = "finalize"
  /\ UNCHANGED <<request, snap, dispatched, lost, crashes, failures>>

\* The body attempts a transition the state machine refuses.
BodyRejected ==
  /\ pc = "body"
  /\ run.phase # "report"
  /\ pc' = "failing"
  /\ UNCHANGED <<request, run, snap, dispatched, lost, crashes, failures>>

-----------------------------------------------------------------------------
(* finalizeWorkflow: action, observation, result.                          *)

NeedsAction == request.gate # "none" \/ run.action # "none"

\* determineWorkflowTerminalState.
TerminalOf(action, outcome) ==
  IF action = "blocked" THEN "action_blocked_by_risk" ELSE outcome

EnterAction ==
  /\ pc = "finalize"
  /\ IF NeedsAction /\ run.phase \notin {"action", "observe"}
       THEN Advance("action")
       ELSE UNCHANGED <<run, snap>>
  /\ pc' = "gate"
  /\ UNCHANGED <<request, dispatched, lost, crashes, failures>>

\* Mutant: an output restored from the checkpoint does not stop the gate.
ActionDueAlways == request.gate # "none" /\ run.phase # "observe"

\* gatedAction produces an output when one is requested and none is restored.
ActionDue ==
  request.gate # "none" /\ run.action = "none" /\ run.phase # "observe"

\* Mutant: the terminal state is not recomputed after the gate.
SetActionStale(action) ==
  run' = [run EXCEPT !.action = action, !.terminal = run.outcome]

SetAction(action) ==
  run' = [run EXCEPT !.action = action,
                     !.terminal = TerminalOf(action, run.outcome)]

BlockAction ==
  /\ pc = "gate"
  /\ ActionDue
  /\ request.gate = "blocks"
  /\ SetAction("blocked")
  /\ pc' = "commitAction"
  /\ UNCHANGED <<request, snap, dispatched, lost, crashes, failures>>

DispatchAction ==
  /\ pc = "gate"
  /\ ActionDue
  /\ request.gate = "allows"
  /\ dispatched' = dispatched + 1
  /\ \E status \in {"completed", "failed"} : SetAction(status)
  /\ pc' = "commitAction"
  /\ UNCHANGED <<request, snap, lost, crashes, failures>>

\* No actor is configured, or the global deadline has passed.
RefuseAction ==
  /\ pc = "gate"
  /\ ActionDue
  /\ request.gate = "allows"
  /\ SetAction("failed")
  /\ pc' = "commitAction"
  /\ UNCHANGED <<request, snap, dispatched, lost, crashes, failures>>

SkipAction ==
  /\ pc = "gate"
  /\ ~ActionDue
  /\ SetAction(run.action)
  /\ pc' = "commitAction"
  /\ UNCHANGED <<request, snap, dispatched, lost, crashes, failures>>

CommitAction ==
  /\ pc = "commitAction"
  /\ IF run.phase = "action"
       THEN SaveWorkflowCheckpoint("action")
       ELSE UNCHANGED snap
  /\ pc' = "enterObserve"
  /\ UNCHANGED <<request, run, dispatched, lost, crashes, failures>>

EnterObserve ==
  /\ pc = "enterObserve"
  /\ IF run.phase # "observe" THEN Advance("observe") ELSE UNCHANGED <<run, snap>>
  /\ pc' = "observe"
  /\ UNCHANGED <<request, dispatched, lost, crashes, failures>>

\* runObservePhase starts with the built-in observation; it is skipped as a
\* whole when the run holds any observation already.
ObserveBuiltin ==
  /\ pc = "observe"
  /\ IF run.observed = 0
       THEN run' = [run EXCEPT !.observed = 1] /\ pc' = "sources"
       ELSE UNCHANGED run /\ pc' = "commitObserve"
  /\ UNCHANGED <<request, snap, dispatched, lost, crashes, failures>>

\* One external observe source.
ObserveSource ==
  /\ pc = "sources"
  /\ run.observed <= request.sources
  /\ \E contradicted \in BOOLEAN :
       run' = IF contradicted /\ request.reopens
                THEN [run EXCEPT !.observed = @ + 1, !.reopen = TRUE,
                                 !.terminal = "requires_human_review"]
                ELSE [run EXCEPT !.observed = @ + 1]
  /\ UNCHANGED <<request, pc, snap, dispatched, lost, crashes, failures>>

\* Mutant: the last source is left out.
ObserveDoneEarly ==
  /\ pc = "sources"
  /\ run.observed >= request.sources
  /\ pc' = "commitObserve"
  /\ UNCHANGED <<request, run, snap, dispatched, lost, crashes, failures>>

ObserveDone ==
  /\ pc = "sources"
  /\ run.observed > request.sources
  /\ pc' = "commitObserve"
  /\ UNCHANGED <<request, run, snap, dispatched, lost, crashes, failures>>

CommitObserve ==
  /\ pc = "commitObserve"
  /\ SaveWorkflowCheckpoint("observe")
  /\ pc' = "finish"
  /\ UNCHANGED <<request, run, dispatched, lost, crashes, failures>>

\* finishSession: the transition in memory ...
EnterFinished ==
  /\ pc = "finish"
  /\ AllowedTransition(run.phase, "finished")
  /\ run' = [run EXCEPT !.phase = "finished"]
  /\ pc' = "persist"
  /\ UNCHANGED <<request, snap, dispatched, lost, crashes, failures>>

\* ... the patch that stores the result ...
PersistFinish ==
  /\ pc = "persist"
  /\ snap' = [snap EXCEPT !.phase = "finished", !.result = run.terminal]
  /\ pc' = "emit"
  /\ UNCHANGED <<request, run, dispatched, lost, crashes, failures>>

\* ... and the event, after which the caller has its result.
EmitFinalized ==
  /\ pc = "emit"
  /\ pc' = "returned"
  /\ run' = NoRun
  /\ UNCHANGED <<request, snap, dispatched, lost, crashes, failures>>

-----------------------------------------------------------------------------
(* Errors, crashes and Resume.                                             *)

\* A store, ledger, observer or task error ends the step.  beginWorkflow
\* returns its errors without recording a failure.
StepError ==
  /\ pc \in {"prelude", "body"} \cup (ClosingPcs \ {"finish"})
  /\ failures < MaxFailures
  /\ failures' = failures + 1
  /\ IF pc = "prelude" /\ run.fresh
       THEN pc' = "down" /\ run' = NoRun
       ELSE pc' = "failing" /\ UNCHANGED run
  /\ UNCHANGED <<request, snap, dispatched, lost, crashes>>

\* failSession ignores a refused transition to failed, so a session already
\* finished in memory stays finished.
FailurePhase ==
  IF AllowedTransition(run.phase, "failed") THEN "failed" ELSE run.phase

\* An action output that is in memory only does not survive the run.
LoseOutput ==
  lost' = IF run.action # "none" /\ snap.action = "none" THEN lost + 1 ELSE lost

\* Mutant: the status is stored where the result belongs.
StoreFailureStatus(base) == [base EXCEPT !.phase = FailurePhase, !.result = FailurePhase]

StoreFailure(base) == [base EXCEPT !.phase = FailurePhase, !.result = "failure"]

\* free_debate and delphi patch the whole run state before failSession.
PartialState(base) ==
  [base EXCEPT !.observed = run.observed, !.reopen = run.reopen]

\* The deferred failure handler.  Either patch may itself fail.
FailSession ==
  /\ pc = "failing"
  /\ \E kept \in {snap} \cup
                 (IF request.mode = "adjudication" THEN {} ELSE {PartialState(snap)}) :
       snap' \in {kept, StoreFailure(kept)}
  /\ pc' = "down"
  /\ run' = NoRun
  /\ LoseOutput
  /\ UNCHANGED <<request, dispatched, crashes, failures>>

\* The process dies: what is in memory is gone.
Crash ==
  /\ Running
  /\ crashes < MaxCrashes
  /\ crashes' = crashes + 1
  /\ pc' = "down"
  /\ run' = NoRun
  /\ LoseOutput
  /\ UNCHANGED <<request, snap, dispatched, failures>>

\* restoreAdjudicationRun and restoreModeRun: the run continues from the last
\* completed checkpoint, whatever phase the snapshot is in.
RestoredRun ==
  [phase |-> snap.done, fresh |-> FALSE,
   outcome |-> IF snap.done \in {"action", "observe"} THEN snap.outcome ELSE "none",
   action |-> snap.action, observed |-> snap.observed, reopen |-> snap.reopen,
   terminal |-> "none"]

ResumePc ==
  CASE snap.done = "created"               -> "prelude"
    [] snap.done \in {"action", "observe"} -> "finalize"
    [] OTHER                               -> "body"

\* Mutants: any stored result counts; a finished session is run again.
AlreadyFinishedOnResult == snap.result # "none"
NeverFinished == FALSE

\* Engine.Resume: a finished session with a result returns it as stored.
AlreadyFinished == snap.phase = "finished" /\ snap.result # "none"

Resume ==
  /\ pc = "down"
  /\ IF AlreadyFinished
       THEN pc' = "returned" /\ run' = NoRun
       ELSE pc' = ResumePc /\ run' = RestoredRun
  /\ UNCHANGED <<request, snap, dispatched, lost, crashes, failures>>

Returned == pc = "returned" /\ UNCHANGED vars

-----------------------------------------------------------------------------
CloseStep ==
  \/ EnterAction \/ BlockAction \/ DispatchAction \/ RefuseAction \/ SkipAction
  \/ CommitAction \/ EnterObserve \/ ObserveBuiltin \/ ObserveSource \/ ObserveDone
  \/ CommitObserve \/ EnterFinished \/ PersistFinish \/ EmitFinalized

BodyStep == BodyAdvance \/ BodyCommit \/ BodyReady \/ BodyRejected

EngineStep ==
  \/ Start \/ PreludeAdvance \/ PreludeCommit
  \/ BodyStep
  \/ CloseStep

Next ==
  \/ EngineStep
  \/ StepError \/ FailSession
  \/ Crash \/ Resume
  \/ Returned

Spec == Init /\ [][Next]_vars

\* A live engine keeps executing, and somebody resumes a session that stopped.
FairSpec ==
  /\ Spec
  /\ WF_vars(EngineStep) /\ WF_vars(FailSession) /\ WF_vars(Resume)

-----------------------------------------------------------------------------
(* Properties.                                                             *)

\* An action output in the snapshot ends the dispatching of the action: no
\* crash, failure or resume afterwards hands the task to the actor again.
ActionCommittedOnce == [][snap.action # "none" => dispatched' = dispatched]_vars

\* The action is dispatched once, plus once for every output a crash or a
\* failure destroyed before the action checkpoint; crashes and failures at any
\* other moment cost no further dispatch.
ActionAccounted == dispatched <= 1 + lost

Genuine == snap.result \in TerminalStates

\* A result says what the stored action and workflow data say, unless an
\* observation reopened the case; in particular an action the risk gate
\* blocked is still reported as blocked after any number of resumes.
ResultJustified ==
  Genuine =>
    \/ snap.result = TerminalOf(snap.action, snap.outcome)
    \/ snap.reopen /\ snap.result = "requires_human_review"

\* A session does not get its result before the built-in observation and every
\* configured observe source have been recorded.  A failed step may leave a part
\* of them stored (PartialState), so this is claimed of sessions without one.
ObservationsComplete ==
  failures = 0 /\ Genuine => snap.observed = 1 + request.sources

\* Once the snapshot says finished nothing rewrites it: a resume of a session
\* that crashed before its caller had the result neither moves it back to an
\* earlier phase nor computes the result again.  The one exception is a failure
\* after the transition to finished, whose record StoreFailure leaves.
FinishedIsFinal ==
  [][failures = 0 /\ snap.phase = "finished" => snap' = snap]_vars
=============================================================================
