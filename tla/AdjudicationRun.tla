--------------------------- MODULE AdjudicationRun ---------------------------
(***************************************************************************)
(* The adjudication workflow: startAdjudication and, after a crash or a    *)
(* failure, resumeAdjudication with the chain of after-checkpoint handlers *)
(* it continues in.  The two are different code, with their own guards and *)
(* counters; the model keeps both, told apart by run.fresh.                *)
(*                                                                         *)
(* The module composes with SessionLifecycle: it replaces the abstract     *)
(* body by the adjudication phases and keeps the rest of the session as it *)
(* is, so SessionLifecycle's Spec is what AdjSpec implements.              *)
(***************************************************************************)
EXTENDS SessionLifecycle

CONSTANTS
  MaxRevisionRounds,      \* LoopPolicy
  MaxVerificationRounds,  \* LoopPolicy of a request
  MaxFallbackRounds,      \* FallbackPolicy
  Fallback,               \* FallbackPolicy of a request: target by cause
  AllowNoRecords          \* may a decision come without records?

FallbackCauses ==
  {"insufficient_evidence", "unresolved_conflict", "unresolved_claims",
   "keep_with_caveat"}

FallbackTargets == {"stop", "ingest", "revise"}

ASSUME PolicyAssumption ==
  /\ MaxRevisionRounds \in Nat \ {0}
  /\ MaxVerificationRounds \in [Requests -> Nat \ {0}]
  /\ MaxFallbackRounds \in Nat \ {0}
  /\ Fallback \in [Requests -> [FallbackCauses -> FallbackTargets]]
  /\ AllowNoRecords \in BOOLEAN

ASSUME AdjudicationRequests == \A r \in Requests : r.mode = "adjudication"

VARIABLES
  loop,        \* the workflow's data and loop counters in memory
  ckpt,        \* the same as the snapshot and its checkpoint hold them
  plan,        \* history: what the engine was about to do at its last checkpoint
  cycle,       \* history: verifications committed since the last fallback
  fallbacks    \* history: fallback rounds committed

adjVars == <<vars, loop, ckpt, plan, cycle, fallbacks>>
history == <<plan, cycle, fallbacks>>

\* Mutant: a session without claims skips its report.
PhaseOfUnreported ==
  [propose |-> "propose", noClaims |-> "finished", challenge |-> "challenge",
   verify |-> "verify", revise |-> "revise", adjudicate |-> "adjudicate",
   ingest |-> "ingest", reviseAgain |-> "revise", report |-> "report",
   close |-> "report"]

\* What the workflow does next; the phase of each step is the one it enters.
PhaseOf ==
  [propose |-> "propose", noClaims |-> "report", challenge |-> "challenge",
   verify |-> "verify", revise |-> "revise", adjudicate |-> "adjudicate",
   ingest |-> "ingest", reviseAgain |-> "revise", report |-> "report",
   close |-> "report"]

Steps == DOMAIN PhaseOf

AdjOutcomes == Outcomes("adjudication")

\* The data of a run the control depends on: the claim graph (how far the
\* proposals are in it, the terminal state its verdicts and tickets give,
\* whether a claim is left to revise), what the arbiter's records left open,
\* whether there are any, and the loop counters.
DataType ==
  [claims : {"none", "partial", "all"}, outcome : AdjOutcomes, pending : BOOLEAN,
   leftover : {"none", "unresolved", "caveat"}, records : BOOLEAN,
   material : BOOLEAN, rr : Nat, vr : Nat, fb : Nat]

NoData ==
  [claims |-> "none", outcome |-> "insufficient_evidence", pending |-> FALSE,
   leftover |-> "none", records |-> FALSE, material |-> FALSE,
   rr |-> 0, vr |-> 0, fb |-> 0]

NoLoop == [step |-> "propose", entered |-> FALSE, data |-> NoData]

AdjTypeOK ==
  /\ TypeOK
  /\ loop \in [step : Steps, entered : BOOLEAN, data : DataType]
  /\ ckpt \in DataType
  /\ plan \in Steps
  /\ cycle \in Nat
  /\ fallbacks \in Nat

AdjInit ==
  /\ Init
  /\ loop = NoLoop
  /\ ckpt = NoData
  /\ plan = "propose"
  /\ cycle = 0
  /\ fallbacks = 0

-----------------------------------------------------------------------------
(* decideAdjudicationFallback.                                             *)

FallbackCause(data) ==
  LET inconclusive == data.outcome \in {"insufficient_evidence", "unresolved_conflict"}
  IN CASE inconclusive -> data.outcome
       [] ~inconclusive /\ data.leftover = "unresolved" -> "unresolved_claims"
       [] ~inconclusive /\ data.leftover = "caveat"     -> "keep_with_caveat"
       [] OTHER                                         -> "none"

FallbackTarget(data) ==
  IF data.fb >= MaxFallbackRounds \/ FallbackCause(data) = "none"
    THEN "stop"
    ELSE Fallback[request][FallbackCause(data)]

\* The step after a decision.  The resumed run has no second revision: it goes
\* to the handler of a completed revision, which challenges.
StepAfterDecision(fresh, data) ==
  CASE FallbackTarget(data) = "stop"   -> "report"
    [] FallbackTarget(data) = "ingest" -> "ingest"
    [] FallbackTarget(data) = "revise" -> IF fresh THEN "reviseAgain" ELSE "challenge"

\* The guards after a verification, the same in the fresh and the resumed run.
StepAfterVerify(data) ==
  IF \/ data.vr >= MaxVerificationRounds[request]
     \/ data.rr >= MaxRevisionRounds
     \/ ~data.pending
    THEN "adjudicate"
    ELSE "revise"

StepAfterRevision(data) == IF data.material THEN "challenge" ELSE "adjudicate"

\* afterRevisionCheckpoint restarts the count of verifications; the fresh
\* loop keeps it.
CountersAfterRevision(fresh, data) ==
  IF data.material /\ ~fresh THEN [data EXCEPT !.vr = 0] ELSE data

-----------------------------------------------------------------------------
(* The body of the run.                                                    *)

\* Mutant: a report is always entered directly.
EntryPhaseDirect == PhaseOf[loop.step]

\* Enter the phase of the next step; a report after an ingest or a revision
\* passes through adjudicate first.
EntryPhase ==
  IF loop.step = "report" /\ run.phase \in {"ingest", "revise"}
    THEN "adjudicate"
    ELSE PhaseOf[loop.step]

EnterPhase ==
  /\ pc = "body"
  /\ ~loop.entered
  /\ loop.step # "close"
  /\ Advance(EntryPhase)
  /\ loop' = [loop EXCEPT !.entered = (EntryPhase = PhaseOf[loop.step])]
  /\ ckpt' = [ckpt EXCEPT !.claims = loop.data.claims]
  /\ UNCHANGED <<request, pc, dispatched, lost, crashes, failures, history>>

\* The state machine refuses the phase the run wants to enter.
Rejected ==
  /\ pc = "body"
  /\ ~loop.entered
  /\ loop.step # "close"
  /\ ~AllowedTransition(run.phase, EntryPhase)

RejectPhase ==
  /\ Rejected
  /\ pc' = "failing"
  /\ UNCHANGED <<request, run, snap, dispatched, lost, crashes, failures,
                 loop, ckpt, history>>

\* The work of a phase has been done and its outputs are in memory.
Working(step) == pc = "body" /\ loop.step = step /\ loop.entered

\* saveAdjudicationCheckpoint: the phase is complete with the data stored; an
\* empty list of adjudication records leaves the stored list as it was.  The
\* run goes on with step and the data next.
Checkpoint(stored, step, next) ==
  /\ snap' = [snap EXCEPT !.phase = run.phase, !.done = run.phase,
                !.outcome = IF run.phase = "report" THEN stored.outcome ELSE @]
  /\ ckpt' = [stored EXCEPT !.records = @ \/ ckpt.records]
  /\ loop' = [step |-> step, entered |-> FALSE, data |-> next]
  /\ plan' = step
  /\ UNCHANGED <<request, pc, run, dispatched, lost, crashes, failures>>

\* A proposer's claims enter the graph in memory.
ProposeSome ==
  /\ Working("propose")
  /\ loop.data.claims = "none"
  /\ loop' = [loop EXCEPT !.data.claims = "partial"]
  /\ UNCHANGED <<vars, ckpt, history>>

\* Mutant: the proposals are committed before the last proposer has answered.
CommitProposeEarly ==
  /\ Working("propose")
  /\ LET next == [loop.data EXCEPT !.rr = 0, !.vr = 0, !.fb = 0, !.material = TRUE]
     IN Checkpoint(next, IF next.claims = "none" THEN "noClaims" ELSE "challenge", next)
  /\ UNCHANGED <<cycle, fallbacks>>

\* All proposers have answered or are absent; with no claim at all the session
\* goes to its report.
CommitPropose ==
  /\ Working("propose")
  /\ LET empty == loop.data.claims = "none"
         next == [loop.data EXCEPT !.claims = IF empty THEN "none" ELSE "all",
                                   !.rr = 0, !.vr = 0, !.fb = 0, !.material = TRUE]
     IN Checkpoint(next, IF empty THEN "noClaims" ELSE "challenge", next)
  /\ UNCHANGED <<cycle, fallbacks>>

CommitChallenge ==
  /\ Working("challenge")
  /\ LET next == [loop.data EXCEPT !.material = TRUE]
     IN Checkpoint(next, "verify", next)
  /\ UNCHANGED <<cycle, fallbacks>>

CommitVerify ==
  /\ Working("verify")
  /\ \E pending \in BOOLEAN :
       LET next == [loop.data EXCEPT !.vr = @ + 1, !.pending = pending, !.material = TRUE]
       IN Checkpoint(next, StepAfterVerify(next), next)
  /\ cycle' = cycle + 1
  /\ UNCHANGED fallbacks

CommitRevise ==
  /\ Working("revise")
  /\ \E material \in BOOLEAN :
       LET stored == [loop.data EXCEPT !.rr = @ + 1, !.material = material]
       IN Checkpoint(stored, StepAfterRevision(stored),
                     CountersAfterRevision(run.fresh, stored))
  /\ UNCHANGED <<cycle, fallbacks>>

\* What the arbiter may find.  It has nothing to record when every claim is
\* withdrawn; an arbiter agent may also answer without any decision.
Findings ==
  {data \in [outcome : AdjOutcomes, leftover : {"none", "unresolved", "caveat"},
             records : BOOLEAN] :
     ~data.records => AllowNoRecords /\ data.leftover = "none"}

CommitAdjudicate ==
  /\ Working("adjudicate")
  /\ \E found \in Findings :
       LET next == [loop.data EXCEPT !.outcome = found.outcome,
                      !.leftover = found.leftover, !.records = found.records,
                      !.material = TRUE]
       IN Checkpoint(next, StepAfterDecision(run.fresh, next), next)
  /\ UNCHANGED <<cycle, fallbacks>>

\* A fallback round spends one of MaxFallbackRounds and, when it changed
\* something, starts a new cycle with fresh counters.
Fallen(stored) ==
  /\ Checkpoint(stored, IF stored.material THEN "challenge" ELSE "report",
                IF stored.material THEN [stored EXCEPT !.rr = 0, !.vr = 0] ELSE stored)
  /\ cycle' = 0
  /\ fallbacks' = fallbacks + 1

CommitIngest ==
  /\ Working("ingest")
  /\ \E newEvidence \in BOOLEAN :
       Fallen([loop.data EXCEPT !.vr = 0, !.fb = @ + 1, !.material = newEvidence])

\* A revision may withdraw, downgrade or reopen claims, also one that changes
\* nothing material, so the graph it leaves can give another terminal state than
\* the arbiter's; finalizeWorkflow recomputes it from that graph.
CommitReviseAgain ==
  /\ Working("reviseAgain")
  /\ \E material \in BOOLEAN, outcome \in AdjOutcomes :
       Fallen([loop.data EXCEPT !.rr = MaxRevisionRounds + loop.data.fb + 1, !.vr = 0,
                 !.fb = @ + 1, !.material = material, !.outcome = outcome])

\* From the report on nothing reads the counters; the model keeps them.
CommitReport ==
  /\ Working("report")
  /\ Checkpoint(loop.data, "close", loop.data)
  /\ UNCHANGED <<cycle, fallbacks>>

\* A run resumed at its report stores the report checkpoint once more.
CommitReportAgain ==
  /\ Working("close")
  /\ snap' = [snap EXCEPT !.phase = "report", !.done = "report"]
  /\ loop' = [loop EXCEPT !.entered = FALSE]
  /\ UNCHANGED <<request, pc, run, dispatched, lost, crashes, failures, ckpt, history>>

\* finalizeWorkflow takes over, after a report checkpoint or without claims.
Close ==
  /\ \/ pc = "body" /\ loop.step = "close" /\ ~loop.entered
     \/ Working("noClaims")
  /\ BodyReady
  /\ UNCHANGED <<loop, ckpt, history>>

-----------------------------------------------------------------------------
(* The rest of the session.                                                *)

Outside == UNCHANGED <<loop, ckpt, history>>

AdjPrelude ==
  \/ Start /\ Outside
  \/ PreludeAdvance /\ Outside
  \/ PreludeCommit /\ Outside

AdjClosing == CloseStep /\ Outside

AdjStepError == StepError /\ Outside

AdjCrash == Crash /\ loop' = NoLoop /\ UNCHANGED <<ckpt, history>>

\* failSession stores the claim graph in memory, also that of an unfinished
\* phase, but neither the arbiter's records nor a checkpoint.  A revision or a
\* decision in that graph can withdraw a claim or bring one back.
GraphsInMemory ==
  LET graph == [ckpt EXCEPT !.claims = loop.data.claims]
  IN CASE pc = "failing" /\ loop.entered /\ loop.step \in {"revise", "adjudicate"} ->
            {[graph EXCEPT !.pending = p] : p \in BOOLEAN}
       [] pc = "failing" /\ loop.entered /\ loop.step = "reviseAgain" ->
            {[graph EXCEPT !.outcome = o] : o \in AdjOutcomes}
       [] OTHER -> {graph}

AdjFailSession ==
  /\ FailSession
  /\ IF snap' = snap THEN UNCHANGED ckpt ELSE ckpt' \in GraphsInMemory
  /\ loop' = NoLoop
  /\ UNCHANGED history

\* Mutant: the restored run revises again although nothing had changed.
ResumeRevisionAlways(data) == "challenge"

ResumeRevision(data) == StepAfterRevision(data)

\* resumeAdjudicationDecision asks the arbiter again when no records are stored.
ResumeDecision(data) ==
  IF data.records THEN StepAfterDecision(FALSE, data) ELSE "adjudicate"

\* resumeAdjudication: where each checkpoint continues.
RestoredStep ==
  CASE snap.done = "created" -> "propose"
    [] snap.done = "ingest" ->
         IF ckpt.claims = "none" THEN "propose" ELSE "challenge"
    [] snap.done = "propose" ->
         IF ckpt.claims = "none" THEN "noClaims" ELSE "challenge"
    [] snap.done = "challenge" -> "verify"
    [] snap.done = "verify" -> StepAfterVerify(ckpt)
    [] snap.done = "revise" -> ResumeRevision(ckpt)
    [] snap.done = "adjudicate" -> ResumeDecision(ckpt)
    [] OTHER -> "close"

\* Mutant: the fallback rounds are not restored.
RestoredLoopNoFallbacks ==
  [step |-> RestoredStep, entered |-> (snap.done = "report"), data |-> [ckpt EXCEPT !.fb = 0]]

RestoredLoop ==
  [step |-> RestoredStep, entered |-> (snap.done = "report"),
   data |-> IF snap.done = "revise" THEN CountersAfterRevision(FALSE, ckpt) ELSE ckpt]

AdjResume ==
  /\ Resume
  /\ loop' = IF AlreadyFinished THEN NoLoop ELSE RestoredLoop
  /\ UNCHANGED <<ckpt, history>>

AdjBody ==
  \/ EnterPhase \/ RejectPhase
  \/ ProposeSome \/ CommitPropose
  \/ CommitChallenge \/ CommitVerify \/ CommitRevise
  \/ CommitAdjudicate \/ CommitIngest \/ CommitReviseAgain
  \/ CommitReport \/ CommitReportAgain \/ Close

AdjEngineStep == AdjPrelude \/ AdjBody \/ AdjClosing

AdjNext ==
  \/ AdjEngineStep
  \/ AdjStepError \/ AdjFailSession
  \/ AdjCrash \/ AdjResume
  \/ Returned /\ Outside

AdjSpec == AdjInit /\ [][AdjNext]_adjVars

AdjFairSpec ==
  /\ AdjSpec
  /\ WF_adjVars(AdjEngineStep) /\ WF_adjVars(AdjFailSession) /\ WF_adjVars(AdjResume)
-----------------------------------------------------------------------------
(* Properties.                                                             *)

\* The decisions after which the resumed run is known to part from the fresh
\* one: those that fall back to revise, and those without records.
PartingDecision ==
  /\ snap.done = "adjudicate"
  /\ ~ckpt.records \/ FallbackTarget(ckpt) = "revise"

\* A fallback that changed nothing, after which the fresh run reports; the
\* resumed run takes its checkpoint for one of the loop's.
FruitlessFallback ==
  /\ ckpt.claims # "none" /\ ~ckpt.material
  /\ \/ snap.done = "ingest"
     \/ snap.done = "revise" /\ ckpt.rr > MaxRevisionRounds

\* A resumed engine goes on with the step the engine that wrote the checkpoint
\* was about to take, not with an earlier or a later one; but for the decisions
\* and the fallbacks above, and for sessions with a failure, whose handler stores
\* unfinished proposals.
ResumeContinues ==
  [][pc = "down" /\ pc' = "body" /\ failures = 0 /\ ~PartingDecision /\ ~FruitlessFallback
       => loop'.step = plan]_adjVars

\* The state machine never refuses a transition the workflow attempts.
NeverRejected == ~Rejected

\* It refuses one only to a run resumed at such a decision: whatever the policy,
\* no other order of phases, checkpoints, fallbacks and resumes leads there.
RefusedAfterDecisionOnly == Rejected => ~run.fresh /\ PartingDecision

\* Nothing is challenged, verified, decided or reported on the claims of some
\* of the proposers only: a proposal round a crash interrupts is repeated.
ProposalsComplete == failures = 0 /\ loop.step # "propose" => loop.data.claims # "partial"

\* The fallback rounds committed in the life of a session, over all crashes,
\* failures and resumes, stay within the policy.
FallbackBudget == fallbacks <= MaxFallbackRounds

\* Every session that is resumed often enough gets to phase finished, whatever
\* its agents, its verifier and its arbiter answer and whichever way it falls
\* back, unless it was interrupted at one of the decisions above.
SessionFinishes ==
  [](pc = "down" => ~PartingDecision) => <>(snap.phase = "finished")
=============================================================================
