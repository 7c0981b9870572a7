------------------------- MODULE FreeDebateRun_proofs -------------------------
(***************************************************************************)
(* What holds of every free debate, whatever the participants, the texts,  *)
(* the policies and however many rounds, crashes and failures: that it     *)
(* implements the session of SessionLifecycle (and so inherits what is     *)
(* proved there), that what has been committed is not asked again, that    *)
(* stored votes are full ballots on the active claims, that the merges of  *)
(* claims lead from each claim to one that is active, and that no debate   *)
(* goes round forever.                                                     *)
(***************************************************************************)
EXTENDS FreeDebateRun, SessionLifecycle_proofs, SequenceTheorems, FiniteSetTheorems, WellFoundedInduction

Fields == {"claims", "rounds", "votes", "absent"}

Loops == [step : Steps, turn : Nat, round : Nat, quiet : BOOLEAN, budget : Int]

\* What the workflow's variables are made of, as far as the proofs read them.
Shapes ==
  /\ loop \in Loops
  /\ DOMAIN mem = Fields /\ mem.rounds \in Seq(Nat)
  /\ DOMAIN ckpt = {"step", "round", "data"} /\ ckpt.step \in DOMAIN Rank
  /\ ckpt.step = "round_complete" => ckpt.round \in Nat
  /\ DOMAIN ckpt.data = Fields /\ ckpt.data.rounds \in Seq(Nat)

\* A committed report is only closed.
ReportClosed ==
  /\ snap.done = "report" => ckpt.step = "report_complete"
  /\ pc = "body" /\ snap.done = "report" => loop.step = "close"

DebateInv == TypeOK /\ Shapes /\ ReportClosed

-----------------------------------------------------------------------------
(* A debate is a session.                                                  *)

LEMMA StepNames ==
  /\ Steps = {"initial", "open", "debate", "rounds", "synthesize", "amend",
              "synthesized", "ballot", "report", "close"}
  /\ PhaseOf["initial"] = "initial" /\ PhaseOf["open"] = "debate"
  /\ PhaseOf["debate"] = "debate" /\ PhaseOf["rounds"] = "debate"
  /\ PhaseOf["synthesize"] = "debate" /\ PhaseOf["amend"] = "debate"
  /\ PhaseOf["synthesized"] = "debate" /\ PhaseOf["ballot"] = "final_vote"
  /\ PhaseOf["report"] = "report" /\ PhaseOf["close"] = "report"
BY DEF Steps, PhaseOf

LEMMA RankNames ==
  /\ DOMAIN Rank = {"none", "initial_complete", "round_complete", "rounds_complete",
                    "synthesis_complete", "vote_complete", "report_complete"}
  /\ Rank["none"] = 0 /\ Rank["initial_complete"] = 1 /\ Rank["round_complete"] = 2
  /\ Rank["rounds_complete"] = 3 /\ Rank["synthesis_complete"] = 4
  /\ Rank["vote_complete"] = 5 /\ Rank["report_complete"] = 6
BY DEF Rank

LEMMA StepPhases == \A step \in Steps : PhaseOf[step] \in DebatePhases
BY StepNames DEF DebatePhases

LEMMA Mode ==
  ASSUME TypeOK
  PROVE  /\ request.mode = "free_debate" /\ BodyPhases(request.mode) = DebatePhases
         /\ \A active, votes, panel : DebateTerminal(active, votes, panel) \in Outcomes(request.mode)
<1>1. request.mode = "free_debate"
  BY DebateRequests DEF TypeOK
<1>2. BodyPhases(request.mode) = DebatePhases
  BY <1>1 DEF BodyPhases
<1>3. \A active, votes, panel : DebateTerminal(active, votes, panel) \in Outcomes(request.mode)
  BY <1>1 DEF DebateTerminal, Outcomes
<1> QED BY <1>1, <1>2, <1>3

\* A checkpoint of the debate is one of the abstract body.
LEMMA SaveStep ==
  ASSUME DebateInv, NEW at, Working(at), at # "close", NEW step \in DOMAIN Rank, NEW round,
         step = "round_complete" => round \in Nat, NEW data, Save(step, round, data),
         DOMAIN data = Fields, data.rounds \in Seq(Nat),
         at = "report" <=> step = "report_complete", loop'.step = "close" \/ at # "report",
         loop' \in Loops
  PROVE  /\ BodyCommit /\ DebateInv'
         /\ mem' = data /\ ckpt' = [step |-> step, round |-> round, data |-> data]
         /\ pc' = "body" /\ run' = run
<1>1. /\ pc = "body" /\ loop.step = at /\ at \in Steps /\ run.phase = PhaseOf[at]
      /\ snap.done # "report"
  BY DEF Working, DebateInv, Shapes, ReportClosed, Loops
<1>2. BodyCommit
  BY <1>1, Mode DEF BodyCommit, Save, DebateInv
<1>3. TypeOK'
  BY <1>2, BodyType DEF BodyStep, DebateInv
<1>4. /\ mem' = data /\ ckpt' = [step |-> step, round |-> round, data |-> data]
      /\ pc' = "body" /\ run' = run /\ snap'.done = PhaseOf[at]
  BY <1>1 DEF Save, DebateInv, TypeOK, SnapshotType
<1>5. Shapes'
  BY <1>4 DEF Shapes
<1>6. ReportClosed'
  BY <1>1, <1>4, StepNames DEF ReportClosed
<1> QED BY <1>2, <1>3, <1>4, <1>5, <1>6 DEF DebateInv

\* What leaves the session and the checkpoint alone leaves what is known of them.
LEMMA MemoryStep ==
  ASSUME DebateInv, InMemory, NEW at, Working(at), at # "close",
         DOMAIN mem' = Fields, mem'.rounds \in Seq(Nat),
         loop' \in Loops
  PROVE  UNCHANGED vars /\ DebateInv'
<1>1. UNCHANGED vars /\ ckpt' = ckpt /\ pc = "body" /\ loop.step = at
  BY DEF InMemory, Working
<1>2. TypeOK' /\ snap' = snap
  BY <1>1 DEF DebateInv, TypeOK, vars
<1>3. Shapes'
  BY <1>1 DEF DebateInv, Shapes
<1>4. ReportClosed'
  BY <1>1, <1>2 DEF DebateInv, ReportClosed
<1> QED BY <1>1, <1>2, <1>3, <1>4 DEF DebateInv

\* The rounds recorded by the steps that touch only claims, votes and absences.
LEMMA DataKept ==
  ASSUME DebateInv
  PROVE  /\ \A x : /\ DOMAIN [mem EXCEPT !.claims = x] = Fields
                   /\ [mem EXCEPT !.claims = x].rounds = mem.rounds
                   /\ [mem EXCEPT !.claims = x].votes = mem.votes
                   /\ DOMAIN [mem EXCEPT !.votes = x] = Fields
                   /\ [mem EXCEPT !.votes = x].rounds = mem.rounds
                   /\ DOMAIN [mem EXCEPT !.absent = x] = Fields
                   /\ [mem EXCEPT !.absent = x].rounds = mem.rounds
                   /\ [mem EXCEPT !.absent = x].votes = mem.votes
         /\ \A x, y : /\ DOMAIN [mem EXCEPT !.claims = x, !.rounds = y] = Fields
                      /\ [mem EXCEPT !.claims = x, !.rounds = y].rounds = y
                      /\ [mem EXCEPT !.claims = x, !.rounds = y].votes = mem.votes
         /\ \A y : /\ DOMAIN [mem EXCEPT !.rounds = y] = Fields
                   /\ [mem EXCEPT !.rounds = y].rounds = y
                   /\ [mem EXCEPT !.rounds = y].votes = mem.votes
         /\ mem.rounds \in Seq(Nat)
BY DEF DebateInv, Shapes, Fields

\* The steps of the loop.
LEMMA LoopKept ==
  ASSUME DebateInv
  PROVE  /\ loop \in Loops
         /\ \A step \in Steps :
              /\ [loop EXCEPT !.step = step, !.turn = 1] \in Loops
              /\ [loop EXCEPT !.step = step, !.round = @ + 1] \in Loops
              /\ \A b \in Int :
                   [loop EXCEPT !.step = step, !.turn = 1, !.quiet = TRUE, !.budget = b] \in Loops
         /\ [loop EXCEPT !.turn = @ + 1] \in Loops
         /\ \A q \in BOOLEAN : [loop EXCEPT !.turn = @ + 1, !.quiet = q] \in Loops
<1>1. loop \in Loops
  BY DEF DebateInv, Shapes
<1>2. loop.turn + 1 \in Nat /\ loop.round + 1 \in Nat
  BY <1>1 DEF Loops
<1>3. ASSUME NEW step \in Steps PROVE [loop EXCEPT !.step = step, !.turn = 1] \in Loops
  BY <1>1 DEF Loops
<1>4. ASSUME NEW step \in Steps PROVE [loop EXCEPT !.step = step, !.round = @ + 1] \in Loops
  BY <1>1, <1>2 DEF Loops
<1>5. ASSUME NEW step \in Steps, NEW b \in Int
      PROVE [loop EXCEPT !.step = step, !.turn = 1, !.quiet = TRUE, !.budget = b] \in Loops
  BY <1>1 DEF Loops
<1>6. [loop EXCEPT !.turn = @ + 1] \in Loops
  BY <1>1, <1>2 DEF Loops
<1>7. ASSUME NEW q \in BOOLEAN PROVE [loop EXCEPT !.turn = @ + 1, !.quiet = q] \in Loops
  BY <1>1, <1>2 DEF Loops
<1> QED BY <1>1, <1>3, <1>4, <1>5, <1>6, <1>7

\* The checkpoints.
LEMMA DebateCommits ==
  DebateInv /\ (CommitInitial \/ CommitRound \/ CommitRounds \/ CommitSynthesis
               \/ CommitVote \/ CommitReport)
    => BodyCommit /\ DebateInv'
<1> SUFFICES ASSUME DebateInv,
                    CommitInitial \/ CommitRound \/ CommitRounds \/ CommitSynthesis
                      \/ CommitVote \/ CommitReport
             PROVE  BodyCommit /\ DebateInv'
  OBVIOUS
<1>0. loop.round \in Nat /\ DOMAIN mem = Fields /\ mem.rounds \in Seq(Nat)
  BY DEF DebateInv, Shapes, Loops
<1>1. CASE CommitInitial
  <2> DEFINE next == IF mem.claims = <<>> THEN "report" ELSE "open"
             data == [mem EXCEPT !.rounds = Append(@, 0)]
  <2>1. DOMAIN data = Fields /\ data.rounds \in Seq(Nat)
    BY <1>0, DataKept
  <2>2. /\ Working("initial") /\ Save("initial_complete", 0, data)
        /\ loop' = [loop EXCEPT !.step = next, !.turn = 1] /\ next \in Steps
    BY <1>1, StepNames DEF CommitInitial, Go
  <2> HIDE DEF data, next
  <2>3. loop' \in Loops
    BY <2>2, LoopKept
  <2> QED
    BY <2>1, <2>2, <2>3, SaveStep, RankNames
<1>2. CASE CommitRound
  <2> DEFINE last == loop.round = MaxRounds \/ (loop.round >= MinRounds /\ loop.quiet)
             step == IF last THEN "rounds_complete" ELSE "round_complete"
             next == IF last THEN "rounds" ELSE "open"
  <2>1. PICK claims :
          Save(step, loop.round, [mem EXCEPT !.claims = claims, !.rounds = Append(@, loop.round)])
    BY <1>2 DEF CommitRound
  <2> DEFINE data == [mem EXCEPT !.claims = claims, !.rounds = Append(@, loop.round)]
  <2>2. DOMAIN data = Fields /\ data.rounds \in Seq(Nat)
    BY <1>0, DataKept
  <2>3. /\ Working("debate") /\ Save(step, loop.round, data) /\ step \in DOMAIN Rank
        /\ loop' = [loop EXCEPT !.step = next, !.round = @ + 1] /\ next \in Steps
        /\ step # "report_complete"
    BY <1>2, <2>1, StepNames, RankNames DEF CommitRound
  <2> HIDE DEF data, next, step
  <2>4. loop' \in Loops
    BY <2>3, LoopKept
  <2> QED
    BY <1>0, <2>2, <2>3, <2>4, SaveStep
<1>3. CASE CommitRounds
  BY <1>0, <1>3, SaveStep, LoopKept, StepNames, RankNames DEF CommitRounds, Go
<1>4. CASE CommitSynthesis
  BY <1>0, <1>4, SaveStep, LoopKept, StepNames, RankNames DEF CommitSynthesis, Go
<1>5. CASE CommitVote
  BY <1>0, <1>5, SaveStep, LoopKept, StepNames, RankNames DEF CommitVote, Go
<1>6. CASE CommitReport
  <2>1. loop'.step = "close"
    BY <1>6 DEF CommitReport, Go, DebateInv, Shapes
  <2> QED
    BY <1>0, <1>6, <2>1, SaveStep, LoopKept, StepNames, RankNames DEF CommitReport, Go
<1> QED BY <1>1, <1>2, <1>3, <1>4, <1>5, <1>6

\* What is done in memory.
LEMMA DebateWork ==
  DebateInv /\ (InitialOutput \/ OpenRound \/ DeadlineHit \/ RoundOutput \/ RoundAbsent
               \/ Synthesize \/ Amend \/ VoteAbsent \/ CastBallot)
    => UNCHANGED vars /\ DebateInv'
<1> SUFFICES ASSUME DebateInv,
                    InitialOutput \/ OpenRound \/ DeadlineHit \/ RoundOutput \/ RoundAbsent
                      \/ Synthesize \/ Amend \/ VoteAbsent \/ CastBallot
             PROVE  UNCHANGED vars /\ DebateInv'
  OBVIOUS
<1>0. DOMAIN mem = Fields /\ mem.rounds \in Seq(Nat)
  BY DEF DebateInv, Shapes
<1>1. CASE InitialOutput
  <2>1. PICK claims : mem' = [mem EXCEPT !.claims = claims]
    BY <1>1 DEF InitialOutput
  <2>2. Working("initial") /\ InMemory /\ loop' \in Loops
    BY <1>1, LoopKept DEF InitialOutput
  <2> QED
    BY <1>0, <2>1, <2>2, MemoryStep, DataKept, StepNames
<1>2. CASE OpenRound
  <2> DEFINE b == IF MaxActiveClaims > 0
                       /\ Cardinality(ActiveIn(mem.claims)) >= MaxActiveClaims
                    THEN -1 ELSE MaxNewClaims
  <2>1. b \in Int
    BY DebateAssumption
  <2>2. /\ Working("open") /\ InMemory /\ mem' = mem
        /\ loop' = [loop EXCEPT !.step = "debate", !.turn = 1, !.quiet = TRUE, !.budget = b]
    BY <1>2 DEF OpenRound
  <2> HIDE DEF b
  <2>3. loop' \in Loops
    BY <2>1, <2>2, LoopKept, StepNames
  <2> QED
    BY <1>0, <2>2, <2>3, MemoryStep, StepNames
<1>3. CASE DeadlineHit
  BY <1>0, <1>3, MemoryStep, LoopKept, StepNames DEF DeadlineHit, Go
<1>4. CASE RoundOutput
  <2>1. /\ \E claims : mem' = [mem EXCEPT !.claims = claims]
        /\ \E quiet : /\ loop' = [loop EXCEPT !.turn = @ + 1, !.quiet = quiet]
                       /\ quiet \in BOOLEAN
    <3> DEFINE agent == Participants[loop.turn]
               Kept(drafts) == Truncated(drafts, loop.budget)
               Added(drafts) == AddDrafts(mem.claims, Kept(drafts), agent)
    <3>1. PICK drafts, judged :
            /\ mem' = [mem EXCEPT !.claims = IF judged = <<>> THEN Added(drafts)
                              ELSE ApplyJudgement(Added(drafts), judged[1], agent)]
            /\ loop' = [loop EXCEPT !.turn = @ + 1,
                          !.quiet = @ /\ Kept(drafts) = <<>>
                                      /\ (judged # <<>> => judged[1].verdict = "agree")]
      BY <1>4 DEF RoundOutput
    <3> DEFINE quiet == loop.quiet /\ Kept(drafts) = <<>>
                          /\ (judged # <<>> => judged[1].verdict = "agree")
    <3>2. loop' = [loop EXCEPT !.turn = @ + 1, !.quiet = quiet]
      BY <3>1
    <3>3. quiet \in BOOLEAN
      OBVIOUS
    <3> HIDE DEF quiet
    <3> QED BY <3>1, <3>2, <3>3
  <2>2. Working("debate") /\ InMemory /\ loop' \in Loops
    BY <1>4, <2>1, LoopKept DEF RoundOutput
  <2> QED
    BY <1>0, <2>1, <2>2, MemoryStep, DataKept, StepNames
<1>5. CASE RoundAbsent
  BY <1>0, <1>5, MemoryStep, LoopKept, StepNames DEF RoundAbsent
<1>6. CASE Synthesize
  <2>1. \E claims : mem' = [mem EXCEPT !.claims = claims]
    BY <1>6 DEF Synthesize
  <2>2. \E step \in Steps : loop' = [loop EXCEPT !.step = step, !.turn = 1]
    BY <1>6, StepNames DEF Synthesize, Go
  <2>3. Working("synthesize") /\ InMemory /\ loop' \in Loops
    BY <1>6, <2>2, LoopKept DEF Synthesize
  <2> QED
    BY <1>0, <2>1, <2>3, MemoryStep, DataKept, StepNames
<1>7. CASE Amend
  <2> DEFINE rounds == Append(mem.rounds, Len(mem.rounds) + 1)
  <2>1. rounds \in Seq(Nat)
    BY <1>0
  <2>2. \/ mem' = [mem EXCEPT !.rounds = rounds]
        \/ \E text \in Texts :
             mem' = [mem EXCEPT !.rounds = rounds, !.claims[Len(mem.claims)].text = text]
    BY <1>7 DEF Amend
  <2>3. DOMAIN mem' = Fields /\ mem'.rounds = rounds
    BY <1>0, <2>2 DEF Fields
  <2>4. \/ loop' = [loop EXCEPT !.turn = @ + 1]
        \/ loop' = [loop EXCEPT !.step = "synthesized", !.turn = 1]
    BY <1>7 DEF Amend, Go
  <2>5. Working("amend") /\ InMemory
    BY <1>7 DEF Amend
  <2> HIDE DEF rounds
  <2> QED
    BY <2>1, <2>3, <2>4, <2>5, MemoryStep, LoopKept, StepNames
<1>8. CASE VoteAbsent
  BY <1>0, <1>8, MemoryStep, LoopKept, DataKept, StepNames DEF VoteAbsent
<1>9. CASE CastBallot
  <2>1. \E votes : mem' = [mem EXCEPT !.votes = votes]
    BY <1>9 DEF CastBallot
  <2>2. Working("ballot") /\ InMemory /\ loop' \in Loops
    BY <1>9, LoopKept DEF CastBallot
  <2> QED
    BY <1>0, <2>1, <2>2, MemoryStep, DataKept, StepNames
<1> QED BY <1>1, <1>2, <1>3, <1>4, <1>5, <1>6, <1>7, <1>8, <1>9

LEMMA DebateBodyStep == DebateInv /\ DebateBody => (BodyStep \/ UNCHANGED vars) /\ DebateInv'
<1> SUFFICES ASSUME DebateInv, DebateBody PROVE (BodyStep \/ UNCHANGED vars) /\ DebateInv'
  OBVIOUS
<1>1. CASE EnterPhase
  <2>1. BodyAdvance /\ pc' = pc
    BY <1>1, StepPhases, Mode DEF EnterPhase, BodyAdvance, DebateInv, Shapes, Loops
  <2>2. TypeOK' /\ snap'.done = snap.done
    BY <1>1, <2>1, BodyType, AdvanceKeeps DEF EnterPhase, BodyStep, DebateInv
  <2> QED
    BY <1>1, <2>1, <2>2 DEF EnterPhase, BodyStep, DebateInv, Shapes, ReportClosed
<1>2. CASE Close
  <2>1. TypeOK' /\ snap' = snap /\ pc' = "finalize"
    BY <1>2, BodyType DEF Close, BodyReady, BodyStep, DebateInv
  <2> QED
    BY <1>2, <2>1 DEF Close, BodyStep, DebateInv, Shapes, ReportClosed
<1> QED
  BY <1>1, <1>2, DebateCommits, DebateWork DEF DebateBody, BodyStep

LEMMA DebateOutside ==
  DebateInv /\ (DebatePrelude \/ DebateClosing \/ DebateStepError) => DebateInv'
<1> SUFFICES ASSUME DebateInv, DebatePrelude \/ DebateClosing \/ DebateStepError
             PROVE  DebateInv'
  OBVIOUS
<1>0. TypeOK
  BY DEF DebateInv
<1>1. Outside /\ TypeOK'
  BY <1>0, PreludeType, CloseType, FailureType
     DEF DebatePrelude, DebateClosing, DebateStepError
<1>2. ReportClosed'
  <2>1. CASE DebatePrelude
    BY <1>0, <1>1, <2>1, AdvanceKeeps DEF DebatePrelude, Start, PreludeAdvance, PreludeCommit,
       Outside, DebateInv, ReportClosed, TypeOK, SnapshotType
  <2>2. CASE DebateClosing
    <3>1. pc' # "body"
      BY <2>2 DEF DebateClosing, CloseStep, EnterAction, BlockAction, DispatchAction,
         RefuseAction, SkipAction, CommitAction, EnterObserve, ObserveBuiltin,
         ObserveSource, ObserveDone, CommitObserve, EnterFinished, PersistFinish,
         EmitFinalized
    <3>2. snap'.done \in {snap.done, "action", "observe"}
      BY <1>0, <2>2, AdvanceKeeps, CheckpointStores
         DEF DebateClosing, CloseStep, EnterAction, BlockAction, DispatchAction,
         RefuseAction, SkipAction, CommitAction, EnterObserve, ObserveBuiltin,
         ObserveSource, ObserveDone, CommitObserve, EnterFinished, PersistFinish,
         EmitFinalized, TypeOK, SnapshotType
    <3> QED
      BY <1>1, <3>1, <3>2 DEF Outside, DebateInv, ReportClosed
  <2>3. CASE DebateStepError
    BY <1>1, <2>3 DEF DebateStepError, StepError, Outside, DebateInv, ReportClosed
  <2> QED BY <2>1, <2>2, <2>3
<1> QED BY <1>1, <1>2 DEF Outside, DebateInv, Shapes

LEMMA NoDataShapes ==
  /\ DOMAIN NoDebate = Fields /\ NoDebate.rounds = <<>> /\ NoDebate.votes = <<>>
  /\ NoLoop \in Loops
  /\ NoLoop.step = "initial" /\ NoLoop.round = 1
BY StepNames DEF NoDebate, NoLoop, Fields, Loops

\* What a resumed run starts from.
LEMMA RestoredLoop ==
  ASSUME DebateInv
  PROVE  /\ RestoredRound \in Nat /\ RestoredStep \in Steps
         /\ [NoLoop EXCEPT !.step = RestoredStep, !.round = RestoredRound]
              \in Loops
         /\ [NoLoop EXCEPT !.step = RestoredStep, !.round = RestoredRound].step = RestoredStep
         /\ [NoLoop EXCEPT !.step = RestoredStep, !.round = RestoredRound].round = RestoredRound
<1>1. RestoredRound \in Nat /\ RestoredStep \in Steps
  BY StepNames DEF RestoredRound, RestoredStep, DebateInv, Shapes
<1> HIDE DEF RestoredRound, RestoredStep
<1>2. ASSUME NEW step \in Steps, NEW round \in Nat
      PROVE  /\ [NoLoop EXCEPT !.step = step, !.round = round] \in Loops
             /\ [NoLoop EXCEPT !.step = step, !.round = round].step = step
             /\ [NoLoop EXCEPT !.step = step, !.round = round].round = round
  BY NoDataShapes DEF Loops
<1> QED BY <1>1, <1>2

LEMMA DebateFailures ==
  DebateInv /\ (DebateCrash \/ DebateFailSession \/ DebateResume) => DebateInv'
<1> SUFFICES ASSUME DebateInv, DebateCrash \/ DebateFailSession \/ DebateResume
             PROVE  DebateInv'
  OBVIOUS
<1>0. TypeOK /\ TypeOK'
  BY FailureType DEF DebateInv, DebateCrash, DebateFailSession, DebateResume
<1>1. CASE DebateCrash
  <2>1. pc' = "down" /\ snap' = snap /\ ckpt' = ckpt /\ loop' = NoLoop /\ mem' = NoDebate
    BY <1>1 DEF DebateCrash, Crash, Forget
  <2>2. Shapes'
    BY <2>1, NoDataShapes DEF DebateInv, Shapes
  <2> QED BY <1>0, <2>1, <2>2 DEF DebateInv, ReportClosed
<1>2. CASE DebateFailSession
  <2>1. pc' = "down" /\ snap'.done = snap.done /\ loop' = NoLoop /\ mem' = NoDebate
    BY <1>0, <1>2, FailKeeps DEF DebateFailSession, FailSession, Forget
  <2>2. /\ DOMAIN ckpt' = DOMAIN ckpt /\ ckpt'.step = ckpt.step /\ ckpt'.round = ckpt.round
        /\ DOMAIN ckpt'.data = Fields /\ ckpt'.data.rounds = ckpt.data.rounds
    BY <1>2 DEF DebateFailSession, DebateInv, Shapes, Fields
  <2>3. Shapes'
    BY <2>1, <2>2, NoDataShapes DEF DebateInv, Shapes
  <2> QED BY <1>0, <2>1, <2>2, <2>3 DEF DebateInv, ReportClosed
<1>3. CASE DebateResume
  <2>1. ckpt' = ckpt /\ snap' = snap
    BY <1>3 DEF DebateResume, Resume
  <2>2. CASE AlreadyFinished
    BY <1>0, <1>3, <2>1, <2>2 DEF DebateResume, Resume, DebateInv, Shapes, ReportClosed
  <2>3. CASE ~AlreadyFinished
    <3>1. /\ loop' = [NoLoop EXCEPT !.step = RestoredStep, !.round = RestoredRound]
          /\ mem' = ckpt.data
      BY <1>3, <2>3 DEF DebateResume
    <3>2. Shapes'
      BY <2>1, <3>1, RestoredLoop DEF DebateInv, Shapes
    <3>3. snap.done = "report" => RestoredStep = "close"
      BY RankNames DEF RestoredStep, NothingProposed, DebateInv, ReportClosed
    <3>4. ReportClosed'
      BY <2>1, <3>1, <3>3, RestoredLoop DEF DebateInv, ReportClosed
    <3> QED BY <1>0, <3>2, <3>4 DEF DebateInv
  <2> QED BY <2>2, <2>3
<1> QED BY <1>1, <1>2, <1>3

LEMMA DebateInit_DebateInv == DebateInit => DebateInv
<1> SUFFICES ASSUME DebateInit PROVE DebateInv
  OBVIOUS
<1>1. TypeOK /\ pc = "idle" /\ snap.done = "created"
  BY InitType DEF DebateInit, Init, NewSnapshot
<1>2. /\ DOMAIN ckpt = {"step", "round", "data"} /\ ckpt.step = "none" /\ ckpt.data = NoDebate
  BY DEF DebateInit, NoCheckpoint
<1>3. Shapes
  BY <1>2, NoDataShapes, RankNames DEF DebateInit, Shapes
<1> QED BY <1>1, <1>3 DEF DebateInv, ReportClosed

LEMMA DebateNext_DebateInv == DebateInv /\ [DebateNext]_debateVars => DebateInv'
<1>1. CASE UNCHANGED debateVars \/ (Returned /\ Outside)
  BY <1>1 DEF debateVars, vars, Returned, Outside, DebateInv, TypeOK, Shapes, ReportClosed
<1> QED
  BY <1>1, DebateBodyStep, DebateOutside, DebateFailures DEF DebateNext, DebateEngineStep

LEMMA DebateInvariant == DebateSpec => []DebateInv
BY DebateInit_DebateInv, DebateNext_DebateInv, PTL DEF DebateSpec

\* The free debate, fresh and resumed, is a session: each step of startFreeDebate
\* and resumeFreeDebate is a step of SessionLifecycle or invisible there.
THEOREM DebateImplementsSession == DebateSpec => Spec
<1>1. DebateInit => Init
  BY DEF DebateInit
<1>2. DebateInv /\ [DebateNext]_debateVars => [Next]_vars
  <2> SUFFICES ASSUME DebateInv, [DebateNext]_debateVars PROVE [Next]_vars
    OBVIOUS
  <2>1. CASE UNCHANGED debateVars
    BY <2>1 DEF debateVars
  <2>2. CASE DebateBody
    BY <2>2, DebateBodyStep DEF Next, EngineStep
  <2>3. CASE DebatePrelude \/ DebateClosing
    BY <2>3 DEF DebatePrelude, DebateClosing, Next, EngineStep
  <2>4. CASE \/ DebateStepError \/ DebateFailSession \/ DebateCrash
             \/ DebateResume \/ (Returned /\ Outside)
    BY <2>4 DEF DebateStepError, DebateFailSession, DebateCrash, DebateResume, Next
  <2> QED
    BY <2>1, <2>2, <2>3, <2>4 DEF DebateNext, DebateEngineStep
<1> QED
  BY <1>1, <1>2, DebateInvariant, PTL DEF DebateSpec, Spec

\* What is proved of every session holds of every free debate: its action is
\* accounted for and not repeated once committed, its result is justified, its
\* observations are complete and, once finished, it stands.
THEOREM DebateInherits ==
  DebateSpec => /\ []ActionAccounted /\ ActionCommittedOnce /\ []ResultJustified
                /\ []ObservationsComplete /\ FinishedIsFinal
BY DebateImplementsSession, ActionIsAccounted, ActionIsCommittedOnce, ResultIsJustified,
   ObservationsAreComplete, FinishedStands

-----------------------------------------------------------------------------
(* What has been committed is not asked again.                             *)

\* Where a run may be, given its checkpoint: proposals are only asked for with
\* no checkpoint, rounds only from the one the checkpoint leaves open, ballots
\* only from the checkpoint of the synthesis; and votes are held by nobody before.
CommitInv ==
  /\ ckpt.step = "none" => ckpt.data.rounds = <<>>
  /\ Rank[ckpt.step] <= 4 => ckpt.data.votes = <<>>
  /\ ckpt.step \in {"initial_complete", "round_complete"} =>
       \A i \in DOMAIN ckpt.data.rounds : ckpt.data.rounds[i] < RestoredRound
  /\ pc \in {"idle", "prelude", "body"} =>
       /\ loop.step = "initial" =>
            ckpt.step = "none" /\ mem.rounds = <<>> /\ loop.round = 1
       /\ loop.step \in {"open", "debate"} =>
            /\ ckpt.step \in {"initial_complete", "round_complete"}
            /\ loop.round = RestoredRound /\ mem.rounds = ckpt.data.rounds
       /\ loop.step \notin {"ballot", "report", "close"} => mem.votes = <<>>
       /\ loop.step = "ballot" => ckpt.step = "synthesis_complete"

LEMMA CommitsOnce ==
  DebateInv /\ CommitInv /\ (CommitInitial \/ CommitRound \/ CommitRounds
                             \/ CommitSynthesis \/ CommitVote \/ CommitReport)
    => CommitInv'
<1> SUFFICES ASSUME DebateInv, CommitInv,
                    CommitInitial \/ CommitRound \/ CommitRounds \/ CommitSynthesis
                      \/ CommitVote \/ CommitReport
             PROVE  CommitInv'
  OBVIOUS
<1>0. /\ loop \in Loops /\ loop.round \in Nat
      /\ DOMAIN mem = Fields /\ mem.rounds \in Seq(Nat)
  BY DEF DebateInv, Shapes, Loops
<1> DEFINE Stored(step, round, data) ==
             /\ mem' = data /\ ckpt' = [step |-> step, round |-> round, data |-> data]
             /\ pc' = "body" /\ pc = "body"
<1>a. ASSUME NEW step, NEW round, NEW data, NEW at, Working(at), Save(step, round, data)
      PROVE  Stored(step, round, data)
  BY <1>a DEF Save, Working
<1>1. CASE CommitInitial
  <2> DEFINE data == [mem EXCEPT !.rounds = Append(@, 0)]
  <2>1. Working("initial") /\ Save("initial_complete", 0, data)
    BY <1>1 DEF CommitInitial
  <2>2. Stored("initial_complete", 0, data) /\ loop.step = "initial"
    BY <1>a, <2>1 DEF Working
  <2>3. mem.rounds = <<>> /\ mem.votes = <<>> /\ loop.round = 1
    BY <2>2 DEF CommitInv
  <2>4. data.rounds = <<0>> /\ data.votes = <<>>
    BY <2>3, DataKept
  <2>5. loop'.step \in {"report", "open"} /\ loop'.round = 1
    BY <1>0, <1>1, <2>3 DEF CommitInitial, Go, Loops
  <2> HIDE DEF data
  <2>6. ckpt'.step = "initial_complete" /\ ckpt'.data = data /\ RestoredRound' = 1
    BY <2>2 DEF RestoredRound
  <2> QED BY <2>2, <2>4, <2>5, <2>6 DEF CommitInv
<1>2. CASE CommitRound
  <2> DEFINE last == loop.round = MaxRounds \/ (loop.round >= MinRounds /\ loop.quiet)
             step == IF last THEN "rounds_complete" ELSE "round_complete"
             next == IF last THEN "rounds" ELSE "open"
  <2>1. PICK claims :
          Save(step, loop.round, [mem EXCEPT !.claims = claims, !.rounds = Append(@, loop.round)])
    BY <1>2 DEF CommitRound
  <2> DEFINE data == [mem EXCEPT !.claims = claims, !.rounds = Append(@, loop.round)]
  <2>2. Working("debate") /\ loop' = [loop EXCEPT !.step = next, !.round = @ + 1]
    BY <1>2 DEF CommitRound
  <2>3. Stored(step, loop.round, data) /\ loop.step = "debate"
    BY <1>a, <2>1, <2>2 DEF Working
  <2>4. /\ loop.round = RestoredRound /\ mem.rounds = ckpt.data.rounds /\ mem.votes = <<>>
        /\ \A i \in DOMAIN mem.rounds : mem.rounds[i] < loop.round
    BY <2>3 DEF CommitInv
  <2>5. data.rounds = Append(mem.rounds, loop.round) /\ data.votes = <<>>
    BY <2>4, DataKept
  <2>6. \A i \in DOMAIN data.rounds : data.rounds[i] < loop.round + 1
    BY <1>0, <2>4, <2>5
  <2>7. loop'.step = next /\ loop'.round = loop.round + 1
    BY <1>0, <2>2 DEF Loops
  <2> HIDE DEF data
  <2>8. CASE last
    BY <2>3, <2>5, <2>7, <2>8, RankNames DEF CommitInv
  <2>9. CASE ~last
    <3> HIDE DEF last
    <3>1. ckpt'.step = "round_complete" /\ ckpt'.data = data /\ RestoredRound' = loop.round + 1
      BY <2>3, <2>9 DEF RestoredRound
    <3> QED BY <2>3, <2>5, <2>6, <2>7, <2>9, <3>1 DEF CommitInv
  <2> QED BY <2>8, <2>9
<1>3. CASE CommitRounds
  <2>1. /\ Stored("rounds_complete", Last(mem.rounds), mem) /\ loop.step = "rounds"
        /\ loop'.step = "synthesize"
    BY <1>0, <1>3, <1>a DEF CommitRounds, Go, Working, Loops
  <2> QED BY <2>1, RankNames DEF CommitInv
<1>4. CASE CommitSynthesis
  <2>1. /\ Stored("synthesis_complete", ckpt.round, mem) /\ loop.step = "synthesized"
        /\ loop'.step = "ballot"
    BY <1>0, <1>4, <1>a DEF CommitSynthesis, Go, Working, Loops
  <2> QED BY <2>1, RankNames DEF CommitInv
<1>5. CASE CommitVote
  <2>1. /\ Stored("vote_complete", ckpt.round, mem) /\ loop'.step = "report"
    BY <1>0, <1>5, <1>a DEF CommitVote, Go, Loops
  <2> QED BY <2>1, RankNames DEF CommitInv
<1>6. CASE CommitReport
  <2>1. /\ Stored("report_complete", ckpt.round, mem) /\ loop'.step = "close"
    BY <1>0, <1>6, <1>a DEF CommitReport, Go, Loops
  <2> QED BY <2>1, RankNames DEF CommitInv
<1> QED BY <1>1, <1>2, <1>3, <1>4, <1>5, <1>6

LEMMA WorkOnce ==
  DebateInv /\ CommitInv /\ (InitialOutput \/ OpenRound \/ DeadlineHit \/ RoundOutput
                             \/ RoundAbsent \/ Synthesize \/ Amend \/ VoteAbsent \/ CastBallot)
    => CommitInv'
<1> SUFFICES ASSUME DebateInv, CommitInv,
                    InitialOutput \/ OpenRound \/ DeadlineHit \/ RoundOutput \/ RoundAbsent
                      \/ Synthesize \/ Amend \/ VoteAbsent \/ CastBallot
             PROVE  CommitInv'
  OBVIOUS
<1>0. loop \in Loops /\ DOMAIN mem = Fields
  BY DEF DebateInv, Shapes
<1>a. /\ UNCHANGED <<vars, ckpt>> /\ pc = "body" /\ pc' = "body"
      /\ RestoredRound' = RestoredRound
  BY DEF InitialOutput, OpenRound, DeadlineHit, RoundOutput, RoundAbsent, Synthesize, Amend,
         VoteAbsent, CastBallot, InMemory, Working, vars, RestoredRound
<1>1. CASE InitialOutput
  <2>1. \E claims : mem' = [mem EXCEPT !.claims = claims]
    BY <1>1 DEF InitialOutput
  <2>2. loop.step = "initial" /\ loop'.step = loop.step /\ loop'.round = loop.round
    BY <1>0, <1>1 DEF InitialOutput, Working, Loops
  <2>3. mem'.rounds = mem.rounds /\ mem'.votes = mem.votes
    BY <2>1, DataKept
  <2> QED BY <1>a, <2>2, <2>3 DEF CommitInv
<1>2. CASE OpenRound
  <2>1. /\ loop.step = "open" /\ loop'.step = "debate" /\ loop'.round = loop.round
        /\ mem' = mem
    BY <1>0, <1>2 DEF OpenRound, Working, Loops
  <2> QED BY <1>a, <2>1 DEF CommitInv
<1>3. CASE DeadlineHit
  <2>1. loop.step = "open" /\ loop'.step = "rounds" /\ mem' = mem
    BY <1>0, <1>3 DEF DeadlineHit, Go, Working, Loops
  <2> QED BY <1>a, <2>1 DEF CommitInv
<1>4. CASE RoundOutput
  <2>1. \E claims : mem' = [mem EXCEPT !.claims = claims]
    BY <1>4 DEF RoundOutput
  <2>2. loop.step = "debate" /\ loop'.step = loop.step /\ loop'.round = loop.round
    BY <1>0, <1>4 DEF RoundOutput, Working, Loops
  <2>3. mem'.rounds = mem.rounds /\ mem'.votes = mem.votes
    BY <2>1, DataKept
  <2> QED BY <1>a, <2>2, <2>3 DEF CommitInv
<1>5. CASE RoundAbsent
  <2>1. /\ loop.step = "debate" /\ loop'.step = loop.step /\ loop'.round = loop.round
        /\ mem' = mem
    BY <1>0, <1>5 DEF RoundAbsent, Working, Loops
  <2> QED BY <1>a, <2>1 DEF CommitInv
<1>6. CASE Synthesize
  <2>1. \E claims : mem' = [mem EXCEPT !.claims = claims]
    BY <1>6 DEF Synthesize
  <2>2. loop.step = "synthesize" /\ loop'.step \in {"amend", "synthesized"}
    BY <1>0, <1>6 DEF Synthesize, Go, Working, Loops
  <2>3. mem'.votes = mem.votes
    BY <2>1, DataKept
  <2> QED BY <1>a, <2>2, <2>3 DEF CommitInv
<1>7. CASE Amend
  <2>1. mem'.votes = mem.votes
    BY <1>0, <1>7 DEF Amend, Fields
  <2>2. loop.step = "amend" /\ loop'.step \in {"amend", "synthesized"}
    BY <1>0, <1>7 DEF Amend, Go, Working, Loops
  <2> QED BY <1>a, <2>1, <2>2 DEF CommitInv
<1>8. CASE VoteAbsent \/ CastBallot
  <2>1. loop.step = "ballot" /\ loop'.step = "ballot"
    BY <1>0, <1>8 DEF VoteAbsent, CastBallot, Working, Loops
  <2> QED BY <1>a, <2>1 DEF CommitInv
<1> QED BY <1>1, <1>2, <1>3, <1>4, <1>5, <1>6, <1>7, <1>8

LEMMA OutsideOnce ==
  DebateInv /\ CommitInv /\ (EnterPhase \/ Close \/ DebatePrelude \/ DebateClosing
                             \/ DebateStepError \/ (Returned /\ Outside))
    => CommitInv'
<1> SUFFICES ASSUME DebateInv, CommitInv,
                    EnterPhase \/ Close \/ DebatePrelude \/ DebateClosing
                      \/ DebateStepError \/ (Returned /\ Outside)
             PROVE  CommitInv'
  OBVIOUS
<1>1. Outside
  BY DEF EnterPhase, Close, DebatePrelude, DebateClosing, DebateStepError, Outside
<1>2. pc' \in {"idle", "prelude", "body"} => pc \in {"idle", "prelude", "body"}
  BY DEF EnterPhase, Close, BodyReady, DebatePrelude, Start, PreludeAdvance, PreludeCommit,
     DebateClosing, CloseStep, EnterAction, BlockAction, DispatchAction, RefuseAction,
     SkipAction, CommitAction, EnterObserve, ObserveBuiltin, ObserveSource, ObserveDone,
     CommitObserve, EnterFinished, PersistFinish, EmitFinalized, DebateStepError, StepError,
     Returned, vars
<1> QED BY <1>1, <1>2 DEF Outside, CommitInv, RestoredRound

LEMMA FailuresOnce ==
  DebateInv /\ CommitInv /\ (DebateCrash \/ DebateFailSession \/ DebateResume) => CommitInv'
<1> SUFFICES ASSUME DebateInv, CommitInv, DebateCrash \/ DebateFailSession \/ DebateResume
             PROVE  CommitInv'
  OBVIOUS
<1>1. CASE DebateCrash
  BY <1>1 DEF DebateCrash, Crash, CommitInv, RestoredRound
<1>2. CASE DebateFailSession
  <2>1. pc' = "down"
    BY <1>2 DEF DebateFailSession, FailSession
  <2>2. /\ ckpt'.step = ckpt.step /\ ckpt'.round = ckpt.round
        /\ ckpt'.data.rounds = ckpt.data.rounds /\ ckpt'.data.votes = ckpt.data.votes
    BY <1>2 DEF DebateFailSession, DebateInv, Shapes, Fields
  <2> QED BY <2>1, <2>2 DEF CommitInv, RestoredRound
<1>3. CASE DebateResume
  <2>1. ckpt' = ckpt /\ RestoredRound' = RestoredRound
    BY <1>3 DEF DebateResume, RestoredRound
  <2>2. CASE AlreadyFinished
    BY <1>3, <2>1, <2>2 DEF DebateResume, Resume, CommitInv
  <2>3. CASE ~AlreadyFinished
    <3>1. /\ loop'.step = RestoredStep /\ loop'.round = RestoredRound /\ mem' = ckpt.data
      BY <1>3, <2>3, RestoredLoop DEF DebateResume
    <3>2. ckpt.step \in DOMAIN Rank
      BY DEF DebateInv, Shapes
    <3>3. /\ RestoredStep = "initial" => ckpt.step = "none" /\ RestoredRound = 1
          /\ RestoredStep \in {"open", "debate"} =>
               ckpt.step \in {"initial_complete", "round_complete"}
          /\ RestoredStep \notin {"ballot", "report", "close"} => Rank[ckpt.step] <= 4
          /\ RestoredStep = "ballot" => ckpt.step = "synthesis_complete"
      BY <3>2, RankNames DEF RestoredStep, RestoredRound
    <3> HIDE DEF RestoredStep, RestoredRound
    <3> QED BY <2>1, <3>1, <3>3 DEF CommitInv
  <2> QED BY <2>2, <2>3
<1> QED BY <1>1, <1>2, <1>3

LEMMA CommitInvariant == DebateSpec => [](DebateInv /\ CommitInv)
<1>1. DebateInit => CommitInv
  BY NoDataShapes, RankNames DEF DebateInit, NoCheckpoint, CommitInv, RestoredRound
<1>2. DebateInv /\ CommitInv /\ [DebateNext]_debateVars => CommitInv'
  <2>1. CASE UNCHANGED debateVars
    BY <2>1 DEF debateVars, vars, CommitInv, RestoredRound
  <2> QED
    BY <2>1, CommitsOnce, WorkOnce, OutsideOnce, FailuresOnce
       DEF DebateNext, DebateEngineStep, DebateBody
<1> QED BY <1>1, <1>2, DebateInvariant, PTL DEF DebateSpec

\* However often a debate crashes, fails and is resumed, continueFreeDebate asks
\* neither for proposals, nor for a round, nor for ballots that are committed.
THEOREM CommittedIsNotRepeated == DebateSpec => []CommittedNotRepeated
<1>1. DebateInv /\ CommitInv => CommittedNotRepeated
  <2> SUFFICES ASSUME DebateInv, CommitInv, pc = "body"
               PROVE  /\ loop.step = "initial" => ckpt.data.rounds = <<>>
                      /\ loop.step = "debate" => loop.round \notin Range(ckpt.data.rounds)
                      /\ loop.step = "ballot" => ckpt.data.votes = <<>>
    BY DEF CommittedNotRepeated
  <2>1. loop.step = "initial" => ckpt.data.rounds = <<>>
    BY DEF CommitInv
  <2>2. ASSUME loop.step = "debate" PROVE loop.round \notin Range(ckpt.data.rounds)
    <3>1. \A i \in DOMAIN ckpt.data.rounds : ckpt.data.rounds[i] < loop.round
      BY <2>2 DEF CommitInv
    <3>2. loop.round \in Nat
      BY DEF DebateInv, Shapes, Loops
    <3>3. \A i \in DOMAIN ckpt.data.rounds : ckpt.data.rounds[i] # loop.round
      BY <3>1, <3>2
    <3> QED BY <3>3 DEF Range
  <2>3. loop.step = "ballot" => ckpt.data.votes = <<>>
    BY RankNames DEF CommitInv
  <2> QED BY <2>1, <2>2, <2>3
<1> QED BY <1>1, CommitInvariant, PTL

-----------------------------------------------------------------------------
(* The ballots.                                                            *)

Vote(claims) == [claim : ActiveIn(claims), voter : Panel,
                 vote : {"accept", "reject", "abstain"}, confidence : Percent]

\* Everyone who has a vote has exactly one on every active claim.
FullBallots(claims, votes) ==
  /\ votes \in Seq(Vote(claims))
  /\ \A i \in DOMAIN votes :
       /\ \A c \in ActiveIn(claims) :
            \E j \in DOMAIN votes : votes[j].voter = votes[i].voter /\ votes[j].claim = c
       /\ \A j \in DOMAIN votes :
            votes[i].claim = votes[j].claim /\ votes[i].voter = votes[j].voter => i = j

\* The stored votes are full ballots, and so are those in memory, cast so far by
\* the participants before the one whose turn it is.
BallotInv ==
  /\ FullBallots(ckpt.data.claims, ckpt.data.votes)
  /\ loop.turn >= 1
  /\ pc \in {"idle", "prelude", "body"} =>
       /\ FullBallots(mem.claims, mem.votes)
       /\ loop.step = "ballot" =>
            \A i \in DOMAIN mem.votes :
              \E k \in 1 .. loop.turn - 1 : mem.votes[i].voter = Participants[k]

LEMMA NoBallots == \A claims : FullBallots(claims, <<>>)
BY DEF FullBallots

\* A valid ballot of somebody who has not voted.
LEMMA BallotAdded ==
  ASSUME NEW claims, NEW old, FullBallots(claims, old), NEW new \in Seq(Vote(claims)),
         NEW voter, \A i \in DOMAIN old : old[i].voter # voter,
         \A i \in DOMAIN new : new[i].voter = voter,
         ValidBallot(ActiveIn(claims), new)
  PROVE  FullBallots(claims, old \o new)
<1> DEFINE all == old \o new
           n == Len(old)
<1>1. /\ old \in Seq(Vote(claims)) /\ n \in Nat /\ DOMAIN old = 1 .. n
      /\ Len(new) \in Nat /\ DOMAIN new = 1 .. Len(new)
  BY DEF FullBallots
<1>2. /\ all \in Seq(Vote(claims)) /\ DOMAIN all = 1 .. n + Len(new)
      /\ \A i \in DOMAIN old : i \in DOMAIN all /\ all[i] = old[i]
      /\ \A i \in DOMAIN new : n + i \in DOMAIN all /\ all[n + i] = new[i]
      /\ \A i \in DOMAIN all : i \in DOMAIN old \/ (i - n \in DOMAIN new /\ all[i] = new[i - n])
  BY <1>1
<1> HIDE DEF all, n
<1>3. ASSUME NEW i \in DOMAIN all, NEW c \in ActiveIn(claims)
      PROVE \E j \in DOMAIN all : all[j].voter = all[i].voter /\ all[j].claim = c
  <2>1. CASE i \in DOMAIN old
    <3>1. PICK j \in DOMAIN old : old[j].voter = old[i].voter /\ old[j].claim = c
      BY <2>1 DEF FullBallots
    <3> QED BY <1>2, <2>1, <3>1
  <2>2. CASE i - n \in DOMAIN new /\ all[i] = new[i - n]
    <3>1. PICK j \in DOMAIN new : new[j].claim = c
      BY DEF ValidBallot
    <3> QED BY <1>2, <2>2, <3>1
  <2> QED BY <1>2, <2>1, <2>2
<1>4. ASSUME NEW i \in DOMAIN all, NEW j \in DOMAIN all,
             all[i].claim = all[j].claim, all[i].voter = all[j].voter
      PROVE i = j
  <2>1. CASE i \in DOMAIN old /\ j \in DOMAIN old
    BY <1>2, <1>4, <2>1 DEF FullBallots
  <2>2. CASE i \notin DOMAIN old /\ j \notin DOMAIN old
    <3>1. /\ i - n \in DOMAIN new /\ all[i] = new[i - n]
          /\ j - n \in DOMAIN new /\ all[j] = new[j - n]
      BY <1>2, <2>2
    <3>2. i - n = j - n
      BY <1>4, <3>1 DEF ValidBallot
    <3> QED BY <1>1, <1>2, <3>2
  <2> QED BY <1>2, <1>4, <2>1, <2>2
<1> QED BY <1>2, <1>3, <1>4 DEF FullBallots, all

\* What CastBallot adds.
LEMMA CastIsFull ==
  ASSUME DebateInv, CommitInv, BallotInv, CastBallot
  PROVE  /\ FullBallots(mem'.claims, mem'.votes)
         /\ \A i \in DOMAIN mem'.votes :
              \E k \in 1 .. loop.turn : mem'.votes[i].voter = Participants[k]
<1> DEFINE voter == Participants[loop.turn]
           ballot == SetToSortSeq(ActiveIn(mem.claims), <)
<1>1. PICK votes \in Ballots(voter) :
        /\ ValidBallot(ActiveIn(mem.claims), votes)
        /\ mem' = [mem EXCEPT !.votes = @ \o votes]
  BY DEF CastBallot
<1>2. PICK n \in 0 .. Len(ballot) :
        \E choice \in [1 .. n -> VoteChoices] :
          votes = [i \in 1 .. n |-> [claim |-> ballot[i], voter |-> voter, vote |-> choice[i][1],
                                     confidence |-> choice[i][2]]]
  <2> HIDE DEF voter
  <2> QED BY <1>1 DEF Ballots
<1> HIDE DEF ballot
<1>a. n \in Nat
  BY <1>2
<1>c. PICK choice \in [1 .. n -> VoteChoices] :
        votes = [i \in 1 .. n |-> [claim |-> ballot[i], voter |-> voter, vote |-> choice[i][1],
                                   confidence |-> choice[i][2]]]
  BY <1>2
<1>3. /\ pc = "body" /\ loop.step = "ballot" /\ loop.turn \in Nat /\ loop.turn >= 1
      /\ loop.turn <= Len(Participants) /\ FullBallots(mem.claims, mem.votes)
      /\ DOMAIN mem = Fields
      /\ \A i \in DOMAIN mem.votes :
           \E k \in 1 .. loop.turn - 1 : mem.votes[i].voter = Participants[k]
  BY DEF CastBallot, Working, NP, BallotInv, DebateInv, Shapes, Loops
<1>4. /\ voter \in Panel /\ loop.turn \in DOMAIN Participants
      /\ \A k \in 1 .. loop.turn - 1 : Participants[k] # voter
  <2>1. /\ Participants \in Seq(Range(Participants))
        /\ \A a, b \in DOMAIN Participants : Participants[a] = Participants[b] => a = b
    BY DebateRoles DEF IsInjective
  <2> DEFINE np == Len(Participants)
  <2>2. np \in Nat /\ DOMAIN Participants = 1 .. np
    BY <2>1
  <2>3. /\ loop.turn \in 1 .. np
        /\ \A k \in 1 .. loop.turn - 1 : k \in 1 .. np /\ k # loop.turn
    <3>1. loop.turn \in Nat /\ loop.turn >= 1 /\ loop.turn <= np
      BY <1>3
    <3> HIDE DEF np
    <3> QED BY <2>2, <3>1
  <2> QED BY <2>1, <2>2, <2>3 DEF Panel, Range
<1>5. /\ n \in Int /\ DOMAIN votes = 1 .. n
      /\ \A i \in 1 .. n : /\ votes[i].voter = voter /\ votes[i] \in Vote(mem.claims)
  <2>1. n \in Int /\ DOMAIN votes = 1 .. n
    BY <1>a, <1>c
  <2>2. ASSUME NEW i \in 1 .. n PROVE votes[i].voter = voter /\ votes[i] \in Vote(mem.claims)
    <3>1. votes[i] = [claim |-> ballot[i], voter |-> voter, vote |-> choice[i][1],
                      confidence |-> choice[i][2]]
      BY <1>c, <2>2
    <3>2. choice[i] \in {"accept", "reject", "abstain"} \X Percent
      BY <1>c, <2>2, DebateAssumption
    <3>3. votes[i].claim \in ActiveIn(mem.claims)
      BY <1>1, <2>1, <2>2 DEF ValidBallot
    <3> HIDE DEF voter, ballot
    <3>4. choice[i][1] \in {"accept", "reject", "abstain"} /\ choice[i][2] \in Percent
      BY <3>2
    <3>5. ballot[i] \in ActiveIn(mem.claims)
      BY <3>1, <3>3
    <3> QED BY <1>4, <3>1, <3>4, <3>5 DEF Vote
  <2> QED BY <2>1, <2>2
<1>6. votes \in Seq(Vote(mem.claims))
  <2>1. votes # <<>>
    BY <1>1 DEF ValidBallot
  <2>3. votes = [i \in 1 .. n |-> votes[i]]
    BY <1>c
  <2>4. \A i \in 1 .. n : votes[i] \in Vote(mem.claims)
    BY <1>5
  <2> QED BY <1>a, <2>3, <2>4
<1>7. \A i \in DOMAIN mem.votes : mem.votes[i].voter # voter
  BY <1>3, <1>4
<1>8. FullBallots(mem.claims, mem.votes \o votes)
  BY <1>1, <1>3, <1>5, <1>6, <1>7, BallotAdded
<1>9. mem'.claims = mem.claims /\ mem'.votes = mem.votes \o votes
  BY <1>1, <1>3 DEF Fields
<1>10. \A i \in DOMAIN (mem.votes \o votes) :
         \E k \in 1 .. loop.turn : (mem.votes \o votes)[i].voter = Participants[k]
  <2>1. /\ mem.votes \in Seq(Vote(mem.claims)) /\ DOMAIN mem.votes = 1 .. Len(mem.votes)
        /\ Len(mem.votes) \in Nat
    BY <1>3 DEF FullBallots
  <2>2. \A i \in DOMAIN (mem.votes \o votes) :
          \/ i \in DOMAIN mem.votes /\ (mem.votes \o votes)[i] = mem.votes[i]
          \/ (mem.votes \o votes)[i].voter = voter
    BY <1>5, <1>6, <2>1
  <2>3. loop.turn \in 1 .. loop.turn /\ \A k \in 1 .. loop.turn - 1 : k \in 1 .. loop.turn
    BY <1>3
  <2> QED BY <1>3, <2>2, <2>3
<1> QED BY <1>8, <1>9, <1>10

\* The steps of the workflow.
LEMMA BallotsKept ==
  DebateInv /\ CommitInv /\ CommitInv' /\ BallotInv /\ DebateBody => BallotInv'
<1> SUFFICES ASSUME DebateInv, CommitInv, CommitInv', BallotInv, DebateBody PROVE BallotInv'
  OBVIOUS
<1>0. /\ loop \in Loops /\ DOMAIN mem = Fields /\ loop.turn \in Nat /\ loop.turn >= 1
      /\ FullBallots(ckpt.data.claims, ckpt.data.votes) /\ pc = "body"
      /\ FullBallots(mem.claims, mem.votes)
  BY DEF DebateInv, Shapes, BallotInv, Loops, DebateBody, EnterPhase, Close, InitialOutput,
     CommitInitial, OpenRound, DeadlineHit, RoundOutput, RoundAbsent, CommitRound, CommitRounds,
     Synthesize, Amend, CommitSynthesis, VoteAbsent, CastBallot, CommitVote, CommitReport, Working
\* Before the ballot nobody has voted.
<1>1. ASSUME loop'.turn >= 1, loop'.step \notin {"ballot", "report", "close"}, pc' = "body",
             \/ ckpt' = ckpt
             \/ ckpt'.data = mem'
      PROVE  BallotInv'
  <2>1. mem'.votes = <<>>
    BY <1>1 DEF CommitInv
  <2>2. FullBallots(mem'.claims, mem'.votes)
    BY <2>1, NoBallots
  <2> QED BY <1>0, <1>1, <2>2 DEF BallotInv
<1>2. CASE InitialOutput \/ OpenRound \/ DeadlineHit \/ RoundOutput \/ RoundAbsent \/ Synthesize \/ Amend
  <2>1. pc' = "body" /\ ckpt' = ckpt
    BY <1>0, <1>2 DEF InitialOutput, OpenRound, DeadlineHit, RoundOutput, RoundAbsent,
       Synthesize, Amend, InMemory, vars
  <2>2. \/ loop'.turn = 1 \/ loop'.turn = loop.turn + 1
    BY <1>0, <1>2 DEF InitialOutput, OpenRound, DeadlineHit, RoundOutput, RoundAbsent,
       Synthesize, Amend, Go, Working, Loops
  <2>3. loop'.turn >= 1
    BY <1>0, <2>2
  <2>4. loop'.step \notin {"ballot", "report", "close"}
    BY <1>0, <1>2 DEF InitialOutput, OpenRound, DeadlineHit, RoundOutput, RoundAbsent,
       Synthesize, Amend, Go, Working, Loops
  <2> QED BY <1>1, <2>1, <2>3, <2>4
<1>3. CASE CommitRound \/ CommitRounds
  <2>1. \E step, round, data : Save(step, round, data)
    BY <1>3 DEF CommitRound, CommitRounds
  <2>2. pc' = "body" /\ ckpt'.data = mem'
    BY <1>0, <2>1 DEF Save
  <2>3. loop'.turn \in {1, loop.turn} /\ loop'.step \in {"rounds", "open", "synthesize"}
    BY <1>0, <1>3 DEF CommitRound, CommitRounds, Go, Loops
  <2> QED BY <1>0, <1>1, <2>2, <2>3
<1>4. CASE CommitInitial
  <2>1. pc' = "body" /\ ckpt'.data = mem' /\ mem' = [mem EXCEPT !.rounds = Append(@, 0)]
    BY <1>0, <1>4 DEF CommitInitial, Save
  <2>2. loop'.turn = 1 /\ loop'.step # "ballot"
    BY <1>0, <1>4 DEF CommitInitial, Go, Loops
  <2>3. mem'.votes = mem.votes /\ mem.votes = <<>>
    BY <1>0, <1>4, <2>1 DEF CommitInitial, Working, CommitInv, Fields
  <2>4. FullBallots(mem'.claims, mem'.votes)
    BY <2>3, NoBallots
  <2> QED BY <2>1, <2>2, <2>4 DEF BallotInv
<1>5. CASE CommitSynthesis \/ CommitVote \/ CommitReport
  <2>1. pc' = "body" /\ ckpt'.data = mem /\ mem' = mem
    BY <1>0, <1>5 DEF CommitSynthesis, CommitVote, CommitReport, Save
  <2>2. loop'.turn = 1 /\ (loop'.step = "ballot" => CommitSynthesis)
    BY <1>0, <1>5 DEF CommitSynthesis, CommitVote, CommitReport, Go, Loops
  <2>3. CommitSynthesis => mem.votes = <<>>
    BY <1>0 DEF CommitSynthesis, Working, CommitInv
  <2>4. loop'.step = "ballot" =>
          \A i \in DOMAIN mem'.votes : \E k \in 1 .. loop'.turn - 1 : mem'.votes[i].voter = Participants[k]
    BY <2>1, <2>2, <2>3
  <2> QED BY <1>0, <2>1, <2>2, <2>4 DEF BallotInv
<1>6. CASE VoteAbsent \/ CastBallot
  <2>1. /\ loop' = [loop EXCEPT !.turn = @ + 1] /\ ckpt' = ckpt
        /\ loop.step = "ballot"
    BY <1>6 DEF VoteAbsent, CastBallot, InMemory, Working
  <2>2. loop'.turn = loop.turn + 1 /\ loop'.turn - 1 = loop.turn /\ loop'.turn >= 1
    BY <1>0, <2>1 DEF Loops
  <2>3. CASE CastBallot
    <3>1. /\ FullBallots(mem'.claims, mem'.votes)
          /\ \A i \in DOMAIN mem'.votes :
               \E k \in 1 .. loop.turn : mem'.votes[i].voter = Participants[k]
      BY <2>3, CastIsFull
    <3> QED BY <1>0, <2>1, <2>2, <3>1 DEF BallotInv
  <2>4. CASE VoteAbsent
    <3>1. mem'.claims = mem.claims /\ mem'.votes = mem.votes
      BY <1>0, <2>4 DEF VoteAbsent, Fields
    <3>2. \A i \in DOMAIN mem.votes :
            \E k \in 1 .. loop.turn : mem.votes[i].voter = Participants[k]
      <4>1. \A k \in 1 .. loop.turn - 1 : k \in 1 .. loop.turn
        BY <1>0
      <4> QED BY <1>0, <2>1, <4>1 DEF BallotInv
    <3> QED BY <1>0, <2>1, <2>2, <3>1, <3>2 DEF BallotInv
  <2> QED BY <1>6, <2>3, <2>4
<1>7. CASE EnterPhase \/ Close
  <2>1. UNCHANGED <<loop, mem, ckpt>>
    BY <1>7 DEF EnterPhase, Close
  <2> QED BY <1>0, <2>1 DEF BallotInv
<1> QED BY <1>2, <1>3, <1>4, <1>5, <1>6, <1>7 DEF DebateBody

\* The steps of the rest of the session.
LEMMA BallotsOutside ==
  DebateInv /\ CommitInv /\ BallotInv
    /\ (DebatePrelude \/ DebateClosing \/ DebateStepError \/ (Returned /\ Outside)
        \/ DebateCrash \/ DebateFailSession \/ DebateResume)
  => BallotInv'
<1> SUFFICES ASSUME DebateInv, CommitInv, BallotInv,
                    DebatePrelude \/ DebateClosing \/ DebateStepError \/ (Returned /\ Outside)
                      \/ DebateCrash \/ DebateFailSession \/ DebateResume
             PROVE  BallotInv'
  OBVIOUS
<1>0. FullBallots(ckpt.data.claims, ckpt.data.votes) /\ loop.turn >= 1
  BY DEF BallotInv
<1>1. CASE DebatePrelude \/ DebateClosing \/ DebateStepError \/ (Returned /\ Outside)
  <2>1. Outside
    BY <1>1 DEF DebatePrelude, DebateClosing, DebateStepError
  <2>2. pc' \in {"idle", "prelude", "body"} => pc \in {"idle", "prelude", "body"}
    BY <1>1 DEF DebatePrelude, Start, PreludeAdvance, PreludeCommit,
       DebateClosing, CloseStep, EnterAction, BlockAction, DispatchAction, RefuseAction,
       SkipAction, CommitAction, EnterObserve, ObserveBuiltin, ObserveSource, ObserveDone,
       CommitObserve, EnterFinished, PersistFinish, EmitFinalized, DebateStepError, StepError,
       Returned, vars
  <2> QED BY <2>1, <2>2 DEF Outside, BallotInv
<1>2. CASE DebateCrash
  BY <1>0, <1>2 DEF DebateCrash, Crash, Forget, NoLoop, BallotInv
<1>3. CASE DebateFailSession
  <2>1. pc' = "down" /\ loop'.turn = 1
    BY <1>3 DEF DebateFailSession, FailSession, Forget, NoLoop
  <2>2. ckpt'.data.claims = ckpt.data.claims /\ ckpt'.data.votes = ckpt.data.votes
    BY <1>3 DEF DebateFailSession, DebateInv, Shapes, Fields
  <2> QED BY <1>0, <2>1, <2>2 DEF BallotInv
<1>4. CASE DebateResume
  <2>1. ckpt' = ckpt
    BY <1>4 DEF DebateResume
  <2>2. CASE AlreadyFinished
    BY <1>0, <1>4, <2>1, <2>2 DEF DebateResume, Resume, BallotInv
  <2>3. CASE ~AlreadyFinished
    <3>1. loop'.step = RestoredStep /\ mem' = ckpt.data /\ loop'.turn = 1
      BY <1>4, <2>3, RestoredLoop DEF DebateResume, NoLoop
    <3>2. RestoredStep = "ballot" => ckpt.data.votes = <<>>
      <4>1. RestoredStep = "ballot" => Rank[ckpt.step] = 4
        BY RankNames DEF RestoredStep, DebateInv, Shapes
      <4> QED BY <4>1 DEF CommitInv
    <3> HIDE DEF RestoredStep
    <3> QED BY <1>0, <2>1, <3>1, <3>2 DEF BallotInv
  <2> QED BY <2>2, <2>3
<1> QED BY <1>1, <1>2, <1>3, <1>4

LEMMA BallotInvariant == DebateSpec => []BallotInv
<1>1. DebateInit => BallotInv
  <2> SUFFICES ASSUME DebateInit PROVE BallotInv
    OBVIOUS
  <2>1. /\ ckpt.data.claims = <<>> /\ ckpt.data.votes = <<>> /\ mem.votes = <<>>
        /\ loop.turn = 1 /\ loop.step = "initial"
    BY DEF DebateInit, NoCheckpoint, NoDebate, NoLoop
  <2> QED BY <2>1, NoBallots DEF BallotInv
<1>2. DebateInv /\ CommitInv /\ CommitInv' /\ BallotInv /\ [DebateNext]_debateVars => BallotInv'
  <2>1. CASE UNCHANGED debateVars
    BY <2>1 DEF debateVars, vars, BallotInv
  <2> QED
    BY <2>1, BallotsKept, BallotsOutside DEF DebateNext, DebateEngineStep
<1> QED BY <1>1, <1>2, CommitInvariant, PTL DEF DebateSpec

\* Whatever is stored of the vote, after however many absences, refused ballots,
\* crashes and resumes, is a full ballot of each of its voters on the claims of
\* the same checkpoint.
THEOREM BallotsAreFull == DebateSpec => []BallotsMatchClaims
<1>1. BallotInv => BallotsMatchClaims
  <2> SUFFICES ASSUME FullBallots(ckpt.data.claims, ckpt.data.votes) PROVE BallotsMatchClaims
    BY DEF BallotInv
  <2> DEFINE votes == ckpt.data.votes
             active == ActiveIn(ckpt.data.claims)
  <2>1. ASSUME NEW i \in DOMAIN votes
        PROVE {votes[j].claim : j \in {k \in DOMAIN votes : votes[k].voter = votes[i].voter}} = active
    <3>1. ASSUME NEW j \in DOMAIN votes PROVE votes[j].claim \in active
      <4>1. votes \in Seq(Vote(ckpt.data.claims))
        BY DEF FullBallots
      <4>2. votes[j] \in Vote(ckpt.data.claims)
        BY <4>1
      <4> QED BY <4>2 DEF Vote
    <3>2. \A c \in active : \E j \in DOMAIN votes : votes[j].voter = votes[i].voter /\ votes[j].claim = c
      BY DEF FullBallots
    <3> HIDE DEF votes, active
    <3> QED BY <3>1, <3>2
  <2>2. \A i, j \in DOMAIN votes : 
          votes[i].claim = votes[j].claim /\ votes[i].voter = votes[j].voter => i = j
    BY DEF FullBallots
  <2> QED BY <2>1, <2>2 DEF BallotsMatchClaims
<1> QED BY <1>1, BallotInvariant, PTL

-----------------------------------------------------------------------------
(* Claims and merges.                                                      *)

\* Induction over the natural numbers, for a set.
LEMMA Least ==
  ASSUME NEW T, T \subseteq Nat, T # {}
  PROVE  \E x \in T : \A y \in T : x <= y
<1> DEFINE Less == {p \in Nat \X Nat : p[1] < p[2]}
<1>1. IsWellFoundedOn(Less, Nat)
  BY NatLessThanWellFounded DEF OpToRel
<1>2. \E x \in T : \A y \in T : ~(<<y, x>> \in Less)
  <2> HIDE DEF Less
  <2> QED BY <1>1, WFMin, Zenon
<1>3. PICK x \in T : \A y \in T : ~(<<y, x>> \in Less)
  BY <1>2
<1>4. ASSUME NEW y \in T PROVE x <= y
  <2>1. ~(<<y, x>> \in Less) /\ x \in Nat /\ y \in Nat
    BY <1>3
  <2> QED BY <2>1
<1> QED BY <1>4

LEMMA Induction ==
  ASSUME NEW S, 0 \in S, \A n \in Nat : n \in S => n + 1 \in S
  PROVE  \A n \in Nat : n \in S
<1> DEFINE T == {n \in Nat : n \notin S}
<1>1. ASSUME T # {} PROVE FALSE
  <2>1. PICK x \in T : \A y \in T : x <= y
    BY <1>1, Least, T \subseteq Nat
  <2>2. x # 0 /\ x \in Nat
    OBVIOUS
  <2>3. x - 1 \in Nat /\ x - 1 \notin T
    BY <2>1, <2>2
  <2> QED BY <2>1, <2>2, <2>3
<1> QED BY <1>1

\* f holds what the first n steps make of first.
StepsOn(S, n) == [1 .. n -> [S -> S]]

Iterates(f, S, first, n, step) ==
  f \in [0 .. n -> S] /\ f[0] = first /\ \A k \in 1 .. n : f[k] = step[k][f[k - 1]]

LEMMA Iterated ==
  ASSUME NEW S, NEW first \in S, NEW n \in Nat, NEW step \in StepsOn(S, n)
  PROVE  \E f : Iterates(f, S, first, n, step)
<1>0. step \in [1 .. n -> [S -> S]]
  BY DEF StepsOn
<1> DEFINE Is(f, m) == /\ f \in [0 .. m -> S] /\ f[0] = first
                       /\ \A k \in 1 .. m : f[k] = step[k][f[k - 1]]
           P == {m \in Nat : m <= n => \E f : Is(f, m)}
<1>1. 0 \in P
  <2>1. Is([k \in 0 .. 0 |-> first], 0)
    OBVIOUS
  <2> QED BY <2>1
<1>2. ASSUME NEW m \in Nat, m \in P, m + 1 <= n PROVE \E f : Is(f, m + 1)
  <2>1. PICK f : Is(f, m)
    BY <1>2
  <2> DEFINE g == [k \in 0 .. m + 1 |-> IF k <= m THEN f[k] ELSE step[m + 1][f[m]]]
  <2>2. f[m] \in S /\ m + 1 \in 1 .. n
    BY <1>2, <2>1
  <2>3. step[m + 1][f[m]] \in S
    BY <1>0, <2>2
  <2>4. g \in [0 .. m + 1 -> S] /\ g[0] = first
    BY <2>1, <2>3
  <2>5. ASSUME NEW k \in 1 .. m + 1 PROVE g[k] = step[k][g[k - 1]]
    BY <2>1, <2>5
  <2> QED BY <2>4, <2>5
<1>3. \A m \in Nat : m \in P => m + 1 \in P
  BY <1>2
<1>4. \A m \in Nat : m \in P
  <2> HIDE DEF P
  <2> QED BY <1>1, <1>3, Induction
<1> QED BY <1>4 DEF Iterates

Agents == Panel \cup {Synthesizer}

Claim == [text : Texts, by : SUBSET Agents, synthesis : BOOLEAN, active : BOOLEAN, merged : Nat]

\* rank orders the claims that were merged away by when that happened, up to now.
Ranks(claims, rank, now) ==
  \A i \in DOMAIN claims :
    ~claims[i].active =>
      /\ rank[i] < now
      /\ ~claims[claims[i].merged].active => rank[i] < rank[claims[i].merged]

\* What was merged away left its proposers with the claim it went into, and the
\* claims merged away are in an order in which each went into a later one, if that
\* is gone too.
Followed(claims) ==
  /\ claims \in Seq(Claim)
  /\ \A i \in DOMAIN claims :
       ~claims[i].active => /\ claims[i].merged \in DOMAIN claims
                            /\ claims[i].by \subseteq claims[claims[i].merged].by
  /\ \E now \in Nat : \E rank \in [DOMAIN claims -> Nat] : Ranks(claims, rank, now)

LEMMA ClaimFields ==
  ASSUME NEW claims \in Seq(Claim)
  PROVE  /\ Len(claims) \in Nat /\ DOMAIN claims = 1 .. Len(claims)
         /\ \A i \in DOMAIN claims : claims[i] \in Claim
  OBVIOUS

\* A new claim is nobody's target.
LEMMA AppendFollowed ==
  ASSUME NEW claims, Followed(claims), NEW c \in Claim, c.active
  PROVE  Followed(Append(claims, c))
<1> DEFINE n == Len(claims)
           all == Append(claims, c)
<1>1. claims \in Seq(Claim) /\ n \in Nat /\ DOMAIN claims = 1 .. n
  BY DEF Followed
<1>2. /\ all \in Seq(Claim) /\ DOMAIN all = 1 .. n + 1 /\ all[n + 1] = c
      /\ \A i \in 1 .. n : all[i] = claims[i]
  BY <1>1
<1> HIDE DEF n, all
<1>3. PICK now \in Nat, rank \in [1 .. n -> Nat] : Ranks(claims, rank, now)
  BY <1>1 DEF Followed
<1>4. \A i \in 1 .. n : ~claims[i].active => claims[i].merged \in 1 .. n
  BY <1>1 DEF Followed
<1>5. ASSUME NEW i \in DOMAIN all, ~all[i].active
      PROVE  all[i].merged \in DOMAIN all /\ all[i].by \subseteq all[all[i].merged].by
  <2>1. i \in 1 .. n /\ all[i] = claims[i] /\ ~claims[i].active
    BY <1>1, <1>2, <1>5
  <2>2. /\ claims[i].merged \in 1 .. n
        /\ claims[i].by \subseteq claims[claims[i].merged].by
    BY <1>1, <1>4, <2>1 DEF Followed
  <2> QED BY <1>1, <1>2, <2>1, <2>2
<1> DEFINE later == [i \in 1 .. n + 1 |-> IF i = n + 1 THEN 0 ELSE rank[i]]
<1>6. later \in [1 .. n + 1 -> Nat] /\ \A i \in 1 .. n : later[i] = rank[i]
  BY <1>1, <1>3
<1>7. Ranks(all, later, now)
  <2> HIDE DEF later
  <2>1. ASSUME NEW i \in DOMAIN all, ~all[i].active
        PROVE  /\ later[i] < now
               /\ ~all[all[i].merged].active => later[i] < later[all[i].merged]
    <3>1. i \in 1 .. n /\ all[i] = claims[i] /\ later[i] = rank[i]
      BY <1>1, <1>2, <1>6, <2>1
    <3>2. claims[i].merged \in 1 .. n
      BY <1>4, <2>1, <3>1
    <3>3. rank[i] < now /\ (~claims[claims[i].merged].active => rank[i] < rank[claims[i].merged])
      BY <1>1, <1>3, <2>1, <3>1 DEF Ranks
    <3> QED BY <1>2, <1>6, <3>1, <3>2, <3>3
  <2> QED BY <2>1 DEF Ranks
<1> QED BY <1>2, <1>3, <1>5, <1>6, <1>7 DEF Followed, all

\* A claim that is proposed again has an additional proposer and is active.
LEMMA ReviveFollowed ==
  ASSUME NEW claims, Followed(claims), NEW m \in DOMAIN claims, NEW agent \in Agents
  PROVE  Followed([claims EXCEPT ![m].by = @ \cup {agent}, ![m].active = TRUE])
<1> DEFINE all == [claims EXCEPT ![m].by = @ \cup {agent}, ![m].active = TRUE]
           n == Len(claims)
<1>1. claims \in Seq(Claim) /\ n \in Nat /\ DOMAIN claims = 1 .. n /\ claims[m] \in Claim
  BY DEF Followed
<1>2. /\ DOMAIN all = 1 .. n /\ \A i \in 1 .. n : i # m => all[i] = claims[i]
      /\ all[m].active = TRUE /\ all[m].by = claims[m].by \cup {agent}
      /\ all[m].merged = claims[m].merged /\ all[m] \in Claim
  BY <1>1 DEF Claim
<1>3. all = [i \in 1 .. n |-> all[i]]
  BY <1>1
<1> HIDE DEF n, all
<1>4. all \in Seq(Claim)
  <2>1. \A i \in 1 .. n : all[i] \in Claim
    BY <1>1, <1>2
  <2> QED BY <1>1, <1>3, <2>1
<1>5. PICK now \in Nat, rank \in [1 .. n -> Nat] : Ranks(claims, rank, now)
  BY <1>1 DEF Followed
<1>6. \A i \in DOMAIN all : ~all[i].active => i # m /\ all[i] = claims[i]
  BY <1>2
<1>7. \A i \in DOMAIN claims : claims[i].by \subseteq all[i].by /\ (claims[i].active => all[i].active)
  BY <1>1, <1>2
<1>8. \A i \in DOMAIN all :
        ~all[i].active => all[i].merged \in DOMAIN all /\ all[i].by \subseteq all[all[i].merged].by
  BY <1>1, <1>2, <1>6, <1>7 DEF Followed
<1>9. Ranks(all, rank, now)
  BY <1>1, <1>2, <1>5, <1>6, <1>7, <1>8 DEF Ranks
<1> QED BY <1>1, <1>2, <1>4, <1>5, <1>8, <1>9 DEF Followed, all

LEMMA UpsertFollowed ==
  ASSUME NEW claims, Followed(claims), NEW text \in Texts, NEW synthesis \in BOOLEAN,
         NEW agent \in Agents
  PROVE  Followed(Upsert(claims, text, synthesis, agent))
<1> DEFINE same == {i \in DOMAIN claims : claims[i].text = text}
<1>1. CASE same = {}
  <2>1. NewClaim(text, synthesis, agent) \in Claim /\ NewClaim(text, synthesis, agent).active
    BY DEF NewClaim, Claim
  <2>2. Upsert(claims, text, synthesis, agent) = Append(claims, NewClaim(text, synthesis, agent))
    BY <1>1 DEF Upsert
  <2> QED BY <2>1, <2>2, AppendFollowed
<1>2. CASE same # {}
  <2>1. same \subseteq Nat
    <3>1. claims \in Seq(Claim)
      BY DEF Followed
    <3> QED BY <3>1
  <2>2. Min(same) \in same
    <3> HIDE DEF same
    <3>1. \E x \in same : \A y \in same : x <= y
      BY <1>2, <2>1, Least
    <3> QED BY <3>1 DEF Min
  <2> DEFINE m == Min(same)
  <2>3. Upsert(claims, text, synthesis, agent)
          = [claims EXCEPT ![m].by = @ \cup {agent}, ![m].active = TRUE]
    BY <1>2 DEF Upsert
  <2>4. m \in DOMAIN claims
    BY <2>2
  <2> HIDE DEF m, same
  <2>5. Followed([claims EXCEPT ![m].by = @ \cup {agent}, ![m].active = TRUE])
    BY <2>4, ReviveFollowed, Zenon
  <2> QED BY <2>3, <2>5, Zenon
<1> QED BY <1>1, <1>2

\* A merge: what goes away goes last, into a claim that is still active.
LEMMA MergeFollowed ==
  ASSUME NEW claims, Followed(claims), NEW source, NEW target
  PROVE  /\ Followed(Merge(claims, source, target))
         /\ DOMAIN Merge(claims, source, target) = DOMAIN claims
<1> DEFINE n == Len(claims)
<1>1. claims \in Seq(Claim) /\ n \in Nat /\ DOMAIN claims = 1 .. n
  BY DEF Followed
<1>2. CASE ~(source # target /\ {source, target} \subseteq ActiveIn(claims))
  <2>1. Merge(claims, source, target) = claims
    BY <1>2 DEF Merge
  <2> QED BY <2>1
<1>3. CASE source # target /\ {source, target} \subseteq ActiveIn(claims)
  <2> DEFINE all == [claims EXCEPT ![source].active = FALSE, ![source].merged = target,
                                   ![target].by = @ \cup claims[source].by]
  <2>1. /\ source \in 1 .. n /\ target \in 1 .. n /\ source # target
        /\ claims[source].active /\ claims[target].active
        /\ claims[source] \in Claim /\ claims[target] \in Claim
    BY <1>1, <1>3 DEF ActiveIn
  <2>2. Merge(claims, source, target) = all
    BY <1>3 DEF Merge
  <2>3. /\ all = [i \in 1 .. n |-> all[i]] /\ DOMAIN all = 1 .. n
        /\ \A i \in 1 .. n : i \notin {source, target} => all[i] = claims[i]
        /\ all[source] = [claims[source] EXCEPT !.active = FALSE, !.merged = target]
        /\ all[target] = [claims[target] EXCEPT !.by = @ \cup claims[source].by]
    BY <1>1, <2>1
  <2> HIDE DEF all
  <2>a. /\ all[source].active = FALSE /\ all[source].merged = target
        /\ all[source].by = claims[source].by /\ all[source] \in Claim
    <3>1. target \in Nat
      BY <1>1, <2>1
    <3> DEFINE gone == [claims[source] EXCEPT !.active = FALSE]
    <3>2. gone \in Claim /\ gone.active = FALSE /\ gone.by = claims[source].by
      BY <2>1 DEF Claim
    <3>3. all[source] = [gone EXCEPT !.merged = target]
      BY <2>3
    <3> HIDE DEF gone
    <3> QED BY <3>1, <3>2, <3>3 DEF Claim
  <2>b. /\ all[target].active = claims[target].active
        /\ all[target].by = claims[target].by \cup claims[source].by /\ all[target] \in Claim
    <3> DEFINE by == claims[target].by \cup claims[source].by
               kept == [claims[target] EXCEPT !.by = by]
    <3>1. by \subseteq Agents
      BY <2>1 DEF Claim
    <3>2. all[target] = kept
      BY <2>3
    <3> HIDE DEF by
    <3>3. kept.active = claims[target].active /\ kept.by = by /\ kept \in Claim
      BY <2>1, <3>1 DEF Claim
    <3> HIDE DEF kept
    <3> QED BY <3>2, <3>3 DEF by
  <2>4. /\ all[source].active = FALSE /\ all[source].merged = target
        /\ all[source].by = claims[source].by /\ all[source] \in Claim
        /\ all[target].active = claims[target].active
        /\ all[target].by = claims[target].by \cup claims[source].by /\ all[target] \in Claim
    BY <2>a, <2>b
  <2>5. all \in Seq(Claim)
    <3>1. \A i \in 1 .. n : all[i] \in Claim
      BY <1>1, <2>3, <2>4
    <3> HIDE DEF n
    <3> QED BY <1>1, <2>3, <3>1
  <2>6. /\ \A i \in 1 .. n : claims[i].by \subseteq all[i].by
        /\ \A i \in 1 .. n : i # source => (all[i].active <=> claims[i].active)
        /\ \A i \in 1 .. n : i \notin {source, target} => all[i] = claims[i]
    BY <2>3, <2>4
  <2>7. ASSUME NEW i \in 1 .. n, ~all[i].active
        PROVE  all[i].merged \in 1 .. n /\ all[i].by \subseteq all[all[i].merged].by
    <3>1. CASE i = source
      BY <2>1, <2>4, <3>1
    <3>2. CASE i # source
      <4>1. all[i] = claims[i] /\ ~claims[i].active
        BY <2>1, <2>6, <2>7, <3>2
      <4>2. claims[i].merged \in 1 .. n /\ claims[i].by \subseteq claims[claims[i].merged].by
        BY <1>1, <4>1 DEF Followed
      <4> QED BY <2>6, <4>1, <4>2
    <3> QED BY <3>1, <3>2
  <2>8. PICK now \in Nat, rank \in [1 .. n -> Nat] : Ranks(claims, rank, now)
    BY <1>1 DEF Followed
  <2> DEFINE later == [rank EXCEPT ![source] = now]
  <2>9. later \in [1 .. n -> Nat] /\ later[source] = now /\ \A i \in 1 .. n : i # source => later[i] = rank[i]
    BY <2>1, <2>8
  <2>10. Ranks(all, later, now + 1)
    <3> HIDE DEF later, n
    <3>1. ASSUME NEW i \in 1 .. n, ~all[i].active
          PROVE  /\ later[i] < now + 1
                 /\ ~all[all[i].merged].active => later[i] < later[all[i].merged]
      <4>1. CASE i = source
        BY <2>1, <2>4, <2>6, <2>8, <2>9, <4>1
      <4>2. CASE i # source
        <5>1. all[i] = claims[i] /\ ~claims[i].active /\ later[i] = rank[i]
          BY <2>1, <2>6, <2>9, <3>1, <4>2
        <5>2. claims[i].merged \in 1 .. n
          BY <1>1, <5>1 DEF Followed
        <5>3. rank[i] < now /\ (~claims[claims[i].merged].active => rank[i] < rank[claims[i].merged])
          BY <1>1, <2>8, <5>1 DEF Ranks
        <5>4. rank[i] \in Nat /\ now \in Nat
          BY <2>8
        <5>5. CASE claims[i].merged = source
          BY <2>9, <5>1, <5>3, <5>4, <5>5
        <5>6. CASE claims[i].merged # source
          BY <2>6, <2>9, <5>1, <5>2, <5>3, <5>4, <5>6
        <5> QED BY <5>5, <5>6
      <4> QED BY <4>1, <4>2
    <3> QED BY <2>3, <3>1 DEF Ranks
  <2>11. Followed(all)
    <3> HIDE DEF later
    <3>1. now + 1 \in Nat /\ later \in [DOMAIN all -> Nat]
      BY <2>3, <2>8, <2>9
    <3>2. \E t \in Nat : \E r \in [DOMAIN all -> Nat] : Ranks(all, r, t)
      BY <2>10, <3>1
    <3> HIDE DEF n
    <3> QED BY <2>3, <2>5, <2>7, <3>2 DEF Followed
  <2> QED BY <1>1, <2>2, <2>3, <2>11
<1> QED BY <1>2, <1>3

\* Drafts, and merges, one after the other.
LEMMA DraftsFollowed ==
  ASSUME NEW claims, Followed(claims), NEW n \in Nat, NEW drafts \in [1 .. n -> Texts],
         NEW agent \in Agents
  PROVE  Followed(AddDrafts(claims, drafts, agent))
<1> DEFINE S == {c \in Seq(Claim) : Followed(c)}
           add(c, k) == Upsert(c, drafts[k], drafts[k] \in SynthesisTexts, agent)
           step == [k \in 1 .. n |-> [c \in S |-> add(c, k)]]
<1>1. claims \in S
  BY DEF Followed
<1>2. Len(drafts) = n
  BY DEF Len
<1>3. ASSUME NEW k \in 1 .. n, NEW c \in S PROVE add(c, k) \in S
  <2>1. Followed(c) /\ drafts[k] \in Texts
    OBVIOUS
  <2>2. (drafts[k] \in SynthesisTexts) \in BOOLEAN
    OBVIOUS
  <2>3. Followed(add(c, k))
    BY <2>1, <2>2, UpsertFollowed, Zenon
  <2> QED BY <2>3 DEF Followed
<1> HIDE DEF S, add
<1>a. step \in StepsOn(S, n)
  BY <1>3 DEF StepsOn
<1>4. \A k \in 1 .. n : \A c \in S : step[k][c] = add(c, k)
  OBVIOUS
<1> HIDE DEF step
<1>b. PICK f : Iterates(f, S, claims, n, step)
  BY <1>1, <1>a, Iterated
<1>5. f \in [0 .. n -> S] /\ f[0] = claims /\ \A k \in 1 .. n : f[k] = step[k][f[k - 1]]
  BY <1>b DEF Iterates
<1> DEFINE Is(after) == after = [k \in 0 .. n |-> IF k = 0 THEN claims ELSE add(after[k - 1], k)]
           chosen == CHOOSE after : Is(after)
<1>6. Is(f)
  <2>1. ASSUME NEW k \in 0 .. n PROVE f[k] = IF k = 0 THEN claims ELSE add(f[k - 1], k)
    <3>1. CASE k # 0
      <4>1. k \in 1 .. n /\ f[k - 1] \in S
        BY <1>5, <3>1
      <4> QED BY <1>4, <1>5, <3>1, <4>1
    <3> QED BY <1>5, <3>1
  <2> QED BY <1>5, <2>1
<1>7. Is(chosen)
  <2> HIDE DEF Is
  <2> QED BY <1>6
<1>8. chosen[0] = claims /\ \A k \in 1 .. n : chosen[k] = add(chosen[k - 1], k)
  <2> HIDE DEF chosen
  <2> QED BY <1>7
<1> DEFINE P == {k \in Nat : k <= n => chosen[k] \in S}
<1> HIDE DEF chosen
<1>9. \A k \in Nat : k \in P
  <2>1. 0 \in P
    BY <1>1, <1>8
  <2>2. ASSUME NEW k \in Nat, k \in P PROVE k + 1 \in P
    <3>1. k + 1 <= n => k + 1 \in 1 .. n /\ chosen[k] \in S /\ (k + 1) - 1 = k
      BY <2>2
    <3> QED BY <1>3, <1>8, <3>1
  <2> HIDE DEF P
  <2> QED BY <2>1, <2>2, Induction
<1>10. chosen[n] \in S
  BY <1>9
<1>11. AddDrafts(claims, drafts, agent) = chosen[n]
  BY <1>2 DEF AddDrafts, chosen, add
<1> QED BY <1>10, <1>11 DEF S

LEMMA MergesFollowed ==
  ASSUME NEW claims, Followed(claims), NEW into
  PROVE  Followed(MergeEach(claims, into))
<1> DEFINE S == {c \in Seq(Claim) : Followed(c)}
           n == Len(claims)
           merge(c, k) == IF k \in DOMAIN into THEN Merge(c, k, into[k]) ELSE c
           step == [k \in 1 .. n |-> [c \in S |-> merge(c, k)]]
<1>1. claims \in S
  BY DEF Followed
<1>2. n \in Nat
  BY DEF Followed
<1>3. ASSUME NEW k \in 1 .. n, NEW c \in S PROVE merge(c, k) \in S
  <2>1. Followed(c) /\ c \in S
    OBVIOUS
  <2>2. Followed(merge(c, k))
    BY <2>1, MergeFollowed
  <2> QED BY <2>2 DEF Followed
<1> HIDE DEF S, merge, n
<1>a. step \in StepsOn(S, n)
  BY <1>3 DEF StepsOn
<1>4. \A k \in 1 .. n : \A c \in S : step[k][c] = merge(c, k)
  OBVIOUS
<1> HIDE DEF step
<1>b. PICK f : Iterates(f, S, claims, n, step)
  BY <1>1, <1>2, <1>a, Iterated
<1>5. f \in [0 .. n -> S] /\ f[0] = claims /\ \A k \in 1 .. n : f[k] = step[k][f[k - 1]]
  BY <1>b DEF Iterates
<1> DEFINE Is(after) == after = [k \in 0 .. n |-> IF k = 0 THEN claims ELSE merge(after[k - 1], k)]
           chosen == CHOOSE after : Is(after)
<1>6. Is(f)
  <2>1. ASSUME NEW k \in 0 .. n PROVE f[k] = IF k = 0 THEN claims ELSE merge(f[k - 1], k)
    <3>1. CASE k # 0
      <4>1. k \in 1 .. n /\ f[k - 1] \in S
        BY <1>2, <1>5, <3>1
      <4> QED BY <1>4, <1>5, <3>1, <4>1
    <3> QED BY <1>5, <3>1
  <2> QED BY <1>5, <2>1
<1>7. Is(chosen)
  <2> HIDE DEF Is
  <2> QED BY <1>6
<1>8. chosen[0] = claims /\ \A k \in 1 .. n : chosen[k] = merge(chosen[k - 1], k)
  <2> HIDE DEF chosen
  <2> QED BY <1>2, <1>7
<1> DEFINE P == {k \in Nat : k <= n => chosen[k] \in S}
<1> HIDE DEF chosen
<1>9. \A k \in Nat : k \in P
  <2>1. 0 \in P
    BY <1>1, <1>8
  <2>2. ASSUME NEW k \in Nat, k \in P PROVE k + 1 \in P
    <3>1. k + 1 <= n => k + 1 \in 1 .. n /\ chosen[k] \in S /\ (k + 1) - 1 = k
      BY <1>2, <2>2
    <3> QED BY <1>3, <1>8, <3>1
  <2> HIDE DEF P
  <2> QED BY <2>1, <2>2, Induction
<1>10. chosen[n] \in S
  BY <1>2, <1>9
<1>11. MergeEach(claims, into) = chosen[n]
  BY DEF MergeEach, chosen, merge, n
<1> QED BY <1>10, <1>11 DEF S

\* What becomes of the claims in a step of the workflow.
LEMMA JudgementFollowed ==
  ASSUME NEW claims, Followed(claims), NEW judgement \in Judgements(claims), NEW agent \in Agents
  PROVE  Followed(ApplyJudgement(claims, judgement, agent))
<1> DEFINE revised == IF judgement.verdict = "revise"
                        THEN Upsert(claims, judgement.text, FALSE, agent) ELSE claims
<1>1. judgement.verdict = "revise" => judgement.text \in Texts
  BY DEF Judgements
<1>2. Followed(revised)
  BY <1>1, UpsertFollowed
<1> HIDE DEF revised
<1>3. Followed(IF judgement.into # 0 THEN Merge(revised, judgement.from, judgement.into)
               ELSE revised)
  BY <1>2, MergeFollowed
<1> QED BY <1>3 DEF ApplyJudgement, revised

LEMMA DedupedFollowed ==
  ASSUME NEW claims, Followed(claims)
  PROVE  \A c \in Deduped(claims) : Followed(c)
BY MergesFollowed DEF Deduped

LEMMA SynthesizedFollowed ==
  ASSUME NEW claims, Followed(claims), NEW text \in Texts
  PROVE  Followed(Synthesized(claims, text))
<1>1. NewClaim(text, TRUE, Synthesizer) \in Claim /\ NewClaim(text, TRUE, Synthesizer).active
  BY DEF NewClaim, Claim, Agents
<1>2. Followed(Append(claims, NewClaim(text, TRUE, Synthesizer)))
  BY <1>1, AppendFollowed
<1> QED BY <1>2, MergesFollowed DEF Synthesized

LEMMA AmendedFollowed ==
  ASSUME NEW claims, Followed(claims), NEW text \in Texts, NEW m
  PROVE  Followed([claims EXCEPT ![m].text = text])
<1> DEFINE all == [claims EXCEPT ![m].text = text]
           n == Len(claims)
<1>1. claims \in Seq(Claim) /\ n \in Nat /\ DOMAIN claims = 1 .. n
  BY DEF Followed
<1>a. DOMAIN all = 1 .. n /\ all = [i \in 1 .. n |-> all[i]]
  BY <1>1
<1>b. ASSUME NEW i \in 1 .. n
      PROVE  /\ all[i] \in Claim /\ all[i].active = claims[i].active
             /\ all[i].by = claims[i].by /\ all[i].merged = claims[i].merged
  <2>1. all[i] = IF i = m THEN [claims[i] EXCEPT !.text = text] ELSE claims[i]
    BY <1>1
  <2>2. claims[i] \in Claim
    BY <1>1
  <2> HIDE DEF all, n
  <2> QED BY <2>1, <2>2 DEF Claim
<1> HIDE DEF all, n
<1>2. /\ DOMAIN all = 1 .. n /\ all = [i \in 1 .. n |-> all[i]]
      /\ \A i \in 1 .. n : /\ all[i] \in Claim /\ all[i].active = claims[i].active
                           /\ all[i].by = claims[i].by /\ all[i].merged = claims[i].merged
  BY <1>a, <1>b
<1>3. all \in Seq(Claim)
  BY <1>1, <1>2
<1>4. PICK now \in Nat, rank \in [1 .. n -> Nat] : Ranks(claims, rank, now)
  BY <1>1 DEF Followed
<1>5. \A i \in 1 .. n :
        ~all[i].active => all[i].merged \in 1 .. n /\ all[i].by \subseteq all[all[i].merged].by
  BY <1>1, <1>2 DEF Followed
<1>6. Ranks(all, rank, now)
  BY <1>1, <1>2, <1>4, <1>5 DEF Ranks
<1> QED BY <1>2, <1>3, <1>4, <1>5, <1>6 DEF Followed, all

\* The claims in memory and in the snapshot.
MergeInv == Followed(mem.claims) /\ Followed(ckpt.data.claims)

LEMMA NoClaimsFollowed == Followed(<<>>)
<1>1. <<>> \in Seq(Claim) /\ DOMAIN <<>> = {}
  OBVIOUS
<1>2. <<>> \in [DOMAIN <<>> -> Nat] /\ 0 \in Nat
  BY <1>1
<1>3. Ranks(<<>>, <<>>, 0)
  BY <1>1 DEF Ranks
<1>4. \E now \in Nat : \E rank \in [DOMAIN <<>> -> Nat] : Ranks(<<>>, rank, now)
  BY <1>2, <1>3
<1> QED BY <1>1, <1>4 DEF Followed

\* The claims a step of the workflow leaves.
LEMMA WorkFollowed ==
  ASSUME DebateInv, BallotInv, MergeInv,
         InitialOutput \/ RoundOutput \/ Synthesize \/ Amend
  PROVE  Followed(mem'.claims)
<1>0. DOMAIN mem = Fields /\ Followed(mem.claims) /\ loop.turn \in Nat /\ loop.turn >= 1
  BY DEF DebateInv, Shapes, MergeInv, BallotInv, Loops
<1>a. ASSUME loop.turn <= NP PROVE Participants[loop.turn] \in Agents
  <2>1. Participants \in Seq(Range(Participants))
    BY DebateRoles
  <2>2. loop.turn \in DOMAIN Participants
    BY <1>0, <1>a, <2>1 DEF NP
  <2> QED BY <2>2 DEF Agents, Panel, Range
<1>b. ASSUME NEW claims, NEW data, data = [mem EXCEPT !.claims = claims] PROVE data.claims = claims
  BY <1>0, <1>b DEF Fields
<1>1. CASE InitialOutput
  <2> DEFINE agent == Participants[loop.turn]
  <2>1. PICK drafts \in DraftLists :
          mem' = [mem EXCEPT !.claims = AddDrafts(mem.claims, drafts, agent)]
    BY <1>1 DEF InitialOutput
  <2>2. PICK n \in 0 .. MaxDrafts : drafts \in [1 .. n -> Texts]
    BY <2>1 DEF DraftLists
  <2>3. n \in Nat
    BY <2>2
  <2>4. agent \in Agents
    BY <1>1, <1>a DEF InitialOutput
  <2> HIDE DEF agent
  <2>5. Followed(AddDrafts(mem.claims, drafts, agent))
    BY <1>0, <2>2, <2>3, <2>4, DraftsFollowed
  <2> QED BY <1>b, <2>1, <2>5
<1>2. CASE RoundOutput
  <2> DEFINE agent == Participants[loop.turn]
             Added(drafts) == AddDrafts(mem.claims, Truncated(drafts, loop.budget), agent)
  <2>1. PICK drafts \in DraftLists :
          \E judged \in {<<>>} \cup {<<j>> : j \in Judgements(Added(drafts))} :
            mem' = [mem EXCEPT !.claims = IF judged = <<>> THEN Added(drafts)
                                          ELSE ApplyJudgement(Added(drafts), judged[1], agent)]
    BY <1>2 DEF RoundOutput
  <2>2. agent \in Agents
    BY <1>2, <1>a DEF RoundOutput
  <2>3. Followed(Added(drafts))
    <3>1. PICK n \in 0 .. MaxDrafts : drafts \in [1 .. n -> Texts]
      BY <2>1 DEF DraftLists
    <3>2. PICK m \in Nat : Truncated(drafts, loop.budget) \in [1 .. m -> Texts]
      <4>a. n \in Nat /\ loop.budget \in Int
        BY <3>1 DEF DebateInv, Shapes, Loops
      <4>b. drafts \in Seq(Texts) /\ Len(drafts) = n
        BY <3>1, <4>a
      <4>1. n \in Nat /\ drafts \in Seq(Texts) /\ Len(drafts) = n /\ loop.budget \in Int
        BY <4>a, <4>b
      <4>2. CASE loop.budget = 0
        BY <3>1, <4>1, <4>2 DEF Truncated
      <4>3. CASE loop.budget < 0
        <5>1. Truncated(drafts, loop.budget) \in [1 .. 0 -> Texts]
          BY <4>1, <4>3 DEF Truncated
        <5> QED BY <5>1
      <4>4. CASE loop.budget > 0
        <5> DEFINE m == IF n < loop.budget THEN n ELSE loop.budget
        <5>1. m \in 0 .. n /\ m \in Nat
          BY <4>1, <4>4
        <5>2. Truncated(drafts, loop.budget) = SubSeq(drafts, 1, m)
          BY <4>1, <4>4 DEF Truncated
        <5> HIDE DEF m
        <5>3. SubSeq(drafts, 1, m) \in [1 .. m -> Texts]
          <6>1. SubSeq(drafts, 1, m) \in Seq(Texts) /\ Len(SubSeq(drafts, 1, m)) = m
            BY <4>1, <5>1, SubSeqProperties
          <6> DEFINE kept == SubSeq(drafts, 1, m)
          <6> HIDE DEF kept
          <6>2. kept \in [1 .. m -> Texts]
            <7>1. kept \in Seq(Texts) /\ Len(kept) = m
              BY <6>1 DEF kept
            <7> QED BY <7>1
          <6> QED BY <6>2 DEF kept
        <5> QED BY <5>1, <5>2, <5>3
      <4> QED BY <4>1, <4>2, <4>3, <4>4
    <3> HIDE DEF agent
    <3> QED BY <1>0, <2>2, <3>2, DraftsFollowed
  <2> HIDE DEF agent, Added
  <2>4. PICK judged \in {<<>>} \cup {<<j>> : j \in Judgements(Added(drafts))} :
          mem' = [mem EXCEPT !.claims = IF judged = <<>> THEN Added(drafts)
                                        ELSE ApplyJudgement(Added(drafts), judged[1], agent)]
    BY <2>1
  <2>5. judged # <<>> => judged[1] \in Judgements(Added(drafts))
    BY <2>4
  <2>6. Followed(IF judged = <<>> THEN Added(drafts)
                 ELSE ApplyJudgement(Added(drafts), judged[1], agent))
    BY <2>2, <2>3, <2>5, JudgementFollowed
  <2> QED BY <1>b, <2>4, <2>6
<1>3. CASE Synthesize
  <2>1. PICK claims \in IF ~DedupPerRound \/ Len(mem.rounds) <= 1 THEN Deduped(mem.claims)
                        ELSE {mem.claims} :
          \/ mem' = [mem EXCEPT !.claims = claims]
          \/ \E text \in Texts : mem' = [mem EXCEPT !.claims = Synthesized(claims, text)]
    BY <1>3 DEF Synthesize
  <2>2. Followed(claims)
    BY <1>0, <2>1, DedupedFollowed
  <2>3. \A text \in Texts : Followed(Synthesized(claims, text))
    BY <2>2, SynthesizedFollowed
  <2> QED BY <1>b, <2>1, <2>2, <2>3
<1>4. CASE Amend
  <2>1. \/ \E rounds : mem' = [mem EXCEPT !.rounds = rounds]
        \/ \E text \in Texts : \E rounds :
             mem' = [mem EXCEPT !.rounds = rounds, !.claims[Len(mem.claims)].text = text]
    BY <1>4 DEF Amend
  <2>2. \/ mem'.claims = mem.claims
        \/ \E text \in Texts : mem'.claims = [mem.claims EXCEPT ![Len(mem.claims)].text = text]
    BY <1>0, <2>1 DEF Fields
  <2>3. \A text \in Texts : Followed([mem.claims EXCEPT ![Len(mem.claims)].text = text])
    BY <1>0, AmendedFollowed
  <2> QED BY <1>0, <2>2, <2>3
<1> QED BY <1>1, <1>2, <1>3, <1>4

LEMMA MergesKept ==
  DebateInv /\ BallotInv /\ MergeInv /\ [DebateNext]_debateVars => MergeInv'
<1> SUFFICES ASSUME DebateInv, BallotInv, MergeInv, [DebateNext]_debateVars PROVE MergeInv'
  OBVIOUS
<1>0. /\ DOMAIN mem = Fields /\ DOMAIN ckpt.data = Fields /\ DOMAIN ckpt = {"step", "round", "data"}
      /\ Followed(mem.claims) /\ Followed(ckpt.data.claims)
  BY DEF DebateInv, Shapes, MergeInv
<1>1. CASE InitialOutput \/ RoundOutput \/ Synthesize \/ Amend
  <2>1. ckpt' = ckpt
    BY <1>1 DEF InitialOutput, RoundOutput, Synthesize, Amend, InMemory
  <2> QED BY <1>0, <1>1, <2>1, WorkFollowed DEF MergeInv
<1>2. CASE \/ OpenRound \/ DeadlineHit \/ RoundAbsent \/ VoteAbsent \/ CastBallot
           \/ EnterPhase \/ Close \/ DebatePrelude \/ DebateClosing \/ DebateStepError
           \/ (Returned /\ Outside) \/ UNCHANGED debateVars
  <2>1. ckpt' = ckpt
    BY <1>2 DEF OpenRound, DeadlineHit, RoundAbsent, VoteAbsent, CastBallot, InMemory,
       EnterPhase, Close, DebatePrelude, DebateClosing, DebateStepError, Outside, debateVars
  <2>2. \/ mem' = mem
        \/ \E x : mem' = [mem EXCEPT !.absent = x] \/ mem' = [mem EXCEPT !.votes = x]
    BY <1>2 DEF OpenRound, DeadlineHit, RoundAbsent, VoteAbsent, CastBallot,
       EnterPhase, Close, DebatePrelude, DebateClosing, DebateStepError, Outside, debateVars
  <2>3. mem'.claims = mem.claims
    BY <1>0, <2>2 DEF Fields
  <2> QED BY <1>0, <2>1, <2>3 DEF MergeInv
<1>3. CASE CommitInitial \/ CommitRounds \/ CommitSynthesis \/ CommitVote \/ CommitReport
  <2>1. \E step, round, data : Save(step, round, data) /\ data.claims = mem.claims
    BY <1>0, <1>3 DEF CommitInitial, CommitRounds, CommitSynthesis, CommitVote, CommitReport, Fields
  <2>2. mem'.claims = mem.claims /\ ckpt'.data = mem'
    BY <2>1 DEF Save
  <2> QED BY <1>0, <2>2 DEF MergeInv
<1>4. CASE CommitRound
  <2>1. PICK claims \in IF DedupPerRound THEN Deduped(mem.claims) ELSE {mem.claims} :
          \E step, round, rounds : Save(step, round, [mem EXCEPT !.claims = claims, !.rounds = rounds])
    BY <1>4 DEF CommitRound
  <2>2. Followed(claims)
    BY <1>0, <2>1, DedupedFollowed
  <2>3. mem'.claims = claims /\ ckpt'.data = mem'
    BY <1>0, <2>1 DEF Save, Fields
  <2> QED BY <2>2, <2>3 DEF MergeInv
<1>5. CASE DebateCrash \/ DebateFailSession
  <2>1. mem'.claims = <<>>
    BY <1>5 DEF DebateCrash, DebateFailSession, Forget, NoDebate
  <2>2. ckpt'.data.claims = ckpt.data.claims
    BY <1>0, <1>5 DEF DebateCrash, DebateFailSession, Fields
  <2> QED BY <1>0, <2>1, <2>2, NoClaimsFollowed DEF MergeInv
<1>6. CASE DebateResume
  BY <1>0, <1>6 DEF DebateResume, MergeInv
<1> QED
  BY <1>1, <1>2, <1>3, <1>4, <1>5, <1>6 DEF DebateNext, DebateEngineStep, DebateBody

LEMMA MergeInvariant == DebateSpec => []MergeInv
<1>1. DebateInit => MergeInv
  BY NoClaimsFollowed DEF DebateInit, NoDebate, NoCheckpoint, MergeInv
<1> QED BY <1>1, MergesKept, DebateInvariant, BallotInvariant, PTL DEF DebateSpec

\* Along the merges the ranks grow, so that no claim comes up twice, and no
\* proposer is lost.
LEMMA ChainEnds ==
  ASSUME NEW claims, Followed(claims), NEW i \in DOMAIN claims, NEW into, into[0] = i,
         \A k \in 1 .. Len(claims) : into[k] = IF claims[into[k - 1]].active THEN into[k - 1]
                                              ELSE claims[into[k - 1]].merged
  PROVE  LET end == claims[into[Len(claims)]] IN end.active /\ claims[i].by \subseteq end.by
<1> DEFINE n == Len(claims)
<1>1. claims \in Seq(Claim) /\ n \in Nat /\ DOMAIN claims = 1 .. n
  BY DEF Followed
<1> HIDE DEF n
<1>2. /\ into[0] = i
      /\ \A k \in 1 .. n : into[k] = IF claims[into[k - 1]].active THEN into[k - 1]
                                     ELSE claims[into[k - 1]].merged
  BY Zenon DEF n
<1>3. PICK now \in Nat, rank \in [1 .. n -> Nat] : Ranks(claims, rank, now)
  BY <1>1 DEF Followed
<1>4. \A j \in 1 .. n :
        ~claims[j].active => /\ claims[j].merged \in 1 .. n
                             /\ claims[j].by \subseteq claims[claims[j].merged].by
                             /\ ~claims[claims[j].merged].active => rank[j] < rank[claims[j].merged]
  BY <1>1, <1>3 DEF Followed, Ranks
<1> DEFINE Good(k) == /\ into[k] \in 1 .. n /\ claims[i].by \subseteq claims[into[k]].by
                      /\ ~claims[into[k]].active =>
                           \A j \in 0 .. k - 1 : /\ into[j] \in 1 .. n /\ ~claims[into[j]].active
                                                 /\ rank[into[j]] < rank[into[k]]
           P == {k \in Nat : k <= n => Good(k)}
<1>n. n \in Nat
  BY <1>1
<1>5. \A k \in 0 .. n : Good(k)
  <2>1. 0 \in P
    <3>1. into[0] \in 1 .. n /\ claims[i].by \subseteq claims[into[0]].by
      BY <1>1, <1>2
    <3>2. \A j \in 0 .. 0 - 1 : FALSE
      OBVIOUS
    <3>3. Good(0)
      BY <3>1, <3>2, Zenon
    <3> HIDE DEF Good
    <3> QED BY <3>3
  <2> HIDE DEF Good
  <2>2. ASSUME NEW k \in Nat, Good(k), k + 1 <= n
        PROVE  Good(k + 1)
    <3>1. /\ k + 1 \in 1 .. n /\ (k + 1) - 1 = k
          /\ into[k] \in 1 .. n /\ claims[i].by \subseteq claims[into[k]].by
      <4>1. k + 1 \in 1 .. n /\ (k + 1) - 1 = k
        BY <1>n, <2>2
      <4> QED BY <2>2, <4>1 DEF Good
    <3>2. into[k + 1] = IF claims[into[k]].active THEN into[k] ELSE claims[into[k]].merged
      BY <1>2, <3>1
    <3>3. CASE claims[into[k]].active
      BY <3>1, <3>2, <3>3 DEF Good
    <3>4. CASE ~claims[into[k]].active
      <4>1. /\ into[k + 1] \in 1 .. n /\ claims[i].by \subseteq claims[into[k + 1]].by
            /\ ~claims[into[k + 1]].active => rank[into[k]] < rank[into[k + 1]]
        BY <1>4, <3>1, <3>2, <3>4
      <4>2. \A j \in 0 .. k - 1 :
              into[j] \in 1 .. n /\ ~claims[into[j]].active /\ rank[into[j]] < rank[into[k]]
        BY <2>2, <3>4 DEF Good
      <4>3. ASSUME ~claims[into[k + 1]].active, NEW j \in 0 .. k
            PROVE /\ into[j] \in 1 .. n /\ ~claims[into[j]].active
                  /\ rank[into[j]] < rank[into[k + 1]]
        <5>1. CASE j = k
          BY <3>1, <3>4, <4>1, <4>3, <5>1
        <5>2. CASE j # k
          <6>1. j \in 0 .. k - 1
            BY <5>2
          <6>2. into[j] \in 1 .. n /\ ~claims[into[j]].active /\ rank[into[j]] < rank[into[k]]
            BY <4>2, <6>1
          <6>3. rank[into[k]] < rank[into[k + 1]]
            BY <4>1, <4>3
          <6>4. rank[into[k]] \in Nat /\ rank[into[k + 1]] \in Nat /\ rank[into[j]] \in Nat
            BY <1>3, <3>1, <4>1, <6>2
          <6>5. \A x, y, z \in Nat : x < y /\ y < z => x < z
            OBVIOUS
          <6>6. rank[into[j]] < rank[into[k + 1]]
            BY <6>2, <6>3, <6>4, <6>5, Zenon
          <6> QED BY <6>2, <6>6
        <5> QED BY <5>1, <5>2
      <4> QED BY <3>1, <4>1, <4>3 DEF Good
    <3> QED BY <3>3, <3>4
  <2>3. \A k \in Nat : k \in P => k + 1 \in P
    <3>1. ASSUME NEW k \in Nat, k \in P, k + 1 <= n PROVE Good(k + 1)
      <4>1. Good(k)
        BY <1>1, <3>1
      <4> QED BY <2>2, <3>1, <4>1
    <3> QED BY <3>1
  <2>4. \A k \in Nat : k \in P
    <3> HIDE DEF P
    <3> QED BY <2>1, <2>3, Induction
  <2> QED BY <1>1, <2>4
<1>6. \A k \in 0 .. n : into[k] \in 1 .. n /\ claims[i].by \subseteq claims[into[k]].by
  BY <1>5 DEF Good
<1> HIDE DEF Good, P
<1>7. claims[into[n]].active
  <2> SUFFICES ASSUME ~claims[into[n]].active PROVE FALSE
    OBVIOUS
  <2>1. \A k \in 0 .. n : ~claims[into[k]].active
    <3>1. Good(n)
      BY <1>n, <1>5
    <3>2. \A k \in 0 .. n - 1 : ~claims[into[k]].active
      BY <3>1 DEF Good
    <3>3. \A k \in 0 .. n : k = n \/ k \in 0 .. n - 1
      BY <1>n
    <3> QED BY <3>2, <3>3
  <2>2. \A a, b \in 0 .. n : a < b => rank[into[a]] < rank[into[b]]
    <3> SUFFICES ASSUME NEW a \in 0 .. n, NEW b \in 0 .. n, a < b
                 PROVE  rank[into[a]] < rank[into[b]]
      OBVIOUS
    <3>1. a \in 0 .. b - 1
      OBVIOUS
    <3> QED BY <1>5, <2>1, <3>1 DEF Good
  <2> DEFINE f == [k \in 0 .. n |-> into[k]]
  <2>3. f \in [0 .. n -> 1 .. n]
    BY <1>6
  <2>4. /\ IsFiniteSet(0 .. n) /\ Cardinality(0 .. n) = n + 1
        /\ IsFiniteSet(1 .. n) /\ Cardinality(1 .. n) = n
    BY <1>1, FS_Interval
  <2>5. Cardinality(1 .. n) < Cardinality(0 .. n)
    BY <1>1, <2>4
  <2> HIDE DEF f
  <2>6. PICK a, b \in 0 .. n : a # b /\ f[a] = f[b]
    <3> DEFINE S == 0 .. n
               T == 1 .. n
    <3> HIDE DEF S, T
    <3>1. \E a, b \in S : a # b /\ f[a] = f[b]
      <4>1. f \in [S -> T] /\ IsFiniteSet(S) /\ IsFiniteSet(T) /\ Cardinality(T) < Cardinality(S)
        BY <2>3, <2>4, <2>5 DEF S, T
      <4> QED BY <4>1, FS_PigeonHole
    <3> QED BY <3>1 DEF S
  <2>7. into[a] = into[b] /\ rank[into[a]] \in Nat
    BY <1>3, <1>6, <2>6 DEF f
  <2>8. a < b \/ b < a
    BY <2>6
  <2>9. \A x \in Nat : ~(x < x)
    OBVIOUS
  <2> QED BY <2>2, <2>6, <2>7, <2>8, <2>9, Zenon
<1>8. n \in 0 .. n
  BY <1>n
<1> QED BY <1>6, <1>7, <1>8 DEF n

LEMMA MergesEnd ==
  ASSUME NEW claims, Followed(claims), NEW i \in DOMAIN claims, NEW into,
         into = [n \in 0 .. Len(claims) |->
                   IF n = 0 THEN i
                   ELSE IF claims[into[n - 1]].active THEN into[n - 1]
                        ELSE claims[into[n - 1]].merged]
  PROVE  LET end == claims[into[Len(claims)]] IN end.active /\ claims[i].by \subseteq end.by
<1>1. Len(claims) \in Nat
  BY DEF Followed
<1>2. 0 \in 0 .. Len(claims) /\ \A k \in 1 .. Len(claims) : k \in 0 .. Len(claims) /\ k # 0
  BY <1>1
<1>3. \A k \in 0 .. Len(claims) : into[k] = IF k = 0 THEN i
                                            ELSE IF claims[into[k - 1]].active THEN into[k - 1]
                                                 ELSE claims[into[k - 1]].merged
  BY Zenon
<1>4. into[0] = i
  BY <1>2, <1>3, Zenon
<1>5. \A k \in 1 .. Len(claims) : into[k] = IF claims[into[k - 1]].active THEN into[k - 1]
                                            ELSE claims[into[k - 1]].merged
  BY <1>2, <1>3, Zenon
<1> QED BY <1>4, <1>5, ChainEnds, Zenon

\* In whatever order participants, the deduper and the synthesizer merge claims,
\* proposals revive them, and crashes go back to a checkpoint: to follow the merges
\* from a claim ends at an active claim that names all its proposers.
THEOREM MergesCanBeFollowed == DebateSpec => []MergesAreFollowed
<1>1. MergeInv => MergesAreFollowed
  <2> SUFFICES ASSUME Followed(mem.claims) PROVE MergesAreFollowed
    BY DEF MergeInv
  <2> DEFINE claims == mem.claims
             n == Len(claims)
             S == DOMAIN claims
             next(j) == IF claims[j].active THEN j ELSE claims[j].merged
             step == [k \in 1 .. n |-> [j \in S |-> next(j)]]
  <2>1. n \in Nat /\ \A j \in S : next(j) \in S
    BY DEF Followed
  <2> SUFFICES ASSUME NEW i \in S
               PROVE  LET Into[m \in 0 .. n] ==
                            IF m = 0 THEN i
                            ELSE IF claims[Into[m - 1]].active THEN Into[m - 1]
                                 ELSE claims[Into[m - 1]].merged
                          end == claims[Into[n]]
                      IN end.active /\ claims[i].by \subseteq end.by
    BY DEF MergesAreFollowed
  <2> DEFINE Is(f) == f = [m \in 0 .. n |->
                             IF m = 0 THEN i
                             ELSE IF claims[f[m - 1]].active THEN f[m - 1]
                                  ELSE claims[f[m - 1]].merged]
             chosen == CHOOSE f : Is(f)
  <2>2. \E f : Is(f)
    <3> HIDE DEF S, n
    <3>1. step \in StepsOn(S, n)
      BY <2>1 DEF StepsOn
    <3>2. \A k \in 1 .. n : \A j \in S : step[k][j] = next(j)
      OBVIOUS
    <3> HIDE DEF step
    <3>3. PICK f : Iterates(f, S, i, n, step)
      BY <2>1, <3>1, Iterated
    <3>4. f \in [0 .. n -> S] /\ f[0] = i /\ \A k \in 1 .. n : f[k] = step[k][f[k - 1]]
      BY <3>3 DEF Iterates
    <3>5. ASSUME NEW m \in 0 .. n PROVE f[m] = IF m = 0 THEN i ELSE next(f[m - 1])
      <4>1. CASE m # 0
        <5>1. m \in 1 .. n /\ f[m - 1] \in S
          BY <2>1, <3>4, <4>1
        <5> QED BY <3>2, <3>4, <4>1, <5>1
      <4> QED BY <3>4, <4>1
    <3>6. f = [m \in 0 .. n |-> IF m = 0 THEN i ELSE next(f[m - 1])]
      <4> HIDE DEF next
      <4> QED BY <3>4, <3>5
    <3> QED BY <3>6
  <2>3. Is(chosen)
    <3> HIDE DEF Is
    <3> QED BY <2>2
  <2> HIDE DEF chosen
  <2>4. claims[chosen[n]].active /\ claims[i].by \subseteq claims[chosen[n]].by
    BY <2>3, MergesEnd
  <2> QED BY <2>4 DEF chosen
<1> QED BY <1>1, MergeInvariant, PTL

-----------------------------------------------------------------------------
(* The engine comes to its end.                                            *)

\* What is left of the body: the steps to its end, of which the rounds repeat two,
\* the rounds, and the turns of a step, before which its phase is entered.
StagesLeft ==
  [step \in Steps |->
     CASE step = "initial" -> 8 [] step \in {"open", "debate"} -> 7 [] step = "rounds" -> 6
       [] step = "synthesize" -> 5 [] step = "amend" -> 4 [] step = "synthesized" -> 3
       [] step = "ballot" -> 2 [] step = "report" -> 1 [] OTHER -> 0]
RoundsLeft == IF loop.round <= MaxRounds THEN MaxRounds + 1 - loop.round ELSE 0
Turns ==
  CASE loop.step = "open" -> NP + 1
    [] loop.step \in {"initial", "debate", "ballot"} ->
         IF loop.turn <= NP THEN NP + 1 - loop.turn ELSE 0
    [] loop.step = "amend" ->
         IF loop.turn <= AmendmentRounds THEN AmendmentRounds + 1 - loop.turn ELSE 0
    [] OTHER -> 0
TurnsLeft == IF run.phase = PhaseOf[loop.step] THEN 2 * Turns ELSE 2 * Turns + 1

DebateLeft ==
  IF pc = "body" THEN Measure(PcRank[pc], StagesLeft[loop.step], RoundsLeft, TurnsLeft)
                 ELSE Measure(PcRank[pc], 0, 0, PartLeft)

\* As AdjGoesOn says of an adjudication.
DebateGoesOn == [][pc # "down" => <<DebateLeft', DebateLeft>> \in Fewer]_debateVars

\* The round that is held is one of the policy's.
RoundsBounded == loop.step = "debate" => loop.round <= MaxRounds

LEMMA StagesLeftAre ==
  /\ \A step \in Steps : StagesLeft[step] \in Nat
  /\ StagesLeft["initial"] = 8 /\ StagesLeft["open"] = 7 /\ StagesLeft["debate"] = 7
  /\ StagesLeft["rounds"] = 6 /\ StagesLeft["synthesize"] = 5 /\ StagesLeft["amend"] = 4
  /\ StagesLeft["synthesized"] = 3 /\ StagesLeft["ballot"] = 2 /\ StagesLeft["report"] = 1
  /\ StagesLeft["close"] = 0
<1>1. \A step \in Steps : StagesLeft[step] =
        CASE step = "initial" -> 8 [] step \in {"open", "debate"} -> 7 [] step = "rounds" -> 6
          [] step = "synthesize" -> 5 [] step = "amend" -> 4 [] step = "synthesized" -> 3
          [] step = "ballot" -> 2 [] step = "report" -> 1 [] OTHER -> 0
  BY DEF StagesLeft
<1> HIDE DEF StagesLeft
<1>2. \A step \in Steps : StagesLeft[step] \in Nat
  BY <1>1
<1> QED BY <1>1, <1>2, StepNames

LEMMA StagesFall ==
  /\ \A step \in {"report", "open"} : StagesLeft[step] < StagesLeft["initial"]
  /\ StagesLeft["rounds"] < StagesLeft["open"] /\ StagesLeft["synthesize"] < StagesLeft["rounds"]
  /\ \A step \in {"amend", "synthesized"} : StagesLeft[step] < StagesLeft["synthesize"]
  /\ StagesLeft["ballot"] < StagesLeft["synthesized"]
  /\ StagesLeft["report"] < StagesLeft["ballot"] /\ StagesLeft["close"] < StagesLeft["report"]
BY StagesLeftAre

DebateFacts ==
  /\ StagesLeft[loop.step] \in Nat /\ RoundsLeft \in Nat /\ Turns \in Nat /\ TurnsLeft \in Nat

LEMMA DebateFactsHold == DebateInv => DebateFacts
<1> SUFFICES ASSUME DebateInv PROVE DebateFacts
  OBVIOUS
<1>1. /\ loop.step \in Steps /\ loop.round \in Nat /\ loop.turn \in Nat
      /\ MaxRounds \in Nat /\ AmendmentRounds \in Nat /\ NP \in Nat
  BY DebateAssumption, DebateRoles DEF DebateInv, Shapes, Loops, NP
<1>2. RoundsLeft \in Nat /\ Turns \in Nat
  BY <1>1 DEF RoundsLeft, Turns
<1>3. TurnsLeft \in Nat
  BY <1>2 DEF TurnsLeft
<1> QED BY <1>1, <1>2, <1>3, StagesLeftAre DEF DebateFacts

LEMMA DebateFactsNext == DebateInv' => DebateFacts'
BY DebateFactsHold, PTL

LEMMA DebateLowers ==
  ASSUME DebateInv, DebateInv',
         \/ PcRank[pc'] < PcRank[pc]
         \/ pc' = pc /\ pc # "body" /\ PartLeft' < PartLeft
         \/ /\ pc' = pc /\ pc = "body"
            /\ \/ StagesLeft[loop'.step] < StagesLeft[loop.step]
               \/ /\ StagesLeft[loop'.step] = StagesLeft[loop.step]
                  /\ RoundsLeft' < RoundsLeft
               \/ /\ StagesLeft[loop'.step] = StagesLeft[loop.step]
                  /\ RoundsLeft' = RoundsLeft /\ TurnsLeft' < TurnsLeft
  PROVE  <<DebateLeft', DebateLeft>> \in Fewer
<1>1. TypeOK /\ TypeOK' /\ DebateFacts /\ DebateFacts'
  BY DebateFactsHold, DebateFactsNext DEF DebateInv
<1>2. /\ StagesLeft[loop.step] \in Nat /\ RoundsLeft \in Nat /\ TurnsLeft \in Nat
      /\ StagesLeft[loop'.step] \in Nat /\ RoundsLeft' \in Nat /\ TurnsLeft' \in Nat
  BY <1>1 DEF DebateFacts
<1> DEFINE old == StagesLeft[loop.step]
           new == StagesLeft[loop'.step]
<1>3. \/ PcRank[pc'] < PcRank[pc]
      \/ pc' = pc /\ pc # "body" /\ PartLeft' < PartLeft
      \/ /\ pc' = pc /\ pc = "body"
         /\ \/ new < old
            \/ new = old /\ RoundsLeft' < RoundsLeft
            \/ new = old /\ RoundsLeft' = RoundsLeft /\ TurnsLeft' < TurnsLeft
  OBVIOUS
<1>4. /\ DebateLeft = IF pc = "body" THEN Measure(PcRank[pc], old, RoundsLeft, TurnsLeft)
                                     ELSE Measure(PcRank[pc], 0, 0, PartLeft)
      /\ DebateLeft' = IF pc' = "body" THEN Measure(PcRank[pc'], new, RoundsLeft', TurnsLeft')
                                       ELSE Measure(PcRank[pc'], 0, 0, PartLeft')
  BY DEF DebateLeft
<1>5. old \in Nat /\ new \in Nat
  BY <1>2
<1> HIDE DEF old, new
<1>6. << IF pc' = "body" THEN Measure(PcRank[pc'], new, RoundsLeft', TurnsLeft')
                         ELSE Measure(PcRank[pc'], 0, 0, PartLeft'),
         IF pc = "body" THEN Measure(PcRank[pc], old, RoundsLeft, TurnsLeft)
                        ELSE Measure(PcRank[pc], 0, 0, PartLeft) >> \in Fewer
  BY <1>1, <1>2, <1>3, <1>5, MeasuresFall
<1> QED BY <1>4, <1>6

\* A turn is taken.
LEMMA TurnLowers ==
  ASSUME DebateInv, DebateInv', InMemory, NEW at \in {"initial", "debate", "amend", "ballot"},
         Working(at), loop'.step = at, loop'.round = loop.round, loop'.turn = loop.turn + 1,
         at = "amend" => loop.turn < AmendmentRounds,
         at # "amend" => loop.turn <= NP
  PROVE  <<DebateLeft', DebateLeft>> \in Fewer
<1>1. /\ pc = "body" /\ pc' = pc /\ run' = run /\ loop.step = at
  BY DEF Working, InMemory, vars
<1>2. loop.turn \in Nat /\ AmendmentRounds \in Nat /\ NP \in Nat
  BY DebateAssumption, DebateRoles DEF DebateInv, Shapes, Loops, NP
<1>3. RoundsLeft' = RoundsLeft
  BY DEF RoundsLeft
<1>4. Turns \in Nat /\ Turns' \in Nat /\ Turns' < Turns
  <2>1. CASE at = "amend"
    BY <1>1, <1>2, <2>1 DEF Turns
  <2>2. CASE at # "amend"
    BY <1>1, <1>2, <2>2 DEF Turns
  <2> QED BY <2>1, <2>2
<1>5. TurnsLeft' < TurnsLeft
  <2>1. (run'.phase = PhaseOf[loop'.step]) <=> (run.phase = PhaseOf[loop.step])
    BY <1>1
  <2>2. \/ TurnsLeft' = 2 * Turns' /\ TurnsLeft = 2 * Turns
        \/ TurnsLeft' = 2 * Turns' + 1 /\ TurnsLeft = 2 * Turns + 1
    BY <2>1 DEF TurnsLeft
  <2> QED BY <1>4, <2>2
<1> QED BY <1>1, <1>3, <1>5, DebateLowers

\* A step is left for one nearer to the end.
LEMMA StageLowers ==
  ASSUME DebateInv, DebateInv', NEW at, Working(at), pc' = pc,
         StagesLeft[loop'.step] < StagesLeft[at], loop'.step # "debate"
  PROVE  <<DebateLeft', DebateLeft>> \in Fewer /\ RoundsBounded'
BY DebateLowers DEF Working, RoundsBounded

LEMMA RoundsLower ==
  ASSUME DebateInv, DebateInv', RoundsBounded, OpenRound \/ CommitRound
  PROVE  <<DebateLeft', DebateLeft>> \in Fewer /\ RoundsBounded'
<1>0. /\ loop \in Loops /\ loop.round \in Nat /\ MaxRounds \in Nat /\ NP \in Nat
  BY DebateAssumption, DebateRoles DEF DebateInv, Shapes, Loops, NP
<1>1. CASE OpenRound
  <2>1. /\ pc = "body" /\ pc' = pc /\ run' = run /\ loop.step = "open"
        /\ run.phase = "debate" /\ loop.round <= MaxRounds
    BY <1>1, StepNames DEF OpenRound, Working, InMemory, vars
  <2>2. loop'.step = "debate" /\ loop'.turn = 1 /\ loop'.round = loop.round
    BY <1>0, <1>1 DEF OpenRound, Loops
  <2>3. Turns = NP + 1 /\ Turns' \in Nat /\ Turns' <= NP
    BY <1>0, <2>1, <2>2 DEF Turns
  <2>4. TurnsLeft' < TurnsLeft
    <3>1. TurnsLeft' = 2 * Turns'
      BY <2>1, <2>2, StepNames DEF TurnsLeft
    <3>2. TurnsLeft = 2 * Turns
      BY <2>1, StepNames DEF TurnsLeft
    <3>3. Turns \in Nat /\ Turns' < Turns
      BY <1>0, <2>3
    <3> QED BY <2>3, <3>1, <3>2, <3>3
  <2>5. RoundsLeft' = RoundsLeft
    BY <2>2 DEF RoundsLeft
  <2>6. RoundsBounded'
    BY <2>1, <2>2 DEF RoundsBounded
  <2> QED BY <2>1, <2>2, <2>4, <2>5, <2>6, StagesLeftAre, DebateLowers
<1>2. CASE CommitRound
  <2>1. PICK last \in BOOLEAN :
          loop' = [loop EXCEPT !.step = IF last THEN "rounds" ELSE "open", !.round = @ + 1]
    BY <1>2 DEF CommitRound
  <2>2. Working("debate") /\ pc = "body" /\ pc' = pc /\ loop.step = "debate"
    BY <1>2 DEF CommitRound, Working, Save
  <2>3. loop'.step = (IF last THEN "rounds" ELSE "open") /\ loop'.round = loop.round + 1
    BY <1>0, <2>1 DEF Loops
  <2>4. CASE last
    BY <2>2, <2>3, <2>4, StagesLeftAre, StageLowers
  <2>5. CASE ~last
    <3>1. RoundsLeft' < RoundsLeft
      BY <1>0, <2>2, <2>3 DEF RoundsLeft, RoundsBounded
    <3>2. RoundsBounded'
      BY <2>3, <2>5 DEF RoundsBounded
    <3> QED BY <2>2, <2>3, <2>5, <3>1, <3>2, StagesLeftAre, DebateLowers
  <2> QED BY <2>4, <2>5
<1> QED BY <1>1, <1>2

LEMMA TurnsLower ==
  ASSUME DebateInv, DebateInv', RoundsBounded,
         InitialOutput \/ RoundOutput \/ RoundAbsent \/ Amend \/ VoteAbsent \/ CastBallot
  PROVE  <<DebateLeft', DebateLeft>> \in Fewer /\ RoundsBounded'
<1>0. loop \in Loops
  BY DEF DebateInv, Shapes
<1>1. ASSUME NEW at \in {"initial", "debate", "amend", "ballot"}, Working(at), InMemory,
             loop' = [loop EXCEPT !.turn = @ + 1]
               \/ \E quiet : loop' = [loop EXCEPT !.turn = @ + 1, !.quiet = quiet],
             at = "amend" => loop.turn < AmendmentRounds,
             at # "amend" => loop.turn <= NP
      PROVE  <<DebateLeft', DebateLeft>> \in Fewer /\ RoundsBounded'
  <2>1. /\ loop.step = at /\ loop'.step = at /\ loop'.round = loop.round
        /\ loop'.turn = loop.turn + 1
    BY <1>0, <1>1 DEF Loops, Working
  <2>2. RoundsBounded'
    BY <2>1 DEF RoundsBounded
  <2> QED BY <1>1, <2>1, <2>2, TurnLowers
<1>2. CASE InitialOutput
  BY <1>1, <1>2 DEF InitialOutput
<1>3. CASE RoundOutput \/ RoundAbsent
  <2>1. \E quiet : loop' = [loop EXCEPT !.turn = @ + 1, !.quiet = quiet]
    BY <1>3 DEF RoundOutput, RoundAbsent
  <2>2. Working("debate") /\ InMemory /\ loop.turn <= NP
    BY <1>3 DEF RoundOutput, RoundAbsent
  <2> QED BY <1>1, <2>1, <2>2
<1>4. CASE Amend
  <2>1. /\ Working("amend") /\ InMemory
        /\ \/ loop' = [loop EXCEPT !.step = "synthesized", !.turn = 1]
           \/ loop.turn < AmendmentRounds /\ loop' = [loop EXCEPT !.turn = @ + 1]
    BY <1>4 DEF Amend, Go
  <2>2. CASE loop' = [loop EXCEPT !.step = "synthesized", !.turn = 1]
    <3>1. loop'.step = "synthesized" /\ pc' = pc
      BY <1>0, <2>1, <2>2 DEF Loops, InMemory, vars
    <3> QED BY <2>1, <3>1, StagesLeftAre, StageLowers
  <2> QED BY <1>1, <2>1, <2>2
<1>5. CASE VoteAbsent \/ CastBallot
  <2>1. /\ Working("ballot") /\ InMemory /\ loop.turn <= NP
        /\ loop' = [loop EXCEPT !.turn = @ + 1]
    BY <1>5 DEF VoteAbsent, CastBallot
  <2> QED BY <1>1, <2>1
<1> QED BY <1>2, <1>3, <1>4, <1>5

LEMMA StagesLower ==
  ASSUME DebateInv, DebateInv', RoundsBounded,
         \/ CommitInitial \/ DeadlineHit \/ CommitRounds \/ Synthesize \/ CommitSynthesis
         \/ CommitVote \/ CommitReport
  PROVE  <<DebateLeft', DebateLeft>> \in Fewer /\ RoundsBounded'
<1>0. loop \in Loops
  BY DEF DebateInv, Shapes
<1>1. ASSUME NEW at, Working(at), NEW step, loop' = [loop EXCEPT !.step = step, !.turn = 1],
             pc' = pc, StagesLeft[step] < StagesLeft[at], step # "debate"
      PROVE  <<DebateLeft', DebateLeft>> \in Fewer /\ RoundsBounded'
  <2>1. loop'.step = step
    BY <1>0, <1>1 DEF Loops
  <2> QED BY <1>1, <2>1, StageLowers
<1>2. CASE CommitInitial
  <2>1. PICK step \in {"report", "open"} : loop' = [loop EXCEPT !.step = step, !.turn = 1]
    BY <1>2 DEF CommitInitial, Go
  <2>2. Working("initial") /\ pc' = pc
    BY <1>2 DEF CommitInitial, Save
  <2> QED BY <1>1, <2>1, <2>2, StagesFall
<1>3. CASE DeadlineHit
  BY <1>1, <1>3, StagesFall DEF DeadlineHit, Go, InMemory, vars
<1>4. CASE CommitRounds
  BY <1>1, <1>4, StagesFall DEF CommitRounds, Go, Save
<1>5. CASE Synthesize
  <2>1. PICK step \in {"amend", "synthesized"} : loop' = [loop EXCEPT !.step = step, !.turn = 1]
    BY <1>5 DEF Synthesize, Go
  <2>2. Working("synthesize") /\ pc' = pc
    BY <1>5 DEF Synthesize, InMemory, vars
  <2> QED BY <1>1, <2>1, <2>2, StagesFall
<1>6. CASE CommitSynthesis
  BY <1>1, <1>6, StagesFall DEF CommitSynthesis, Go, Save
<1>7. CASE CommitVote
  BY <1>1, <1>7, StagesFall DEF CommitVote, Go, Save
<1>8. CASE CommitReport
  BY <1>1, <1>8, StagesFall DEF CommitReport, Go, Save
<1> QED BY <1>2, <1>3, <1>4, <1>5, <1>6, <1>7, <1>8

LEMMA DebateMovesLower ==
  ASSUME DebateInv, DebateInv', RoundsBounded, EnterPhase \/ Close
  PROVE  <<DebateLeft', DebateLeft>> \in Fewer /\ RoundsBounded'
<1>1. CASE EnterPhase
  <2>1. /\ pc = "body" /\ pc' = pc /\ loop' = loop
        /\ run.phase # PhaseOf[loop.step] /\ run'.phase = PhaseOf[loop.step]
    BY <1>1, AdvanceKeeps DEF EnterPhase, Advance, DebateInv, TypeOK
  <2>2. Turns' = Turns /\ Turns \in Nat /\ RoundsLeft' = RoundsLeft
    BY <2>1, DebateFactsHold DEF Turns, RoundsLeft, DebateFacts
  <2>3. TurnsLeft' < TurnsLeft
    BY <2>1, <2>2 DEF TurnsLeft
  <2> QED BY <2>1, <2>2, <2>3, DebateLowers DEF RoundsBounded
<1>2. CASE Close
  <2>1. PcRank[pc'] < PcRank[pc] /\ loop' = loop
    BY <1>2, PcRankIs DEF Close, BodyReady
  <2> QED BY <2>1, DebateLowers DEF RoundsBounded
<1> QED BY <1>1, <1>2

LEMMA DebateNextLowers ==
  DebateInv /\ DebateInv' /\ RoundsBounded /\ [DebateNext]_debateVars
    => RoundsBounded' /\ [pc # "down" => <<DebateLeft', DebateLeft>> \in Fewer]_debateVars
<1> SUFFICES ASSUME DebateInv, DebateInv', RoundsBounded, [DebateNext]_debateVars
             PROVE  /\ RoundsBounded'
                    /\ \/ UNCHANGED debateVars
                       \/ pc # "down" => <<DebateLeft', DebateLeft>> \in Fewer
  OBVIOUS
<1>1. CASE UNCHANGED debateVars \/ (Returned /\ Outside)
  <2>1. UNCHANGED debateVars
    BY <1>1 DEF Returned, Outside, debateVars
  <2> QED BY <2>1 DEF RoundsBounded, debateVars
<1>2. CASE DebateBody
  BY <1>2, RoundsLower, TurnsLower, StagesLower, DebateMovesLower DEF DebateBody
<1>3. CASE DebatePrelude \/ DebateClosing \/ DebateStepError \/ DebateFailSession \/ DebateCrash
  <2>1. \/ PcRank[pc'] < PcRank[pc]
        \/ pc' = pc /\ pc # "body" /\ PartLeft' < PartLeft
    BY <1>3, SessionStepLowers
       DEF DebatePrelude, DebateClosing, DebateStepError, DebateFailSession, DebateCrash, DebateInv
  <2>2. loop' = loop \/ loop' = NoLoop
    BY <1>3 DEF DebatePrelude, DebateClosing, DebateStepError, DebateFailSession, DebateCrash,
       Outside, Forget
  <2>3. RoundsBounded'
    BY <2>2 DEF RoundsBounded, NoLoop
  <2> QED BY <2>1, <2>3, DebateLowers
<1>4. CASE DebateResume
  <2>1. pc = "down" /\ (loop' = loop \/ loop'.step = RestoredStep)
    BY <1>4 DEF DebateResume, Resume, NoLoop
  <2>2. RestoredStep # "debate"
    BY DEF RestoredStep
  <2> QED BY <2>1, <2>2 DEF RoundsBounded
<1> QED BY <1>1, <1>2, <1>3, <1>4 DEF DebateNext, DebateEngineStep

\* Every step of a free debate lowers the engine's measure, but for the one that
\* resumes a stopped session, and no round beyond the policy's is held: whatever the participants propose, merge, amend or
\* vote, startFreeDebate and resumeFreeDebate do not go round forever.
THEOREM DebateComesToItsEnd == DebateSpec => []RoundsBounded /\ DebateGoesOn
<1>1. DebateInit => RoundsBounded
  BY DEF DebateInit, NoLoop, RoundsBounded
<1> QED
  BY <1>1, DebateInvariant, DebateNextLowers, PTL DEF DebateSpec, DebateGoesOn
=============================================================================
