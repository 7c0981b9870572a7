--------------------------- MODULE DelphiRun_proofs ---------------------------
(***************************************************************************)
(* What holds of every Delphi session, whatever the panel, its answers,    *)
(* the policy and however many rounds, crashes and failures: that it       *)
(* implements the session of SessionLifecycle (and so inherits what is     *)
(* proved there), that it converges only if its last rounds earned it, and *)
(* that none goes round forever.                                           *)
(***************************************************************************)
EXTENDS DelphiRun, SessionLifecycle_proofs, FiniteSetTheorems

PanelFields == {"rounds", "statements", "stable", "leader", "converged"}

\* What the workflow's variables are made of, as far as the proofs read them.
DelphiShapes ==
  /\ at.step \in {"round", "report", "close"} /\ at.round \in Nat
  /\ DOMAIN at = {"step", "round", "summary", "resumed"}
  /\ saved.step \in DOMAIN DelphiRank
  /\ saved.step = "round_complete" => saved.round \in Nat

\* A committed report is only closed.
PanelClosed ==
  /\ snap.done = "report" => saved.step = "report_complete"
  /\ pc = "body" /\ snap.done = "report" => at.step = "close"

DelphiInv == TypeOK /\ DelphiShapes /\ PanelClosed

-----------------------------------------------------------------------------
(* A Delphi session is a session.                                          *)

LEMMA DelphiRanks ==
  /\ DOMAIN DelphiRank = {"none", "round_complete", "rounds_complete", "report_complete"}
  /\ DelphiRank["none"] = 0 /\ DelphiRank["round_complete"] = 1
  /\ DelphiRank["rounds_complete"] = 2 /\ DelphiRank["report_complete"] = 3
BY DEF DelphiRank

LEMMA DelphiMode ==
  ASSUME TypeOK
  PROVE  /\ request.mode = "delphi" /\ BodyPhases(request.mode) = DelphiPhases
         /\ \A statements, text, converged, quorum, sample :
              DelphiTerminal(statements, text, converged, quorum, sample)
                \in Outcomes(request.mode)
<1>1. request.mode = "delphi"
  BY DelphiRequests DEF TypeOK
<1>2. BodyPhases(request.mode) = DelphiPhases
  BY <1>1 DEF BodyPhases
<1>3. \A statements, text, converged, quorum, sample :
        DelphiTerminal(statements, text, converged, quorum, sample) \in Outcomes(request.mode)
  BY <1>1 DEF DelphiTerminal, Outcomes
<1> QED BY <1>1, <1>2, <1>3

\* A round is recorded and the panel goes on or reports.
LEMMA RoundParts ==
  ASSUME Round
  PROVE  \E responders, responses : responders \subseteq Panel /\
           LET data == AfterRound(responders, responses)
               last == data.converged \/ at.round = MaxRounds
           IN /\ SaveDelphi(IF last THEN "rounds_complete" ELSE "round_complete",
                            at.round, data, snap.outcome)
              /\ at' = [at EXCEPT !.step = IF last THEN "report" ELSE @,
                                  !.round = @ + 1, !.summary = NextSummary]
<1>1. PICK answers \in [Panel -> Answers] :
        LET responders == {p \in Panel : ValidResponses(answers[p])}
            Named(p) == [i \in DOMAIN answers[p] |->
                           [by |-> p, id |-> answers[p][i].id, text |-> answers[p][i].text,
                            rating |-> answers[p][i].rating]]
            responses == FlattenSeq([k \in 1 .. Cardinality(responders) |->
                                       Named(SetToSeq(responders)[k])])
            data == AfterRound(responders, responses)
            last == data.converged \/ at.round = MaxRounds
        IN /\ SaveDelphi(IF last THEN "rounds_complete" ELSE "round_complete",
                         at.round, data, snap.outcome)
           /\ at' = [at EXCEPT !.step = IF last THEN "report" ELSE @,
                               !.round = @ + 1, !.summary = NextSummary]
  BY DEF Round
<1>2. {p \in Panel : ValidResponses(answers[p])} \subseteq Panel
  OBVIOUS
<1> QED BY <1>1, <1>2

LEMMA RoundSteps ==
  ASSUME DelphiInv, Round
  PROVE  BodyCommit /\ DelphiInv'
<1>1. PICK responders, responses : responders \subseteq Panel /\
           LET data == AfterRound(responders, responses)
               last == data.converged \/ at.round = MaxRounds
           IN /\ SaveDelphi(IF last THEN "rounds_complete" ELSE "round_complete",
                            at.round, data, snap.outcome)
              /\ at' = [at EXCEPT !.step = IF last THEN "report" ELSE @,
                                  !.round = @ + 1, !.summary = NextSummary]
  BY RoundParts
<1>2. /\ pc = "body" /\ at.step = "round" /\ run.phase = PhaseAt("round", at.round)
      /\ run.phase \in {"delphi_questionnaire", "delphi_revision"}
  BY DEF Round, DelphiWorking, PhaseAt
<1>3. /\ snap' = [snap EXCEPT !.phase = run.phase, !.done = run.phase, !.outcome = snap.outcome]
      /\ saved'.step \in {"rounds_complete", "round_complete"} /\ saved'.round = at.round
      /\ UNCHANGED <<request, pc, run, dispatched, lost, crashes, failures>>
  BY <1>1 DEF SaveDelphi
<1>4. BodyCommit
  <2>1. PICK outcome : outcome \in Outcomes(request.mode)
    BY DelphiMode DEF DelphiInv
  <2> QED BY <1>2, <1>3, <2>1 DEF BodyCommit
<1>5. TypeOK'
  BY <1>4, BodyType DEF BodyStep, DelphiInv
<1>6. DelphiShapes'
  BY <1>1, <1>3, DelphiRanks DEF DelphiInv, DelphiShapes
<1>7. snap'.done = run.phase
  BY <1>3 DEF DelphiInv, TypeOK, SnapshotType
<1> QED BY <1>2, <1>4, <1>5, <1>6, <1>7 DEF DelphiInv, PanelClosed

\* What the report leaves of the panel.
LEMMA ReportParts ==
  ASSUME DelphiReport
  PROVE  /\ panel' = panel /\ pc' = pc
         /\ saved'.data = panel /\ saved'.step = "report_complete"
<1>1. PICK round, outcome : SaveDelphi("report_complete", round, panel, outcome)
  BY DEF DelphiReport
<1> QED BY <1>1 DEF SaveDelphi

LEMMA ReportSteps ==
  ASSUME DelphiInv, DelphiReport
  PROVE  BodyCommit /\ DelphiInv'
<1>1. pc = "body" /\ at.step = "report" /\ run.phase = "report"
  BY DEF DelphiReport, DelphiWorking, PhaseAt
<1>2. snap.done # "report"
  BY <1>1 DEF DelphiInv, PanelClosed
<1>3. PICK outcome, round : /\ outcome \in Outcomes(request.mode)
                            /\ SaveDelphi("report_complete", round, panel, outcome)
  BY DelphiMode DEF DelphiReport, DelphiInv
<1>4. BodyCommit
  BY <1>1, <1>2, <1>3 DEF BodyCommit, SaveDelphi
<1>5. TypeOK'
  BY <1>4, BodyType DEF BodyStep, DelphiInv
<1>6. saved'.step = "report_complete" /\ at' = [at EXCEPT !.step = "close"]
  BY <1>3 DEF SaveDelphi, DelphiReport
<1>7. DelphiShapes' /\ at'.step = "close"
  BY <1>6, DelphiRanks DEF DelphiInv, DelphiShapes
<1> QED BY <1>4, <1>5, <1>6, <1>7 DEF DelphiInv, PanelClosed

LEMMA DelphiBodyStep == DelphiInv /\ DelphiBody => BodyStep /\ DelphiInv'
<1> SUFFICES ASSUME DelphiInv, DelphiBody PROVE BodyStep /\ DelphiInv'
  OBVIOUS
<1>1. CASE EnterDelphiPhase
  <2>1. NextPhase \in DelphiPhases
    BY DEF NextPhase, PhaseAt, DelphiPhases
  <2>2. BodyAdvance /\ pc' = pc
    BY <1>1, <2>1, DelphiMode DEF EnterDelphiPhase, Elsewhere, BodyAdvance, DelphiInv
  <2>3. TypeOK' /\ snap'.done = snap.done
    BY <1>1, <2>2, BodyType, AdvanceKeeps DEF EnterDelphiPhase, BodyStep, DelphiInv
  <2> QED
    BY <1>1, <2>2, <2>3 DEF EnterDelphiPhase, BodyStep, DelphiInv, DelphiShapes, PanelClosed
<1>2. CASE DelphiClose
  <2>1. TypeOK' /\ snap' = snap /\ pc' = "finalize"
    BY <1>2, BodyType DEF DelphiClose, BodyReady, BodyStep, DelphiInv
  <2> QED
    BY <1>2, <2>1 DEF DelphiClose, BodyStep, DelphiInv, DelphiShapes, PanelClosed
<1> QED
  BY <1>1, <1>2, RoundSteps, ReportSteps DEF DelphiBody, BodyStep

LEMMA DelphiOutsideStep ==
  DelphiInv /\ DelphiOutside /\ (Start \/ PreludeAdvance \/ PreludeCommit \/ CloseStep \/ StepError)
    => DelphiInv'
<1> SUFFICES ASSUME DelphiInv, DelphiOutside,
                    Start \/ PreludeAdvance \/ PreludeCommit \/ CloseStep \/ StepError
             PROVE  DelphiInv'
  OBVIOUS
<1>0. TypeOK /\ TypeOK'
  BY PreludeType, CloseType, FailureType DEF DelphiInv
<1>1. PanelClosed'
  <2>1. CASE Start \/ PreludeAdvance \/ PreludeCommit
    BY <1>0, <2>1, AdvanceKeeps DEF Start, PreludeAdvance, PreludeCommit,
       DelphiOutside, DelphiInv, PanelClosed, TypeOK, SnapshotType
  <2>2. CASE CloseStep
    <3>1. pc' # "body"
      BY <2>2 DEF CloseStep, EnterAction, BlockAction, DispatchAction,
         RefuseAction, SkipAction, CommitAction, EnterObserve, ObserveBuiltin,
         ObserveSource, ObserveDone, CommitObserve, EnterFinished, PersistFinish,
         EmitFinalized
    <3>2. snap'.done \in {snap.done, "action", "observe"}
      BY <1>0, <2>2, AdvanceKeeps, CheckpointStores
         DEF CloseStep, EnterAction, BlockAction, DispatchAction,
         RefuseAction, SkipAction, CommitAction, EnterObserve, ObserveBuiltin,
         ObserveSource, ObserveDone, CommitObserve, EnterFinished, PersistFinish,
         EmitFinalized, TypeOK, SnapshotType
    <3> QED
      BY <3>1, <3>2 DEF DelphiOutside, DelphiInv, PanelClosed
  <2>3. CASE StepError
    BY <2>3 DEF StepError, DelphiOutside, DelphiInv, PanelClosed
  <2> QED BY <2>1, <2>2, <2>3
<1> QED BY <1>0, <1>1 DEF DelphiOutside, DelphiInv, DelphiShapes

LEMMA RestoredPlace ==
  ASSUME DelphiInv
  PROVE  /\ RestoredAt.step \in {"round", "report", "close"} /\ RestoredAt.round \in Nat
         /\ DOMAIN RestoredAt = {"step", "round", "summary", "resumed"}
         /\ RestoredAt.round = IF saved.step = "round_complete" THEN saved.round + 1 ELSE 1
         /\ RestoredAt.step = "round" <=> saved.step \in {"none", "round_complete"}
         /\ RestoredAt.step = "close" <=> saved.step = "report_complete"
BY DelphiRanks DEF RestoredAt, AtStart, DelphiInv, DelphiShapes

LEMMA DelphiFailures ==
  DelphiInv /\ (((FailSession \/ Crash) /\ DelphiForget) \/ DelphiResume) => DelphiInv'
<1> SUFFICES ASSUME DelphiInv, ((FailSession \/ Crash) /\ DelphiForget) \/ DelphiResume
             PROVE  DelphiInv'
  OBVIOUS
<1>0. TypeOK /\ TypeOK'
  BY FailureType DEF DelphiInv, DelphiResume
<1>1. CASE (FailSession \/ Crash) /\ DelphiForget
  <2>1. pc' = "down" /\ snap'.done = snap.done
    BY <1>0, <1>1, FailKeeps DEF FailSession, Crash
  <2>2. DelphiShapes'
    BY <1>1 DEF DelphiForget, AtStart, DelphiInv, DelphiShapes
  <2> QED BY <1>0, <1>1, <2>1, <2>2 DEF DelphiForget, DelphiInv, PanelClosed
<1>2. CASE DelphiResume
  <2>1. saved' = saved /\ snap' = snap
    BY <1>2 DEF DelphiResume, Resume
  <2>2. CASE AlreadyFinished
    BY <1>0, <1>2, <2>1, <2>2 DEF DelphiResume, Resume, DelphiInv, DelphiShapes, PanelClosed
  <2>3. CASE ~AlreadyFinished
    <3>1. at' = RestoredAt
      BY <1>2, <2>3 DEF DelphiResume
    <3> QED BY <1>0, <2>1, <3>1, RestoredPlace DEF DelphiInv, DelphiShapes, PanelClosed
  <2> QED BY <2>2, <2>3
<1> QED BY <1>1, <1>2

LEMMA DelphiInit_DelphiInv == DelphiInit => DelphiInv
<1> SUFFICES ASSUME DelphiInit PROVE DelphiInv
  OBVIOUS
<1>1. TypeOK /\ pc = "idle" /\ snap.done = "created"
  BY InitType DEF DelphiInit, Init, NewSnapshot
<1>2. DelphiShapes
  BY DelphiRanks DEF DelphiInit, NothingSaved, AtStart, DelphiShapes
<1> QED BY <1>1, <1>2 DEF DelphiInv, PanelClosed

LEMMA DelphiNext_DelphiInv == DelphiInv /\ [DelphiNext]_delphiVars => DelphiInv'
<1>1. CASE UNCHANGED delphiVars \/ (Returned /\ DelphiOutside)
  BY <1>1 DEF delphiVars, vars, Returned, DelphiOutside, DelphiInv, TypeOK, DelphiShapes,
              PanelClosed
<1> QED
  BY <1>1, DelphiBodyStep, DelphiOutsideStep, DelphiFailures
     DEF DelphiNext, DelphiEngineStep, DelphiPrelude

LEMMA DelphiInvariant == DelphiSpec => []DelphiInv
BY DelphiInit_DelphiInv, DelphiNext_DelphiInv, PTL DEF DelphiSpec

\* The Delphi workflow, fresh and resumed, is a session: each step of startDelphi
\* and resumeDelphi is a step of SessionLifecycle.
THEOREM DelphiImplementsSession == DelphiSpec => Spec
<1>1. DelphiInit => Init
  BY DEF DelphiInit
<1>2. DelphiInv /\ [DelphiNext]_delphiVars => [Next]_vars
  <2>1. CASE UNCHANGED delphiVars
    BY <2>1 DEF delphiVars
  <2> QED
    BY <2>1, DelphiBodyStep
       DEF DelphiNext, DelphiEngineStep, DelphiPrelude, DelphiResume, Next, EngineStep
<1> QED
  BY <1>1, <1>2, DelphiInvariant, PTL DEF DelphiSpec, Spec

\* What is proved of every session holds of every Delphi session: its action is
\* accounted for and not repeated once committed, its result is justified, its
\* observations are complete and, once finished, it stands.
THEOREM DelphiInherits ==
  DelphiSpec => /\ []ActionAccounted /\ ActionCommittedOnce /\ []ResultJustified
                /\ []ObservationsComplete /\ FinishedIsFinal
BY DelphiImplementsSession, ActionIsAccounted, ActionIsCommittedOnce, ResultIsJustified,
   ObservationsAreComplete, FinishedStands

-----------------------------------------------------------------------------
(* Convergence is earned.                                                  *)

\* What the property asks of a round.
Earned(record) ==
  /\ 100 * Cardinality(record.responders) >= ResponseQuorum * Cardinality(Panel)
  /\ record.agreement >= ConvergenceThreshold
  /\ \A n \in record.counts : n >= MinResponses

\* The count of stable rounds is backed by that many last rounds, which the
\* remembered leader led.
Backed(data) ==
  /\ DOMAIN data = PanelFields
  /\ \E Records : data.rounds \in Seq(Records)
  /\ data.stable \in Nat /\ data.stable <= Len(data.rounds)
  /\ \A k \in DOMAIN data.rounds : k > Len(data.rounds) - data.stable =>
       Earned(data.rounds[k]) /\ data.rounds[k].best = data.leader
  /\ data.converged => Len(data.rounds) >= MinRounds /\ data.stable >= StabilityRounds

StableInv ==
  /\ Backed(panel) /\ Backed(saved.data)
  /\ saved.step = "none" => saved.data.rounds = <<>>
  /\ saved.step = "round_complete" => saved.round = Len(saved.data.rounds)
  /\ pc \in {"idle", "prelude", "body"} /\ at.step = "round" => at.round = Len(panel.rounds) + 1

LEMMA EmptyBacked == Backed(NoPanel) /\ NoPanel.rounds = <<>>
BY DEF Backed, NoPanel, PanelFields

\* A round that agrees satisfies what the property asks.
LEMMA AgreedEarns ==
  ASSUME NEW responders \in SUBSET Panel, NEW statements, Agreed(responders, statements),
         NEW record, record.responders = responders,
         record.counts = {statements[i].count : i \in DOMAIN statements},
         record.agreement = BestAgreement(statements)
  PROVE  Earned(record)
<1>1. IsFiniteSet(Panel) /\ IsFiniteSet(responders)
  BY DelphiPolicyAssumption, FS_Subset
<1>2. Cardinality(Panel) \in Nat /\ Cardinality(responders) \in Nat
  BY <1>1, FS_CardinalityType
<1>3. ASSUME NEW q \in Nat, NEW r \in Nat, r >= (q + 99) \div 100
      PROVE  100 * r >= q
  BY <1>3
<1>4. ResponseQuorum * Cardinality(Panel) \in Nat
  BY <1>2, DelphiPolicyAssumption
<1>5. 100 * Cardinality(responders) >= ResponseQuorum * Cardinality(Panel)
  BY <1>2, <1>3, <1>4 DEF Agreed, RequiredResponders
<1>6. \A n \in record.counts : n >= MinResponses
  BY DEF Agreed, MinResponsesMet
<1> QED BY <1>5, <1>6 DEF Earned, Agreed

\* A round keeps the count backed, and the rounds grow by one.
LEMMA RoundBacked ==
  ASSUME Backed(panel), NEW responders \in SUBSET Panel, NEW responses,
         at.round = Len(panel.rounds) + 1
  PROVE  /\ Backed(AfterRound(responders, responses))
         /\ Len(AfterRound(responders, responses).rounds) = at.round
<1> DEFINE statements == Aggregate(panel.statements, responses)
           best == BestOf(statements)
           agreed == Agreed(responders, statements)
           based == [panel EXCEPT !.statements = statements]
           counted == CountStable(based, agreed, best)
           record == [round |-> at.round, responders |-> responders, best |-> best,
                      agreed |-> agreed, agreement |-> BestAgreement(statements),
                      counts |-> {statements[i].count : i \in DOMAIN statements},
                      shown |-> at.summary]
           rounds == Append(panel.rounds, record)
           data == [counted EXCEPT !.rounds = Append(@, record),
                                   !.converged = /\ at.round >= MinRounds
                                                 /\ counted.stable >= StabilityRounds]
<1>1. data = AfterRound(responders, responses)
  BY DEF AfterRound
<1>2. record.best = best /\ (agreed => Earned(record))
  BY AgreedEarns
<1>3. /\ DOMAIN panel = PanelFields /\ panel.stable \in Nat
      /\ panel.stable <= Len(panel.rounds)
      /\ \A k \in DOMAIN panel.rounds : k > Len(panel.rounds) - panel.stable =>
           Earned(panel.rounds[k]) /\ panel.rounds[k].best = panel.leader
  BY DEF Backed
<1>4. PICK Records : panel.rounds \in Seq(Records)
  BY DEF Backed
<1> HIDE DEF statements, best, agreed, record
<1>5. /\ rounds \in Seq(Records \cup {record})
      /\ Len(panel.rounds) \in Nat /\ DOMAIN panel.rounds = 1 .. Len(panel.rounds)
      /\ Len(rounds) = Len(panel.rounds) + 1 /\ DOMAIN rounds = 1 .. Len(panel.rounds) + 1
      /\ \A k \in 1 .. Len(panel.rounds) : rounds[k] = panel.rounds[k]
      /\ rounds[Len(panel.rounds) + 1] = record
  BY <1>4
<1>6. /\ DOMAIN counted = PanelFields /\ counted.rounds = panel.rounds
      /\ \/ ~agreed /\ counted.stable = 0
         \/ agreed /\ best = panel.leader /\ counted.leader = best
             /\ counted.stable = panel.stable + 1
         \/ agreed /\ counted.leader = best /\ counted.stable = 1
  BY <1>3 DEF CountStable, PanelFields
<1> HIDE DEF counted
<1>7. /\ DOMAIN data = PanelFields /\ data.rounds = rounds
      /\ data.stable = counted.stable /\ data.leader = counted.leader
      /\ data.converged => at.round >= MinRounds /\ counted.stable >= StabilityRounds
  BY <1>6 DEF PanelFields
<1> HIDE DEF data, rounds
<1>8. data.stable \in Nat /\ data.stable <= Len(rounds)
  BY <1>3, <1>5, <1>6, <1>7
<1>9. ASSUME NEW k \in DOMAIN rounds, k > Len(rounds) - data.stable
      PROVE  Earned(rounds[k]) /\ rounds[k].best = data.leader
  <2>1. CASE ~agreed
    BY <1>5, <1>6, <1>7, <1>9, <2>1
  <2>2. CASE agreed /\ k = Len(panel.rounds) + 1
    BY <1>2, <1>5, <1>6, <1>7, <2>2
  <2>3. CASE agreed /\ k # Len(panel.rounds) + 1
    <3>1. k \in 1 .. Len(panel.rounds) /\ rounds[k] = panel.rounds[k]
      BY <1>5, <1>9, <2>3
    <3>2. data.stable = panel.stable + 1 /\ data.leader = panel.leader
      BY <1>5, <1>6, <1>7, <1>9, <2>3, <3>1
    <3>3. k > Len(panel.rounds) - panel.stable
      BY <1>3, <1>5, <1>9, <3>1, <3>2
    <3> QED BY <1>3, <1>5, <3>1, <3>2, <3>3
  <2> QED BY <2>1, <2>2, <2>3
<1>10. Backed(data) /\ Len(data.rounds) = at.round
  <2>1. Len(data.rounds) = at.round
    BY <1>5, <1>7
  <2> QED BY <1>5, <1>7, <1>8, <1>9, <2>1 DEF Backed
<1> QED BY <1>1, <1>10

LEMMA StableRound == DelphiInv /\ StableInv /\ Round => StableInv'
<1> SUFFICES ASSUME DelphiInv, StableInv, Round PROVE StableInv'
  OBVIOUS
<1>1. PICK responders, responses : responders \subseteq Panel /\
           LET data == AfterRound(responders, responses)
               last == data.converged \/ at.round = MaxRounds
           IN /\ SaveDelphi(IF last THEN "rounds_complete" ELSE "round_complete",
                            at.round, data, snap.outcome)
              /\ at' = [at EXCEPT !.step = IF last THEN "report" ELSE @,
                                  !.round = @ + 1, !.summary = NextSummary]
  BY RoundParts
<1>2. pc = "body" /\ at.step = "round"
  BY DEF Round, DelphiWorking
<1> DEFINE data == AfterRound(responders, responses)
<1>3. Backed(data) /\ Len(data.rounds) = at.round
  <2>1. responders \in SUBSET Panel
    BY <1>1
  <2> QED BY <1>2, <2>1, RoundBacked DEF StableInv
<1>4. /\ panel' = data /\ saved'.data = data /\ saved'.round = at.round
      /\ saved'.step \in {"rounds_complete", "round_complete"}
  BY <1>1 DEF SaveDelphi
<1>5. at'.round = at.round + 1
  BY <1>1 DEF DelphiInv, DelphiShapes
<1> HIDE DEF data
<1> QED BY <1>3, <1>4, <1>5 DEF StableInv

LEMMA StableElsewhere ==
  DelphiInv /\ StableInv /\ (EnterDelphiPhase \/ DelphiReport \/ DelphiClose \/ DelphiPrelude
                             \/ (CloseStep /\ DelphiOutside) \/ (StepError /\ DelphiOutside)
                             \/ (Returned /\ DelphiOutside))
    => StableInv'
<1> SUFFICES ASSUME DelphiInv, StableInv,
                    EnterDelphiPhase \/ DelphiReport \/ DelphiClose \/ DelphiPrelude
                      \/ (CloseStep /\ DelphiOutside) \/ (StepError /\ DelphiOutside)
                      \/ (Returned /\ DelphiOutside)
             PROVE  StableInv'
  OBVIOUS
<1>1. CASE DelphiReport
  <2>1. at'.step = "close"
    BY <1>1 DEF DelphiReport, DelphiInv, DelphiShapes
  <2>2. panel' = panel /\ saved'.data = panel /\ saved'.step = "report_complete"
    BY <1>1, ReportParts
  <2> QED BY <2>1, <2>2 DEF StableInv
<1>2. CASE ~DelphiReport
  <2>1. DelphiOutside
    BY <1>2 DEF EnterDelphiPhase, DelphiClose, DelphiPrelude, DelphiOutside
  <2>2. pc' \in {"idle", "prelude", "body"} => pc \in {"idle", "prelude", "body"}
    BY <1>2 DEF EnterDelphiPhase, Elsewhere, DelphiClose, BodyReady, DelphiPrelude, Start,
       PreludeAdvance, PreludeCommit, CloseStep, EnterAction, BlockAction, DispatchAction,
       RefuseAction, SkipAction, CommitAction, EnterObserve, ObserveBuiltin, ObserveSource,
       ObserveDone, CommitObserve, EnterFinished, PersistFinish, EmitFinalized, StepError,
       Returned, vars
  <2> QED BY <2>1, <2>2 DEF DelphiOutside, StableInv
<1> QED BY <1>1, <1>2

LEMMA StableFailures ==
  DelphiInv /\ StableInv /\ (((FailSession \/ Crash) /\ DelphiForget) \/ DelphiResume)
    => StableInv'
<1> SUFFICES ASSUME DelphiInv, StableInv, ((FailSession \/ Crash) /\ DelphiForget) \/ DelphiResume
             PROVE  StableInv'
  OBVIOUS
<1>1. CASE (FailSession \/ Crash) /\ DelphiForget
  BY <1>1, EmptyBacked DEF FailSession, Crash, DelphiForget, StableInv
<1>2. CASE DelphiResume
  <2>1. CASE AlreadyFinished
    BY <1>2, <2>1 DEF DelphiResume, Resume, StableInv
  <2>2. CASE ~AlreadyFinished
    <3>1. at' = RestoredAt /\ panel' = saved.data /\ saved' = saved
      BY <1>2, <2>2 DEF DelphiResume
    <3> QED BY <3>1, RestoredPlace DEF StableInv
  <2> QED BY <2>1, <2>2
<1> QED BY <1>1, <1>2

LEMMA StableInvariant == DelphiSpec => [](DelphiInv /\ StableInv)
<1>1. DelphiInit => StableInv
  BY EmptyBacked DEF DelphiInit, NothingSaved, AtStart, StableInv
<1>2. DelphiInv /\ StableInv /\ [DelphiNext]_delphiVars => StableInv'
  <2> SUFFICES ASSUME DelphiInv, StableInv, [DelphiNext]_delphiVars PROVE StableInv'
    OBVIOUS
  <2>1. CASE UNCHANGED delphiVars
    BY <2>1 DEF delphiVars, vars, StableInv
  <2>2. CASE DelphiEngineStep \/ (StepError /\ DelphiOutside) \/ (Returned /\ DelphiOutside)
    BY <2>2, StableRound, StableElsewhere DEF DelphiEngineStep, DelphiBody
  <2>3. CASE ((FailSession \/ Crash) /\ DelphiForget) \/ DelphiResume
    BY <2>3, StableFailures
  <2> QED
    BY <2>1, <2>2, <2>3 DEF DelphiNext
<1> QED BY <1>1, <1>2, DelphiInvariant, PTL DEF DelphiSpec

\* Whatever the panel answers, and over any number of crashes, failures and
\* resumes, a stored session has converged only with enough last rounds that had
\* their quorum, their samples, their agreement and one leader.
THEOREM ConvergenceIsEarned == DelphiSpec => []ConvergedIsEarned
<1>1. StableInv => ConvergedIsEarned
  <2> SUFFICES ASSUME StableInv, saved.data.converged
               PROVE  LET rounds == saved.data.rounds
                      IN /\ Len(rounds) >= MinRounds /\ Len(rounds) >= StabilityRounds
                         /\ \A k \in DOMAIN rounds : k > Len(rounds) - StabilityRounds =>
                              Earned(rounds[k]) /\ rounds[k].best = Last(rounds).best
    BY DEF ConvergedIsEarned, Earned
  <2> DEFINE data == saved.data
             rounds == data.rounds
  <2>1. PICK Records : rounds \in Seq(Records)
    BY DEF StableInv, Backed
  <2>2. /\ data.stable \in Nat /\ data.stable <= Len(rounds)
        /\ Len(rounds) >= MinRounds /\ data.stable >= StabilityRounds
        /\ \A k \in DOMAIN rounds : k > Len(rounds) - data.stable =>
             Earned(rounds[k]) /\ rounds[k].best = data.leader
    BY DEF StableInv, Backed
  <2>3. Len(rounds) \in Nat /\ DOMAIN rounds = 1 .. Len(rounds) /\ StabilityRounds \in Nat \ {0}
    BY <2>1, DelphiRoundsAssumption
  <2>4. Len(rounds) \in DOMAIN rounds /\ Len(rounds) > Len(rounds) - data.stable
    BY <2>2, <2>3
  <2>5. Last(rounds).best = data.leader
    BY <2>2, <2>4 DEF Last
  <2>6. \A k \in DOMAIN rounds : k > Len(rounds) - StabilityRounds => k > Len(rounds) - data.stable
    BY <2>2, <2>3
  <2>7. Len(rounds) >= StabilityRounds
    BY <2>2, <2>3
  <2> HIDE DEF rounds, data
  <2> QED BY <2>2, <2>5, <2>6, <2>7 DEF rounds, data
<1> QED BY <1>1, StableInvariant, PTL

-----------------------------------------------------------------------------
(* The engine comes to its end.                                            *)

\* What is left of the body: the report, the rounds, and the phases to be entered
\* before the next one.
StageLeft == CASE at.step = "round" -> 2 [] at.step = "report" -> 1 [] OTHER -> 0
RoundsLeft == IF at.round <= MaxRounds THEN MaxRounds + 1 - at.round ELSE 0
EntryLeft ==
  CASE run.phase = PhaseAt(at.step, at.round) -> 0
    [] run.phase # PhaseAt(at.step, at.round) /\ NextPhase = PhaseAt(at.step, at.round) -> 1
    [] OTHER -> 2

DelphiLeft ==
  IF pc = "body" THEN Measure(PcRank[pc], StageLeft, RoundsLeft, EntryLeft)
                 ELSE Measure(PcRank[pc], 0, 0, PartLeft)

\* As AdjGoesOn says of an adjudication.
DelphiGoesOn == [][pc # "down" => <<DelphiLeft', DelphiLeft>> \in Fewer]_delphiVars

\* The round to be asked is one of the policy's, also after a resume.
RoundsBounded ==
  /\ at.step = "round" => at.round <= MaxRounds
  /\ saved.step = "round_complete" => saved.round < MaxRounds

DelphiFacts == StageLeft \in Nat /\ RoundsLeft \in Nat /\ EntryLeft \in 0 .. 2

LEMMA DelphiFactsHold == DelphiInv => DelphiFacts
<1> SUFFICES ASSUME DelphiInv PROVE DelphiFacts
  OBVIOUS
<1>1. at.round \in Nat /\ MaxRounds \in Nat
  BY DelphiRoundsAssumption DEF DelphiInv, DelphiShapes
<1> QED BY <1>1 DEF DelphiFacts, StageLeft, RoundsLeft, EntryLeft

LEMMA DelphiFactsNext == DelphiInv' => DelphiFacts'
BY DelphiFactsHold, PTL

LEMMA DelphiLowers ==
  ASSUME DelphiInv, DelphiInv',
         \/ PcRank[pc'] < PcRank[pc]
         \/ pc' = pc /\ pc # "body" /\ PartLeft' < PartLeft
         \/ /\ pc' = pc /\ pc = "body"
            /\ \/ StageLeft' < StageLeft
               \/ StageLeft' = StageLeft /\ RoundsLeft' < RoundsLeft
               \/ StageLeft' = StageLeft /\ RoundsLeft' = RoundsLeft /\ EntryLeft' < EntryLeft
  PROVE  <<DelphiLeft', DelphiLeft>> \in Fewer
<1>1. TypeOK /\ TypeOK' /\ DelphiFacts /\ DelphiFacts'
  BY DelphiFactsHold, DelphiFactsNext DEF DelphiInv
<1>2. /\ StageLeft \in Nat /\ RoundsLeft \in Nat /\ EntryLeft \in Nat
      /\ StageLeft' \in Nat /\ RoundsLeft' \in Nat /\ EntryLeft' \in Nat
  BY <1>1 DEF DelphiFacts
<1> QED BY <1>1, <1>2, MeasuresFall DEF DelphiLeft

LEMMA RoundLowers ==
  ASSUME DelphiInv, DelphiInv', RoundsBounded, Round
  PROVE  <<DelphiLeft', DelphiLeft>> \in Fewer /\ RoundsBounded'
<1>1. PICK last \in BOOLEAN :
        /\ \E data : SaveDelphi(IF last THEN "rounds_complete" ELSE "round_complete",
                                at.round, data, snap.outcome)
        /\ at' = [at EXCEPT !.step = IF last THEN "report" ELSE @,
                            !.round = @ + 1, !.summary = NextSummary]
        /\ at.round = MaxRounds => last
  <2>1. PICK responders, responses : responders \subseteq Panel /\
           LET data == AfterRound(responders, responses)
               last == data.converged \/ at.round = MaxRounds
           IN /\ SaveDelphi(IF last THEN "rounds_complete" ELSE "round_complete",
                            at.round, data, snap.outcome)
              /\ at' = [at EXCEPT !.step = IF last THEN "report" ELSE @,
                                  !.round = @ + 1, !.summary = NextSummary]
    BY RoundParts
  <2> DEFINE data == AfterRound(responders, responses)
             last == data.converged \/ at.round = MaxRounds
  <2>2. last \in BOOLEAN /\ (at.round = MaxRounds => last)
    OBVIOUS
  <2>3. /\ SaveDelphi(IF last THEN "rounds_complete" ELSE "round_complete",
                      at.round, data, snap.outcome)
        /\ at' = [at EXCEPT !.step = IF last THEN "report" ELSE @,
                            !.round = @ + 1, !.summary = NextSummary]
    BY <2>1
  <2> HIDE DEF data, last
  <2> QED BY <2>2, <2>3
<1>2. /\ pc = "body" /\ pc' = "body" /\ at.step = "round"
      /\ at.round \in Nat /\ MaxRounds \in Nat /\ at.round <= MaxRounds
  BY <1>1, DelphiRoundsAssumption
     DEF Round, DelphiWorking, SaveDelphi, DelphiInv, DelphiShapes, RoundsBounded
<1>3. /\ at'.step = IF last THEN "report" ELSE "round"
      /\ at'.round = at.round + 1
      /\ saved'.step = IF last THEN "rounds_complete" ELSE "round_complete"
      /\ saved'.round = at.round
  BY <1>1, <1>2 DEF DelphiInv, DelphiShapes, SaveDelphi
<1>4. CASE last
  <2>1. StageLeft' < StageLeft
    BY <1>2, <1>3, <1>4 DEF StageLeft
  <2>2. RoundsBounded'
    BY <1>3, <1>4 DEF RoundsBounded
  <2> QED BY <1>2, <2>1, <2>2, DelphiLowers
<1>5. CASE ~last
  <2>1. at.round < MaxRounds
    BY <1>1, <1>2, <1>5
  <2>2. StageLeft' = StageLeft /\ RoundsLeft' < RoundsLeft
    BY <1>2, <1>3, <1>5, <2>1 DEF StageLeft, RoundsLeft
  <2>3. RoundsBounded'
    BY <1>2, <1>3, <1>5, <2>1 DEF RoundsBounded
  <2> QED BY <1>2, <2>2, <2>3, DelphiLowers
<1> QED BY <1>4, <1>5

LEMMA PanelMovesLower ==
  ASSUME DelphiInv, DelphiInv', RoundsBounded, EnterDelphiPhase \/ DelphiReport \/ DelphiClose
  PROVE  <<DelphiLeft', DelphiLeft>> \in Fewer /\ RoundsBounded'
<1>1. CASE EnterDelphiPhase
  <2>1. /\ pc = "body" /\ pc' = "body" /\ at' = at /\ saved' = saved
        /\ run.phase # PhaseAt(at.step, at.round) /\ run'.phase = NextPhase
    BY <1>1, AdvanceKeeps DEF EnterDelphiPhase, Elsewhere, Advance, DelphiInv, TypeOK
  <2>2. StageLeft' = StageLeft /\ RoundsLeft' = RoundsLeft
    BY <2>1 DEF StageLeft, RoundsLeft
  <2>3. PhaseAt(at.step, at.round)' = PhaseAt(at.step, at.round)
    BY <2>1
  <2>4. EntryLeft' < EntryLeft
    <3>1. CASE NextPhase = PhaseAt(at.step, at.round)
      BY <2>1, <2>3, <3>1 DEF EntryLeft
    <3>2. CASE NextPhase # PhaseAt(at.step, at.round)
      <4>1. PhaseAt(at.step, at.round) = "delphi_revision" /\ run'.phase = "delphi_summary"
        BY <2>1, <3>2 DEF NextPhase
      <4>2. NextPhase' = PhaseAt(at.step, at.round)'
        BY <2>3, <4>1 DEF NextPhase
      <4>3. EntryLeft' = 1 /\ EntryLeft = 2
        BY <2>1, <2>3, <3>2, <4>1, <4>2 DEF EntryLeft
      <4> QED BY <4>3
    <3> QED BY <3>1, <3>2
  <2> QED BY <2>1, <2>2, <2>4, DelphiLowers DEF RoundsBounded
<1>2. CASE DelphiReport
  <2>1. /\ pc = "body" /\ pc' = "body" /\ at.step = "report" /\ at'.step = "close"
        /\ saved'.step = "report_complete"
    <3>1. saved'.step = "report_complete" /\ pc' = pc
      BY <1>2, ReportParts
    <3> QED
      BY <1>2, <3>1 DEF DelphiReport, DelphiWorking, DelphiInv, DelphiShapes
  <2>2. StageLeft' < StageLeft
    BY <2>1 DEF StageLeft
  <2> QED BY <2>1, <2>2, DelphiLowers DEF RoundsBounded
<1>3. CASE DelphiClose
  <2>1. PcRank[pc'] < PcRank[pc]
    BY <1>3, PcRankIs DEF DelphiClose, BodyReady
  <2> QED BY <1>3, <2>1, DelphiLowers DEF DelphiClose, RoundsBounded
<1> QED BY <1>1, <1>2, <1>3

LEMMA DelphiNextLowers ==
  DelphiInv /\ DelphiInv' /\ RoundsBounded /\ [DelphiNext]_delphiVars
    => RoundsBounded' /\ [pc # "down" => <<DelphiLeft', DelphiLeft>> \in Fewer]_delphiVars
<1> SUFFICES ASSUME DelphiInv, DelphiInv', RoundsBounded, [DelphiNext]_delphiVars
             PROVE  /\ RoundsBounded'
                    /\ \/ UNCHANGED delphiVars
                       \/ pc # "down" => <<DelphiLeft', DelphiLeft>> \in Fewer
  OBVIOUS
<1>1. CASE UNCHANGED delphiVars \/ (Returned /\ DelphiOutside)
  <2>1. UNCHANGED delphiVars
    BY <1>1 DEF Returned, DelphiOutside, delphiVars
  <2> QED BY <2>1 DEF RoundsBounded, delphiVars
<1>2. CASE DelphiBody
  BY <1>2, RoundLowers, PanelMovesLower DEF DelphiBody
<1>3. CASE \/ DelphiPrelude \/ (CloseStep /\ DelphiOutside) \/ (StepError /\ DelphiOutside)
           \/ ((FailSession \/ Crash) /\ DelphiForget)
  <2>1. \/ PcRank[pc'] < PcRank[pc]
        \/ pc' = pc /\ pc # "body" /\ PartLeft' < PartLeft
    BY <1>3, SessionStepLowers DEF DelphiPrelude, DelphiInv
  <2>2. saved' = saved /\ (at' = at \/ at' = AtStart)
    BY <1>3 DEF DelphiPrelude, DelphiOutside, DelphiForget
  <2>3. AtStart.round = 1 /\ MaxRounds \in Nat \ {0}
    BY DelphiRoundsAssumption DEF AtStart
  <2>4. RoundsBounded'
    BY <2>2, <2>3 DEF RoundsBounded
  <2> QED BY <2>1, <2>4, DelphiLowers
<1>4. CASE DelphiResume
  <2>1. pc = "down" /\ saved' = saved /\ (at' = at \/ at' = RestoredAt)
    BY <1>4 DEF DelphiResume, Resume
  <2>2. RestoredAt.round <= MaxRounds
    <3>1. MaxRounds \in Nat \ {0} /\ (saved.step = "round_complete" => saved.round \in Nat)
      BY DelphiRoundsAssumption DEF DelphiInv, DelphiShapes
    <3> QED BY <3>1, RestoredPlace DEF RoundsBounded
  <2> QED BY <2>1, <2>2 DEF RoundsBounded
<1> QED BY <1>1, <1>2, <1>3, <1>4 DEF DelphiNext, DelphiEngineStep

\* Every step of a Delphi session lowers the engine's measure, but for the one that
\* resumes a stopped session, and no round beyond the policy's is asked: whatever
\* the panel answers, whether or not it ever agrees, startDelphi and resumeDelphi do
\* not ask it forever.
THEOREM DelphiComesToItsEnd == DelphiSpec => []RoundsBounded /\ DelphiGoesOn
<1>1. DelphiInit => RoundsBounded
  BY DelphiRoundsAssumption DEF DelphiInit, AtStart, NothingSaved, RoundsBounded
<1> QED
  BY <1>1, DelphiInvariant, DelphiNextLowers, PTL DEF DelphiSpec, DelphiGoesOn
=============================================================================
