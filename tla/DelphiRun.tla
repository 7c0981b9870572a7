------------------------------ MODULE DelphiRun ------------------------------
(***************************************************************************)
(* The Delphi workflow: startDelphi and, after a crash or a failure,       *)
(* resumeDelphi.  The panel rates statements in rounds; a round that has   *)
(* its quorum, its sample and its agreement counts as stable; the session  *)
(* converges after enough stable rounds in a row on one statement.         *)
(*                                                                         *)
(* As FreeDebateRun does, the module replaces the abstract body of         *)
(* SessionLifecycle and keeps the rest of the session.                     *)
(***************************************************************************)
EXTENDS SessionLifecycle, DelphiAggregate

CONSTANTS
  MinRounds, MaxRounds,  \* DelphiPolicy
  StabilityRounds,       \*   ... stable rounds needed in a row
  Answers                \* bound: what a participant may answer, without its name

ASSUME DelphiRoundsAssumption ==
  MinRounds \in Nat /\ MaxRounds \in Nat \ {0} /\ StabilityRounds \in Nat \ {0}

ASSUME DelphiRequests == \A r \in Requests : r.mode = "delphi"

VARIABLES
  at,      \* the step the workflow is at and its round
  panel,   \* its data in memory
  saved    \* the same in the snapshot, with the step of its checkpoint

delphiVars == <<vars, at, panel, saved>>

\* delphiCheckpointRank.
DelphiRank ==
  [none |-> 0, round_complete |-> 1, rounds_complete |-> 2, report_complete |-> 3]

\* The data of a run: the recorded rounds (who answered, how many rated each
\* statement, what the round made of it, and the round whose summary the panel was
\* shown, 0 for an empty one), the statements, and the count of stable rounds with
\* their leader.
NoPanel == [rounds |-> <<>>, statements |-> <<>>, stable |-> 0, leader |-> 0,
            converged |-> FALSE]

\* summary: the round whose summary the next tasks carry, 0 for none.
AtStart == [step |-> "round", round |-> 1, summary |-> 0, resumed |-> FALSE]

NothingSaved == [step |-> "none", round |-> 0, data |-> NoPanel]

DelphiInit == Init /\ at = AtStart /\ panel = NoPanel /\ saved = NothingSaved

-----------------------------------------------------------------------------
(* The body of the run.                                                    *)

\* The phase a step happens in; a later round passes through the summary phase.
PhaseAt(step, round) ==
  CASE step # "round" -> "report"
    [] step = "round" /\ round = 1 -> "delphi_questionnaire"
    [] OTHER -> "delphi_revision"

\* Mutant: straight to the next round.
NextPhaseDirect == PhaseAt(at.step, at.round)

\* Where the run has to go next to get to the phase of its step.
NextPhase ==
  LET phase == PhaseAt(at.step, at.round)
  IN IF phase = "delphi_revision" /\ run.phase # "delphi_summary" THEN "delphi_summary" ELSE phase

DelphiWorking(step) ==
  pc = "body" /\ at.step = step /\ run.phase = PhaseAt(at.step, at.round)

Elsewhere == pc = "body" /\ at.step # "close" /\ run.phase # PhaseAt(at.step, at.round)

EnterDelphiPhase ==
  /\ Elsewhere
  /\ Advance(NextPhase)
  /\ UNCHANGED <<request, pc, dispatched, lost, crashes, failures, at, panel, saved>>

\* Mutant: the completed phase is left out.
SaveDelphiUndone(step, round, data, outcome) ==
  /\ snap' = [snap EXCEPT !.outcome = outcome]
  /\ saved' = [step |-> step, round |-> round, data |-> data]
  /\ panel' = data
  /\ UNCHANGED <<request, pc, run, dispatched, lost, crashes, failures>>

\* saveDelphiCheckpoint.
SaveDelphi(step, round, data, outcome) ==
  /\ snap' = [snap EXCEPT !.phase = run.phase, !.done = run.phase, !.outcome = outcome]
  /\ saved' = [step |-> step, round |-> round, data |-> data]
  /\ panel' = data
  /\ UNCHANGED <<request, pc, run, dispatched, lost, crashes, failures>>

CountStable(data, agreed, best) ==
  CASE ~agreed -> [data EXCEPT !.stable = 0, !.leader = 0]
    [] agreed /\ best = data.leader -> [data EXCEPT !.stable = @ + 1]
    [] OTHER -> [data EXCEPT !.stable = 1, !.leader = best]

\* The data after a round in which the responders gave these responses.
AfterRound(responders, responses) ==
  LET statements == Aggregate(panel.statements, responses)
      best == BestOf(statements)
      agreed == Agreed(responders, statements)
      counted == CountStable([panel EXCEPT !.statements = statements], agreed, best)
      record == [round |-> at.round, responders |-> responders, best |-> best,
                 agreed |-> agreed, agreement |-> BestAgreement(statements),
                 counts |-> {statements[i].count : i \in DOMAIN statements},
                 shown |-> at.summary]
  IN [counted EXCEPT !.rounds = Append(@, record),
                     !.converged = /\ at.round >= MinRounds
                                   /\ counted.stable >= StabilityRounds]

\* The fresh run assigns the summary to a variable of the loop's scope; the
\* resumed run keeps it.
NextSummary == IF at.resumed THEN at.round ELSE at.summary

\* What the whole panel answers, in its order: a participant is absent (an empty
\* answer) or responds; invalid responses are as good as none.
Round ==
  /\ DelphiWorking("round")
  /\ \E answers \in [Panel -> Answers] :
       LET responders == {p \in Panel : ValidResponses(answers[p])}
           Named(p) == [i \in DOMAIN answers[p] |->
                          [by |-> p, id |-> answers[p][i].id, text |-> answers[p][i].text,
                           rating |-> answers[p][i].rating]]
           responses == FlattenSeq([k \in 1 .. Cardinality(responders) |->
                                      Named(SetToSeq(responders)[k])])
           data == AfterRound(responders, responses)
           last == data.converged \/ at.round = MaxRounds
       IN /\ SaveDelphi(IF last THEN "rounds_complete" ELSE "round_complete",
                        at.round, data, snap.outcome)
          /\ at' = [at EXCEPT !.step = IF last THEN "report" ELSE @,
                              !.round = @ + 1,
                              !.summary = NextSummary]

\* finishDelphi.
DelphiReport ==
  /\ DelphiWorking("report")
  /\ \E recommendation \in Recommendations(panel.statements, panel.converged) :
       LET last == Last(panel.rounds)
       IN SaveDelphi("report_complete", last.round, panel,
                     DelphiTerminal(panel.statements, recommendation, panel.converged,
                                    Cardinality(last.responders) >= RequiredResponders,
                                    MinResponsesMet(panel.statements)))
  /\ at' = [at EXCEPT !.step = "close"]

DelphiClose ==
  /\ pc = "body" /\ at.step = "close"
  /\ BodyReady
  /\ UNCHANGED <<at, panel, saved>>

-----------------------------------------------------------------------------
(* The rest of the session.                                                *)

DelphiOutside == UNCHANGED <<at, panel, saved>>

DelphiForget == at' = AtStart /\ panel' = NoPanel /\ UNCHANGED saved

DelphiPrelude == (Start \/ PreludeAdvance \/ PreludeCommit) /\ DelphiOutside

\* continueDelphi: where each checkpoint continues; the summary of the last
\* recorded round is restored, and kept from then on.
RestoredAt ==
  [AtStart EXCEPT
     !.step = CASE DelphiRank[saved.step] < 2 -> "round"
                [] DelphiRank[saved.step] = 2 -> "report"
                [] OTHER -> "close",
     !.round = IF saved.step = "round_complete" THEN saved.round + 1 ELSE 1,
     !.summary = saved.round,
     !.resumed = TRUE]

DelphiResume ==
  /\ Resume
  /\ IF AlreadyFinished
       THEN UNCHANGED <<at, panel>>
       ELSE at' = RestoredAt /\ panel' = saved.data
  /\ UNCHANGED saved

DelphiBody ==
  EnterDelphiPhase \/ Round \/ DelphiReport \/ DelphiClose

DelphiEngineStep == DelphiPrelude \/ DelphiBody \/ (CloseStep /\ DelphiOutside)

DelphiNext ==
  \/ DelphiEngineStep
  \/ StepError /\ DelphiOutside
  \/ (FailSession \/ Crash) /\ DelphiForget
  \/ DelphiResume
  \/ Returned /\ DelphiOutside

DelphiSpec == DelphiInit /\ [][DelphiNext]_delphiVars

DelphiFairSpec ==
  /\ DelphiSpec
  /\ WF_delphiVars(DelphiEngineStep)
  /\ WF_delphiVars(FailSession /\ DelphiForget) /\ WF_delphiVars(DelphiResume)

-----------------------------------------------------------------------------
(* Properties.                                                             *)

\* A session converges only if, in each of its last StabilityRounds rounds, the
\* quorum answered, every statement had its sample, the leader was the same and
\* the ratings of the leader agreed (docs/config.md:219).
ConvergedIsEarned ==
  LET rounds == saved.data.rounds
  IN saved.data.converged =>
       /\ Len(rounds) >= MinRounds /\ Len(rounds) >= StabilityRounds
       /\ \A k \in DOMAIN rounds : k > Len(rounds) - StabilityRounds =>
            /\ 100 * Cardinality(rounds[k].responders) >= ResponseQuorum * Cardinality(Panel)
            /\ \A n \in rounds[k].counts : n >= MinResponses
            /\ rounds[k].agreement >= ConvergenceThreshold
            /\ rounds[k].best = Last(rounds).best

\* Every Delphi session that is resumed often enough finishes.
DelphiFinishes == <>(snap.phase = "finished")
=============================================================================
