---------------------------- MODULE FreeDebateRun ----------------------------
(***************************************************************************)
(* The free debate workflow: startFreeDebate and, after a crash or a       *)
(* failure, resumeFreeDebate.  Participants propose claims, then judge,    *)
(* revise and merge them in rounds; a deduper merges what repeats; a       *)
(* synthesizer drafts one canonical claim; everybody votes on the claims   *)
(* still active.                                                           *)
(*                                                                         *)
(* The module composes with SessionLifecycle as AdjudicationRun does: it   *)
(* replaces the abstract body and keeps the rest of the session.           *)
(***************************************************************************)
EXTENDS SessionLifecycle, DebateVotes

CONSTANTS
  Participants,          \* sequence: the roles' order
  Synthesizer,           \* its agent
  Texts,                 \* statements, up to normalizedClaimKey
  SynthesisTexts,        \* the texts participants label category=synthesis
  VoteChoices,               \* bound: the votes and confidences a ballot may hold
  MaxDrafts,             \* bound: new claims of one output
  MinRounds, MaxRounds,  \* DebatePolicy
  MaxNewClaims,          \*   ... per participant and round; 0 is no limit
  MaxActiveClaims,       \*   ... ceiling; 0 is none
  DedupPerRound,         \*   ... cadence, or only before the vote
  Dedups,                \*   ... and whether it is enabled at all
  Synthesizes,           \*   ... synthesis enabled
  AmendmentRounds

ASSUME DebateAssumption ==
  /\ SynthesisTexts \subseteq Texts
  /\ VoteChoices \subseteq {"accept", "reject", "abstain"} \X Percent
  /\ {MaxDrafts, MinRounds, MaxNewClaims, MaxActiveClaims, AmendmentRounds} \subseteq Nat
  /\ MaxRounds \in Nat \ {0}
  /\ {DedupPerRound, Dedups, Synthesizes} \subseteq BOOLEAN

\* Normalising a request drops repeated participants.
ASSUME DebateRoles ==
  Participants \in Seq(Range(Participants)) /\ IsInjective(Participants)

ASSUME DebateRequests == \A r \in Requests : r.mode = "free_debate"

VARIABLES
  loop,   \* where the workflow is
  mem,    \* its data in memory
  ckpt    \* the same in the snapshot, with the step of its checkpoint

debateVars == <<vars, loop, mem, ckpt>>

NP == Len(Participants)
Panel == Range(Participants)

\* What each step of the workflow does happens in this phase.
PhaseOf ==
  [initial |-> "initial", open |-> "debate", debate |-> "debate", rounds |-> "debate",
   synthesize |-> "debate", amend |-> "debate", synthesized |-> "debate",
   ballot |-> "final_vote", report |-> "report", close |-> "report"]

Steps == DOMAIN PhaseOf

\* freeDebateCheckpointRank, "" being a checkpoint of the prelude.
Rank ==
  [none |-> 0, initial_complete |-> 1, round_complete |-> 2, rounds_complete |-> 3,
   synthesis_complete |-> 4, vote_complete |-> 5, report_complete |-> 6]

\* The data of a run: claims (merged is the position of the claim one was merged
\* into), the numbers of the rounds recorded, votes, and the voters a degradation
\* calls absent.
NoDebate == [claims |-> <<>>, rounds |-> <<>>, votes |-> <<>>, absent |-> {}]

NoLoop == [step |-> "initial", turn |-> 1, round |-> 1, quiet |-> TRUE, budget |-> 0]

NoCheckpoint == [step |-> "none", round |-> 0, data |-> NoDebate]

DebateInit == Init /\ loop = NoLoop /\ mem = NoDebate /\ ckpt = NoCheckpoint

-----------------------------------------------------------------------------
(* Claims.                                                                 *)

ActiveIn(claims) == {i \in DOMAIN claims : claims[i].active}

NewClaim(text, synthesis, agent) ==
  [text |-> text, by |-> {agent}, synthesis |-> synthesis, active |-> TRUE, merged |-> 0]

\* upsertDebateClaim: the first claim with the text is proposed again, also one
\* that had been merged away; otherwise the claim is new.
Upsert(claims, text, synthesis, agent) ==
  LET same == {i \in DOMAIN claims : claims[i].text = text}
  IN IF same = {}
       THEN Append(claims, NewClaim(text, synthesis, agent))
       ELSE [claims EXCEPT ![Min(same)].by = @ \cup {agent}, ![Min(same)].active = TRUE]

\* Mutant: proposers stay behind.
MergeForgetting(claims, source, target) ==
  IF source # target /\ {source, target} \subseteq ActiveIn(claims)
    THEN [claims EXCEPT ![source].active = FALSE, ![source].merged = target]
    ELSE claims

\* mergeDebateClaim: only between two active claims; the target is also proposed
\* by the proposers of the source.
Merge(claims, source, target) ==
  IF source # target /\ {source, target} \subseteq ActiveIn(claims)
    THEN [claims EXCEPT ![source].active = FALSE, ![source].merged = target,
                        ![target].by = @ \cup claims[source].by]
    ELSE claims

\* The drafts of an output that are neither empty nor process notes.
DraftLists == UNION {[1 .. n -> Texts] : n \in 0 .. MaxDrafts}

AddDrafts(claims, drafts, agent) ==
  LET after[k \in 0 .. Len(drafts)] ==
        IF k = 0 THEN claims
        ELSE Upsert(after[k - 1], drafts[k], drafts[k] \in SynthesisTexts, agent)
  IN after[Len(drafts)]

\* truncateDebateNewClaims.
Truncated(drafts, budget) ==
  CASE budget = 0 -> drafts
    [] budget < 0 -> <<>>
    [] OTHER -> SubSeq(drafts, 1, IF Len(drafts) < budget THEN Len(drafts) ELSE budget)

\* A participant's judgement of a claim: agree (or no_change), disagree, or revise
\* with a text; any of them may propose a merge.
Judgements(claims) ==
  [verdict : {"agree", "disagree"}, text : {"none"}, from : {0}, into : {0}]
    \cup [verdict : {"revise"}, text : Texts, from : {0}, into : {0}]
    \cup [verdict : {"agree"}, text : {"none"}, from : DOMAIN claims, into : DOMAIN claims]

ApplyJudgement(claims, judgement, agent) ==
  LET revised == IF judgement.verdict = "revise"
                   THEN Upsert(claims, judgement.text, FALSE, agent)
                   ELSE claims
  IN IF judgement.into # 0 THEN Merge(revised, judgement.from, judgement.into) ELSE revised

\* validateDebateClaimMerges: active claims go into other active claims, each into
\* one, and not into one that goes elsewhere.
ValidMerges(claims) ==
  UNION {[sources -> ActiveIn(claims) \ sources] : sources \in SUBSET ActiveIn(claims)}

\* The merges of a map from sources to targets, in the order of the claims.
MergeEach(claims, into) ==
  LET after[k \in 0 .. Len(claims)] ==
        IF k = 0 THEN claims
        ELSE IF k \in DOMAIN into THEN Merge(after[k - 1], k, into[k]) ELSE after[k - 1]
  IN after[Len(claims)]

\* runDebateSemanticDedup: disabled, failed, or merging active claims.
Deduped(claims) ==
  {claims} \cup (IF Dedups /\ Cardinality(ActiveIn(claims)) >= 2
                   THEN {MergeEach(claims, merges) : merges \in ValidMerges(claims)}
                   ELSE {})

\* The synthesizer's claim consumes the active drafts of category synthesis.
Synthesized(claims, text) ==
  LET drafts == {i \in ActiveIn(claims) : claims[i].synthesis}
      canonical == Len(claims) + 1
  IN MergeEach(Append(claims, NewClaim(text, TRUE, Synthesizer)), [i \in drafts |-> canonical])

-----------------------------------------------------------------------------
(* The body of the run.                                                    *)

Working(step) == pc = "body" /\ loop.step = step /\ run.phase = PhaseOf[step]

\* Only the workflow's own data and position change.
InMemory == UNCHANGED <<vars, ckpt>>

EnterPhase ==
  /\ pc = "body"
  /\ loop.step # "close"
  /\ run.phase # PhaseOf[loop.step]
  /\ Advance(PhaseOf[loop.step])
  /\ UNCHANGED <<request, pc, dispatched, lost, crashes, failures, loop, mem, ckpt>>

\* Mutant: the outcome is stored before the report.
SaveEarly(step, round, data) ==
  /\ snap' = [snap EXCEPT !.phase = run.phase, !.done = run.phase,
                !.outcome = IF run.phase \in {"final_vote", "report"}
                              THEN DebateTerminal(ActiveIn(data.claims), data.votes, Panel)
                              ELSE @]
  /\ ckpt' = [step |-> step, round |-> round, data |-> data]
  /\ mem' = data
  /\ UNCHANGED <<request, pc, run, dispatched, lost, crashes, failures>>

\* saveFreeDebateCheckpoint: phase, step, round and all data at once.
Save(step, round, data) ==
  /\ snap' = [snap EXCEPT !.phase = run.phase, !.done = run.phase,
                !.outcome = IF run.phase = "report"
                              THEN DebateTerminal(ActiveIn(data.claims), data.votes, Panel)
                              ELSE @]
  /\ ckpt' = [step |-> step, round |-> round, data |-> data]
  /\ mem' = data
  /\ UNCHANGED <<request, pc, run, dispatched, lost, crashes, failures>>

Go(step) == loop' = [loop EXCEPT !.step = step, !.turn = 1]

\* The initial proposals, in the participants' order; a participant may be absent.
InitialOutput ==
  /\ Working("initial")
  /\ loop.turn <= NP
  /\ \E drafts \in DraftLists :
       mem' = [mem EXCEPT !.claims = AddDrafts(@, drafts, Participants[loop.turn])]
  /\ loop' = [loop EXCEPT !.turn = @ + 1]
  /\ InMemory

\* Without any claim there is nothing to debate.
CommitInitial ==
  /\ Working("initial")
  /\ loop.turn > NP
  /\ Save("initial_complete", 0, [mem EXCEPT !.rounds = Append(@, 0)])
  /\ Go(IF mem.claims = <<>> THEN "report" ELSE "open")

\* The budget of new claims is fixed when the round opens.
OpenRound ==
  /\ Working("open")
  /\ loop.round <= MaxRounds
  /\ loop' = [loop EXCEPT !.step = "debate", !.turn = 1, !.quiet = TRUE,
                !.budget = IF MaxActiveClaims > 0
                              /\ Cardinality(ActiveIn(mem.claims)) >= MaxActiveClaims
                             THEN -1 ELSE MaxNewClaims]
  /\ UNCHANGED mem
  /\ InMemory

\* The global deadline ends the debate before the round.
DeadlineHit ==
  /\ Working("open")
  /\ Go("rounds")
  /\ UNCHANGED mem
  /\ InMemory

\* One participant's output of a round, with at most one judgement.
RoundOutput ==
  /\ Working("debate")
  /\ loop.turn <= NP
  /\ LET agent == Participants[loop.turn]
     IN \E drafts \in DraftLists :
          LET kept == Truncated(drafts, loop.budget)
              added == AddDrafts(mem.claims, kept, agent)
          IN \E judged \in {<<>>} \cup {<<j>> : j \in Judgements(added)} :
               /\ mem' = [mem EXCEPT !.claims =
                            IF judged = <<>> THEN added
                            ELSE ApplyJudgement(added, judged[1], agent)]
               /\ loop' = [loop EXCEPT !.turn = @ + 1,
                             !.quiet = /\ @
                                       /\ kept = <<>>
                                       /\ judged # <<>> => judged[1].verdict = "agree"]
  /\ InMemory

\* An absent participant does not count as agreeing.
RoundAbsent ==
  /\ Working("debate")
  /\ loop.turn <= NP
  /\ loop' = [loop EXCEPT !.turn = @ + 1, !.quiet = FALSE]
  /\ UNCHANGED mem
  /\ InMemory

\* The round is recorded, its claims deduplicated, its checkpoint written; the
\* debate ends early when a round brings nothing new and no objection.
CommitRound ==
  /\ Working("debate")
  /\ loop.turn > NP
  /\ LET last == loop.round = MaxRounds \/ (loop.round >= MinRounds /\ loop.quiet)
     IN \E claims \in IF DedupPerRound THEN Deduped(mem.claims) ELSE {mem.claims} :
          /\ Save(IF last THEN "rounds_complete" ELSE "round_complete", loop.round,
                  [mem EXCEPT !.claims = claims, !.rounds = Append(@, loop.round)])
          /\ loop' = [loop EXCEPT !.step = IF last THEN "rounds" ELSE "open",
                                  !.round = @ + 1]

\* The end of the rounds is a checkpoint of its own, a repeated one unless the
\* deadline ended them.
CommitRounds ==
  /\ Working("rounds")
  /\ Save("rounds_complete", Last(mem.rounds), mem)
  /\ Go("synthesize")

\* Deduplication before the vote, and the synthesizer's draft if there is one.
Synthesize ==
  /\ Working("synthesize")
  /\ \E claims \in IF ~DedupPerRound \/ Len(mem.rounds) <= 1
                     THEN Deduped(mem.claims) ELSE {mem.claims} :
       \/ /\ mem' = [mem EXCEPT !.claims = claims]
          /\ Go("synthesized")
       \/ /\ Synthesizes /\ ActiveIn(claims) # {}
          /\ \E text \in Texts : mem' = [mem EXCEPT !.claims = Synthesized(claims, text)]
          /\ loop' = [loop EXCEPT !.step = IF AmendmentRounds > 0 THEN "amend"
                                           ELSE "synthesized", !.turn = 1]
  /\ InMemory

\* An amendment round: no amendment, one that cannot be integrated, or a new text
\* of the canonical claim.  turn counts the rounds.
Amend ==
  /\ Working("amend")
  /\ LET recorded == Append(mem.rounds, Len(mem.rounds) + 1)
     IN \/ /\ mem' = [mem EXCEPT !.rounds = recorded]
           /\ Go("synthesized")
        \/ \E text \in Texts :
             /\ mem' = [mem EXCEPT !.rounds = recorded,
                                   !.claims[Len(mem.claims)].text = text]
             /\ IF loop.turn < AmendmentRounds
                  THEN loop' = [loop EXCEPT !.turn = @ + 1]
                  ELSE Go("synthesized")
  /\ InMemory

CommitSynthesis ==
  /\ Working("synthesized")
  /\ Save("synthesis_complete", ckpt.round, mem)
  /\ Go("ballot")

\* Votes on the claims of the ballot, on all of them or on the first ones.
Ballots(voter) ==
  LET ballot == SetToSortSeq(ActiveIn(mem.claims), <)
  IN UNION {{[i \in 1 .. n |-> [claim |-> ballot[i], voter |-> voter, vote |-> choice[i][1],
                                confidence |-> choice[i][2]]] :
               choice \in [1 .. n -> VoteChoices]} : n \in 0 .. Len(ballot)}

\* A participant is absent, or its ballot is refused as a whole.
VoteAbsent ==
  /\ Working("ballot")
  /\ loop.turn <= NP
  /\ mem' = [mem EXCEPT !.absent = @ \cup {Participants[loop.turn]}]
  /\ loop' = [loop EXCEPT !.turn = @ + 1]
  /\ InMemory

CastBallot ==
  /\ Working("ballot")
  /\ loop.turn <= NP
  /\ \E votes \in Ballots(Participants[loop.turn]) :
       /\ ValidBallot(ActiveIn(mem.claims), votes)
       /\ mem' = [mem EXCEPT !.votes = @ \o votes]
  /\ loop' = [loop EXCEPT !.turn = @ + 1]
  /\ InMemory

CommitVote ==
  /\ Working("ballot")
  /\ loop.turn > NP
  /\ Save("vote_complete", ckpt.round, mem)
  /\ Go("report")

CommitReport ==
  /\ Working("report")
  /\ Save("report_complete", ckpt.round, mem)
  /\ Go("close")

Close ==
  /\ pc = "body" /\ loop.step = "close"
  /\ BodyReady
  /\ UNCHANGED <<loop, mem, ckpt>>

-----------------------------------------------------------------------------
(* The rest of the session.                                                *)

Outside == UNCHANGED <<loop, mem, ckpt>>

\* The process or the run ends: memory is gone.
Forget == loop' = NoLoop /\ mem' = NoDebate

DebatePrelude ==
  \/ Start /\ Outside
  \/ PreludeAdvance /\ Outside
  \/ PreludeCommit /\ Outside

\* The failure handler patches the run's state, degradations among it, but no
\* claims, rounds or votes.
DebateFailSession ==
  /\ FailSession
  /\ ckpt' \in {ckpt, [ckpt EXCEPT !.data.absent = mem.absent]}
  /\ Forget

RestoredRound == IF ckpt.step = "round_complete" THEN ckpt.round + 1 ELSE 1

\* A checkpoint of a debate in which nothing was proposed.
NothingProposed == Rank[ckpt.step] \in 1 .. 5 /\ ckpt.data.claims = <<>>

\* Mutants: a complete vote is held again; what was voted on is synthesized again.
RestoredStepVoting ==
  IF NothingProposed THEN "report"
  ELSE CASE Rank[ckpt.step] = 0 -> "initial"
         [] Rank[ckpt.step] \in {1, 2} -> "open"
         [] Rank[ckpt.step] = 3 -> "synthesize"
         [] Rank[ckpt.step] \in {4, 5} -> "ballot"
         [] OTHER -> "close"
RestoredStepResynthesizing ==
  IF NothingProposed THEN "report"
  ELSE CASE Rank[ckpt.step] = 0 -> "initial"
         [] Rank[ckpt.step] \in {1, 2} -> "open"
         [] Rank[ckpt.step] \in {3, 4, 5} -> "synthesize"
         [] OTHER -> "close"

\* continueFreeDebate: where each checkpoint continues.
RestoredStep ==
  IF NothingProposed THEN "report"
  ELSE CASE Rank[ckpt.step] = 0 -> "initial"
         [] Rank[ckpt.step] \in {1, 2} -> "open"
         [] Rank[ckpt.step] = 3 -> "synthesize"
         [] Rank[ckpt.step] = 4 -> "ballot"
         [] Rank[ckpt.step] = 5 -> "report"
         [] OTHER -> "close"

DebateResume ==
  /\ Resume
  /\ IF AlreadyFinished
       THEN UNCHANGED <<loop, mem>>
       ELSE /\ loop' = [NoLoop EXCEPT !.step = RestoredStep, !.round = RestoredRound]
            /\ mem' = ckpt.data
  /\ UNCHANGED ckpt

DebateBody ==
  \/ EnterPhase
  \/ InitialOutput \/ CommitInitial
  \/ OpenRound \/ DeadlineHit \/ RoundOutput \/ RoundAbsent \/ CommitRound \/ CommitRounds
  \/ Synthesize \/ Amend \/ CommitSynthesis
  \/ VoteAbsent \/ CastBallot \/ CommitVote
  \/ CommitReport \/ Close

DebateClosing == CloseStep /\ Outside
DebateStepError == StepError /\ Outside
DebateCrash == Crash /\ Forget /\ UNCHANGED ckpt

DebateEngineStep == DebatePrelude \/ DebateBody \/ DebateClosing

DebateNext ==
  \/ DebateEngineStep
  \/ DebateStepError \/ DebateFailSession
  \/ DebateCrash \/ DebateResume
  \/ Returned /\ Outside

DebateSpec == DebateInit /\ [][DebateNext]_debateVars

DebateFairSpec ==
  /\ DebateSpec
  /\ WF_debateVars(DebateEngineStep)
  /\ WF_debateVars(DebateFailSession) /\ WF_debateVars(DebateResume)

-----------------------------------------------------------------------------
(* Properties.                                                             *)

\* Whoever proposed a claim that was merged away is a proposer of the claim that
\* is active at the end of the merges: no cycle, nothing merged into a claim that
\* is gone, and nobody lost on the way, in whatever order participants, deduper
\* and synthesizer merge and revive claims.
MergesAreFollowed ==
  \A i \in DOMAIN mem.claims :
    LET Into[n \in 0 .. Len(mem.claims)] ==
          IF n = 0 THEN i
          ELSE IF mem.claims[Into[n - 1]].active THEN Into[n - 1]
               ELSE mem.claims[Into[n - 1]].merged
        end == mem.claims[Into[Len(mem.claims)]]
    IN end.active /\ mem.claims[i].by \subseteq end.by

\* What has been committed is not asked again: no proposals after an initial
\* checkpoint, no debate round that is recorded, no ballots beside stored ones.
CommittedNotRepeated ==
  pc = "body" =>
    /\ loop.step = "initial" => ckpt.data.rounds = <<>>
    /\ loop.step = "debate" => loop.round \notin Range(ckpt.data.rounds)
    /\ loop.step = "ballot" => ckpt.data.votes = <<>>

\* The stored votes are those of a set of voters that each voted exactly once on
\* exactly the claims that are active in the same checkpoint.
BallotsMatchClaims ==
  LET votes == ckpt.data.votes
  IN \A i \in DOMAIN votes :
       {votes[j].claim : j \in {k \in DOMAIN votes : votes[k].voter = votes[i].voter}}
          = ActiveIn(ckpt.data.claims)
       /\ \A j \in DOMAIN votes :
            votes[i].claim = votes[j].claim /\ votes[i].voter = votes[j].voter => i = j

\* Every debate that is resumed often enough gets to phase finished.
DebateFinishes == <>(snap.phase = "finished")
=============================================================================
