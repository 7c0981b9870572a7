----------------------------- MODULE DebateVotes -----------------------------
(***************************************************************************)
(* How the final vote of a free debate is decided: which ballots are       *)
(* valid, which votes count, which claims are accepted, whether every      *)
(* claim has its quorum, and the outcome of the debate.  Confidence,       *)
(* threshold and quorum are percentages.                                   *)
(***************************************************************************)
EXTENDS Naturals, Sequences, SequencesExt, FiniteSetsExt

CONSTANTS
  VoteThreshold,     \* DebatePolicy: support a claim needs
  VoteQuorum,        \* DebatePolicy: share of participants; 0 disables it
  VoteAggregation    \* DebatePolicy: "median" or "mean"

ASSUME VotePolicyAssumption ==
  /\ VoteThreshold \in 1 .. 100
  /\ VoteQuorum \in 0 .. 100
  /\ VoteAggregation \in {"median", "mean"}

Percent == 0 .. 100

\* debateVoteCoherent: the label must agree with the confidence.
Coherent(vote) ==
  \/ vote.vote = "accept" /\ vote.confidence >= 50
  \/ vote.vote = "reject" /\ vote.confidence <= 50
  \/ vote.vote = "abstain"

\* validateDebateVoteCalibration: five scores or more that are all the same say
\* nothing.
Calibrated(votes) ==
  LET scores == SelectSeq(votes, LAMBDA v : v.vote # "abstain")
  IN Len(scores) >= 5 => \E i \in DOMAIN scores : scores[i].confidence # scores[1].confidence

\* Mutant: a ballot need not be complete.
ValidBallotPartial(ballot, votes) ==
  /\ ballot # {} /\ votes # <<>>
  /\ \A i \in DOMAIN votes :
       /\ votes[i].claim \in ballot
       /\ votes[i].confidence \in Percent
       /\ Coherent(votes[i])
  /\ \A i, j \in DOMAIN votes : votes[i].claim = votes[j].claim => i = j
  /\ Calibrated(votes)

\* ValidateDebateVotes: exactly one coherent vote for every claim.
ValidBallot(ballot, votes) ==
  /\ ballot # {} /\ votes # <<>>
  /\ \A i \in DOMAIN votes :
       /\ votes[i].claim \in ballot
       /\ votes[i].confidence \in Percent
       /\ Coherent(votes[i])
  /\ \A i, j \in DOMAIN votes : votes[i].claim = votes[j].claim => i = j
  /\ Calibrated(votes)
  /\ \A c \in ballot : \E i \in DOMAIN votes : votes[i].claim = c

\* The votes on a claim that count: the first of each voter, if coherent.
Counted(votes, claim) ==
  {i \in DOMAIN votes :
     /\ votes[i].claim = claim
     /\ Coherent(votes[i])
     /\ \A j \in 1 .. i - 1 :
          votes[j].claim = claim => votes[j].voter # votes[i].voter}

\* Abstentions count as votes but not as support.
Scored(votes, claim) == {i \in Counted(votes, claim) : votes[i].vote # "abstain"}

\* aggregateSupportScore reaches the threshold.  The median of an even number
\* of scores is the mean of the middle two, hence the factor.
Reaches(scores) ==
  LET n == Len(scores)
      sorted == SortSeq(scores, <)
  IN IF VoteAggregation = "mean"
       THEN FoldSeq(+, 0, scores) >= VoteThreshold * n
       ELSE sorted[(n + 1) \div 2] + sorted[n \div 2 + 1] >= 2 * VoteThreshold

Accepted(votes, claim) ==
  LET scored == SetToSeq(Scored(votes, claim))
  IN /\ scored # <<>>
     /\ Reaches([k \in DOMAIN scored |-> votes[scored[k]].confidence])

AcceptedClaims(active, votes) == {c \in active : Accepted(votes, c)}

\* The quorum of every claim, rounded up.
RequiredVotes(participants) == (VoteQuorum * participants + 99) \div 100

\* Who voted on a claim, for the quorum.
QuorumVoters(votes, claim, participants) ==
  {v \in participants :
     \E i \in DOMAIN votes :
       votes[i].claim = claim /\ votes[i].voter = v /\ Coherent(votes[i])}

\* enforceDebateClaimQuorum: the claims that miss their quorum.
QuorumFailures(active, votes, participants) ==
  IF VoteQuorum = 0 \/ participants = {}
    THEN {}
    ELSE {c \in active : Cardinality(QuorumVoters(votes, c, participants))
                           < RequiredVotes(Cardinality(participants))}

\* resolveDebateClaims.
VoteOutcome(active, votes) ==
  LET accepted == AcceptedClaims(active, votes)
  IN CASE active # {} /\ accepted = active -> "consensus"
       [] accepted # {} /\ accepted # active -> "partial_consensus"
       [] OTHER -> "no_consensus"

\* One claim without its quorum degrades the outcome of the debate.
DebateOutcome(active, votes, participants) ==
  IF QuorumFailures(active, votes, participants) # {}
    THEN "quorum_not_met"
    ELSE VoteOutcome(active, votes)

\* What the session ends with (determineWorkflowTerminalState).
DebateTerminal(active, votes, participants) ==
  LET outcome == DebateOutcome(active, votes, participants)
  IN CASE active = {} \/ outcome = "quorum_not_met" -> "insufficient_evidence"
       [] outcome = "consensus" -> "completed"
       [] OTHER -> "unresolved_conflict"
=============================================================================
