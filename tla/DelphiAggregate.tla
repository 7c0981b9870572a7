--------------------------- MODULE DelphiAggregate ---------------------------
(***************************************************************************)
(* What a Delphi round makes of its responses: which responses are valid,  *)
(* which statement a rating belongs to, the mean and the agreement of each *)
(* statement, their order, and whether the sample is large enough.         *)
(* Means and agreement are in hundredths, rounded as the code rounds them. *)
(***************************************************************************)
EXTENDS Naturals, Sequences, SequencesExt, FiniteSetsExt

CONSTANTS
  Panel,                 \* the participants
  ScaleMin, ScaleMax,    \* DelphiPolicy: the rating scale
  ResponseQuorum,        \*   ... share of the panel, a percentage
  MinResponses,          \*   ... ratings every statement needs
  ConvergenceThreshold   \*   ... agreement, in hundredths

ASSUME DelphiPolicyAssumption ==
  /\ Panel # {} /\ IsFiniteSet(Panel)
  /\ {ScaleMin, ScaleMax} \subseteq Nat /\ ScaleMin < ScaleMax
  /\ ResponseQuorum \in 0 .. 100 /\ MinResponses \in Nat \ {0}
  /\ ConvergenceThreshold \in 0 .. 100

\* A response names a statement by its identifier, by its text, or both; 0 is
\* absent.  A statement nobody gave an identifier is identified by its text, so
\* identifiers and texts are the same numbers, in the order of strings.

\* ValidateDelphiResponses refuses the participant's response as a whole.
ValidResponses(responses) ==
  LET Key(r) == IF r.id # 0 THEN <<"id", r.id>> ELSE <<"statement", r.text>>
  IN /\ responses # <<>>
     /\ \A i \in DOMAIN responses :
          /\ responses[i].id # 0 \/ responses[i].text # 0
          /\ responses[i].rating \in ScaleMin .. ScaleMax
          /\ \A j \in 1 .. i - 1 : Key(responses[i]) # Key(responses[j])

\* The statement a response is about, given the statements of the last round.
IdOf(existing, response) ==
  LET known == {i \in DOMAIN existing : existing[i].text = response.text}
  IN CASE response.id # 0 -> response.id
       [] response.id = 0 /\ known # {} -> existing[Min(known)].id
       [] OTHER -> response.text

TextOf(existing, response) ==
  LET known == {i \in DOMAIN existing : existing[i].id = response.id}
  IN IF response.text = 0 /\ known # {} THEN existing[Max(known)].text ELSE response.text

\* The responses that rate a statement: the first of each participant.
Raters(existing, responses, id) ==
  {i \in DOMAIN responses :
     /\ IdOf(existing, responses[i]) = id
     /\ \A j \in 1 .. i - 1 :
          IdOf(existing, responses[j]) = id => responses[j].by # responses[i].by}

\* consensusFromRatings; a single rating shows no agreement.
Agreement(ratings, count) ==
  LET span == ScaleMax - ScaleMin
  IN IF count < 2 THEN 0
     ELSE (200 * (span - (Max(ratings) - Min(ratings))) + span) \div (2 * span)

\* average.
Mean(total, count) == (200 * total + count) \div (2 * count)

StatementOf(existing, responses, id) ==
  LET raters == Raters(existing, responses, id)
      first == Min({i \in DOMAIN responses : IdOf(existing, responses[i]) = id})
  IN [id |-> id,
      text |-> TextOf(existing, responses[first]),
      mean |-> Mean(FoldSet(LAMBDA i, sum : sum + responses[i].rating, 0, raters),
                    Cardinality(raters)),
      agreement |-> Agreement({responses[i].rating : i \in raters}, Cardinality(raters)),
      count |-> Cardinality(raters)]

\* Highest mean first, then highest agreement, then the identifier.
Before(s, t) ==
  \/ s.mean > t.mean
  \/ s.mean = t.mean /\ s.agreement > t.agreement
  \/ s.mean = t.mean /\ s.agreement = t.agreement /\ s.id < t.id

\* aggregateDelphiResponses: only what this round rated remains.
Aggregate(existing, responses) ==
  SetToSortSeq({StatementOf(existing, responses, IdOf(existing, responses[i])) :
                  i \in DOMAIN responses}, Before)

RequiredResponders == (ResponseQuorum * Cardinality(Panel) + 99) \div 100

MinResponsesMet(statements) ==
  /\ statements # <<>>
  /\ \A i \in DOMAIN statements : statements[i].count >= MinResponses

\* The statement a round puts first.
BestOf(statements) == IF statements = <<>> THEN 0 ELSE statements[1].id

BestAgreement(statements) == IF statements = <<>> THEN 0 ELSE statements[1].agreement

\* Mutant: the sample is not looked at.
AgreedAnySample(responders, statements) == BestAgreement(statements) >= ConvergenceThreshold

\* A round counts towards stability.
Agreed(responders, statements) ==
  /\ Cardinality(responders) >= RequiredResponders
  /\ MinResponsesMet(statements)
  /\ BestAgreement(statements) >= ConvergenceThreshold

\* The texts that may stand as the recommendation, 0 for none: what the best
\* statement says, in place of which a facilitator may have put a text of its own
\* in the round that converged. Without convergence the best statement is restored.
Recommendations(statements, converged) ==
  {IF statements = <<>> THEN 0 ELSE statements[1].text} \cup (IF converged THEN {0, 1} ELSE {})

\* determineWorkflowTerminalState.
DelphiTerminal(statements, recommendation, converged, quorumMet, minMet) ==
  CASE statements = <<>> \/ recommendation = 0 -> "insufficient_evidence"
    [] statements # <<>> /\ recommendation # 0 /\ converged -> "completed"
    [] OTHER -> IF quorumMet /\ minMet THEN "unresolved_conflict" ELSE "insufficient_evidence"
=============================================================================
