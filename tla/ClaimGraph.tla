----------------------------- MODULE ClaimGraph -----------------------------
(***************************************************************************)
(* The claims, challenge tickets and findings an adjudication works on     *)
(* (consensus/claims.go, arbiter.go and verifier.go, and the parts of      *)
(* workflow_adjudication.go that read and write them).                     *)
(*                                                                         *)
(* The module composes with AdjudicationRun: every action of the workflow  *)
(* is conjoined with what it does to the graph, and the data that module   *)
(* chooses freely (whether a claim is left to revise, the terminal state,  *)
(* what the records leave open) is what the graph gives.  A choice the     *)
(* graph asks for and AdjudicationRun rules out would be a deadlock.       *)
(***************************************************************************)
EXTENDS AdjudicationRun, Verification, FiniteSets

CONSTANTS
  MaxClaims,      \* bound: claims proposed in a session
  ClaimBound,     \* the same for a request
  Setup,          \* what a request brings to verify claims with
  AgentDecides,   \* does a request name an arbiter agent?
  HighEvidence,   \* does the request require evidence of level high?
  HighRisk        \* is the risk level of the case high?

ASSUME ClaimAssumption ==
  /\ MaxClaims \in Nat \ {0}
  /\ ClaimBound \in [Requests -> 1 .. MaxClaims]
  /\ \A r \in Requests : Setup[r] \in VerificationSetup
  /\ AgentDecides \in [Requests -> BOOLEAN]
  /\ HighEvidence \in [Requests -> BOOLEAN]
  /\ HighRisk \in BOOLEAN

VARIABLES
  graph,    \* the workflowRun's graph in memory
  stored,   \* the same in the snapshot
  todo      \* claims the running challenge or verification has yet to reach

graphVars == <<graph, stored, todo>>
allVars == <<adjVars, graphVars>>

\* Claims are numbered in the order of their ids, which is the graph's order.
Claims == 1 .. MaxClaims

\* A rewording and no change differ only in whether they are material.
RevisionActions == {"downgrade", "withdraw", "unresolved", "unchanged"}

\* size: the claims that exist are 1 .. size.  claim: status and verdict.
\* tickets and findings: the kinds a claim has, for those of one claim that
\* nothing tells apart are one ("open" without requested checks, "openChecks" with
\* some, "closed").  report: the arbiter's disposition of it.  active: the selection.
EmptyGraph ==
  [size |-> 0,
   claim |-> [c \in Claims |-> [status |-> "proposed", verdict |-> "none"]],
   tickets |-> [c \in Claims |-> {}],
   findings |-> [c \in Claims |-> {}],
   report |-> [c \in Claims |-> "none"],
   active |-> {}]

GraphInit ==
  /\ AdjInit
  /\ graph = EmptyGraph
  /\ stored = EmptyGraph
  /\ todo = {}

\* What a verification of a claim may find.
PossibleFindings == [r \in Requests |-> FindingSets(Setup[r])]

-----------------------------------------------------------------------------
(* Reading the graph.                                                      *)

Known(g) == 1 .. g.size

Withdrawn(g) == {c \in Known(g) : g.claim[c].status = "withdrawn"}

IsOpen(g, c) == g.tickets[c] \cap {"open", "openChecks"} # {}

OpenClaims(g) == {c \in Known(g) : IsOpen(g, c)}

\* An empty list of claim ids stands for all claims.
Selected(g) == IF g.active = {} THEN Known(g) ELSE g.active

\* Mutant: the arbiter gets the claims of the last round only.
ActiveClaimsOfRound(g) == Selected(g) \ Withdrawn(g)

\* activeAdjudicationClaims.
ActiveClaims(g) == Known(g) \ Withdrawn(g)

\* Mutant: withdrawn claims are verified like any other.
VerifyTargetsAll(g) == Selected(g)

VerifyTargets(g) == Selected(g) \ Withdrawn(g)

\* selectClaimsForRevision: an open ticket, or any finding of any round that is
\* not a pass.
RevisionCandidates(g) ==
  {c \in Selected(g) \ Withdrawn(g) :
     IsOpen(g, c) \/ g.findings[c] \cap {"failed", "inconclusive"} # {}}

WithVerdict(g, verdict) == {c \in Known(g) : g.claim[c].verdict = verdict}

\* DetermineTerminalState without an action.
TerminalState(g) ==
  CASE g.size = 0 -> "insufficient_evidence"
    [] /\ g.size # 0
       /\ HighEvidence[request]
       /\ WithVerdict(g, "supported") = {}
       /\ WithVerdict(g, "undetermined") # {} -> "insufficient_evidence"
    [] OTHER ->
         IF OpenClaims(g) = {} THEN "completed"
         ELSE IF HighRisk THEN "requires_human_review" ELSE "unresolved_conflict"

Recorded(g, disposition) == {c \in Known(g) : g.report[c] = disposition}

\* What decideAdjudicationFallback looks for in the records.
Leftover(g) ==
  CASE Recorded(g, "unresolved") # {} -> "unresolved"
    [] Recorded(g, "unresolved") = {} /\ Recorded(g, "keep_with_caveat") # {} -> "caveat"
    [] OTHER -> "none"

FirstNonEmpty(a, b, c) == IF a # {} THEN a ELSE IF b # {} THEN b ELSE c

\* The claims a fallback continues with.
FallbackClaims(g, cause) ==
  LET unresolved == Recorded(g, "unresolved")
  IN CASE cause = "unresolved_conflict" ->
            FirstNonEmpty(OpenClaims(g), unresolved, Known(g))
       [] cause = "keep_with_caveat" ->
            FirstNonEmpty(Recorded(g, "keep_with_caveat"), OpenClaims(g), Known(g))
       [] OTHER -> FirstNonEmpty(unresolved, OpenClaims(g), Known(g))

-----------------------------------------------------------------------------
(* Writing the graph.                                                      *)

\* UpsertClaim of a new statement; a repeated one changes nothing of interest.
WithClaim(g) == [g EXCEPT !.size = @ + 1]

\* UpsertChallenge and AttachChallengeToClaim.
WithTicket(g, c, kind) ==
  [g EXCEPT !.tickets[c] = @ \cup {kind}, !.claim[c].status = "challenged"]

\* UpsertChallenge of a ticket that exists and is open: it gets more checks;
\* "others" are further open tickets without.
WithChecks(g, c, others) ==
  [g EXCEPT !.tickets[c] = (@ \ {"open"}) \cup others \cup {"openChecks"}]

\* Mutant: an inconclusive verification closes tickets too.
ClosedOnAny(tickets, found, resolved) == (tickets \ resolved) \cup {"closed"}

\* CloseChallenges: a conclusive finding closes the tickets whose requested
\* checks the findings cover.
ClosedBy(tickets, found, resolved) ==
  IF found \cap {"passed", "failed"} = {} \/ resolved = {}
    THEN tickets
    ELSE (tickets \ resolved) \cup {"closed"}

\* Tickets without requested checks are always resolved, the others may be:
\* all of them, some of them, or none.
Resolutions(tickets) ==
  {[closed |-> r, kept |-> k] :
     r \in {s \in SUBSET (tickets \cap {"open", "openChecks"}) :
              tickets \cap {"open"} \subseteq s},
     k \in SUBSET (tickets \cap {"openChecks"})}

\* AttachVerificationOutcome for each finding, then CloseChallenges.
WithFindings(g, c, found, resolution) ==
  IF found = {} THEN g
  ELSE [g EXCEPT !.findings[c] = @ \cup found,
                 !.claim[c].status = "verified",
                 !.tickets[c] = ClosedBy(@, found, resolution.closed) \cup resolution.kept]

\* One record of ApplyRevisionRecords.
RevisedClaim(claim, action) ==
  CASE action = "withdraw"   -> [status |-> "withdrawn", verdict |-> "refuted"]
    [] action = "unresolved" -> [status |-> "revised", verdict |-> "undetermined"]
    [] action = "downgrade"  ->
         [status |-> "revised",
          verdict |-> IF claim.verdict = "supported"
                        THEN "insufficient_evidence" ELSE claim.verdict]
    [] OTHER                 -> [claim EXCEPT !.status = "revised"]

\* ApplyRevisionRecords for at most one record per claim.
WithRevisions(g, actions) ==
  [g EXCEPT !.claim = [c \in Claims |->
     IF c \in DOMAIN actions THEN RevisedClaim(g.claim[c], actions[c]) ELSE g.claim[c]]]

\* builtinRevisionRecords, which stand in for a proposer that does not answer.
BuiltinAction(g, c) ==
  CASE "failed" \in g.findings[c] -> "withdraw"
    [] "failed" \notin g.findings[c] /\ "inconclusive" \in g.findings[c] -> "unresolved"
    [] g.findings[c] \subseteq {"passed"} /\ IsOpen(g, c) -> "downgrade"
    [] OTHER -> "unchanged"

\* What the agents that answer may send, validateRevisionDrafts: one record at
\* most for each claim they were asked about, and not nothing.
AgentRevisions(asked) ==
  {answers \in UNION {[D -> RevisionActions] : D \in SUBSET asked} :
     asked # {} => DOMAIN answers # {}}

\* A withdrawal is material, and so is an agent's unresolved claim, for it comes
\* with another text; with the least material confidence delta so is every other
\* built-in revision but "unchanged", with a larger one it need not be; the rest
\* agents send may be either.
MayBeMaterial(g, silent, answers, material) ==
  /\ (\/ \E c \in silent : BuiltinAction(g, c) = "withdraw"
      \/ \E c \in DOMAIN answers : answers[c] \in {"withdraw", "unresolved"}) => material
  /\ (/\ \A c \in silent : BuiltinAction(g, c) = "unchanged"
      /\ DOMAIN answers = {}) => ~material

\* runRevisionPhase asks the proposers of the targets, each about its own claims.
\* Those of the claims in "silent" do not answer.
Revised(g, silent, answers) ==
  WithRevisions(g, [c \in silent \cup DOMAIN answers |->
    IF c \in silent THEN BuiltinAction(g, c) ELSE answers[c]])

Revisions(g, targets) ==
  UNION {{[graph |-> Revised(g, silent, e[1]),
           revised |-> silent \cup DOMAIN e[1],
           material |-> e[2]] :
            e \in {f \in AgentRevisions(targets \ silent) \X BOOLEAN :
                     MayBeMaterial(g, silent, f[1], f[2])}} :
          silent \in SUBSET targets}

\* Mutant: a pass outweighs a failure.
DispositionPassFirst(g, c, clear) ==
  CASE "passed" \in g.findings[c] ->
         IF IsOpen(g, c) \/ ~clear THEN "keep_with_caveat" ELSE "keep"
    [] "passed" \notin g.findings[c] /\ "failed" \in g.findings[c] -> "reject"
    [] OTHER -> "unresolved"

\* adjudicateClaim; "clear" says whether the boundary of the claim is.
Disposition(g, c, clear) ==
  CASE "failed" \in g.findings[c] -> "reject"
    [] "failed" \notin g.findings[c] /\ "passed" \in g.findings[c] ->
         IF IsOpen(g, c) \/ ~clear THEN "keep_with_caveat" ELSE "keep"
    [] OTHER -> "unresolved"

\* ApplyAdjudicationRecords: the disposition decides the verdict.
VerdictOf ==
  [keep |-> "supported", keep_with_caveat |-> "supported",
   unresolved |-> "undetermined", reject |-> "refuted"]

\* ApplyDecisions, then ApplyAdjudicationRecords: a record outweighs a decision.
Adjudicated(g, verdicts, report) ==
  LET decided == [c \in Claims |->
        CASE report[c] # "none" -> VerdictOf[report[c]]
          [] report[c] = "none" /\ c \in DOMAIN verdicts -> verdicts[c]
          [] OTHER -> "none"]
  IN [g EXCEPT !.report = report,
        !.claim = [c \in Claims |->
          IF decided[c] = "none" THEN g.claim[c]
          ELSE [status |-> "adjudicated", verdict |-> decided[c]]]]

\* ruleBasedDecision decides every claim that is not withdrawn.
Decided(g, clear) ==
  Adjudicated(g, <<>>, [c \in Claims |->
    IF c \in ActiveClaims(g) THEN Disposition(g, c, c \in clear) ELSE "none"])

ClaimVerdicts == {"supported", "refuted", "insufficient_evidence", "undetermined"}

\* deriveRecordsFromDecisions, for an agent that sent no records: what its verdict
\* may become.  A revised claim that is less than supported may be kept with a
\* caveat.
DerivedFrom(g, c, verdict) ==
  CASE verdict = "supported" -> {"keep", "keep_with_caveat"}
    [] verdict = "refuted"   -> {"reject"}
    [] OTHER -> {"unresolved"} \cup
                (IF c \in ActiveClaims(g) /\ g.claim[c].status = "revised"
                   THEN {"keep_with_caveat"} ELSE {})

\* What may be said of some of the claims.
Partial(g, S) == UNION {[D -> S] : D \in SUBSET Known(g)}

RecordsOf(r) == [c \in Claims |-> IF c \in DOMAIN r THEN r[c] ELSE "none"]

\* tryDelegateArbiter: an arbiter agent sends a verdict on, and a record of, the
\* claims it likes, a withdrawn one as well.
SentDecisions(g) ==
  {Adjudicated(g, v, RecordsOf(r)) :
     v \in Partial(g, ClaimVerdicts), r \in Partial(g, DOMAIN VerdictOf) \ {<<>>}}

\* Or it sends verdicts only.
DerivedDecisions(g) ==
  UNION {{Adjudicated(g, v, RecordsOf(r)) :
            r \in {f \in [DOMAIN v -> DOMAIN VerdictOf] :
                     \A c \in DOMAIN v : f[c] \in DerivedFrom(g, c, v[c])}} :
           v \in Partial(g, ClaimVerdicts)}

AgentDecisions(g) == SentDecisions(g) \cup DerivedDecisions(g)

\* decideArbiter: the agent, if there is one, else the rules, which also decide
\* when the deadline stops the agent.
Decisions(g) ==
  {Decided(g, clear) : clear \in SUBSET ActiveClaims(g)}
    \cup (IF AgentDecides[request] THEN AgentDecisions(g) ELSE {})

-----------------------------------------------------------------------------
(* The workflow's actions on the graph.                                    *)

\* patchRunState: a checkpoint stores the whole graph.
Save(g) == graph' = g /\ stored' = g /\ todo' = {}

\* Only the graph in memory changes.
Change(g) == graph' = g /\ UNCHANGED stored

\* What advancePhase and failSession store: claims and tickets, not findings,
\* records or the active claims.
GraphPatch(g) ==
  [stored EXCEPT !.size = g.size, !.claim = g.claim, !.tickets = g.tickets]

Aside == UNCHANGED graphVars

\* A revision's checkpoint stores the claims it revised; a fresh run that found
\* no material change leaves its loop with the active claims as they were.
SaveRevision(r, ids) ==
  LET saved == [r.graph EXCEPT !.active = ids]
  IN /\ stored' = saved
     /\ graph' = IF run.fresh /\ ~r.material
                   THEN [saved EXCEPT !.active = graph.active] ELSE saved
     /\ todo' = {}

EnterPhaseG ==
  /\ EnterPhase
  /\ stored' = GraphPatch(graph)
  /\ todo' = CASE EntryPhase = "challenge" -> Known(graph)
               [] EntryPhase = "verify"    -> VerifyTargets(graph)
               [] OTHER                    -> {}
  /\ UNCHANGED graph

\* A proposer's answer brings one more claim.
ProposeClaim ==
  /\ Working("propose")
  /\ graph.size < ClaimBound[request]
  /\ ProposeSome \/ (loop.data.claims = "partial" /\ UNCHANGED adjVars)
  /\ Change(WithClaim(graph))
  /\ UNCHANGED todo

CommitProposeG ==
  /\ CommitPropose
  /\ Save([graph EXCEPT !.active = Known(graph)])

\* A challenger may name any claim of the graph, also a withdrawn one or one
\* that is not active.  Tickets on different claims commute, so they come in the
\* order of the graph; bound: one new ticket per claim and round.
OpenTicket ==
  /\ Working("challenge")
  /\ UNCHANGED adjVars
  /\ \E c \in todo :
       /\ \/ \E kind \in {"open", "openChecks"} : Change(WithTicket(graph, c, kind))
          \/ /\ "open" \in graph.tickets[c]
             /\ \E others \in SUBSET {"open"} : Change(WithChecks(graph, c, others))
       /\ todo' = {d \in todo : d > c}

CommitChallengeG == CommitChallenge /\ Save(graph)

\* The findings of the next claim, in the order of the graph.
VerifyClaim ==
  /\ Working("verify")
  /\ UNCHANGED adjVars
  /\ \E c \in todo :
       /\ \A d \in todo : c <= d
       /\ \E found \in PossibleFindings[request], r \in Resolutions(graph.tickets[c]) :
            Change(WithFindings(graph, c, found, r))
       /\ todo' = todo \ {c}

\* All claims are verified, or the deadline has passed and the rest is left out.
CommitVerifyG ==
  /\ CommitVerify
  /\ loop'.data.pending = (RevisionCandidates(graph) # {})
  /\ Save(graph)

CommitReviseG ==
  /\ CommitRevise
  /\ \E r \in Revisions(graph, RevisionCandidates(graph)) :
       /\ loop'.data.material = r.material
       /\ SaveRevision(r, IF r.revised = {} /\ ~run.fresh
                            THEN RevisionCandidates(graph) ELSE r.revised)

\* Mutant: the terminal state is that of the graph before the decision.
OutcomeBeforeDecision(d) == TerminalState(graph)

\* startAdjudication determines the terminal state from the decided graph.
OutcomeOfDecision(d) == TerminalState(d)

CommitAdjudicateG ==
  /\ CommitAdjudicate
  /\ \E d \in Decisions(graph) :
       /\ loop'.data.outcome = OutcomeOfDecision(d)
       /\ loop'.data.leftover = Leftover(d)
       /\ loop'.data.records = (\E c \in Claims : d.report[c] # "none")
       /\ Save(d)

CommitIngestG ==
  /\ CommitIngest
  /\ Save([graph EXCEPT !.active = FallbackClaims(graph, FallbackCause(loop.data))])

CommitReviseAgainG ==
  /\ CommitReviseAgain
  /\ \E r \in Revisions(graph, FallbackClaims(graph, FallbackCause(loop.data))) :
       /\ loop'.data.material = r.material
       /\ loop'.data.outcome = TerminalState(r.graph)
       /\ SaveRevision(r, r.revised)

CommitReportG ==
  /\ CommitReport \/ CommitReportAgain
  /\ Save([graph EXCEPT !.active = Known(graph)])

\* Any error.  One of the checkpoint's patch comes after the revision or the
\* decision has changed the graph in memory.
StepErrorG ==
  /\ AdjStepError
  /\ \/ Aside
     \/ /\ Working("revise")
        /\ \E r \in Revisions(graph, RevisionCandidates(graph)) : Change(r.graph)
        /\ UNCHANGED todo
     \/ /\ Working("reviseAgain")
        /\ \E r \in Revisions(graph, FallbackClaims(graph, FallbackCause(loop.data))) :
             Change(r.graph)
        /\ UNCHANGED todo
     \/ /\ Working("adjudicate")
        /\ \E d \in Decisions(graph) : Change(d)
        /\ UNCHANGED todo

Forget == graph' = EmptyGraph /\ todo' = {}

\* failSession stores the claims and tickets as they are in memory.
FailSessionG ==
  /\ AdjFailSession
  /\ stored' = IF snap' = snap THEN stored ELSE GraphPatch(graph)
  /\ snap' # snap /\ snap.done = "verify" =>
       ckpt'.pending = (RevisionCandidates(stored') # {})
  /\ snap' # snap /\ snap.done = "adjudicate" => ckpt'.outcome = TerminalState(stored')
  /\ Forget

CrashG == AdjCrash /\ Forget /\ UNCHANGED stored

ResumeG ==
  /\ AdjResume
  /\ graph' = IF AlreadyFinished THEN EmptyGraph
              ELSE [stored EXCEPT !.active = Selected(stored)]
  /\ todo' = {}
  /\ UNCHANGED stored

GraphNext ==
  \/ AdjPrelude /\ Aside
  \/ EnterPhaseG
  \/ RejectPhase /\ Aside
  \/ ProposeClaim \/ CommitProposeG
  \/ OpenTicket \/ CommitChallengeG
  \/ VerifyClaim \/ CommitVerifyG
  \/ CommitReviseG
  \/ CommitAdjudicateG \/ CommitIngestG \/ CommitReviseAgainG
  \/ CommitReportG
  \/ Close /\ Aside
  \/ AdjClosing /\ Aside
  \/ StepErrorG \/ FailSessionG \/ CrashG \/ ResumeG
  \/ Returned /\ Outside /\ Aside

GraphSpec == GraphInit /\ [][GraphNext]_allVars

-----------------------------------------------------------------------------
(* Properties.                                                             *)

\* What AdjudicationRun keeps of the graph is what the stored graph says at the
\* points the control reads it, also after a failure stored the claims and the
\* tickets of an unfinished phase without its findings.
DataFollowsGraph ==
  /\ ckpt.claims = "none" <=> stored.size = 0
  /\ snap.done = "verify" => ckpt.pending = (RevisionCandidates(stored) # {})
  /\ snap.done \in {"adjudicate", "report"} => ckpt.outcome = TerminalState(stored)

Reported == snap.done \in {"report", "action", "observe"}

\* Without an arbiter agent no claim is reported as supported unless a
\* verification passed and none, in any round, failed: neither a revision nor a
\* fallback nor a resume drops a failure the arbiter has to see.
SupportIsEarned ==
  Reported /\ ~AgentDecides[request] =>
    \A c \in WithVerdict(stored, "supported") :
      "passed" \in stored.findings[c] /\ "failed" \notin stored.findings[c]

\* The report stands on a decision about every claim that is not withdrawn,
\* made after the last revision of that claim, over crashes too.  A second
\* revision that changed nothing material may come after the decision, and a
\* failure may store the claims of a revision that is not redone.  An arbiter agent
\* may leave claims out.
ReportedClaimsDecided ==
  Reported /\ ~AgentDecides[request] /\ ckpt.rr <= MaxRevisionRounds /\ failures = 0 =>
    \A c \in Known(stored) \ Withdrawn(stored) :
      stored.claim[c].status = "adjudicated" /\ stored.report[c] # "none"

\* A closed ticket is backed by a conclusive finding about its claim; a failure
\* that stores tickets without findings breaks this, crashes do not.
ClosingIsBacked ==
  failures = 0 =>
    \A g \in {graph, stored}, c \in Claims :
      "closed" \in g.tickets[c] => g.findings[c] \cap {"passed", "failed"} # {}

\* A withdrawn claim takes part again only because a challenger names it, a
\* fallback revises it or an arbiter agent decides it: neither the verifier nor
\* the rules of the arbiter revive it.
RevivedByWorkersOnly ==
  [][\A c \in Withdrawn(stored) :
       stored'.claim[c].status # "withdrawn" =>
         \/ run.phase \in {"challenge", "revise"}
         \/ run.phase = "adjudicate" /\ AgentDecides[request]]_allVars
=============================================================================
