-------------------------- MODULE ClaimGraph_proofs --------------------------
(***************************************************************************)
(* What holds of the claims of every adjudication, for any number of       *)
(* claims, requests and faults: the graph's actions are the workflow's, so *)
(* what AdjudicationRun_proofs proves holds with the graph too; the data   *)
(* the workflow decides by are those of the stored graph; what is reported *)
(* as supported has been verified and is decided by the records; closed    *)
(* tickets are backed; and who may bring a withdrawn claim back.           *)
(***************************************************************************)
EXTENDS ClaimGraph, AdjudicationRun_proofs

ClaimStatuses == {"proposed", "challenged", "verified", "revised", "withdrawn", "adjudicated"}

ClaimsType == [Claims -> [status : ClaimStatuses, verdict : ClaimVerdicts \cup {"none"}]]
TicketsType == [Claims -> SUBSET {"open", "openChecks", "closed"}]
FindingsType == [Claims -> SUBSET VerificationStatus]

GraphType ==
  [size : 0 .. MaxClaims,
   claim : ClaimsType, tickets : TicketsType, findings : FindingsType,
   report : [Claims -> {"none", "keep", "keep_with_caveat", "unresolved", "reject"}],
   active : SUBSET Claims]

GraphTypeOK == graph \in GraphType /\ stored \in GraphType /\ todo \subseteq Claims

\* The two graphs differ in nothing but the active claims.
Same(g, h) ==
  /\ g.size = h.size /\ g.claim = h.claim /\ g.tickets = h.tickets
  /\ g.findings = h.findings /\ g.report = h.report

Live == pc \notin {"down", "returned"}

\* The graph in memory may hold work that the snapshot does not.
Ahead ==
  /\ loop.entered
  /\ \/ pc \in {"body", "failing"} /\ loop.step \in {"propose", "challenge", "verify"}
     \/ pc = "failing" /\ loop.step \in {"revise", "adjudicate", "reviseAgain"}

GraphKept ==
  /\ Live /\ ~Ahead => Same(graph, stored)
  /\ Live => stored.size <= graph.size
  /\ Live /\ ~(loop.entered /\ loop.step = "verify") => graph.findings = stored.findings

\* Withdrawals that are stored are known in memory, but for the phases that revive.
WithdrawnKept ==
  /\ Live => \A c \in Withdrawn(stored) :
       \/ graph.claim[c].status = "withdrawn"
       \/ run.phase \in {"challenge", "revise"}
       \/ run.phase = "adjudicate" /\ AgentDecides[request]
  /\ pc = "body" /\ loop.step = "verify" /\ loop.entered
       => \A c \in todo : graph.claim[c].status # "withdrawn"

WithdrawnRefuted(g) ==
  \A c \in Claims : g.claim[c].status = "withdrawn" => g.claim[c].verdict = "refuted"

\* Which checkpoint a step of the loop follows.
StepsLocated ==
  /\ pc \in {"idle", "prelude"} => snap.done = "created"
  /\ pc \in {"body", "failing"} \cup ClosingPcs =>
       /\ loop.step = "propose" => snap.done \in {"created", "ingest"}
       /\ loop.step = "verify" => snap.done = "challenge"
       /\ loop.step \in {"ingest", "reviseAgain"} => snap.done = "adjudicate"
       /\ snap.done \in {"report", "action", "observe"} => loop.step \in {"close", "noClaims"}
       /\ loop.step = "noClaims" => stored.size = 0
  /\ pc \in ClosingPcs => loop.step \in {"close", "noClaims"}

Earned(g) ==
  \A c \in WithVerdict(g, "supported") :
    "passed" \in g.findings[c] /\ "failed" \notin g.findings[c]

AllDecided(g) ==
  \A c \in Known(g) \ Withdrawn(g) :
    g.claim[c].status = "adjudicated" /\ g.report[c] # "none"

Backed(g) ==
  \A c \in Claims :
    "closed" \in g.tickets[c] => g.findings[c] \cap {"passed", "failed"} # {}

\* From a decision on, until a fallback starts another cycle.
Judged ==
  \/ snap.done \in {"adjudicate", "report", "action", "observe"}
  \/ pc \in ClosingPcs
  \/ pc = "body" /\ loop.step \in {"ingest", "reviseAgain", "report", "close", "noClaims"}

EarnedInv ==
  ~AgentDecides[request] /\ Judged => Earned(stored) /\ (Live => Earned(graph))

\* The report is under way or behind.
Reporting ==
  \/ snap.done \in {"report", "action", "observe"}
  \/ pc \in ClosingPcs
  \/ pc = "body" /\ loop.step \in {"report", "close", "noClaims"}

DecidedInv ==
  failures = 0 /\ ~AgentDecides[request] =>
    /\ snap.done = "adjudicate" => AllDecided(stored)
    /\ Reporting /\ ckpt.rr <= MaxRevisionRounds => AllDecided(stored)

DataInv ==
  /\ DataFollowsGraph
  /\ Live => (loop.data.claims = "none" <=> graph.size = 0)
  /\ pc = "body" /\ loop.step = "report" => ckpt.outcome = TerminalState(stored)
  /\ pc = "body" /\ loop.step \in {"ingest", "report"} =>
       loop.data.rr = ckpt.rr /\ loop.data.outcome = ckpt.outcome

BackedInv == failures = 0 => Backed(graph) /\ Backed(stored)

GraphInv ==
  /\ GraphTypeOK
  /\ graph.active \subseteq Known(graph) /\ stored.active \subseteq Known(stored)
  /\ GraphKept
  /\ WithdrawnKept
  /\ WithdrawnRefuted(graph) /\ WithdrawnRefuted(stored)
  /\ StepsLocated
  /\ EarnedInv
  /\ DecidedInv
  /\ DataInv
  /\ BackedInv

-----------------------------------------------------------------------------
(* The workflow underneath.                                                *)

\* Every step with the graph is a step of the workflow or invisible to it.
LEMMA GraphSteps == [GraphNext]_allVars => [AdjNext]_adjVars
<1> SUFFICES ASSUME [GraphNext]_allVars PROVE [AdjNext]_adjVars
  OBVIOUS
<1>1. CASE UNCHANGED allVars
  BY <1>1 DEF allVars,
       AdjNext, AdjEngineStep, AdjBody
<1>2. CASE ProposeClaim
  BY <1>2 DEF ProposeClaim,
       AdjNext, AdjEngineStep, AdjBody
<1>3. CASE OpenTicket \/ VerifyClaim
  BY <1>3 DEF OpenTicket, VerifyClaim,
       AdjNext, AdjEngineStep, AdjBody
<1>4. CASE \/ (AdjPrelude /\ Aside) \/ EnterPhaseG \/ (RejectPhase /\ Aside)
           \/ CommitProposeG \/ CommitChallengeG \/ CommitVerifyG
  BY <1>4 DEF EnterPhaseG, CommitProposeG, CommitChallengeG, CommitVerifyG,
       AdjNext, AdjEngineStep, AdjBody
<1>5. CASE CommitReviseG \/ CommitAdjudicateG \/ CommitIngestG \/ CommitReviseAgainG \/ CommitReportG
  BY <1>5 DEF CommitReviseG, CommitAdjudicateG, CommitIngestG, CommitReviseAgainG, CommitReportG,
       AdjNext, AdjEngineStep, AdjBody
<1>6. CASE \/ (Close /\ Aside) \/ (AdjClosing /\ Aside)
           \/ StepErrorG \/ FailSessionG \/ CrashG \/ ResumeG
           \/ (Returned /\ Outside /\ Aside)
  BY <1>6 DEF StepErrorG, FailSessionG, CrashG, ResumeG,
       AdjNext, AdjEngineStep, AdjBody
<1> QED BY <1>1, <1>2, <1>3, <1>4, <1>5, <1>6 DEF GraphNext

\* The workflow with its claims is the workflow: what is proved of every
\* adjudication run holds of it.
THEOREM GraphImplementsRun == GraphSpec => AdjSpec
<1>1. GraphInit => AdjInit
  BY DEF GraphInit
<1> QED BY <1>1, GraphSteps, PTL DEF GraphSpec, AdjSpec

WorkflowInv == AdjInv /\ FallbackInv /\ PlanInv

LEMMA WorkflowInvariant == GraphSpec => []WorkflowInv
BY GraphImplementsRun, AdjInvariant, FallbackInvariant, PlanInvariant, PTL DEF WorkflowInv
-----------------------------------------------------------------------------
(* What the graph's operators change.                                      *)

LEMMA GraphParts ==
  ASSUME NEW g \in GraphType
  PROVE  /\ g.size \in 0 .. MaxClaims
         /\ g.claim \in ClaimsType /\ g.tickets \in TicketsType /\ g.findings \in FindingsType
         /\ g.report \in [Claims -> {"none", "keep", "keep_with_caveat", "unresolved", "reject"}]
         /\ g.active \in SUBSET Claims
         /\ Known(g) \subseteq Claims
<1>1. g.size \in 0 .. MaxClaims /\ MaxClaims \in Nat
  BY ClaimAssumption DEF GraphType
<1> QED BY <1>1 DEF GraphType, Known, Claims

LEMMA EmptyGraphParts ==
  /\ EmptyGraph \in GraphType /\ EmptyGraph.size = 0 /\ EmptyGraph.active = {}
  /\ WithdrawnRefuted(EmptyGraph) /\ Backed(EmptyGraph)
<1>1. MaxClaims \in Nat
  BY ClaimAssumption
<1> QED BY <1>1 DEF EmptyGraph, GraphType, ClaimsType, TicketsType, FindingsType, ClaimStatuses, WithdrawnRefuted, Backed

LEMMA ActiveChanged ==
  ASSUME NEW g \in GraphType, NEW active \in SUBSET Claims
  PROVE  [g EXCEPT !.active = active] \in GraphType /\ Same([g EXCEPT !.active = active], g)
BY DEF GraphType, Same

\* Nothing but the selection for verification looks at the active claims.
LEMMA SameSays ==
  ASSUME NEW g, NEW h, Same(g, h)
  PROVE  /\ TerminalState(g) = TerminalState(h)
         /\ WithdrawnRefuted(g) = WithdrawnRefuted(h)
         /\ Earned(g) = Earned(h) /\ AllDecided(g) = AllDecided(h) /\ Backed(g) = Backed(h)
         /\ Known(g) = Known(h) /\ Withdrawn(g) = Withdrawn(h)
<1>1. /\ Known(g) = Known(h) /\ Withdrawn(g) = Withdrawn(h)
      /\ \A verdict : WithVerdict(g, verdict) = WithVerdict(h, verdict)
      /\ OpenClaims(g) = OpenClaims(h)
  BY DEF Same, Known, Withdrawn, WithVerdict, OpenClaims, IsOpen
<1>2. TerminalState(g) = TerminalState(h)
  BY <1>1 DEF Same, TerminalState
<1> QED BY <1>1, <1>2 DEF Same, WithdrawnRefuted, Earned, AllDecided, Backed

LEMMA ClaimAdded ==
  ASSUME NEW g \in GraphType, g.size < MaxClaims
  PROVE  /\ WithClaim(g) \in GraphType /\ WithClaim(g).size = g.size + 1
         /\ WithClaim(g).claim = g.claim /\ WithClaim(g).tickets = g.tickets
         /\ WithClaim(g).findings = g.findings /\ WithClaim(g).report = g.report
<1>1. g.size + 1 \in 0 .. MaxClaims
  BY ClaimAssumption DEF GraphType
<1> QED BY <1>1 DEF WithClaim, GraphType

LEMMA TicketsUpdated ==
  ASSUME NEW g \in GraphType, NEW tickets \in TicketsType, NEW claim \in ClaimsType
  PROVE  [g EXCEPT !.tickets = tickets, !.claim = claim] \in GraphType
BY DEF GraphType, TicketsType, ClaimsType

LEMMA FindingsUpdated ==
  ASSUME NEW g \in GraphType, NEW findings \in FindingsType, NEW claim \in ClaimsType,
         NEW tickets \in TicketsType
  PROVE  [g EXCEPT !.findings = findings, !.claim = claim, !.tickets = tickets] \in GraphType
<1>1. [g EXCEPT !.findings = findings, !.claim = claim] \in GraphType
  BY DEF GraphType, FindingsType, ClaimsType
<1> QED BY <1>1 DEF GraphType, TicketsType

LEMMA StatusUpdated ==
  ASSUME NEW claims \in ClaimsType, NEW c \in Claims, NEW status \in ClaimStatuses
  PROVE  LET new == [claims EXCEPT ![c] = [@ EXCEPT !.status = status]]
         IN  /\ new \in ClaimsType
             /\ \A d \in Claims :
                  /\ new[d].verdict = claims[d].verdict
                  /\ new[d].status = IF d = c THEN status ELSE claims[d].status
BY DEF ClaimsType

\* A ticket leaves a graph of the same claims.
LEMMA TicketAdded ==
  ASSUME NEW g \in GraphType, NEW c \in Claims, NEW kind \in {"open", "openChecks"},
         NEW t, t = WithTicket(g, c, kind)
  PROVE  /\ t \in GraphType /\ t.size = g.size /\ t.findings = g.findings
         /\ t.report = g.report /\ t.active = g.active
<1> DEFINE claims == [g.claim EXCEPT ![c] = [@ EXCEPT !.status = "challenged"]]
           tickets == [g.tickets EXCEPT ![c] = @ \cup {kind}]
<1>1. /\ t.size = g.size /\ t.findings = g.findings /\ t.report = g.report /\ t.active = g.active
      /\ t.claim = claims /\ t.tickets = tickets
  BY DEF WithTicket, GraphType
<1>2. claims \in ClaimsType
  <2>1. g.claim \in ClaimsType /\ "challenged" \in ClaimStatuses
    BY GraphParts DEF ClaimStatuses
  <2> QED BY <2>1, StatusUpdated
<1>3. tickets \in TicketsType
  BY GraphParts DEF TicketsType
<1>4. t \in GraphType
  <2>1. t = [g EXCEPT !.tickets = tickets, !.claim = claims]
    BY DEF WithTicket, GraphType
  <2> HIDE DEF claims, tickets
  <2>2. [g EXCEPT !.tickets = tickets, !.claim = claims] \in GraphType
    BY <1>2, <1>3, TicketsUpdated, Zenon
  <2> QED BY <2>1, <2>2, Zenon
<1> QED BY <1>1, <1>4

\* What a ticket leaves of one claim.
LEMMA TicketAddedAt ==
  ASSUME NEW g \in GraphType, NEW c \in Claims, NEW kind \in {"open", "openChecks"},
         NEW t, t = WithTicket(g, c, kind), NEW d \in Claims
  PROVE  /\ t.claim[d].verdict = g.claim[d].verdict
         /\ t.claim[d].status = IF d = c THEN "challenged" ELSE g.claim[d].status
         /\ "closed" \in t.tickets[d] <=> "closed" \in g.tickets[d]
<1>1. /\ t.claim = [g.claim EXCEPT ![c] = [@ EXCEPT !.status = "challenged"]]
      /\ t.tickets = [g.tickets EXCEPT ![c] = @ \cup {kind}]
  BY DEF WithTicket, GraphType
<1>2. /\ g.claim \in [Claims -> [status : ClaimStatuses, verdict : ClaimVerdicts \cup {"none"}]]
      /\ g.tickets \in [Claims -> SUBSET {"open", "openChecks", "closed"}]
  BY GraphParts DEF ClaimsType, TicketsType
<1>3. "closed" \in t.tickets[d] <=> "closed" \in g.tickets[d]
  BY <1>1, <1>2
<1>4. /\ t.claim[d].verdict = g.claim[d].verdict
      /\ t.claim[d].status = IF d = c THEN "challenged" ELSE g.claim[d].status
  BY <1>1, <1>2
<1> QED BY <1>3, <1>4

LEMMA ChecksAdded ==
  ASSUME NEW g \in GraphType, NEW c \in Claims, NEW others \in SUBSET {"open"}
  PROVE  LET t == WithChecks(g, c, others)
         IN  /\ t \in GraphType /\ t.size = g.size /\ t.findings = g.findings
             /\ t.report = g.report /\ t.active = g.active /\ t.claim = g.claim
             /\ \A d \in Claims : "closed" \in t.tickets[d] <=> "closed" \in g.tickets[d]
<1> DEFINE tickets == [g.tickets EXCEPT ![c] = (@ \ {"open"}) \cup others \cup {"openChecks"}]
<1>1. /\ tickets \in TicketsType
      /\ \A d \in Claims : "closed" \in tickets[d] <=> "closed" \in g.tickets[d]
  BY GraphParts DEF TicketsType
<1> QED BY <1>1 DEF WithChecks, GraphType

\* What a verification may find are statuses.
LEMMA FindingStatuses ==
  ASSUME NEW r \in Requests, NEW found \in PossibleFindings[r]
  PROVE  found \in SUBSET VerificationStatus
<1>1. found \in FindingSets(Setup[r])
  BY DEF PossibleFindings
<1>2. SemanticOutcomes \subseteq VerificationStatus
  BY DEF SemanticOutcomes, SemanticStatus, VerificationStatus
<1> QED BY <1>1, <1>2 DEF FindingSets

\* Findings: a ticket is closed only with a conclusive one, which the claim gets.
LEMMA FindingsAdded ==
  ASSUME NEW g \in GraphType, NEW c \in Claims, NEW found \in SUBSET VerificationStatus,
         NEW resolution \in Resolutions(g.tickets[c])
  PROVE  LET f == WithFindings(g, c, found, resolution)
         IN  /\ f \in GraphType /\ f.size = g.size /\ f.report = g.report /\ f.active = g.active
             /\ \A d \in Claims :
                  /\ f.claim[d].verdict = g.claim[d].verdict
                  /\ f.claim[d].status = g.claim[d].status \/ (d = c /\ f.claim[d].status = "verified")
             /\ Backed(g) => Backed(f)
<1> DEFINE f == WithFindings(g, c, found, resolution)
<1>3. SUFFICES
        /\ f \in GraphType /\ f.size = g.size /\ f.report = g.report /\ f.active = g.active
        /\ \A d \in Claims :
             /\ f.claim[d].verdict = g.claim[d].verdict
             /\ f.claim[d].status = g.claim[d].status \/ (d = c /\ f.claim[d].status = "verified")
        /\ Backed(g) => Backed(f)
  OBVIOUS
<1>0. resolution.kept \subseteq {"openChecks"} /\ g.tickets[c] \subseteq {"open", "openChecks", "closed"}
  BY GraphParts DEF Resolutions, TicketsType
<1>1. CASE found = {}
  <2>1. f = g
    BY <1>1 DEF WithFindings
  <2> HIDE DEF f
  <2> QED BY <2>1
<1>2. CASE found # {}
  <2> DEFINE claims == [g.claim EXCEPT ![c] = [@ EXCEPT !.status = "verified"]]
             findings == [g.findings EXCEPT ![c] = @ \cup found]
             closed == ClosedBy(g.tickets[c], found, resolution.closed) \cup resolution.kept
             tickets == [g.tickets EXCEPT ![c] = closed]
  <2>1. f = [g EXCEPT !.findings = findings, !.claim = claims, !.tickets = tickets]
    BY <1>2 DEF WithFindings
  <2>2. /\ claims \in ClaimsType
        /\ \A d \in Claims :
             /\ claims[d].verdict = g.claim[d].verdict
             /\ claims[d].status = IF d = c THEN "verified" ELSE g.claim[d].status
    <3>1. g.claim \in ClaimsType /\ "verified" \in ClaimStatuses
      BY GraphParts DEF ClaimStatuses
    <3> QED BY <3>1, StatusUpdated
  <2>3. /\ findings \in FindingsType
        /\ findings[c] = g.findings[c] \cup found
        /\ \A d \in Claims : d # c => findings[d] = g.findings[d]
    BY GraphParts DEF FindingsType
  <2>4. closed \subseteq {"open", "openChecks", "closed"}
    BY <1>0 DEF ClosedBy
  <2>5. /\ tickets \in TicketsType
        /\ tickets[c] = closed
        /\ \A d \in Claims : d # c => tickets[d] = g.tickets[d]
    BY <2>4, GraphParts DEF TicketsType
  <2>6. "closed" \in closed => "closed" \in g.tickets[c] \/ found \cap {"passed", "failed"} # {}
    BY <1>0 DEF ClosedBy
  <2> HIDE DEF f, claims, findings, closed, tickets
  <2>7. f \in GraphType
    BY <2>1, <2>2, <2>3, <2>5, FindingsUpdated
  <2>8. /\ f.size = g.size /\ f.report = g.report /\ f.active = g.active
        /\ f.findings = findings /\ f.claim = claims /\ f.tickets = tickets
    BY <2>1 DEF GraphType
  <2>9. Backed(g) => Backed(f)
    BY <2>3, <2>5, <2>6, <2>8 DEF Backed
  <2>10. \A d \in Claims :
           /\ f.claim[d].verdict = g.claim[d].verdict
           /\ f.claim[d].status = g.claim[d].status \/ (d = c /\ f.claim[d].status = "verified")
    BY <2>2, <2>8
  <2> QED BY <2>7, <2>8, <2>9, <2>10
<1> QED BY <1>1, <1>2

LEMMA ClaimsUpdated ==
  ASSUME NEW g \in GraphType, NEW claim \in ClaimsType
  PROVE  /\ [g EXCEPT !.claim = claim] \in GraphType
         /\ [g EXCEPT !.claim = claim].claim = claim
         /\ [g EXCEPT !.claim = claim].size = g.size
         /\ [g EXCEPT !.claim = claim].tickets = g.tickets
         /\ [g EXCEPT !.claim = claim].findings = g.findings
         /\ [g EXCEPT !.claim = claim].report = g.report
         /\ [g EXCEPT !.claim = claim].active = g.active
BY DEF GraphType

\* No revision makes a claim supported, and the withdrawn ones are refuted.
LEMMA RevisedClaimIs ==
  ASSUME NEW claim \in [status : ClaimStatuses, verdict : ClaimVerdicts \cup {"none"}], NEW action
  PROVE  /\ RevisedClaim(claim, action) \in [status : ClaimStatuses, verdict : ClaimVerdicts \cup {"none"}]
         /\ RevisedClaim(claim, action).verdict = "supported" => claim.verdict = "supported"
         /\ RevisedClaim(claim, action).status = "withdrawn" => RevisedClaim(claim, action).verdict = "refuted"
BY DEF RevisedClaim, ClaimStatuses, ClaimVerdicts

LEMMA RevisionsAre ==
  ASSUME NEW g \in GraphType, NEW targets \in SUBSET Claims, NEW r \in Revisions(g, targets)
  PROVE  /\ r.graph \in GraphType /\ r.revised \in SUBSET targets
         /\ r.graph.size = g.size /\ r.graph.tickets = g.tickets /\ r.graph.findings = g.findings
         /\ r.graph.report = g.report /\ r.graph.active = g.active
         /\ Earned(g) => Earned(r.graph)
         /\ WithdrawnRefuted(g) => WithdrawnRefuted(r.graph)
<1>0. PICK silent \in SUBSET targets :
         \E e \in AgentRevisions(targets \ silent) \X BOOLEAN :
           r = [graph |-> Revised(g, silent, e[1]), revised |-> silent \cup DOMAIN e[1],
                material |-> e[2]]
  <2> DEFINE With(silent) ==
        {[graph |-> Revised(g, silent, e[1]), revised |-> silent \cup DOMAIN e[1], material |-> e[2]] :
           e \in {f \in AgentRevisions(targets \ silent) \X BOOLEAN : MayBeMaterial(g, silent, f[1], f[2])}}
  <2>1. r \in UNION {With(silent) : silent \in SUBSET targets}
    BY DEF Revisions
  <2>2. PICK silent \in SUBSET targets : r \in With(silent)
    <3> HIDE DEF With
    <3> QED BY <2>1
  <2>3. \E e \in AgentRevisions(targets \ silent) \X BOOLEAN :
          r = [graph |-> Revised(g, silent, e[1]), revised |-> silent \cup DOMAIN e[1],
               material |-> e[2]]
    BY <2>2, Zenon
  <2> QED BY <2>3
<1>1. PICK answers \in AgentRevisions(targets \ silent), material \in BOOLEAN :
         r = [graph |-> Revised(g, silent, answers), revised |-> silent \cup DOMAIN answers,
              material |-> material]
  BY <1>0
<1>2. DOMAIN answers \subseteq targets
  BY DEF AgentRevisions
<1> DEFINE actions == [c \in silent \cup DOMAIN answers |->
                         IF c \in silent THEN BuiltinAction(g, c) ELSE answers[c]]
           claim == [c \in Claims |-> IF c \in DOMAIN actions
                                        THEN RevisedClaim(g.claim[c], actions[c]) ELSE g.claim[c]]
<1>3. r.graph = [g EXCEPT !.claim = claim] /\ r.revised \in SUBSET targets
  BY <1>1, <1>2 DEF Revised, WithRevisions
<1> HIDE DEF actions
<1>4. \A c \in Claims :
        /\ claim[c] \in [status : ClaimStatuses, verdict : ClaimVerdicts \cup {"none"}]
        /\ claim[c].verdict = "supported" => g.claim[c].verdict = "supported"
        /\ claim[c].status = "withdrawn" => claim[c].verdict = "refuted" \/ claim[c] = g.claim[c]
  <2> TAKE c \in Claims
  <2>1. g.claim[c] \in [status : ClaimStatuses, verdict : ClaimVerdicts \cup {"none"}]
    BY GraphParts DEF ClaimsType
  <2>2. claim[c] = g.claim[c] \/ claim[c] = RevisedClaim(g.claim[c], actions[c])
    OBVIOUS
  <2> HIDE DEF claim
  <2> QED BY <2>1, <2>2, RevisedClaimIs
<1>5. claim \in ClaimsType
  BY <1>4 DEF ClaimsType
<1> HIDE DEF claim
<1>6. /\ r.graph \in GraphType /\ r.graph.claim = claim
      /\ r.graph.size = g.size /\ r.graph.tickets = g.tickets /\ r.graph.findings = g.findings
      /\ r.graph.report = g.report /\ r.graph.active = g.active
  BY <1>3, <1>5, ClaimsUpdated
<1>7. Earned(g) => Earned(r.graph)
  BY <1>4, <1>6, GraphParts DEF Earned, WithVerdict, Known
<1>8. WithdrawnRefuted(g) => WithdrawnRefuted(r.graph)
  BY <1>4, <1>6 DEF WithdrawnRefuted
<1> QED BY <1>3, <1>6, <1>7, <1>8

LEMMA VerdictsOf ==
  /\ DOMAIN VerdictOf = {"keep", "keep_with_caveat", "unresolved", "reject"}
  /\ \A disposition \in DOMAIN VerdictOf : VerdictOf[disposition] \in ClaimVerdicts
  /\ VerdictOf["keep"] = "supported" /\ VerdictOf["keep_with_caveat"] = "supported"
  /\ VerdictOf["unresolved"] = "undetermined" /\ VerdictOf["reject"] = "refuted"
BY DEF VerdictOf, ClaimVerdicts

Reports == [Claims -> {"none", "keep", "keep_with_caveat", "unresolved", "reject"}]

\* Verdicts and records change claims and records; what is decided is adjudicated.
LEMMA AdjudicatedIs ==
  ASSUME NEW g \in GraphType, NEW verdicts, NEW report \in Reports,
         \A c \in DOMAIN verdicts : verdicts[c] \in ClaimVerdicts
  PROVE  LET d == Adjudicated(g, verdicts, report)
         IN  /\ d \in GraphType /\ d.size = g.size /\ d.tickets = g.tickets
             /\ d.findings = g.findings /\ d.active = g.active /\ d.report = report
             /\ \A c \in Claims :
                  /\ report[c] # "none" =>
                       d.claim[c] = [status |-> "adjudicated", verdict |-> VerdictOf[report[c]]]
                  /\ report[c] = "none" /\ c \notin DOMAIN verdicts => d.claim[c] = g.claim[c]
                  /\ d.claim[c] = g.claim[c] \/ d.claim[c].status = "adjudicated"
<1> DEFINE decided == [c \in Claims |->
             CASE report[c] # "none" -> VerdictOf[report[c]]
               [] report[c] = "none" /\ c \in DOMAIN verdicts -> verdicts[c]
               [] OTHER -> "none"]
           claim == [c \in Claims |->
             IF decided[c] = "none" THEN g.claim[c]
             ELSE [status |-> "adjudicated", verdict |-> decided[c]]]
           d == Adjudicated(g, verdicts, report)
<1>1. d = [g EXCEPT !.report = report, !.claim = claim]
  BY DEF Adjudicated
<1>2. \A c \in Claims :
        /\ report[c] \in {"none", "keep", "keep_with_caveat", "unresolved", "reject"}
        /\ g.claim[c] \in [status : ClaimStatuses, verdict : ClaimVerdicts \cup {"none"}]
  BY GraphParts DEF Reports, ClaimsType
<1>3. \A c \in Claims :
        /\ report[c] # "none" => decided[c] = VerdictOf[report[c]] /\ decided[c] \in ClaimVerdicts
        /\ report[c] = "none" /\ c \in DOMAIN verdicts => decided[c] = verdicts[c]
        /\ report[c] = "none" /\ c \notin DOMAIN verdicts => decided[c] = "none"
        /\ decided[c] \in ClaimVerdicts \cup {"none"}
  BY <1>2, VerdictsOf
<1> HIDE DEF decided
<1>4. \A c \in Claims :
        /\ claim[c] \in [status : ClaimStatuses, verdict : ClaimVerdicts \cup {"none"}]
        /\ report[c] # "none" => claim[c] = [status |-> "adjudicated", verdict |-> VerdictOf[report[c]]]
        /\ report[c] = "none" /\ c \notin DOMAIN verdicts => claim[c] = g.claim[c]
        /\ claim[c] = g.claim[c] \/ claim[c].status = "adjudicated"
  BY <1>2, <1>3 DEF ClaimStatuses, ClaimVerdicts
<1>5. claim \in ClaimsType
  BY <1>4 DEF ClaimsType
<1> HIDE DEF claim
<1>6. [g EXCEPT !.report = report, !.claim = claim] \in GraphType
  BY <1>5 DEF GraphType, Reports, ClaimsType
<1>7. d \in GraphType
  BY <1>1, <1>6
<1>8. /\ d.size = g.size /\ d.tickets = g.tickets /\ d.findings = g.findings
      /\ d.active = g.active /\ d.report = report /\ d.claim = claim
  BY <1>1 DEF GraphType
<1> QED BY <1>4, <1>7, <1>8

\* The rules reject what failed and keep what passed.
LEMMA DispositionIs ==
  ASSUME NEW g, NEW c, NEW clear
  PROVE  /\ Disposition(g, c, clear) \in {"keep", "keep_with_caveat", "unresolved", "reject"}
         /\ Disposition(g, c, clear) \in {"keep", "keep_with_caveat"}
              => "passed" \in g.findings[c] /\ "failed" \notin g.findings[c]
BY DEF Disposition

\* A decision by the rules is one about every claim that is not withdrawn, and
\* supports what the findings do.
LEMMA RuledIs ==
  ASSUME NEW g \in GraphType, WithdrawnRefuted(g), NEW clear
  PROVE  LET d == Decided(g, clear)
         IN  /\ d \in GraphType /\ d.size = g.size /\ d.tickets = g.tickets
             /\ d.findings = g.findings /\ d.active = g.active
             /\ WithdrawnRefuted(d) /\ Earned(d) /\ AllDecided(d)
             /\ \A c \in Claims : g.claim[c].status = "withdrawn" => d.claim[c].status = "withdrawn"
<1> DEFINE report == [c \in Claims |->
                        IF c \in ActiveClaims(g) THEN Disposition(g, c, c \in clear) ELSE "none"]
           d == Adjudicated(g, <<>>, report)
<1>1. report \in Reports
  BY DispositionIs DEF Reports
<1>2. \A c \in Claims : report[c] # "none" <=> c \in ActiveClaims(g)
  BY DispositionIs
<1>3. \A c \in Claims : report[c] \in {"keep", "keep_with_caveat"}
                        => "passed" \in g.findings[c] /\ "failed" \notin g.findings[c]
  BY DispositionIs
<1>4. DOMAIN << >> = {}
  OBVIOUS
<1>5. d = Decided(g, clear)
  BY DEF Decided
<1> HIDE DEF report
<1>6. /\ d \in GraphType /\ d.size = g.size /\ d.tickets = g.tickets
      /\ d.findings = g.findings /\ d.active = g.active /\ d.report = report
      /\ \A c \in Claims :
           /\ report[c] # "none" =>
                d.claim[c] = [status |-> "adjudicated", verdict |-> VerdictOf[report[c]]]
           /\ report[c] = "none" => d.claim[c] = g.claim[c]
  BY <1>1, <1>4, AdjudicatedIs
<1> HIDE DEF d
<1>7. Known(d) = Known(g) /\ Known(g) \subseteq Claims
  BY <1>6, GraphParts DEF Known
<1>8. ASSUME NEW c \in Claims, report[c] # "none"
      PROVE  /\ d.claim[c].status = "adjudicated"
             /\ d.claim[c].verdict = "supported" => report[c] \in {"keep", "keep_with_caveat"}
  <2>1. report[c] \in {"keep", "keep_with_caveat", "unresolved", "reject"}
    BY <1>1, <1>8 DEF Reports
  <2>2. d.claim[c] = [status |-> "adjudicated", verdict |-> VerdictOf[report[c]]]
    BY <1>6, <1>8
  <2> QED BY <2>1, <2>2, VerdictsOf
<1>9. ASSUME NEW c \in Known(g), report[c] = "none"
      PROVE  d.claim[c] = g.claim[c] /\ g.claim[c].status = "withdrawn" /\ g.claim[c].verdict = "refuted"
  BY <1>2, <1>6, <1>7, <1>9 DEF ActiveClaims, Withdrawn, WithdrawnRefuted
<1>10. Earned(d)
  BY <1>3, <1>6, <1>7, <1>8, <1>9 DEF Earned, WithVerdict
<1>11. AllDecided(d)
  BY <1>6, <1>7, <1>8, <1>9 DEF AllDecided, Withdrawn
<1>12. WithdrawnRefuted(d)
  <2>1. ASSUME NEW c \in Claims, d.claim[c].status = "withdrawn"
        PROVE  d.claim[c].verdict = "refuted"
    <3>1. report[c] = "none"
      BY <1>8, <2>1
    <3>2. d.claim[c] = g.claim[c]
      BY <1>6, <3>1
    <3> QED BY <2>1, <3>2 DEF WithdrawnRefuted
  <2> QED BY <2>1 DEF WithdrawnRefuted
<1>13. ASSUME NEW c \in Claims, g.claim[c].status = "withdrawn" PROVE d.claim[c].status = "withdrawn"
  BY <1>2, <1>6, <1>13 DEF ActiveClaims, Withdrawn
<1> QED BY <1>5, <1>6, <1>10, <1>11, <1>12, <1>13

\* An agent may decide anything, but only claims and records are touched.
LEMMA AgentDecisionIs ==
  ASSUME NEW g \in GraphType, WithdrawnRefuted(g), NEW d \in AgentDecisions(g)
  PROVE  /\ d \in GraphType /\ d.size = g.size /\ d.tickets = g.tickets
         /\ d.findings = g.findings /\ d.active = g.active /\ WithdrawnRefuted(d)
<1>1. ASSUME NEW r, \A c \in DOMAIN r : r[c] \in DOMAIN VerdictOf
      PROVE  RecordsOf(r) \in Reports
  BY <1>1, VerdictsOf DEF Reports, RecordsOf
<1>2. /\ \A v \in Partial(g, ClaimVerdicts) : \A c \in DOMAIN v : v[c] \in ClaimVerdicts
      /\ \A r \in Partial(g, DOMAIN VerdictOf) : \A c \in DOMAIN r : r[c] \in DOMAIN VerdictOf
  BY DEF Partial
<1>3. \E v, report : /\ \A c \in DOMAIN v : v[c] \in ClaimVerdicts
                     /\ report \in Reports /\ d = Adjudicated(g, v, report)
  <2>1. CASE d \in SentDecisions(g)
    BY <1>1, <1>2, <2>1 DEF SentDecisions
  <2>2. CASE d \in DerivedDecisions(g)
    <3>1. PICK v \in Partial(g, ClaimVerdicts) :
             \E r \in [DOMAIN v -> DOMAIN VerdictOf] : d = Adjudicated(g, v, RecordsOf(r))
      BY <2>2 DEF DerivedDecisions
    <3>2. PICK r \in [DOMAIN v -> DOMAIN VerdictOf] : d = Adjudicated(g, v, RecordsOf(r))
      BY <3>1
    <3> QED BY <1>1, <1>2, <3>2
  <2> QED BY <2>1, <2>2 DEF AgentDecisions
<1>4. PICK v, report : /\ \A c \in DOMAIN v : v[c] \in ClaimVerdicts
                       /\ report \in Reports /\ d = Adjudicated(g, v, report)
  BY <1>3
<1>5. /\ d \in GraphType /\ d.size = g.size /\ d.tickets = g.tickets
      /\ d.findings = g.findings /\ d.active = g.active
      /\ \A c \in Claims : d.claim[c] = g.claim[c] \/ d.claim[c].status = "adjudicated"
  <2> DEFINE q == Adjudicated(g, v, report)
  <2>1. q \in GraphType
    BY <1>4, AdjudicatedIs
  <2>2. q.size = g.size /\ q.tickets = g.tickets /\ q.findings = g.findings /\ q.active = g.active
    BY <1>4, AdjudicatedIs
  <2>3. ASSUME NEW c \in Claims PROVE q.claim[c] = g.claim[c] \/ q.claim[c].status = "adjudicated"
    <3>1. /\ report[c] # "none" => q.claim[c] = [status |-> "adjudicated", verdict |-> VerdictOf[report[c]]]
          /\ report[c] = "none" /\ c \notin DOMAIN v => q.claim[c] = g.claim[c]
          /\ q.claim[c] = g.claim[c] \/ q.claim[c].status = "adjudicated"
      BY <1>4, AdjudicatedIs
    <3> HIDE DEF q
    <3> QED BY <3>1
  <2> QED BY <1>4, <2>1, <2>2, <2>3
<1> QED BY <1>5 DEF WithdrawnRefuted

LEMMA DecisionsAre ==
  ASSUME request \in Requests, NEW g \in GraphType, WithdrawnRefuted(g), NEW d \in Decisions(g)
  PROVE  /\ d \in GraphType /\ d.size = g.size /\ d.tickets = g.tickets
         /\ d.findings = g.findings /\ d.active = g.active /\ WithdrawnRefuted(d)
         /\ ~AgentDecides[request] =>
              /\ Earned(d) /\ AllDecided(d)
              /\ \A c \in Claims : g.claim[c].status = "withdrawn" => d.claim[c].status = "withdrawn"
<1>1. CASE \E clear : d = Decided(g, clear)
  BY <1>1, RuledIs
<1>2. CASE AgentDecides[request] /\ d \in AgentDecisions(g)
  BY <1>2, AgentDecisionIs
<1> QED BY <1>1, <1>2 DEF Decisions

\* What advancePhase stores of a graph that differs in the active claims only is
\* what was stored before.
LEMMA PatchKeeps ==
  ASSUME NEW g \in GraphType, NEW h \in GraphType, Same(g, h)
  PROVE  [h EXCEPT !.size = g.size, !.claim = g.claim, !.tickets = g.tickets] = h
BY DEF GraphType, Same

LEMMA PatchParts ==
  ASSUME NEW g \in GraphType, NEW h \in GraphType
  PROVE  LET p == [h EXCEPT !.size = g.size, !.claim = g.claim, !.tickets = g.tickets]
         IN  /\ p \in GraphType /\ p.size = g.size /\ p.claim = g.claim /\ p.tickets = g.tickets
             /\ p.findings = h.findings /\ p.report = h.report /\ p.active = h.active
<1>1. [h EXCEPT !.size = g.size, !.claim = g.claim] \in GraphType
  BY DEF GraphType
<1> QED BY <1>1 DEF GraphType

LEMMA SessionTypes ==
  ASSUME WorkflowInv
  PROVE  /\ request \in Requests /\ pc \in Pcs /\ snap \in SnapshotType /\ run \in RunType
         /\ failures \in Nat
         /\ loop \in [step : Steps, entered : BOOLEAN, data : DataType] /\ ckpt \in DataType
         /\ loop.data \in DataType /\ loop.entered \in BOOLEAN
BY DEF WorkflowInv, AdjInv, AdjTypeOK, TypeOK

-----------------------------------------------------------------------------
(* Steps that leave the graph alone.                                       *)

LEMMA AsideKeeps ==
  ASSUME GraphInv, Aside, UNCHANGED <<request, loop, ckpt>>,
         failures' = 0 => failures = 0,
         Live' => Live, (Live' /\ ~Ahead') => ~Ahead,
         run'.phase = run.phase \/ ~Ahead,
         (pc' = "body" /\ loop.step \in {"verify", "ingest", "report"}) => pc = "body",
         StepsLocated', Judged' => Judged, Reporting' => Reporting,
         snap'.done \in {"verify", "adjudicate", "report"} => snap'.done = snap.done
  PROVE  GraphInv'
<1>0. graph' = graph /\ stored' = stored /\ todo' = todo
  BY DEF Aside, graphVars
<1>1. /\ GraphTypeOK' /\ (graph.active \subseteq Known(graph))'
      /\ (stored.active \subseteq Known(stored))'
      /\ WithdrawnRefuted(graph)' /\ WithdrawnRefuted(stored)'
  BY <1>0 DEF GraphInv, GraphTypeOK
<1>2. GraphKept'
  BY <1>0 DEF GraphInv, GraphKept
<1>3. WithdrawnKept'
  <2>1. Live' => \A c \in Withdrawn(stored) :
          \/ graph.claim[c].status = "withdrawn"
          \/ run'.phase \in {"challenge", "revise"}
          \/ run'.phase = "adjudicate" /\ AgentDecides[request]
    <3>1. CASE run'.phase = run.phase
      BY <3>1 DEF GraphInv, WithdrawnKept
    <3>2. CASE ~Ahead
      <4>1. Live' => Same(graph, stored)
        BY <3>2 DEF GraphInv, GraphKept
      <4> QED BY <4>1 DEF Same, Withdrawn
    <3> QED BY <3>1, <3>2
  <2>2. Withdrawn(stored)' = Withdrawn(stored)
    BY <1>0
  <2> QED BY <1>0, <2>1, <2>2 DEF GraphInv, WithdrawnKept
<1>4. EarnedInv'
  BY <1>0 DEF GraphInv, EarnedInv
<1>5. DecidedInv'
  BY <1>0 DEF GraphInv, DecidedInv
<1>6. DataInv'
  <2>1. TerminalState(stored)' = TerminalState(stored) /\ RevisionCandidates(stored)' = RevisionCandidates(stored)
    BY <1>0 DEF TerminalState
  <2> QED BY <1>0, <2>1 DEF GraphInv, DataInv, DataFollowsGraph
<1>7. BackedInv'
  BY <1>0 DEF GraphInv, BackedInv
<1> QED BY <1>1, <1>2, <1>3, <1>4, <1>5, <1>6, <1>7 DEF GraphInv

LEMMA AsideInPrelude ==
  ASSUME WorkflowInv, GraphInv, AdjPrelude, Aside
  PROVE  GraphInv'
<1>0. UNCHANGED <<request, loop, ckpt>> /\ failures' = failures
  BY DEF AdjPrelude, Outside, Start, PreludeAdvance, PreludeCommit
<1>1. pc \in {"idle", "prelude"} /\ loop.step = "propose" /\ ~loop.entered
  BY DEF AdjPrelude, Start, PreludeAdvance, PreludeCommit, WorkflowInv, AdjInv, LoopPhase
<1>2. snap.done = "created" /\ Live /\ ~Ahead
  BY <1>1 DEF GraphInv, StepsLocated, Live, Ahead
<1>3. \/ pc' = "prelude" /\ snap'.done = "created"
      \/ pc' = "body" /\ snap'.done = "ingest"
  <2>1. CASE Start
    BY <1>2, <2>1 DEF Start
  <2>2. CASE PreludeAdvance
    BY <1>2, <2>2, SessionTypes, AdvanceKeeps DEF PreludeAdvance, WorkflowInv, AdjInv, AdjTypeOK
  <2>3. CASE PreludeCommit
    BY <2>3, SessionTypes DEF PreludeCommit, SnapshotType
  <2> QED BY <2>1, <2>2, <2>3 DEF AdjPrelude
<1>4. StepsLocated' /\ ~Ahead' /\ ~Judged' /\ ~Reporting'
  BY <1>0, <1>1, <1>3 DEF StepsLocated, Judged, Reporting, ClosingPcs, Ahead
<1> QED BY <1>0, <1>1, <1>2, <1>3, <1>4, AsideKeeps

LEMMA AsideInBody ==
  ASSUME WorkflowInv, GraphInv, RejectPhase \/ Close, Aside
  PROVE  GraphInv'
<1>1. CASE RejectPhase
  <2>1. /\ UNCHANGED <<request, run, snap, loop, ckpt>> /\ failures' = failures
        /\ pc = "body" /\ ~loop.entered /\ pc' = "failing"
    BY <1>1 DEF RejectPhase, Rejected
  <2>2. StepsLocated' /\ ~Ahead /\ ~Ahead' /\ (Judged' => Judged) /\ (Reporting' => Reporting)
    BY <2>1 DEF GraphInv, StepsLocated, Judged, Reporting, ClosingPcs, Ahead, Aside, graphVars
  <2> QED BY <2>1, <2>2, AsideKeeps DEF Live
<1>2. CASE Close
  <2>1. /\ UNCHANGED <<request, snap, loop, ckpt>> /\ failures' = failures
        /\ pc = "body" /\ loop.step \in {"close", "noClaims"} /\ pc' = "finalize"
    BY <1>2 DEF Close, BodyReady, Working
  <2>2. StepsLocated' /\ ~Ahead /\ ~Ahead' /\ (Judged' => Judged) /\ (Reporting' => Reporting)
    BY <2>1 DEF GraphInv, StepsLocated, Judged, Reporting, ClosingPcs, Ahead, Aside, graphVars
  <2> QED BY <2>1, <2>2, AsideKeeps DEF Live
<1> QED BY <1>1, <1>2

LEMMA AsideInClosing ==
  ASSUME WorkflowInv, GraphInv, AdjClosing, Aside
  PROVE  GraphInv'
<1>0. TypeOK
  BY DEF WorkflowInv, AdjInv, AdjTypeOK
<1>1. UNCHANGED <<request, loop, ckpt>>
  BY DEF AdjClosing, Outside, CloseStep, EnterAction, BlockAction,
     DispatchAction, RefuseAction, SkipAction, CommitAction, EnterObserve,
     ObserveBuiltin, ObserveSource, ObserveDone, CommitObserve, EnterFinished,
     PersistFinish, EmitFinalized
<1>2. pc \in ClosingPcs /\ pc' \in ClosingPcs \cup {"returned"} /\ failures' = failures
  BY DEF AdjClosing, CloseStep, EnterAction, BlockAction,
     DispatchAction, RefuseAction, SkipAction, CommitAction, EnterObserve,
     ObserveBuiltin, ObserveSource, ObserveDone, CommitObserve, EnterFinished,
     PersistFinish, EmitFinalized, ClosingPcs
<1>3. snap'.done = snap.done \/ snap'.done \in {"action", "observe"}
  <2>1. CASE EnterAction \/ EnterObserve
    BY <1>0, <2>1, AdvanceKeeps DEF EnterAction, EnterObserve
  <2>2. CASE CommitAction \/ CommitObserve
    BY <1>0, <2>2, CheckpointStores DEF CommitAction, CommitObserve
  <2>3. CASE PersistFinish
    BY <1>0, <2>3 DEF PersistFinish, TypeOK, SnapshotType
  <2> QED
    BY <2>1, <2>2, <2>3 DEF AdjClosing, CloseStep, BlockAction, DispatchAction,
       RefuseAction, SkipAction, ObserveBuiltin, ObserveSource, ObserveDone,
       EnterFinished, EmitFinalized
<1>4. loop.step \in {"close", "noClaims"}
  BY <1>2 DEF GraphInv, StepsLocated
<1>5. /\ Live /\ ~Ahead /\ ~Ahead' /\ Judged /\ Reporting /\ pc' # "body"
      /\ pc' \notin {"idle", "prelude"}
  BY <1>2 DEF Live, Ahead, Judged, Reporting, ClosingPcs
<1>6. (loop.step = "noClaims" => stored.size = 0)'
  BY <1>1, <1>2 DEF GraphInv, StepsLocated, Aside, graphVars
<1>7. StepsLocated'
  BY <1>1, <1>3, <1>4, <1>5, <1>6 DEF StepsLocated
<1> QED BY <1>1, <1>2, <1>3, <1>5, <1>7, AsideKeeps

LEMMA AsideOnError ==
  ASSUME WorkflowInv, GraphInv, AdjStepError, Aside
  PROVE  GraphInv'
<1>1. /\ UNCHANGED <<request, snap, loop, ckpt>> /\ failures' # 0
      /\ pc \in {"prelude", "body"} \cup ClosingPcs
  BY SessionTypes DEF AdjStepError, StepError, Outside
<1>2. \/ pc' = "failing" /\ run' = run
      \/ pc' = "down" /\ pc = "prelude"
  BY DEF AdjStepError, StepError
<1>3. pc = "prelude" => loop.step = "propose" /\ ~loop.entered
  BY DEF WorkflowInv, AdjInv, LoopPhase
<1>4. Live /\ (Live' /\ ~Ahead' => ~Ahead) /\ (run'.phase = run.phase \/ ~Ahead)
  BY <1>1, <1>2, <1>3 DEF Live, Ahead, ClosingPcs
<1>5. (loop.step = "noClaims" => stored.size = 0)'
  BY <1>1, <1>3 DEF GraphInv, StepsLocated, Aside, graphVars
<1>6. StepsLocated'
  BY <1>1, <1>2, <1>3, <1>5 DEF GraphInv, StepsLocated, ClosingPcs
<1>7. (Judged' => Judged) /\ (Reporting' => Reporting) /\ pc' # "body"
  BY <1>1, <1>2 DEF Judged, Reporting, ClosingPcs
<1> QED BY <1>1, <1>4, <1>6, <1>7, AsideKeeps

LEMMA AsideStuttering ==
  ASSUME WorkflowInv, GraphInv, UNCHANGED adjVars, Aside
  PROVE  GraphInv'
<1>1. UNCHANGED <<request, pc, run, snap, loop, ckpt, failures>> /\ stored' = stored
  BY DEF adjVars, vars, Aside, graphVars
<1>2. /\ Live' = Live /\ Ahead' = Ahead /\ Judged' = Judged /\ Reporting' = Reporting
      /\ StepsLocated' = StepsLocated
  BY <1>1 DEF Live, Ahead, Judged, Reporting, StepsLocated
<1> QED BY <1>1, <1>2, AsideKeeps DEF GraphInv

-----------------------------------------------------------------------------
(* Checkpoints.                                                            *)

\* After a checkpoint the two graphs agree on everything but the active claims.
LEMMA SavedKeeps ==
  ASSUME graph' \in GraphType, stored' \in GraphType, todo' = {},
         graph'.active \subseteq Known(graph'), stored'.active \subseteq Known(stored'),
         Same(graph', stored'), pc' = "body", ~loop'.entered,
         WithdrawnRefuted(stored'), failures' = 0 => Backed(stored'),
         ~AgentDecides[request'] /\ Judged' => Earned(stored'),
         StepsLocated', DecidedInv', DataInv'
  PROVE  GraphInv'
<1>1. /\ WithdrawnRefuted(graph') = WithdrawnRefuted(stored') /\ Earned(graph') = Earned(stored')
      /\ Backed(graph') = Backed(stored') /\ graph'.size = stored'.size
      /\ Known(graph') = Known(stored')
  BY SameSays DEF Same
<1>2. GraphTypeOK' /\ BackedInv' /\ EarnedInv'
  BY <1>1 DEF GraphTypeOK, BackedInv, EarnedInv
<1>3. WithdrawnKept'
  BY DEF Same, WithdrawnKept, Withdrawn
<1>4. stored'.size <= graph'.size
  <2>1. stored'.size \in Nat
    BY GraphParts
  <2> QED BY <1>1, <2>1
<1>5. GraphKept'
  BY <1>1, <1>4 DEF GraphKept, Same
<1> QED BY <1>1, <1>2, <1>3, <1>5 DEF GraphInv

LEMMA CheckpointFacts ==
  ASSUME WorkflowInv, NEW data \in DataType, NEW next \in DataType, NEW step \in Steps,
         Checkpoint(data, step, next)
  PROVE  /\ pc' = pc /\ run' = run /\ request' = request /\ failures' = failures
         /\ snap'.done = run.phase
         /\ loop'.step = step /\ ~loop'.entered /\ loop'.data = next
         /\ ckpt'.claims = data.claims /\ ckpt'.outcome = data.outcome /\ ckpt'.rr = data.rr
         /\ ckpt'.pending = data.pending
<1>1. snap'.done = run.phase
  BY SessionTypes DEF Checkpoint, SnapshotType
<1>2. /\ ckpt'.claims = data.claims /\ ckpt'.outcome = data.outcome /\ ckpt'.rr = data.rr
      /\ ckpt'.pending = data.pending
  BY DEF Checkpoint, DataType
<1> QED BY <1>1, <1>2 DEF Checkpoint

\* What a working body knows of the two graphs.
LEMMA WorkingGraph ==
  ASSUME WorkflowInv, GraphInv, NEW step, Working(step)
  PROVE  /\ graph \in GraphType /\ stored \in GraphType
         /\ Known(graph) \subseteq Claims /\ graph.active \subseteq Known(graph)
         /\ Live /\ WithdrawnRefuted(graph) /\ (failures = 0 => Backed(graph))
         /\ (loop.data.claims = "none" <=> graph.size = 0)
         /\ step \notin {"propose", "challenge", "verify"} => Same(graph, stored)
         /\ run.phase = PhaseOf[step] /\ pc = "body" /\ loop.step = step /\ loop.entered
<1>1. pc = "body" /\ loop.step = step /\ loop.entered /\ Live
  BY DEF Working, Live
<1>2. step \notin {"propose", "challenge", "verify"} => ~Ahead
  BY <1>1 DEF Ahead
<1>3. graph \in GraphType /\ Known(graph) \subseteq Claims
  BY GraphParts DEF GraphInv, GraphTypeOK
<1>4. run.phase = PhaseOf[step]
  BY WorkingPhase DEF WorkflowInv
<1> QED
  BY <1>1, <1>2, <1>3, <1>4 DEF GraphInv, GraphTypeOK, GraphKept, BackedInv, DataInv

LEMMA OutcomeStored ==
  ASSUME request' = request
  PROVE  TerminalState(stored)' = TerminalState(stored')
BY DEF TerminalState

LEMMA NoClaimsNothing ==
  ASSUME NEW g, g.size = 0
  PROVE  Earned(g) /\ AllDecided(g) /\ Known(g) = {}
BY DEF Earned, AllDecided, WithVerdict, Known

LEMMA ProposalsKeep ==
  ASSUME WorkflowInv, GraphInv, CommitProposeG
  PROVE  GraphInv'
<1> DEFINE empty == loop.data.claims = "none"
           step == IF empty THEN "noClaims" ELSE "challenge"
           next == [loop.data EXCEPT !.claims = IF empty THEN "none" ELSE "all",
                                     !.rr = 0, !.vr = 0, !.fb = 0, !.material = TRUE]
           saved == [graph EXCEPT !.active = Known(graph)]
<1>1. Working("propose") /\ Checkpoint(next, step, next)
  BY DEF CommitProposeG, CommitPropose
<1>2. graph' = saved /\ stored' = saved /\ todo' = {}
  BY DEF CommitProposeG, Save
<1>3. /\ next \in DataType /\ step \in Steps
      /\ next.claims = "none" <=> loop.data.claims = "none"
      /\ step = (IF next.claims = "none" THEN "noClaims" ELSE "challenge")
  BY SessionTypes, StepNames DEF DataType
<1> HIDE DEF next, step
<1>4. /\ graph \in GraphType /\ Known(graph) \subseteq Claims /\ pc = "body"
      /\ WithdrawnRefuted(graph) /\ (failures = 0 => Backed(graph))
      /\ (loop.data.claims = "none" <=> graph.size = 0) /\ run.phase = "propose"
  BY <1>1, WorkingGraph, StepNames
<1>5. saved \in GraphType /\ Same(saved, graph) /\ saved.active = Known(graph)
  BY <1>4, ActiveChanged DEF GraphType
<1> HIDE DEF saved
<1>6. /\ Known(saved) = Known(graph) /\ WithdrawnRefuted(saved) /\ (failures = 0 => Backed(saved))
      /\ saved.size = graph.size
  BY <1>4, <1>5, SameSays DEF Same
<1>7. /\ pc' = "body" /\ request' = request /\ failures' = failures
      /\ snap'.done = "propose" /\ loop'.step = step /\ ~loop'.entered /\ loop'.data = next
      /\ ckpt'.claims = next.claims
  BY <1>1, <1>3, <1>4, CheckpointFacts
<1>8. step = "noClaims" => saved.size = 0
  BY <1>3, <1>4, <1>6
<1>9. StepsLocated'
  BY <1>2, <1>3, <1>7, <1>8 DEF StepsLocated, ClosingPcs
<1>10. Judged' \/ Reporting' => Earned(saved) /\ AllDecided(saved)
  <2>1. Judged' \/ Reporting' => step = "noClaims"
    BY <1>3, <1>7 DEF Judged, Reporting, ClosingPcs
  <2> QED BY <1>8, <2>1, NoClaimsNothing
<1>11. DataInv'
  BY <1>2, <1>3, <1>4, <1>6, <1>7 DEF DataInv, DataFollowsGraph
<1>12. DecidedInv'
  BY <1>2, <1>7, <1>10 DEF DecidedInv
<1>13. Same(saved, saved)
  BY DEF Same
<1> QED BY <1>2, <1>5, <1>6, <1>7, <1>9, <1>10, <1>11, <1>12, <1>13, SavedKeeps

LEMMA ChallengesKeep ==
  ASSUME WorkflowInv, GraphInv, CommitChallengeG
  PROVE  GraphInv'
<1> DEFINE next == [loop.data EXCEPT !.material = TRUE]
<1>1. Working("challenge") /\ Checkpoint(next, "verify", next)
  BY DEF CommitChallengeG, CommitChallenge
<1>2. graph' = graph /\ stored' = graph /\ todo' = {}
  BY DEF CommitChallengeG, Save
<1>3. next \in DataType /\ "verify" \in Steps /\ next.claims = loop.data.claims
  BY SessionTypes, StepNames DEF DataType
<1> HIDE DEF next
<1>4. /\ graph \in GraphType /\ graph.active \subseteq Known(graph) /\ pc = "body"
      /\ WithdrawnRefuted(graph) /\ (failures = 0 => Backed(graph))
      /\ (loop.data.claims = "none" <=> graph.size = 0) /\ run.phase = "challenge"
  BY <1>1, WorkingGraph, StepNames
<1>5. /\ pc' = "body" /\ request' = request /\ failures' = failures
      /\ snap'.done = "challenge" /\ loop'.step = "verify" /\ ~loop'.entered /\ loop'.data = next
      /\ ckpt'.claims = next.claims
  BY <1>1, <1>3, <1>4, CheckpointFacts
<1>6. StepsLocated' /\ ~Judged' /\ ~Reporting'
  BY <1>5 DEF StepsLocated, Judged, Reporting, ClosingPcs
<1>7. DataInv'
  BY <1>2, <1>3, <1>4, <1>5 DEF DataInv, DataFollowsGraph
<1>8. DecidedInv'
  BY <1>5, <1>6 DEF DecidedInv
<1>9. Same(graph, graph)
  BY DEF Same
<1> QED BY <1>2, <1>4, <1>5, <1>6, <1>7, <1>8, <1>9, SavedKeeps

LEMMA VerificationsKeep ==
  ASSUME WorkflowInv, GraphInv, CommitVerifyG
  PROVE  GraphInv'
<1>1. PICK pending \in BOOLEAN :
        LET next == [loop.data EXCEPT !.vr = @ + 1, !.pending = pending, !.material = TRUE]
        IN Checkpoint(next, StepAfterVerify(next), next)
  BY DEF CommitVerifyG, CommitVerify
<1> DEFINE next == [loop.data EXCEPT !.vr = @ + 1, !.pending = pending, !.material = TRUE]
           step == StepAfterVerify(next)
<1>2. Working("verify") /\ Checkpoint(next, step, next)
  BY <1>1 DEF CommitVerifyG, CommitVerify
<1>3. /\ graph' = graph /\ stored' = graph /\ todo' = {}
      /\ loop'.data.pending = (RevisionCandidates(graph) # {})
  BY DEF CommitVerifyG, Save
<1>4. next \in DataType /\ next.claims = loop.data.claims /\ step \in {"adjudicate", "revise"} /\ step \in Steps
  <2>1. loop.data \in DataType /\ loop.data.vr + 1 \in Nat
    BY <1>2, WorkingPhase DEF WorkflowInv
  <2>2. next \in DataType /\ next.claims = loop.data.claims
    BY <2>1 DEF DataType
  <2>3. step \in {"adjudicate", "revise"}
    BY LoopSteps
  <2> HIDE DEF next, step
  <2> QED BY <2>2, <2>3, StepNames
<1> HIDE DEF next, step
<1>5. /\ graph \in GraphType /\ graph.active \subseteq Known(graph) /\ pc = "body"
      /\ WithdrawnRefuted(graph) /\ (failures = 0 => Backed(graph))
      /\ (loop.data.claims = "none" <=> graph.size = 0) /\ run.phase = "verify"
  BY <1>2, WorkingGraph, StepNames
<1>6. /\ pc' = "body" /\ request' = request /\ failures' = failures
      /\ snap'.done = "verify" /\ loop'.step = step /\ ~loop'.entered /\ loop'.data = next
      /\ ckpt'.claims = next.claims /\ ckpt'.pending = next.pending
  BY <1>2, <1>4, <1>5, CheckpointFacts
<1>7. StepsLocated' /\ ~Judged' /\ ~Reporting'
  BY <1>4, <1>6 DEF StepsLocated, Judged, Reporting, ClosingPcs
<1>8. DataInv'
  BY <1>3, <1>4, <1>5, <1>6 DEF DataInv, DataFollowsGraph
<1>9. DecidedInv'
  BY <1>6, <1>7 DEF DecidedInv
<1>10. Same(graph, graph)
  BY DEF Same
<1> QED BY <1>3, <1>5, <1>6, <1>7, <1>8, <1>9, <1>10, SavedKeeps

LEMMA RevisionSaved ==
  ASSUME graph \in GraphType, NEW targets \in SUBSET Known(graph),
         NEW r \in Revisions(graph, targets), NEW ids \in SUBSET Known(graph),
         SaveRevision(r, ids), graph.active \subseteq Known(graph), WithdrawnRefuted(graph)
  PROVE  /\ graph' \in GraphType /\ stored' \in GraphType /\ todo' = {}
         /\ graph'.active \subseteq Known(graph') /\ stored'.active \subseteq Known(stored')
         /\ Same(graph', stored') /\ WithdrawnRefuted(stored')
         /\ Earned(graph) => Earned(stored')
         /\ Backed(graph) => Backed(stored')
         /\ stored'.size = graph.size /\ TerminalState(stored') = TerminalState(r.graph)
<1> DEFINE saved == [r.graph EXCEPT !.active = ids]
           kept == [saved EXCEPT !.active = graph.active]
<1>1. stored' = saved /\ (graph' = kept \/ graph' = saved) /\ todo' = {}
  BY DEF SaveRevision
<1>2. Known(graph) \subseteq Claims /\ targets \in SUBSET Claims
  BY GraphParts
<1>3. /\ r.graph \in GraphType /\ r.graph.size = graph.size /\ r.graph.tickets = graph.tickets
      /\ r.graph.findings = graph.findings /\ WithdrawnRefuted(r.graph)
      /\ Earned(graph) => Earned(r.graph)
  BY <1>2, RevisionsAre
<1>4. saved \in GraphType /\ Same(saved, r.graph) /\ saved.active = ids
  BY <1>2, <1>3, ActiveChanged DEF GraphType
<1>5. kept \in GraphType /\ Same(kept, saved) /\ kept.active = graph.active
  <2>1. graph.active \in SUBSET Claims
    BY GraphParts
  <2> HIDE DEF saved
  <2> QED BY <1>4, <2>1, ActiveChanged DEF GraphType
<1> HIDE DEF saved, kept
<1>6. /\ Known(saved) = Known(graph) /\ Known(kept) = Known(graph) /\ saved.size = graph.size
      /\ WithdrawnRefuted(saved) /\ (Earned(graph) => Earned(saved))
      /\ TerminalState(saved) = TerminalState(r.graph)
  <2>1. Known(r.graph) = Known(graph)
    BY <1>3 DEF Known
  <2> QED BY <1>3, <1>4, <1>5, <2>1, SameSays DEF Same
<1>7. Backed(graph) => Backed(saved)
  BY <1>3, <1>4 DEF Backed, Same
<1>8. Same(saved, saved)
  BY DEF Same
<1> QED BY <1>1, <1>4, <1>5, <1>6, <1>7, <1>8

\* The claims a revision asks about are claims of the graph.
LEMMA TargetsKnown ==
  ASSUME NEW g, g.active \subseteq Known(g)
  PROVE  /\ Selected(g) \subseteq Known(g) /\ RevisionCandidates(g) \subseteq Known(g)
         /\ VerifyTargets(g) \subseteq Known(g)
         /\ \A cause : FallbackClaims(g, cause) \subseteq Known(g)
<1>1. Selected(g) \subseteq Known(g)
  BY DEF Selected
<1>2. ASSUME NEW cause PROVE FallbackClaims(g, cause) \subseteq Known(g)
  BY DEF FallbackClaims, FirstNonEmpty, OpenClaims, Recorded
<1> QED BY <1>1, <1>2 DEF RevisionCandidates, VerifyTargets

LEMMA RevisingKeeps ==
  ASSUME WorkflowInv, GraphInv, CommitReviseG
  PROVE  GraphInv'
<1>1. PICK material \in BOOLEAN :
        LET data == [loop.data EXCEPT !.rr = @ + 1, !.material = material]
        IN Checkpoint(data, StepAfterRevision(data), CountersAfterRevision(run.fresh, data))
  BY DEF CommitReviseG, CommitRevise
<1> DEFINE data == [loop.data EXCEPT !.rr = @ + 1, !.material = material]
           step == StepAfterRevision(data)
           next == CountersAfterRevision(run.fresh, data)
<1>2. Working("revise") /\ Checkpoint(data, step, next)
  BY <1>1 DEF CommitReviseG, CommitRevise
<1>3. data \in DataType /\ data.claims = loop.data.claims
  BY <1>2, SessionTypes, WorkingPhase DEF DataType, WorkflowInv
<1> HIDE DEF data
<1>4. /\ next \in DataType /\ next.claims = loop.data.claims
      /\ step \in {"challenge", "adjudicate"} /\ step \in Steps
  BY <1>3, LoopSteps, StepNames DEF DataType, CountersAfterRevision
<1> HIDE DEF next, step
<1>5. /\ graph \in GraphType /\ graph.active \subseteq Known(graph) /\ pc = "body"
      /\ WithdrawnRefuted(graph) /\ (failures = 0 => Backed(graph))
      /\ (loop.data.claims = "none" <=> graph.size = 0) /\ run.phase = "revise"
  BY <1>2, WorkingGraph, StepNames
<1>6. PICK r \in Revisions(graph, RevisionCandidates(graph)) :
        SaveRevision(r, IF r.revised = {} /\ ~run.fresh
                          THEN RevisionCandidates(graph) ELSE r.revised)
  BY DEF CommitReviseG
<1> DEFINE ids == IF r.revised = {} /\ ~run.fresh THEN RevisionCandidates(graph) ELSE r.revised
<1>7. /\ RevisionCandidates(graph) \in SUBSET Known(graph)
      /\ RevisionCandidates(graph) \in SUBSET Claims
  BY <1>5, TargetsKnown, GraphParts
<1>8. ids \in SUBSET Known(graph)
  <2>1. r.revised \subseteq RevisionCandidates(graph)
    BY <1>5, <1>7, RevisionsAre
  <2> QED BY <1>7, <2>1
<1>9. /\ graph' \in GraphType /\ stored' \in GraphType /\ todo' = {}
      /\ graph'.active \subseteq Known(graph') /\ stored'.active \subseteq Known(stored')
      /\ Same(graph', stored') /\ WithdrawnRefuted(stored')
      /\ Backed(graph) => Backed(stored')
      /\ stored'.size = graph.size /\ graph'.size = graph.size
  <2>1. SaveRevision(r, ids)
    BY <1>6
  <2> HIDE DEF ids
  <2> QED BY <1>5, <1>7, <1>8, <2>1, RevisionSaved DEF Same
<1>10. /\ pc' = "body" /\ request' = request /\ failures' = failures
       /\ snap'.done = "revise" /\ loop'.step = step /\ ~loop'.entered /\ loop'.data = next
       /\ ckpt'.claims = data.claims
  BY <1>2, <1>3, <1>4, <1>5, CheckpointFacts
<1>11. StepsLocated' /\ ~Judged' /\ ~Reporting'
  BY <1>4, <1>10 DEF StepsLocated, Judged, Reporting, ClosingPcs
<1>12. DataInv'
  BY <1>3, <1>4, <1>5, <1>9, <1>10 DEF DataInv, DataFollowsGraph
<1>13. DecidedInv'
  BY <1>10, <1>11 DEF DecidedInv
<1> QED BY <1>5, <1>9, <1>10, <1>11, <1>12, <1>13, SavedKeeps

LEMMA DecidingKeeps ==
  ASSUME WorkflowInv, GraphInv, CommitAdjudicateG
  PROVE  GraphInv'
<1>1. PICK found \in Findings :
        LET next == [loop.data EXCEPT !.outcome = found.outcome,
                       !.leftover = found.leftover, !.records = found.records,
                       !.material = TRUE]
        IN Checkpoint(next, StepAfterDecision(run.fresh, next), next)
  BY DEF CommitAdjudicateG, CommitAdjudicate
<1> DEFINE next == [loop.data EXCEPT !.outcome = found.outcome,
                       !.leftover = found.leftover, !.records = found.records,
                       !.material = TRUE]
           step == StepAfterDecision(run.fresh, next)
<1>2. Working("adjudicate") /\ Checkpoint(next, step, next)
  BY <1>1 DEF CommitAdjudicateG, CommitAdjudicate
<1>3. next \in DataType /\ next.claims = loop.data.claims
  BY SessionTypes DEF DataType, Findings
<1> HIDE DEF next
<1>4. step \in {"report", "ingest", "reviseAgain", "challenge"} /\ step \in Steps
  <2>1. run.fresh \in BOOLEAN
    BY SessionTypes DEF RunType
  <2> QED BY <1>3, <2>1, SessionTypes, DecisionSteps, StepNames
<1> HIDE DEF step
<1>5. /\ graph \in GraphType /\ graph.active \subseteq Known(graph) /\ pc = "body"
      /\ WithdrawnRefuted(graph) /\ (failures = 0 => Backed(graph))
      /\ (loop.data.claims = "none" <=> graph.size = 0) /\ run.phase = "adjudicate"
  BY <1>2, WorkingGraph, StepNames
<1>6. PICK d \in Decisions(graph) : loop'.data.outcome = TerminalState(d) /\ Save(d)
  BY DEF CommitAdjudicateG, OutcomeOfDecision
<1>7. graph' = d /\ stored' = d /\ todo' = {}
  BY <1>6 DEF Save
<1>8. /\ d \in GraphType /\ d.size = graph.size /\ d.tickets = graph.tickets
      /\ d.findings = graph.findings /\ d.active = graph.active /\ WithdrawnRefuted(d)
      /\ ~AgentDecides[request] => Earned(d) /\ AllDecided(d)
  BY <1>5, SessionTypes, DecisionsAre
<1>9. Known(d) = Known(graph) /\ (Backed(graph) => Backed(d)) /\ Same(d, d)
  BY <1>8 DEF Known, Backed, Same
<1>10. /\ pc' = "body" /\ request' = request /\ failures' = failures
       /\ snap'.done = "adjudicate" /\ loop'.step = step /\ ~loop'.entered /\ loop'.data = next
       /\ ckpt'.claims = next.claims /\ ckpt'.outcome = next.outcome /\ ckpt'.rr = next.rr
  BY <1>2, <1>3, <1>4, <1>5, CheckpointFacts
<1>11. StepsLocated'
  BY <1>4, <1>10 DEF StepsLocated, ClosingPcs
<1>12. DataInv'
  <2>1. TerminalState(stored)' = TerminalState(d)
    BY <1>7, <1>10, OutcomeStored
  <2> QED BY <1>3, <1>4, <1>5, <1>6, <1>7, <1>8, <1>10, <2>1 DEF DataInv, DataFollowsGraph
<1>13. DecidedInv'
  BY <1>7, <1>8, <1>10 DEF DecidedInv
<1> QED BY <1>5, <1>7, <1>8, <1>9, <1>10, <1>11, <1>12, <1>13, SavedKeeps

\* After a checkpoint of an adjudicated graph and before the fallback it asks
\* for, memory holds what was decided.
LEMMA FallbackFrom ==
  ASSUME WorkflowInv, GraphInv, NEW step \in {"ingest", "reviseAgain"}, Working(step)
  PROVE  /\ snap.done = "adjudicate" /\ Judged /\ Same(graph, stored)
         /\ failures = 0 /\ ~AgentDecides[request] => AllDecided(graph)
         /\ ~AgentDecides[request] => Earned(graph)
         /\ ckpt.outcome = TerminalState(graph)
         /\ step = "ingest" => loop.data.outcome = TerminalState(graph)
<1>1. Same(graph, stored) /\ pc = "body" /\ loop.step = step /\ Live
  BY WorkingGraph
<1>2. snap.done = "adjudicate" /\ Judged
  BY <1>1 DEF GraphInv, StepsLocated, Judged
<1>3. AllDecided(graph) = AllDecided(stored) /\ TerminalState(graph) = TerminalState(stored)
  BY <1>1, SameSays
<1>4. ckpt.outcome = TerminalState(stored)
  BY <1>2 DEF GraphInv, DataInv, DataFollowsGraph
<1>5. step = "ingest" => loop.data.outcome = ckpt.outcome
  BY <1>1 DEF GraphInv, DataInv
<1> QED BY <1>1, <1>2, <1>3, <1>4, <1>5 DEF GraphInv, DecidedInv, EarnedInv

LEMMA IngestKeeps ==
  ASSUME WorkflowInv, GraphInv, CommitIngestG
  PROVE  GraphInv'
<1>1. PICK evidence \in BOOLEAN :
        Fallen([loop.data EXCEPT !.vr = 0, !.fb = @ + 1, !.material = evidence])
  BY DEF CommitIngestG, CommitIngest
<1> DEFINE data == [loop.data EXCEPT !.vr = 0, !.fb = @ + 1, !.material = evidence]
           step == IF data.material THEN "challenge" ELSE "report"
           next == IF data.material THEN [data EXCEPT !.rr = 0, !.vr = 0] ELSE data
           ids == FallbackClaims(graph, FallbackCause(loop.data))
           saved == [graph EXCEPT !.active = ids]
<1>2. Working("ingest") /\ Checkpoint(data, step, next)
  BY <1>1 DEF CommitIngestG, CommitIngest, Fallen
<1>3. graph' = saved /\ stored' = saved /\ todo' = {}
  BY DEF CommitIngestG, Save
<1>4. /\ data \in DataType /\ data.claims = loop.data.claims
      /\ data.outcome = loop.data.outcome /\ data.rr = loop.data.rr
  BY <1>2, SessionTypes, WorkingPhase DEF DataType, WorkflowInv
<1> HIDE DEF data
<1>5. /\ next \in DataType /\ next.claims = data.claims /\ step \in Steps
      /\ step \in {"challenge", "report"}
      /\ step = "report" => next = data
  BY <1>4, StepNames DEF DataType
<1> HIDE DEF next, step
<1>6. /\ graph \in GraphType /\ graph.active \subseteq Known(graph) /\ pc = "body"
      /\ WithdrawnRefuted(graph) /\ (failures = 0 => Backed(graph)) /\ Known(graph) \subseteq Claims
      /\ (loop.data.claims = "none" <=> graph.size = 0) /\ run.phase = "ingest"
  BY <1>2, WorkingGraph, StepNames
<1>7. /\ failures = 0 /\ ~AgentDecides[request] => AllDecided(graph)
      /\ ~AgentDecides[request] => Earned(graph)
      /\ loop.data.outcome = TerminalState(graph)
  BY <1>2, FallbackFrom
<1>8. ids \in SUBSET Known(graph)
  BY <1>6, TargetsKnown
<1> HIDE DEF ids
<1>9. saved \in GraphType /\ Same(saved, graph) /\ saved.active = ids
  BY <1>6, <1>8, ActiveChanged DEF GraphType
<1> HIDE DEF saved
<1>10. /\ Known(saved) = Known(graph) /\ WithdrawnRefuted(saved) /\ (failures = 0 => Backed(saved))
       /\ Earned(saved) = Earned(graph) /\ AllDecided(saved) = AllDecided(graph)
       /\ TerminalState(saved) = TerminalState(graph) /\ saved.size = graph.size /\ Same(saved, saved)
  BY <1>6, <1>9, SameSays DEF Same
<1>11. /\ pc' = "body" /\ request' = request /\ failures' = failures
       /\ snap'.done = "ingest" /\ loop'.step = step /\ ~loop'.entered /\ loop'.data = next
       /\ ckpt'.claims = data.claims /\ ckpt'.outcome = data.outcome /\ ckpt'.rr = data.rr
  BY <1>2, <1>4, <1>5, <1>6, CheckpointFacts
<1>12. StepsLocated'
  BY <1>5, <1>11 DEF StepsLocated, ClosingPcs
<1>13. DataInv'
  <2>1. TerminalState(stored)' = TerminalState(saved)
    BY <1>3, <1>11, OutcomeStored
  <2> QED BY <1>3, <1>4, <1>5, <1>6, <1>7, <1>10, <1>11, <2>1 DEF DataInv, DataFollowsGraph
<1>14. DecidedInv'
  BY <1>3, <1>7, <1>10, <1>11 DEF DecidedInv
<1> QED BY <1>3, <1>6, <1>7, <1>8, <1>9, <1>10, <1>11, <1>12, <1>13, <1>14, SavedKeeps

LEMMA RevisingAgainKeeps ==
  ASSUME WorkflowInv, GraphInv, CommitReviseAgainG
  PROVE  GraphInv'
<1>1. PICK material \in BOOLEAN, outcome \in AdjOutcomes :
        Fallen([loop.data EXCEPT !.rr = MaxRevisionRounds + loop.data.fb + 1, !.vr = 0,
                  !.fb = @ + 1, !.material = material, !.outcome = outcome])
  BY DEF CommitReviseAgainG, CommitReviseAgain
<1> DEFINE data == [loop.data EXCEPT !.rr = MaxRevisionRounds + loop.data.fb + 1, !.vr = 0,
                  !.fb = @ + 1, !.material = material, !.outcome = outcome]
           step == IF data.material THEN "challenge" ELSE "report"
           next == IF data.material THEN [data EXCEPT !.rr = 0, !.vr = 0] ELSE data
           targets == FallbackClaims(graph, FallbackCause(loop.data))
<1>2. Working("reviseAgain") /\ Checkpoint(data, step, next)
  BY <1>1 DEF CommitReviseAgainG, CommitReviseAgain, Fallen
<1>3. PICK r \in Revisions(graph, targets) :
        loop'.data.outcome = TerminalState(r.graph) /\ SaveRevision(r, r.revised)
  BY DEF CommitReviseAgainG
<1>4. /\ data \in DataType /\ data.claims = loop.data.claims /\ data.rr > MaxRevisionRounds
  <2>1. loop.data.fb \in Nat /\ MaxRevisionRounds \in Nat
    BY SessionTypes, PolicyAssumption DEF DataType
  <2>2. MaxRevisionRounds + loop.data.fb + 1 > MaxRevisionRounds
    BY <2>1
  <2>3. MaxRevisionRounds + loop.data.fb + 1 \in Nat /\ loop.data.fb + 1 \in Nat
    BY <2>1
  <2> QED BY <2>2, <2>3, SessionTypes DEF DataType
<1> HIDE DEF data
<1>5. /\ next \in DataType /\ next.claims = data.claims /\ step \in Steps /\ next.outcome = data.outcome
      /\ step \in {"challenge", "report"}
      /\ step = "report" => next = data
  BY <1>4, StepNames DEF DataType
<1> HIDE DEF next, step
<1>6. /\ graph \in GraphType /\ graph.active \subseteq Known(graph) /\ pc = "body"
      /\ WithdrawnRefuted(graph) /\ (failures = 0 => Backed(graph)) /\ Known(graph) \subseteq Claims
      /\ (loop.data.claims = "none" <=> graph.size = 0) /\ run.phase = "revise"
  BY <1>2, WorkingGraph, StepNames
<1>7. ~AgentDecides[request] => Earned(graph)
  BY <1>2, FallbackFrom
<1>8. targets \in SUBSET Known(graph)
  BY <1>6, TargetsKnown
<1> HIDE DEF targets
<1>9. r.revised \in SUBSET Known(graph)
  <2>1. targets \in SUBSET Claims
    BY <1>6, <1>8
  <2> QED BY <1>6, <1>8, <2>1, RevisionsAre
<1>10. /\ graph' \in GraphType /\ stored' \in GraphType /\ todo' = {}
       /\ graph'.active \subseteq Known(graph') /\ stored'.active \subseteq Known(stored')
       /\ Same(graph', stored') /\ WithdrawnRefuted(stored')
       /\ Earned(graph) => Earned(stored')
       /\ Backed(graph) => Backed(stored')
       /\ stored'.size = graph.size /\ graph'.size = graph.size
       /\ TerminalState(stored') = TerminalState(r.graph)
  BY <1>3, <1>6, <1>8, <1>9, RevisionSaved DEF Same
<1>11. /\ pc' = "body" /\ request' = request /\ failures' = failures
       /\ snap'.done = "revise" /\ loop'.step = step /\ ~loop'.entered /\ loop'.data = next
       /\ ckpt'.claims = data.claims /\ ckpt'.outcome = data.outcome /\ ckpt'.rr = data.rr
  BY <1>2, <1>4, <1>5, <1>6, CheckpointFacts
<1>12. StepsLocated'
  BY <1>5, <1>11 DEF StepsLocated, ClosingPcs
<1>13. DataInv'
  <2>1. TerminalState(stored)' = TerminalState(r.graph)
    BY <1>10, <1>11, OutcomeStored
  <2> QED BY <1>3, <1>4, <1>5, <1>6, <1>10, <1>11, <2>1 DEF DataInv, DataFollowsGraph
<1>14. DecidedInv'
  <2>1. ckpt'.rr \in Nat /\ MaxRevisionRounds \in Nat /\ ckpt'.rr > MaxRevisionRounds
    BY <1>4, <1>11, PolicyAssumption DEF DataType
  <2> QED BY <1>11, <2>1 DEF DecidedInv
<1> QED BY <1>6, <1>7, <1>10, <1>11, <1>12, <1>13, <1>14, SavedKeeps

LEMMA ReportingKeeps ==
  ASSUME WorkflowInv, GraphInv, CommitReportG
  PROVE  GraphInv'
<1> DEFINE saved == [graph EXCEPT !.active = Known(graph)]
<1>1. graph' = saved /\ stored' = saved /\ todo' = {}
  BY DEF CommitReportG, Save
<1>2. \/ CommitReport /\ Working("report")
      \/ CommitReportAgain /\ Working("close")
  BY DEF CommitReportG, CommitReport, CommitReportAgain
<1>3. /\ graph \in GraphType /\ Known(graph) \subseteq Claims /\ pc = "body"
      /\ WithdrawnRefuted(graph) /\ (failures = 0 => Backed(graph))
      /\ (loop.data.claims = "none" <=> graph.size = 0) /\ Same(graph, stored)
      /\ run.phase = "report"
  BY <1>2, WorkingGraph, StepNames
<1>4. saved \in GraphType /\ Same(saved, graph) /\ saved.active = Known(graph)
  BY <1>3, ActiveChanged DEF GraphType
<1> HIDE DEF saved
<1>5. /\ Known(saved) = Known(graph) /\ WithdrawnRefuted(saved) /\ (failures = 0 => Backed(saved))
      /\ saved.size = graph.size /\ Same(saved, stored) /\ Same(saved, saved)
  BY <1>3, <1>4, SameSays DEF Same
<1>6. /\ Earned(saved) = Earned(stored) /\ AllDecided(saved) = AllDecided(stored)
      /\ TerminalState(saved) = TerminalState(stored)
  BY <1>5, SameSays
<1>7. /\ pc' = "body" /\ request' = request /\ failures' = failures
      /\ snap'.done = "report" /\ loop'.step = "close" /\ ~loop'.entered
      /\ (ckpt'.claims = "none" <=> graph.size = 0) /\ (loop'.data.claims = "none" <=> graph.size = 0)
      /\ ckpt'.outcome = ckpt.outcome /\ ckpt'.rr = ckpt.rr /\ ckpt.outcome = TerminalState(stored)
  <2>1. CASE CommitReport
    <3>1. loop.step = "report" /\ pc = "body" /\ Checkpoint(loop.data, "close", loop.data)
      BY <2>1 DEF CommitReport, Working
    <3>2. loop.data \in DataType /\ "close" \in Steps
      BY SessionTypes, StepNames
    <3>3. ckpt.outcome = TerminalState(stored) /\ loop.data.rr = ckpt.rr /\ loop.data.outcome = ckpt.outcome
      BY <3>1 DEF GraphInv, DataInv
    <3>4. /\ pc' = pc /\ request' = request /\ failures' = failures
          /\ snap'.done = run.phase
          /\ loop'.step = "close" /\ ~loop'.entered /\ loop'.data = loop.data
          /\ ckpt'.claims = loop.data.claims /\ ckpt'.outcome = loop.data.outcome
          /\ ckpt'.rr = loop.data.rr
      BY <3>1, <3>2, CheckpointFacts
    <3> QED BY <1>3, <3>1, <3>3, <3>4
  <2>2. CASE CommitReportAgain
    <3>1. /\ loop.step = "close" /\ pc = "body" /\ loop.entered /\ pc' = pc /\ request' = request
          /\ failures' = failures /\ ckpt' = ckpt /\ snap'.done = "report"
          /\ loop'.step = "close" /\ ~loop'.entered /\ loop'.data = loop.data
      BY <2>2, SessionTypes DEF CommitReportAgain, Working, SnapshotType
    <3>2. snap.done = "report"
      BY <3>1 DEF WorkflowInv, AdjInv, LoopPhase
    <3>3. ckpt.outcome = TerminalState(stored) /\ (ckpt.claims = "none" <=> stored.size = 0)
      BY <3>2 DEF GraphInv, DataInv, DataFollowsGraph
    <3>4. stored.size = graph.size
      BY <1>3 DEF Same
    <3> QED BY <1>3, <3>1, <3>3, <3>4
  <2> QED BY <1>2, <2>1, <2>2
<1>8. (~AgentDecides[request] => Earned(stored)) /\ Reporting
  <2>1. pc = "body" /\ loop.step \in {"report", "close"}
    BY <1>2 DEF Working
  <2> QED BY <2>1 DEF GraphInv, EarnedInv, Judged, Reporting
<1>9. StepsLocated'
  BY <1>7 DEF StepsLocated, ClosingPcs
<1>10. DataInv'
  <2>1. TerminalState(stored)' = TerminalState(saved)
    BY <1>1, <1>7, OutcomeStored
  <2> QED BY <1>1, <1>3, <1>5, <1>6, <1>7, <2>1 DEF DataInv, DataFollowsGraph
<1>11. DecidedInv'
  BY <1>1, <1>6, <1>7, <1>8 DEF GraphInv, DecidedInv
<1> QED BY <1>1, <1>3, <1>4, <1>5, <1>6, <1>7, <1>8, <1>9, <1>10, <1>11, SavedKeeps

-----------------------------------------------------------------------------
(* The work of a phase, and entering one.                                  *)

LEMMA EnteringKeeps ==
  ASSUME WorkflowInv, GraphInv, EnterPhaseG
  PROVE  GraphInv'
<1>1. /\ pc = "body" /\ ~loop.entered /\ pc' = pc /\ request' = request /\ failures' = failures
      /\ loop'.step = loop.step /\ loop'.data = loop.data
      /\ loop'.entered = (EntryPhase = PhaseOf[loop.step])
      /\ ckpt' = [ckpt EXCEPT !.claims = loop.data.claims]
  BY SessionTypes DEF EnterPhaseG, EnterPhase
<1>2. snap'.done = snap.done
  BY AdvanceKeeps DEF EnterPhaseG, EnterPhase, WorkflowInv, AdjInv, AdjTypeOK
<1>3. /\ ckpt'.claims = loop.data.claims /\ ckpt'.outcome = ckpt.outcome /\ ckpt'.rr = ckpt.rr
      /\ ckpt'.pending = ckpt.pending
  BY <1>1, SessionTypes DEF DataType
<1>4. /\ graph \in GraphType /\ stored \in GraphType /\ Live /\ ~Ahead /\ Same(graph, stored)
      /\ graph.active \subseteq Known(graph) /\ stored.active \subseteq Known(stored)
  BY <1>1 DEF GraphInv, GraphTypeOK, GraphKept, Live, Ahead
<1>5. graph' = graph /\ stored' = stored
  BY <1>4, PatchKeeps DEF EnterPhaseG, GraphPatch
<1>6. /\ todo' \subseteq Claims
      /\ loop.step = "verify" => \A c \in todo' : graph.claim[c].status # "withdrawn"
  <2>1. /\ VerifyTargets(graph) \subseteq Known(graph) /\ Known(graph) \subseteq Claims
        /\ \A c \in VerifyTargets(graph) : graph.claim[c].status # "withdrawn"
    BY <1>4, TargetsKnown, GraphParts DEF VerifyTargets, Withdrawn
  <2>2. loop.step = "verify" => EntryPhase = "verify"
    BY StepNames DEF EntryPhase
  <2> QED BY <2>1, <2>2 DEF EnterPhaseG
<1>7. /\ GraphTypeOK' /\ (graph.active \subseteq Known(graph))'
      /\ (stored.active \subseteq Known(stored))'
      /\ WithdrawnRefuted(graph)' /\ WithdrawnRefuted(stored)'
  BY <1>4, <1>5, <1>6 DEF GraphInv, GraphTypeOK
<1>8. GraphKept'
  BY <1>4, <1>5 DEF GraphInv, GraphKept, Same
<1>9. WithdrawnKept'
  BY <1>1, <1>4, <1>5, <1>6 DEF WithdrawnKept, Same, Withdrawn
<1>10. StepsLocated' /\ Judged' = Judged /\ Reporting' = Reporting /\ Live'
  BY <1>1, <1>2, <1>4, <1>5 DEF GraphInv, StepsLocated, Judged, Reporting, Live
<1>11. EarnedInv' /\ DecidedInv' /\ BackedInv'
  BY <1>1, <1>2, <1>3, <1>4, <1>5, <1>10 DEF GraphInv, EarnedInv, DecidedInv, BackedInv
<1>12. DataInv'
  <2>1. TerminalState(stored)' = TerminalState(stored) /\ stored.size = graph.size
    BY <1>1, <1>4, <1>5, OutcomeStored DEF Same
  <2> QED BY <1>1, <1>2, <1>3, <1>4, <1>5, <2>1 DEF GraphInv, DataInv, DataFollowsGraph
<1> QED BY <1>7, <1>8, <1>9, <1>10, <1>11, <1>12 DEF GraphInv

\* A step of the work that only the graph in memory sees.
LEMMA WorkKeeps ==
  ASSUME WorkflowInv, GraphInv, pc = "body", loop.entered,
         loop.step \in {"propose", "challenge", "verify"},
         UNCHANGED <<pc, run, snap, request, ckpt, failures, stored>>,
         loop'.step = loop.step, loop'.entered,
         graph' \in GraphType, todo' \subseteq Claims, graph'.active \subseteq Known(graph'),
         graph.size <= graph'.size, WithdrawnRefuted(graph'),
         graph'.findings = graph.findings \/ loop.step = "verify",
         Earned(graph) => Earned(graph') \/ ~Judged, Backed(graph) => Backed(graph'),
         loop'.data.claims = "none" <=> graph'.size = 0,
         Live => \A c \in Withdrawn(stored) :
           \/ graph.claim[c].status = "withdrawn" => graph'.claim[c].status = "withdrawn"
           \/ run.phase \in {"challenge", "revise"},
         loop.step = "verify" => \A c \in todo' : graph'.claim[c].status # "withdrawn"
  PROVE  GraphInv'
<1>1. /\ Live /\ Live' /\ Ahead' /\ Judged' = Judged /\ Reporting' = Reporting
      /\ StepsLocated' = StepsLocated
  BY DEF Live, Ahead, Judged, Reporting, StepsLocated
<1>2. GraphTypeOK' /\ WithdrawnRefuted(stored)' /\ (stored.active \subseteq Known(stored))'
  BY DEF GraphInv, GraphTypeOK
<1>3. GraphKept'
  <2>1. stored.size \in Nat /\ graph.size \in Nat /\ graph'.size \in Nat
    BY GraphParts DEF GraphInv, GraphTypeOK
  <2>2. stored'.size <= graph'.size
    BY <1>1, <2>1 DEF GraphInv, GraphKept
  <2> QED BY <1>1, <2>2 DEF GraphInv, GraphKept
<1>4. WithdrawnKept'
  <2>1. Withdrawn(stored)' = Withdrawn(stored)
    OBVIOUS
  <2> QED BY <1>1, <2>1 DEF GraphInv, WithdrawnKept
<1>5. EarnedInv' /\ DecidedInv' /\ BackedInv'
  BY <1>1 DEF GraphInv, EarnedInv, DecidedInv, BackedInv
<1>6. DataInv'
  <2>1. TerminalState(stored)' = TerminalState(stored)
    BY OutcomeStored
  <2> QED BY <2>1 DEF GraphInv, DataInv, DataFollowsGraph
<1> QED BY <1>1, <1>2, <1>3, <1>4, <1>5, <1>6 DEF GraphInv

LEMMA ProposingKeeps ==
  ASSUME WorkflowInv, GraphInv, ProposeClaim
  PROVE  GraphInv'
<1>1. /\ Working("propose") /\ graph.size < ClaimBound[request]
      /\ graph' = WithClaim(graph) /\ stored' = stored /\ todo' = todo
  BY DEF ProposeClaim, Change
<1>2. /\ graph \in GraphType /\ pc = "body" /\ loop.step = "propose" /\ loop.entered
      /\ WithdrawnRefuted(graph) /\ graph.active \subseteq Known(graph) /\ todo \subseteq Claims
  BY <1>1, WorkingGraph DEF GraphInv, GraphTypeOK
<1>3. /\ UNCHANGED <<pc, run, snap, request, ckpt, failures>>
      /\ loop'.step = loop.step /\ loop'.entered /\ loop'.data.claims = "partial"
  BY <1>2, SessionTypes DEF ProposeClaim, ProposeSome, adjVars, vars, DataType
<1>4. graph.size \in Nat /\ graph.size < MaxClaims
  <2>1. /\ graph.size \in Nat /\ MaxClaims \in Nat
        /\ ClaimBound[request] \in 1 .. MaxClaims
    BY <1>2, SessionTypes, GraphParts, ClaimAssumption
  <2> QED BY <1>1, <2>1
<1>5. /\ graph' \in GraphType /\ graph'.size = graph.size + 1 /\ graph'.claim = graph.claim
      /\ graph'.tickets = graph.tickets /\ graph'.findings = graph.findings
      /\ graph'.active = graph.active
  BY <1>1, <1>2, <1>4, ClaimAdded DEF WithClaim, GraphType
<1>6. graph.size <= graph'.size /\ graph'.size # 0 /\ Known(graph) \subseteq Known(graph')
  BY <1>4, <1>5 DEF Known
<1>7. WithdrawnRefuted(graph') /\ (Backed(graph) => Backed(graph'))
  BY <1>2, <1>5 DEF WithdrawnRefuted, Backed
<1>8. ~Judged
  BY <1>2 DEF GraphInv, StepsLocated, Judged, ClosingPcs
<1> QED BY <1>1, <1>2, <1>3, <1>5, <1>6, <1>7, <1>8, WorkKeeps

LEMMA TicketsKeep ==
  ASSUME WorkflowInv, GraphInv, OpenTicket
  PROVE  GraphInv'
<1>1. /\ Working("challenge") /\ UNCHANGED adjVars /\ stored' = stored
      /\ todo' \subseteq todo
  BY DEF OpenTicket, Change
<1>2. /\ graph \in GraphType /\ pc = "body" /\ loop.step = "challenge" /\ loop.entered
      /\ WithdrawnRefuted(graph) /\ graph.active \subseteq Known(graph) /\ todo \subseteq Claims
      /\ run.phase = "challenge" /\ (loop.data.claims = "none" <=> graph.size = 0)
  BY <1>1, WorkingGraph, StepNames DEF GraphInv, GraphTypeOK
<1>3. /\ UNCHANGED <<pc, run, snap, request, ckpt, failures, loop>>
  BY <1>1 DEF adjVars, vars
<1>4. /\ graph' \in GraphType /\ graph'.size = graph.size /\ graph'.findings = graph.findings
      /\ graph'.active = graph.active
      /\ \A d \in Claims :
           /\ graph'.claim[d].verdict = graph.claim[d].verdict
           /\ graph'.claim[d].status \in {"challenged", graph.claim[d].status}
           /\ "closed" \in graph'.tickets[d] <=> "closed" \in graph.tickets[d]
  <2>1. PICK c \in Claims :
          \/ \E kind \in {"open", "openChecks"} : graph' = WithTicket(graph, c, kind)
          \/ \E others \in SUBSET {"open"} : graph' = WithChecks(graph, c, others)
    BY <1>2 DEF OpenTicket, Change
  <2>2. CASE \E kind \in {"open", "openChecks"} : graph' = WithTicket(graph, c, kind)
    <3>1. PICK kind \in {"open", "openChecks"} : graph' = WithTicket(graph, c, kind)
      BY <2>2
    <3>2. graph \in GraphType
      BY <1>2
    <3>3. /\ graph' \in GraphType /\ graph'.size = graph.size
          /\ graph'.findings = graph.findings /\ graph'.active = graph.active
          /\ \A d \in Claims :
               /\ graph'.claim[d].verdict = graph.claim[d].verdict
               /\ graph'.claim[d].status = IF d = c THEN "challenged" ELSE graph.claim[d].status
               /\ "closed" \in graph'.tickets[d] <=> "closed" \in graph.tickets[d]
      <4> DEFINE t == graph'
      <4>1. t = WithTicket(graph, c, kind)
        BY <3>1
      <4> HIDE DEF t
      <4>2. /\ t \in GraphType /\ t.size = graph.size /\ t.findings = graph.findings
            /\ t.report = graph.report /\ t.active = graph.active
            /\ \A d \in Claims :
                 /\ t.claim[d].verdict = graph.claim[d].verdict
                 /\ t.claim[d].status = IF d = c THEN "challenged" ELSE graph.claim[d].status
                 /\ "closed" \in t.tickets[d] <=> "closed" \in graph.tickets[d]
        <5>1. /\ t \in GraphType /\ t.size = graph.size /\ t.findings = graph.findings
              /\ t.report = graph.report /\ t.active = graph.active
          BY <3>2, <4>1, TicketAdded
        <5>2. ASSUME NEW d \in Claims
              PROVE  /\ t.claim[d].verdict = graph.claim[d].verdict
                     /\ t.claim[d].status = IF d = c THEN "challenged" ELSE graph.claim[d].status
                     /\ "closed" \in t.tickets[d] <=> "closed" \in graph.tickets[d]
          BY <3>2, <4>1, TicketAddedAt
        <5> QED BY <5>1, <5>2
      <4> QED BY <4>2 DEF t
    <3> QED BY <3>3
  <2>3. CASE \E others \in SUBSET {"open"} : graph' = WithChecks(graph, c, others)
    <3>1. PICK others \in SUBSET {"open"} : graph' = WithChecks(graph, c, others)
      BY <2>3
    <3> DEFINE t == WithChecks(graph, c, others)
    <3>2. /\ t \in GraphType /\ t.size = graph.size /\ t.findings = graph.findings
          /\ t.report = graph.report /\ t.active = graph.active /\ t.claim = graph.claim
          /\ \A d \in Claims : "closed" \in t.tickets[d] <=> "closed" \in graph.tickets[d]
      BY <1>2, ChecksAdded
    <3> HIDE DEF t
    <3> QED BY <3>1, <3>2 DEF t
  <2> QED BY <2>1, <2>2, <2>3
<1>5. Known(graph') = Known(graph) /\ Known(graph) \subseteq Claims /\ graph.size <= graph'.size
  <2>1. graph.size \in Nat /\ Known(graph) \subseteq Claims
    BY <1>2, GraphParts
  <2> QED BY <1>4, <2>1 DEF Known
<1>6. WithdrawnRefuted(graph')
  BY <1>2, <1>4 DEF WithdrawnRefuted
<1>7. (Earned(graph) => Earned(graph')) /\ (Backed(graph) => Backed(graph'))
  BY <1>4, <1>5 DEF Earned, WithVerdict, Backed
<1> QED BY <1>1, <1>2, <1>3, <1>4, <1>5, <1>6, <1>7, WorkKeeps

LEMMA VerifyingKeeps ==
  ASSUME WorkflowInv, GraphInv, VerifyClaim
  PROVE  GraphInv'
<1>1. /\ Working("verify") /\ UNCHANGED adjVars /\ stored' = stored
  BY DEF VerifyClaim, Change
<1>2. /\ graph \in GraphType /\ pc = "body" /\ loop.step = "verify" /\ loop.entered
      /\ WithdrawnRefuted(graph) /\ graph.active \subseteq Known(graph) /\ todo \subseteq Claims
      /\ (loop.data.claims = "none" <=> graph.size = 0) /\ Live /\ run.phase = "verify"
      /\ \A c \in todo : graph.claim[c].status # "withdrawn"
  BY <1>1, WorkingGraph, StepNames DEF GraphInv, GraphTypeOK, WithdrawnKept
<1>3. /\ UNCHANGED <<pc, run, snap, request, ckpt, failures, loop>>
  BY <1>1 DEF adjVars, vars
<1>3a. PICK c \in todo :
          /\ todo' = todo \ {c}
          /\ \E found \in PossibleFindings[request], r \in Resolutions(graph.tickets[c]) :
               graph' = WithFindings(graph, c, found, r)
  BY DEF VerifyClaim, Change
<1>4. PICK found \in PossibleFindings[request], r \in Resolutions(graph.tickets[c]) :
        graph' = WithFindings(graph, c, found, r)
  BY <1>3a
<1>5. found \in SUBSET VerificationStatus /\ c \in Claims
  BY <1>2, SessionTypes, FindingStatuses
<1>6. /\ graph' \in GraphType /\ graph'.size = graph.size /\ graph'.active = graph.active
      /\ \A d \in Claims :
           /\ graph'.claim[d].verdict = graph.claim[d].verdict
           /\ graph'.claim[d].status = graph.claim[d].status \/ (d = c /\ graph'.claim[d].status = "verified")
      /\ Backed(graph) => Backed(graph')
  <2> DEFINE f == WithFindings(graph, c, found, r)
  <2>1. /\ f \in GraphType /\ f.size = graph.size /\ f.report = graph.report /\ f.active = graph.active
        /\ \A d \in Claims :
             /\ f.claim[d].verdict = graph.claim[d].verdict
             /\ f.claim[d].status = graph.claim[d].status \/ (d = c /\ f.claim[d].status = "verified")
        /\ Backed(graph) => Backed(f)
    BY <1>2, <1>5, FindingsAdded
  <2> HIDE DEF f
  <2> QED BY <1>4, <2>1 DEF f
<1>7. Known(graph') = Known(graph) /\ Known(stored) \subseteq Claims /\ graph.size <= graph'.size
  <2>1. graph.size \in Nat /\ Known(stored) \subseteq Claims
    BY <1>2, GraphParts DEF GraphInv, GraphTypeOK
  <2> QED BY <1>6, <2>1 DEF Known
<1>8. WithdrawnRefuted(graph')
  BY <1>2, <1>6 DEF WithdrawnRefuted
<1>9. \A d \in Withdrawn(stored) :
        graph.claim[d].status = "withdrawn" => graph'.claim[d].status = "withdrawn"
  BY <1>2, <1>3a, <1>6, <1>7 DEF Withdrawn
<1>10. todo' \subseteq Claims /\ \A d \in todo' : graph'.claim[d].status # "withdrawn"
  BY <1>2, <1>3a, <1>6
<1>11. ~Judged
  BY <1>2 DEF GraphInv, StepsLocated, Judged, ClosingPcs
<1> QED BY <1>1, <1>2, <1>3, <1>6, <1>7, <1>8, <1>9, <1>10, <1>11, WorkKeeps

-----------------------------------------------------------------------------
(* Errors, crashes and resumes.                                            *)

\* A failed step may leave a revision or a decision in memory that is not stored.
LEMMA ErrorKeeps ==
  ASSUME WorkflowInv, GraphInv, StepErrorG, ~Aside
  PROVE  GraphInv'
<1>1. PICK step \in {"revise", "adjudicate", "reviseAgain"} :
        /\ Working(step) /\ stored' = stored /\ todo' = todo
        /\ \/ /\ step \in {"revise", "reviseAgain"}
              /\ \E targets \in {RevisionCandidates(graph), FallbackClaims(graph, FallbackCause(loop.data))} :
                   \E r \in Revisions(graph, targets) : graph' = r.graph
           \/ step = "adjudicate" /\ graph' \in Decisions(graph)
  BY DEF StepErrorG, Change
<1>2. /\ graph \in GraphType /\ pc = "body" /\ loop.step = step /\ loop.entered
      /\ WithdrawnRefuted(graph) /\ graph.active \subseteq Known(graph) /\ todo \subseteq Claims
      /\ Known(graph) \subseteq Claims /\ Same(graph, stored)
      /\ (loop.data.claims = "none" <=> graph.size = 0) /\ Live /\ run.phase = PhaseOf[step]
  BY <1>1, WorkingGraph DEF GraphInv, GraphTypeOK
<1>3. /\ UNCHANGED <<request, run, snap, loop, ckpt>> /\ failures' # 0 /\ pc' = "failing"
  BY <1>2, SessionTypes DEF StepErrorG, AdjStepError, StepError, Outside
<1>4. /\ graph' \in GraphType /\ graph'.size = graph.size /\ graph'.tickets = graph.tickets
      /\ graph'.findings = graph.findings /\ graph'.active = graph.active
      /\ WithdrawnRefuted(graph')
      /\ Earned(graph) /\ ~AgentDecides[request] => Earned(graph')
      /\ \/ run.phase = "revise"
         \/ run.phase = "adjudicate" /\ AgentDecides[request]
         \/ \A c \in Claims : graph.claim[c].status = "withdrawn" => graph'.claim[c].status = "withdrawn"
  <2>1. CASE step \in {"revise", "reviseAgain"}
    <3>1. PICK targets \in {RevisionCandidates(graph), FallbackClaims(graph, FallbackCause(loop.data))} :
            \E r \in Revisions(graph, targets) : graph' = r.graph
      BY <1>1, <2>1
    <3>2. PICK r \in Revisions(graph, targets) : graph' = r.graph
      BY <3>1
    <3>3. targets \in SUBSET Claims
      BY <1>2, TargetsKnown
    <3>4. /\ r.graph \in GraphType
          /\ r.graph.size = graph.size /\ r.graph.tickets = graph.tickets
          /\ r.graph.findings = graph.findings /\ r.graph.active = graph.active
          /\ Earned(graph) => Earned(r.graph)
          /\ WithdrawnRefuted(graph) => WithdrawnRefuted(r.graph)
      BY <1>2, <3>3, RevisionsAre
    <3>5. run.phase = "revise"
      BY <1>2, <2>1, StepNames
    <3> QED BY <1>2, <3>2, <3>4, <3>5
  <2>2. CASE step = "adjudicate"
    <3>1. graph' \in Decisions(graph) /\ run.phase = "adjudicate"
      BY <1>1, <1>2, <2>2, StepNames
    <3> QED BY <1>2, <3>1, SessionTypes, DecisionsAre
  <2> QED BY <2>1, <2>2
<1>5. /\ Live' /\ Ahead' /\ (Judged' => Judged) /\ loop'.step # "verify" /\ ~(pc' = "body")
  BY <1>1, <1>2, <1>3 DEF Live, Ahead, Judged, ClosingPcs
<1>6. Known(graph') = Known(graph) /\ Known(stored) \subseteq Claims /\ Same(stored, stored)
      /\ stored.size = graph.size /\ graph.size \in Nat
  BY <1>2, <1>4, GraphParts DEF Known, Same
<1>7. /\ GraphTypeOK' /\ (graph.active \subseteq Known(graph))'
      /\ (stored.active \subseteq Known(stored))' /\ WithdrawnRefuted(graph)' /\ WithdrawnRefuted(stored)'
  BY <1>1, <1>2, <1>4, <1>6 DEF GraphInv, GraphTypeOK
<1>8. GraphKept'
  <2>1. graph'.findings = stored'.findings /\ stored'.size <= graph'.size
    BY <1>1, <1>2, <1>4, <1>6 DEF Same
  <2> QED BY <1>5, <2>1 DEF GraphKept
<1>9. WithdrawnKept'
  <2>1. \A c \in Withdrawn(stored) : c \in Claims /\ graph.claim[c].status = "withdrawn"
    BY <1>2, <1>6 DEF Withdrawn, Same
  <2>2. Withdrawn(stored)' = Withdrawn(stored)
    BY <1>1
  <2> QED BY <1>3, <1>4, <1>5, <2>1, <2>2 DEF WithdrawnKept
<1>10. StepsLocated'
  BY <1>1, <1>2, <1>3 DEF GraphInv, StepsLocated, ClosingPcs
<1>11. EarnedInv'
  BY <1>1, <1>2, <1>3, <1>4, <1>5 DEF GraphInv, EarnedInv
<1>12. DecidedInv' /\ BackedInv'
  BY <1>3 DEF DecidedInv, BackedInv
<1>13. DataInv'
  <2>1. TerminalState(stored)' = TerminalState(stored)
    BY <1>1, <1>3, OutcomeStored
  <2> QED BY <1>1, <1>2, <1>3, <1>4, <1>5, <2>1 DEF GraphInv, DataInv, DataFollowsGraph
<1> QED BY <1>7, <1>8, <1>9, <1>10, <1>11, <1>12, <1>13 DEF GraphInv

\* What is in memory is lost: what has been stored must do.
LEMMA ForgottenKeeps ==
  ASSUME WorkflowInv, Forget, pc' = "down", stored' \in GraphType, stored'.active \subseteq Known(stored'),
         WithdrawnRefuted(stored'), failures' = 0 => Backed(stored'),
         ~AgentDecides[request'] /\ Judged' => Earned(stored'),
         DecidedInv', DataFollowsGraph'
  PROVE  GraphInv'
<1>1. /\ graph' = EmptyGraph /\ todo' = {} /\ ~Live' /\ pc' # "body"
      /\ pc' \notin ClosingPcs \cup {"idle", "prelude", "failing"}
  BY DEF Forget, Live, ClosingPcs
<1>2. /\ GraphTypeOK' /\ (graph.active \subseteq Known(graph))'
      /\ (stored.active \subseteq Known(stored))' /\ WithdrawnRefuted(graph)' /\ WithdrawnRefuted(stored)'
      /\ BackedInv'
  BY <1>1, EmptyGraphParts DEF GraphTypeOK, BackedInv
<1>3. GraphKept' /\ WithdrawnKept' /\ StepsLocated'
  BY <1>1 DEF GraphKept, WithdrawnKept, StepsLocated
<1>4. EarnedInv' /\ DataInv'
  BY <1>1 DEF EarnedInv, DataInv
<1> QED BY <1>2, <1>3, <1>4 DEF GraphInv

LEMMA CrashKeeps ==
  ASSUME WorkflowInv, GraphInv, CrashG
  PROVE  GraphInv'
<1>1. /\ UNCHANGED <<request, snap, ckpt, failures, stored>> /\ pc' = "down" /\ Forget
  BY DEF CrashG, AdjCrash, Crash
<1>2. (Judged' => Judged) /\ (Reporting' => Reporting)
  BY <1>1 DEF Judged, Reporting, ClosingPcs
<1>3. /\ stored' \in GraphType /\ stored'.active \subseteq Known(stored')
      /\ WithdrawnRefuted(stored') /\ (failures' = 0 => Backed(stored'))
      /\ ~AgentDecides[request'] /\ Judged' => Earned(stored')
      /\ DecidedInv'
  BY <1>1, <1>2 DEF GraphInv, GraphTypeOK, BackedInv, EarnedInv, DecidedInv
<1>4. DataFollowsGraph'
  <2>1. TerminalState(stored)' = TerminalState(stored)
    BY <1>1, OutcomeStored
  <2> QED BY <1>1, <2>1 DEF GraphInv, DataInv, DataFollowsGraph
<1> QED BY <1>1, <1>3, <1>4, ForgottenKeeps

\* failSession stores the claims and the tickets in memory; without a failed step
\* before it, for a refused phase, they are those stored already.
LEMMA FailureKeeps ==
  ASSUME WorkflowInv, GraphInv, FailSessionG
  PROVE  GraphInv'
<1>1. /\ pc = "failing" /\ pc' = "down" /\ request' = request /\ failures' = failures
      /\ Live /\ Forget
      /\ snap'.done = snap.done
  <2>1. snap'.done = snap.done
    BY SessionTypes, FailKeeps DEF FailSessionG, AdjFailSession, FailSession, WorkflowInv, AdjInv, AdjTypeOK
  <2> QED BY <2>1 DEF FailSessionG, AdjFailSession, FailSession, Live
<1>2. /\ graph \in GraphType /\ stored \in GraphType
      /\ stored.size <= graph.size /\ stored.active \subseteq Known(stored)
      /\ WithdrawnRefuted(graph) /\ WithdrawnRefuted(stored)
      /\ (loop.data.claims = "none" <=> graph.size = 0) /\ (ckpt.claims = "none" <=> stored.size = 0)
      /\ graph.size \in Nat /\ stored.size \in Nat
  BY <1>1, GraphParts DEF GraphInv, GraphTypeOK, GraphKept, DataInv, DataFollowsGraph
<1>3. /\ stored' \in GraphType /\ stored'.findings = stored.findings /\ stored'.report = stored.report
      /\ stored'.active = stored.active
      /\ \/ snap' = snap /\ stored' = stored
         \/ /\ snap' # snap /\ stored' = GraphPatch(graph)
            /\ stored'.size = graph.size /\ stored'.claim = graph.claim
            /\ stored'.tickets = graph.tickets
  <2>1. CASE snap' = snap
    BY <1>2, <2>1 DEF FailSessionG
  <2>2. CASE snap' # snap
    BY <1>2, <2>2, PatchParts DEF FailSessionG, GraphPatch
  <2> QED BY <2>1, <2>2
<1>4. ~Ahead => stored' = stored
  <2>1. CASE snap' = snap
    BY <1>3, <2>1
  <2>2. CASE snap' # snap
    <3>1. ~Ahead => Same(graph, stored)
      BY <1>1 DEF GraphInv, GraphKept
    <3>2. Same(graph, stored) => GraphPatch(graph) = stored
      BY <1>2, PatchKeeps DEF GraphPatch
    <3> QED BY <1>3, <2>2, <3>1, <3>2
  <2> QED BY <2>1, <2>2
<1>5. failures = 0 => stored' = stored
  BY <1>1, <1>4 DEF WorkflowInv, PlanInv, ClaimsStored, Ahead
<1>6. stored'.active \subseteq Known(stored')
  BY <1>2, <1>3 DEF Known
<1>7. WithdrawnRefuted(stored') /\ (failures' = 0 => Backed(stored'))
  BY <1>1, <1>2, <1>3, <1>5 DEF GraphInv, BackedInv, WithdrawnRefuted
<1>8. ASSUME ~AgentDecides[request'], Judged' PROVE Earned(stored')
  <2>1. Judged /\ loop.step # "verify"
    BY <1>1, <1>8 DEF GraphInv, StepsLocated, Judged, ClosingPcs
  <2>2. Earned(stored) /\ Earned(graph) /\ graph.findings = stored.findings
    BY <1>1, <1>8, <2>1 DEF GraphInv, EarnedInv, GraphKept
  <2> QED BY <1>3, <2>2 DEF Earned, WithVerdict, Known
<1>9. /\ ckpt'.rr = ckpt.rr /\ ckpt' \in DataType
      /\ snap' = snap => ckpt' = ckpt
      /\ snap' # snap => ckpt'.claims = loop.data.claims
      /\ ~Ahead => ckpt'.outcome = ckpt.outcome /\ ckpt'.pending = ckpt.pending
  <2>1. CASE snap' = snap
    BY <2>1, SessionTypes DEF FailSessionG, AdjFailSession
  <2>2. CASE snap' # snap
    <3> DEFINE base == [ckpt EXCEPT !.claims = loop.data.claims]
    <3>1. /\ base \in DataType /\ base.rr = ckpt.rr /\ base.claims = loop.data.claims
          /\ base.outcome = ckpt.outcome /\ base.pending = ckpt.pending
      BY SessionTypes DEF DataType
    <3>2. \/ \E p \in BOOLEAN : ckpt' = [base EXCEPT !.pending = p] /\ Ahead
          \/ \E o \in AdjOutcomes : ckpt' = [base EXCEPT !.outcome = o] /\ Ahead
          \/ ckpt' = base
      BY <1>1, <2>2 DEF FailSessionG, AdjFailSession, GraphsInMemory, Ahead
    <3> HIDE DEF base
    <3> QED BY <2>2, <3>1, <3>2 DEF DataType
  <2> QED BY <2>1, <2>2
<1>10. DecidedInv'
  <2> SUFFICES ASSUME failures' = 0, ~AgentDecides[request']
               PROVE  /\ snap'.done = "adjudicate" => AllDecided(stored')
                      /\ Reporting' /\ ckpt'.rr <= MaxRevisionRounds => AllDecided(stored')
    BY DEF DecidedInv
  <2>1. stored' = stored /\ (Reporting' => Reporting)
    BY <1>1, <1>5 DEF Reporting, ClosingPcs
  <2> QED BY <1>1, <1>9, <2>1 DEF GraphInv, DecidedInv
<1>11. DataFollowsGraph'
  <2>1. ckpt'.claims = "none" <=> stored'.size = 0
    BY <1>2, <1>3, <1>9
  <2>2. snap'.done = "verify" => ckpt'.pending = (RevisionCandidates(stored') # {})
    <3>1. CASE snap' = snap
      BY <1>3, <1>9, <3>1 DEF GraphInv, DataInv, DataFollowsGraph
    <3>2. CASE snap' # snap
      BY <1>1, <3>2 DEF FailSessionG
    <3> QED BY <3>1, <3>2
  <2>3. snap'.done \in {"adjudicate", "report"} => ckpt'.outcome = TerminalState(stored')
    <3>1. CASE snap' = snap
      BY <1>3, <1>9, <3>1 DEF GraphInv, DataInv, DataFollowsGraph
    <3>2. CASE snap' # snap /\ snap.done = "adjudicate"
      BY <1>1, <3>2 DEF FailSessionG
    <3>3. CASE snap.done = "report"
      <4>1. ~Ahead
        BY <1>1, <3>3 DEF GraphInv, StepsLocated, Ahead
      <4> QED BY <1>4, <1>9, <3>3, <4>1 DEF GraphInv, DataInv, DataFollowsGraph
    <3> QED BY <1>1, <3>1, <3>2, <3>3
  <2>4. TerminalState(stored)' = TerminalState(stored')
    BY <1>1, OutcomeStored
  <2>5. RevisionCandidates(stored)' = RevisionCandidates(stored')
    OBVIOUS
  <2> QED BY <2>1, <2>2, <2>3, <2>4, <2>5 DEF DataFollowsGraph
<1> QED BY <1>1, <1>3, <1>6, <1>7, <1>8, <1>10, <1>11, ForgottenKeeps

LEMMA FinishedResumeKeeps ==
  ASSUME WorkflowInv, GraphInv, ResumeG, AlreadyFinished
  PROVE  GraphInv'
<1>1. /\ UNCHANGED <<request, snap, ckpt, failures, stored>> /\ pc' = "returned"
      /\ graph' = EmptyGraph /\ todo' = {}
  BY DEF ResumeG, AdjResume, Resume
<1>2. /\ (Judged' => Judged) /\ (Reporting' => Reporting) /\ ~Live' /\ pc' # "body"
      /\ pc' \notin ClosingPcs \cup {"idle", "prelude", "failing"}
  BY <1>1 DEF Judged, Reporting, Live, ClosingPcs
<1>3. /\ GraphTypeOK' /\ (graph.active \subseteq Known(graph))'
      /\ (stored.active \subseteq Known(stored))' /\ WithdrawnRefuted(graph)' /\ WithdrawnRefuted(stored)'
      /\ BackedInv'
  BY <1>1, EmptyGraphParts DEF GraphInv, GraphTypeOK, BackedInv
<1>4. GraphKept' /\ WithdrawnKept' /\ StepsLocated'
  BY <1>2 DEF GraphKept, WithdrawnKept, StepsLocated
<1>5. EarnedInv' /\ DecidedInv'
  BY <1>1, <1>2 DEF GraphInv, EarnedInv, DecidedInv
<1>6. DataInv'
  <2>1. TerminalState(stored)' = TerminalState(stored)
    BY <1>1, OutcomeStored
  <2> QED BY <1>1, <1>2, <2>1 DEF GraphInv, DataInv, DataFollowsGraph
<1> QED BY <1>3, <1>4, <1>5, <1>6 DEF GraphInv

\* A run goes on with the stored graph, all of whose claims are active when no
\* selection was.
LEMMA RestoredKeeps ==
  ASSUME WorkflowInv, GraphInv, ResumeG, ~AlreadyFinished
  PROVE  GraphInv'
<1>1. /\ UNCHANGED <<request, snap, ckpt, failures, stored>> /\ pc' = ResumePc
      /\ run'.phase = snap.done /\ todo' = {} /\ loop' = RestoredLoop
      /\ graph' = [stored EXCEPT !.active = Selected(stored)]
  BY DEF ResumeG, AdjResume, Resume, RestoredRun
<1>2. /\ loop'.step = RestoredStep /\ loop'.entered = (snap.done = "report")
      /\ loop'.data.claims = ckpt.claims
      /\ snap.done # "revise" => loop'.data = ckpt
  BY <1>1, RestoredType, SessionTypes DEF RestoredLoop, CountersAfterRevision, DataType
<1>3. /\ stored \in GraphType /\ Known(stored) \subseteq Claims
      /\ Selected(stored) \subseteq Known(stored)
      /\ stored.active \subseteq Known(stored) /\ WithdrawnRefuted(stored)
      /\ (ckpt.claims = "none" <=> stored.size = 0) /\ stored.size \in Nat
  BY GraphParts, TargetsKnown DEF GraphInv, GraphTypeOK, DataInv, DataFollowsGraph
<1>4. graph' \in GraphType /\ Same(graph', stored) /\ graph'.active = Selected(stored)
  BY <1>1, <1>3, ActiveChanged DEF GraphType
<1>5. /\ Known(graph') = Known(stored) /\ WithdrawnRefuted(graph')
      /\ graph'.size = stored.size /\ graph'.findings = stored.findings
      /\ Earned(graph') = Earned(stored) /\ Backed(graph') = Backed(stored)
  BY <1>3, <1>4, SameSays DEF Same
<1>6. snap.done \in {"created", "ingest", "propose", "challenge", "verify", "revise",
                     "adjudicate", "report", "action", "observe"}
  BY DEF WorkflowInv, PlanInv
<1>7. \/ snap.done = "created" /\ pc' = "prelude" /\ loop'.step = "propose"
      \/ snap.done = "ingest" /\ pc' = "body" /\ loop'.step \in {"propose", "challenge"}
      \/ snap.done = "propose" /\ pc' = "body" /\ (loop'.step = "challenge" \/ (loop'.step = "noClaims" /\ stored.size = 0))
      \/ snap.done = "challenge" /\ pc' = "body" /\ loop'.step = "verify"
      \/ snap.done \in {"verify", "revise"} /\ pc' = "body" /\ loop'.step \in {"challenge", "adjudicate", "revise"}
      \/ snap.done = "adjudicate" /\ pc' = "body"
           /\ loop'.step \in {"report", "ingest", "reviseAgain", "challenge", "adjudicate"}
      \/ snap.done = "report" /\ pc' = "body" /\ loop'.step = "close"
      \/ snap.done \in {"action", "observe"} /\ pc' = "finalize" /\ loop'.step = "close"
  <2>1. CASE snap.done = "adjudicate"
    <3>1. StepAfterDecision(FALSE, ckpt) \in {"report", "ingest", "reviseAgain", "challenge"}
      BY SessionTypes, DecisionSteps
    <3> QED BY <1>1, <1>2, <2>1, <3>1 DEF ResumePc, RestoredStep, ResumeDecision
  <2>2. CASE snap.done \in {"verify", "revise"}
    <3>1. /\ StepAfterVerify(ckpt) \in {"adjudicate", "revise"}
          /\ StepAfterRevision(ckpt) \in {"challenge", "adjudicate"}
      BY LoopSteps
    <3> QED BY <1>1, <1>2, <2>2, <3>1 DEF ResumePc, RestoredStep, ResumeRevision
  <2>3. CASE snap.done \in {"created", "ingest", "propose"}
    BY <1>1, <1>2, <1>3, <2>3 DEF ResumePc, RestoredStep
  <2>4. CASE snap.done \in {"challenge", "report", "action", "observe"}
    BY <1>1, <1>2, <2>4 DEF ResumePc, RestoredStep
  <2> QED BY <1>6, <2>1, <2>2, <2>3, <2>4
<1>8. /\ GraphTypeOK' /\ (graph.active \subseteq Known(graph))'
      /\ (stored.active \subseteq Known(stored))' /\ WithdrawnRefuted(graph)' /\ WithdrawnRefuted(stored)'
  BY <1>1, <1>3, <1>4, <1>5 DEF GraphInv, GraphTypeOK
<1>9. GraphKept' /\ WithdrawnKept'
  <2>1. Same(graph', stored') /\ stored'.size <= graph'.size
    BY <1>1, <1>3, <1>4, <1>5
  <2> QED BY <1>1, <1>5, <2>1 DEF GraphKept, WithdrawnKept, Same, Withdrawn
<1>10. StepsLocated'
  BY <1>1, <1>2, <1>7 DEF StepsLocated, ClosingPcs
<1>11. /\ Judged' => Judged \/ stored.size = 0
       /\ Reporting' => Reporting \/ snap.done = "adjudicate" \/ stored.size = 0
  BY <1>1, <1>7 DEF Judged, Reporting, ClosingPcs
<1>12. EarnedInv'
  BY <1>1, <1>5, <1>11, NoClaimsNothing DEF GraphInv, EarnedInv
<1>13. DecidedInv'
  <2>1. stored.size = 0 => AllDecided(stored)
    BY NoClaimsNothing
  <2> QED BY <1>1, <1>11, <2>1 DEF GraphInv, DecidedInv
<1>14. DataInv'
  <2>1. TerminalState(stored)' = TerminalState(stored)
    BY <1>1, OutcomeStored
  <2>2. pc' = "body" /\ loop'.step \in {"ingest", "report"} => snap.done = "adjudicate"
    BY <1>7
  <2>3. DataFollowsGraph'
    BY <1>1, <2>1 DEF GraphInv, DataInv, DataFollowsGraph
  <2> QED BY <1>1, <1>2, <1>3, <1>5, <2>1, <2>2, <2>3 DEF GraphInv, DataInv, DataFollowsGraph
<1>15. BackedInv'
  BY <1>1, <1>5 DEF GraphInv, BackedInv
<1> QED BY <1>8, <1>9, <1>10, <1>12, <1>13, <1>14, <1>15 DEF GraphInv

-----------------------------------------------------------------------------
(* The invariant, and what follows.                                        *)

LEMMA GraphInit_GraphInv == GraphInit => GraphInv
<1> SUFFICES ASSUME GraphInit PROVE GraphInv
  OBVIOUS
<1>1. /\ graph = EmptyGraph /\ stored = EmptyGraph /\ todo = {} /\ pc = "idle"
      /\ snap.done = "created" /\ loop = NoLoop /\ ckpt = NoData /\ failures = 0
  BY DEF GraphInit, AdjInit, Init, NewSnapshot
<1>2. loop.step = "propose" /\ ~loop.entered /\ loop.data.claims = "none" /\ ckpt.claims = "none"
  BY <1>1 DEF NoLoop, NoData
<1>3. GraphTypeOK /\ BackedInv /\ WithdrawnRefuted(graph) /\ WithdrawnRefuted(stored)
  BY <1>1, EmptyGraphParts DEF GraphTypeOK, BackedInv
<1>4. graph.active \subseteq Known(graph) /\ stored.active \subseteq Known(stored)
  BY <1>1, EmptyGraphParts
<1>5. GraphKept /\ WithdrawnKept /\ StepsLocated
  BY <1>1, <1>2, EmptyGraphParts DEF GraphKept, WithdrawnKept, StepsLocated, Same, Withdrawn, ClosingPcs
<1>6. ~Judged /\ ~Reporting
  BY <1>1 DEF Judged, Reporting, ClosingPcs
<1>7. EarnedInv /\ DecidedInv /\ DataInv
  BY <1>1, <1>2, <1>6, EmptyGraphParts DEF EarnedInv, DecidedInv, DataInv, DataFollowsGraph
<1> QED BY <1>3, <1>4, <1>5, <1>7 DEF GraphInv

LEMMA GraphNext_GraphInv == WorkflowInv /\ GraphInv /\ [GraphNext]_allVars => GraphInv'
<1> SUFFICES ASSUME WorkflowInv, GraphInv, [GraphNext]_allVars PROVE GraphInv'
  OBVIOUS
<1>1. CASE UNCHANGED allVars \/ (Returned /\ Outside /\ Aside)
  <2>1. UNCHANGED adjVars /\ Aside
    BY <1>1 DEF allVars, Returned, Outside, Aside, adjVars, history
  <2> QED BY <2>1, AsideStuttering
<1>2. CASE \/ (AdjPrelude /\ Aside) \/ (RejectPhase /\ Aside) \/ (Close /\ Aside)
           \/ (AdjClosing /\ Aside)
  BY <1>2, AsideInPrelude, AsideInBody, AsideInClosing
<1>3. CASE EnterPhaseG \/ ProposeClaim \/ OpenTicket \/ VerifyClaim
  BY <1>3, EnteringKeeps, ProposingKeeps, TicketsKeep, VerifyingKeeps
<1>4. CASE CommitProposeG \/ CommitChallengeG \/ CommitVerifyG \/ CommitReviseG
  BY <1>4, ProposalsKeep, ChallengesKeep, VerificationsKeep, RevisingKeeps
<1>5. CASE CommitAdjudicateG \/ CommitIngestG \/ CommitReviseAgainG \/ CommitReportG
  BY <1>5, DecidingKeeps, IngestKeeps, RevisingAgainKeeps, ReportingKeeps
<1>6. CASE StepErrorG
  BY <1>6, AsideOnError, ErrorKeeps DEF StepErrorG
<1>7. CASE FailSessionG \/ CrashG
  BY <1>7, FailureKeeps, CrashKeeps
<1>8. CASE ResumeG
  BY <1>8, FinishedResumeKeeps, RestoredKeeps
<1> QED BY <1>1, <1>2, <1>3, <1>4, <1>5, <1>6, <1>7, <1>8 DEF GraphNext

LEMMA GraphInvariant == GraphSpec => []GraphInv
BY GraphInit_GraphInv, GraphNext_GraphInv, WorkflowInvariant, PTL DEF GraphSpec

\* The claims, tickets, findings, records and selections of every run are well
\* formed, and what they refer to exists.
THEOREM GraphTypeCorrect == GraphSpec => []GraphTypeOK
<1>1. GraphInv => GraphTypeOK
  BY DEF GraphInv
<1> QED BY <1>1, GraphInvariant, PTL

\* What the workflow decides by (whether there are claims, whether one is left to
\* revise, which terminal state they give) is what the stored graph says, after
\* any crash, failure and resume.
THEOREM DataFollows == GraphSpec => []DataFollowsGraph
<1>1. GraphInv => DataFollowsGraph
  BY DEF GraphInv, DataInv
<1> QED BY <1>1, GraphInvariant, PTL

\* The rules of the arbiter report no claim as supported that no verification
\* passed or one failed, in any round.
THEOREM SupportEarned == GraphSpec => []SupportIsEarned
<1>1. GraphInv => SupportIsEarned
  BY DEF GraphInv, EarnedInv, Judged, Earned, SupportIsEarned, Reported
<1> QED BY <1>1, GraphInvariant, PTL

\* What the rules report is decided: about every claim that is not withdrawn the
\* report has a record made after the last revision of that claim.
THEOREM ReportDecided == GraphSpec => []ReportedClaimsDecided
<1>1. GraphInv => ReportedClaimsDecided
  BY DEF GraphInv, DecidedInv, Reporting, AllDecided, ReportedClaimsDecided, Reported
<1> QED BY <1>1, GraphInvariant, PTL

\* As long as no step has failed a closed ticket has a conclusive finding about
\* its claim, in memory and in the snapshot.
THEOREM ClosingBacked == GraphSpec => []ClosingIsBacked
<1>1. GraphInv => ClosingIsBacked
  BY DEF GraphInv, BackedInv, Backed, ClosingIsBacked
<1> QED BY <1>1, GraphInvariant, PTL

LEMMA RevivalStep ==
  ASSUME WorkflowInv, GraphInv, [GraphNext]_allVars,
         NEW c \in Withdrawn(stored), stored'.claim[c].status # "withdrawn"
  PROVE  \/ run.phase \in {"challenge", "revise"}
         \/ run.phase = "adjudicate" /\ AgentDecides[request]
<1>1. ASSUME Live, stored'.claim = graph.claim
      PROVE  \/ run.phase \in {"challenge", "revise"}
             \/ run.phase = "adjudicate" /\ AgentDecides[request]
  BY <1>1 DEF GraphInv, WithdrawnKept
<1>2. stored' # stored
  BY DEF Withdrawn
<1>3. graph \in GraphType /\ stored \in GraphType
  BY DEF GraphInv, GraphTypeOK
<1>4. CASE EnterPhaseG
  <2>1. Same(graph, stored)
    BY <1>4 DEF EnterPhaseG, EnterPhase, GraphInv, GraphKept, Live, Ahead
  <2> QED BY <1>2, <1>3, <1>4, <2>1, PatchKeeps DEF EnterPhaseG, GraphPatch
<1>5. CASE CommitProposeG \/ CommitIngestG \/ CommitReportG
  <2>1. stored'.claim = graph.claim
    BY <1>3, <1>5 DEF CommitProposeG, CommitIngestG, CommitReportG, Save, GraphType
  <2>2. Live
    BY <1>5 DEF CommitProposeG, CommitIngestG, CommitReportG, CommitPropose, CommitIngest,
         CommitReport, CommitReportAgain, Working, Live
  <2> QED BY <1>1, <2>1, <2>2
<1>6. CASE CommitChallengeG \/ CommitVerifyG
  <2>1. stored'.claim = graph.claim /\ Live
    BY <1>6 DEF CommitChallengeG, CommitVerifyG, CommitChallenge, CommitVerify, Save, Working, Live
  <2> QED BY <1>1, <2>1
<1>7. CASE CommitReviseG \/ CommitReviseAgainG
  <2>1. Working("revise") \/ Working("reviseAgain")
    BY <1>7 DEF CommitReviseG, CommitReviseAgainG, CommitRevise, CommitReviseAgain
  <2> QED BY <2>1, WorkingGraph, StepNames
<1>8. CASE CommitAdjudicateG
  <2>1. Working("adjudicate")
    BY <1>8 DEF CommitAdjudicateG, CommitAdjudicate
  <2>2. /\ run.phase = "adjudicate" /\ WithdrawnRefuted(graph) /\ Same(graph, stored)
        /\ Known(graph) \subseteq Claims
    BY <2>1, WorkingGraph, StepNames
  <2>3. c \in Claims /\ graph.claim[c].status = "withdrawn"
    BY <2>2 DEF Withdrawn, Same, Known
  <2>4. stored' \in Decisions(graph)
    BY <1>8 DEF CommitAdjudicateG, Save
  <2> QED BY <1>3, <2>2, <2>3, <2>4, SessionTypes, DecisionsAre
<1>9. CASE FailSessionG
  <2>1. stored' = GraphPatch(graph) /\ Live
    BY <1>2, <1>9 DEF FailSessionG, AdjFailSession, FailSession, Live
  <2>2. stored'.claim = graph.claim
    BY <1>3, <2>1, PatchParts DEF GraphPatch
  <2> QED BY <1>1, <2>1, <2>2
<1> QED
  BY <1>2, <1>4, <1>5, <1>6, <1>7, <1>8, <1>9 DEF GraphNext, Aside, graphVars, allVars,
     ProposeClaim, OpenTicket, VerifyClaim, Change, StepErrorG, CrashG, ResumeG

\* A claim withdrawn in the snapshot comes back only through a challenger, a
\* revision or an arbiter agent, whatever crashes, fails or resumes in between.
THEOREM RevivalByWorkers == GraphSpec => RevivedByWorkersOnly
<1>1. WorkflowInv /\ GraphInv /\ [GraphNext]_allVars =>
        [\A c \in Withdrawn(stored) :
           stored'.claim[c].status # "withdrawn" =>
             \/ run.phase \in {"challenge", "revise"}
             \/ run.phase = "adjudicate" /\ AgentDecides[request]]_allVars
  BY RevivalStep
<1> QED BY <1>1, WorkflowInvariant, GraphInvariant, PTL DEF GraphSpec, RevivedByWorkersOnly
=============================================================================
