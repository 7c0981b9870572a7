------------------------------ MODULE RunManager ------------------------------
(* The desktop host's run manager: discussions that are started, branched,   *)
(* stopped, resumed, deleted and restored while their engines run in         *)
(* goroutines, the preparations they may start from, and the budget of calls *)
(* that all discussions of one chain share.  A data directory belongs to one *)
(* process at a time (flock), every operation holds the manager's mutex and  *)
(* ends in one transaction, so an operation is one action; between them      *)
(* goroutines, stops, a shutdown, a crash and the next start interleave.     *)
(* A request whose idempotency key is known is answered with its run and     *)
(* changes nothing: it is not modelled.  Errors of SQLite are left out.      *)
EXTENDS Naturals, FiniteSets

CONSTANTS
  MaxRuns,       \* bound: discussions
  Preparations,  \* identifiers of preparations
  RunLimit,      \* RunCallLimit
  ChainLimit,    \* DefaultChainLimit
  MaxInterventions \* bound: stops, resumes, deletions, restorations, changes of a
                   \* CLI, ends of an analysis' context, shutdowns and crashes

ASSUME HostAssumption ==
  /\ MaxRuns \in Nat /\ RunLimit \in Nat \ {0} /\ ChainLimit \in Nat \ {0}
  /\ MaxInterventions \in Nat

Runs == 1 .. MaxRuns
NoRun == 0

VARIABLES
  host,      \* the process: up, closing, down, or starting
  todo,      \* the runs a starting process has yet to reconcile
  runs,      \* the stored runs; status "none" for those that do not exist yet
  expired,   \* the runs whose deadline has passed
  reserved,  \* the stored call reservations: <<run, number>>
  session,   \* a run has no proposal yet, an open session, or a finished one
  job,       \* the goroutine that executes a run
  preps,     \* the stored preparations
  analysis,  \* the goroutine of a preparation: its context, or none
  interventions

runVars == <<runs, expired, reserved, session, job>>
prepVars == <<preps, analysis>>
vars == <<host, todo, runVars, prepVars, interventions>>

Statuses == {"none", "running", "completed", "failed", "stopped", "interrupted"}
StopReasons == {"", "user", "shutdown", "changed"}
JobSteps == {"none", "propose", "proposing", "engine", "finalize", "decided"}

RunType == [status : Statuses, stop : StopReasons, root : Runs \cup {NoRun},
            attempt : Nat, deleted : BOOLEAN]
JobType == [step : JobSteps, cancelled : BOOLEAN]
PrepType ==
  [status : {"none", "running", "completed", "failed", "cancelled", "interrupted"},
   usedBy : Runs \cup {NoRun}]

NoJob == [step |-> "none", cancelled |-> FALSE]
NewRun == [status |-> "none", stop |-> "", root |-> NoRun, attempt |-> 0, deleted |-> FALSE]
NewPrep == [status |-> "none", usedBy |-> NoRun]

Init ==
  /\ host = "up" /\ todo = {} /\ interventions = 0
  /\ runs = [r \in Runs |-> NewRun]
  /\ expired = {} /\ reserved = {}
  /\ session = [r \in Runs |-> "none"]
  /\ job = [r \in Runs |-> NoJob]
  /\ preps = [p \in Preparations |-> NewPrep]
  /\ analysis = [p \in Preparations |-> "none"]

-----------------------------------------------------------------------------
(* The budget.                                                             *)

Intervene == interventions < MaxInterventions /\ interventions' = interventions + 1

Exists(r) == runs[r].status # "none"
Active(r) == job[r].step # "none"

\* A changed CLI version or model, which no later outcome may cover up.
ConfigChanged(r) == runs[r].stop = "changed"

RunCalls(calls, r) == Cardinality({c \in calls : c[1] = r})

\* Mutant: discussions in the trash do not count.
ChainCallsVisible(calls, roots, root) ==
  Cardinality({c \in calls : roots[c[1]].root = root /\ ~roots[c[1]].deleted})

\* Every run of a chain counts, deleted ones and those that failed too.
ChainCalls(calls, roots, root) == Cardinality({c \in calls : roots[c[1]].root = root})

\* One more call fits the run and its chain.
WithinBudget(r) ==
  /\ RunCalls(reserved, r) + 1 <= RunLimit
  /\ ChainCalls(reserved, runs, runs[r].root) + 1 <= ChainLimit

\* reserveCall; a reservation that is refused changes nothing the model keeps.
Reserve(r) ==
  /\ Active(r) /\ job[r].step # "propose"
  /\ runs[r].status = "running" /\ runs[r].stop = ""
  /\ WithinBudget(r)
  /\ reserved' = reserved \cup {<<r, RunCalls(reserved, r) + 1>>}
  /\ UNCHANGED <<host, todo, runs, expired, session, job, prepVars, interventions>>

-----------------------------------------------------------------------------
(* Operations of the user.                                                 *)

FirstStep == [none |-> "propose", open |-> "engine", finished |-> "finalize"]

\* The goroutine continues from what the run has stored; a finished session is
\* decided whatever its context says.
Launch(r) ==
  job' = [job EXCEPT ![r] = [step |-> FirstStep[session[r]],
                             cancelled |-> r \in expired]]

NextRun(r) == ~Exists(r) /\ \A q \in 1 .. r - 1 : Exists(q)

\* A new run of the chain of root, with the calls it starts with; refused when
\* the chain has none left.
Create(r, root, calls) ==
  /\ host = "up" /\ NextRun(r)
  /\ runs' = [runs EXCEPT ![r] = [NewRun EXCEPT !.status = "running", !.root = root,
                                                !.attempt = 1]]
  /\ reserved' = reserved \cup calls
  /\ ChainCalls(reserved', runs', root) < ChainLimit
  /\ Launch(r)
  /\ UNCHANGED <<host, todo, expired, session, analysis, interventions>>

Start(r) == Create(r, r, {}) /\ UNCHANGED preps

\* A preparation that is too old is refused as well.
Adoptable(p) == preps[p].status = "completed" /\ preps[p].usedBy = NoRun

\* The call of the preparation counts as the first of the run.
FirstCall(r) == {<<r, 1>>}

\* The run and the adoption of its preparation are one transaction.
StartPrepared(r, p) ==
  /\ Adoptable(p)
  /\ Create(r, r, FirstCall(r))
  /\ preps' = [preps EXCEPT ![p].usedBy = r]

\* Branch reads its parent before it takes the lock; start looks again whether
\* the parent was deleted meanwhile.
Branch(r, parent) ==
  /\ Exists(parent) /\ ~runs[parent].deleted
  /\ Create(r, runs[parent].root, {})
  /\ UNCHANGED preps

\* Mutant: a completed run may be continued.
ResumeCompleted(r) ==
  /\ Intervene
  /\ host = "up"
  /\ Exists(r) /\ ~Active(r) /\ ~runs[r].deleted
  /\ session[r] = "finished" \/ r \notin expired
  /\ runs' = [runs EXCEPT ![r].status = "running", ![r].stop = "", ![r].attempt = @ + 1]
  /\ Launch(r)
  /\ UNCHANGED <<host, todo, expired, reserved, session, prepVars>>

\* A run whose session is finished needs no call, so neither its deadline nor the
\* installed versions are looked at.
Resume(r) ==
  /\ Intervene
  /\ host = "up"
  /\ Exists(r) /\ ~Active(r) /\ ~runs[r].deleted /\ runs[r].status # "completed"
  /\ session[r] = "finished" \/ r \notin expired
  /\ runs' = [runs EXCEPT ![r].status = "running", ![r].stop = "", ![r].attempt = @ + 1]
  /\ Launch(r)
  /\ UNCHANGED <<host, todo, expired, reserved, session, prepVars>>

\* Stop, also while the process is closing and after the run was decided.
Stop(r) ==
  /\ Intervene
  /\ host \in {"up", "closing"}
  /\ Active(r) /\ ~ConfigChanged(r)
  /\ runs' = [runs EXCEPT ![r].stop = "user"]
  /\ job' = [job EXCEPT ![r].cancelled = TRUE]
  /\ UNCHANGED <<host, todo, expired, reserved, session, prepVars>>

Delete(r) ==
  /\ Intervene
  /\ host = "up"
  /\ Exists(r) /\ ~Active(r) /\ runs[r].status # "running" /\ ~runs[r].deleted
  /\ runs' = [runs EXCEPT ![r].deleted = TRUE]
  /\ UNCHANGED <<host, todo, expired, reserved, session, job, prepVars>>

Restore(r) ==
  /\ Intervene
  /\ host = "up"
  /\ runs[r].deleted
  /\ runs' = [runs EXCEPT ![r].deleted = FALSE]
  /\ UNCHANGED <<host, todo, expired, reserved, session, job, prepVars>>

-----------------------------------------------------------------------------
(* The goroutine of a run.                                                 *)

Moves(r, from, to) == job[r].step = from /\ job' = [job EXCEPT ![r].step = to]

\* The status of a run whose goroutine ends with an error or was stopped.
EndStatus(stop) ==
  CASE stop = "user" -> "stopped"
    [] stop = "shutdown" -> "interrupted"
    [] OTHER -> "failed"

\* The goroutine fails: its subprocesses have ended (Delegate.Close) and it takes
\* the lock once more.  A stop that comes in between has the effect of one before.
Fails(r) ==
  /\ job' = [job EXCEPT ![r] = NoJob]
  /\ runs' = [runs EXCEPT ![r].status = EndStatus(runs[r].stop)]

\* A call for the first proposal.
CallProposer(r) ==
  /\ Moves(r, "propose", "proposing")
  /\ runs[r].status = "running" /\ runs[r].stop = ""
  /\ WithinBudget(r)
  /\ reserved' = reserved \cup {<<r, RunCalls(reserved, r) + 1>>}
  /\ UNCHANGED <<host, todo, runs, expired, session, prepVars, interventions>>

\* The answer is stored with the engine's request and session identifier while the
\* context is alive; a stop between the two has the effect of one after them.
StoreProposal(r) ==
  /\ Moves(r, "proposing", "engine")
  /\ ~job[r].cancelled
  /\ session' = [session EXCEPT ![r] = "open"]
  /\ UNCHANGED <<host, todo, runs, expired, reserved, prepVars, interventions>>

\* The engine saves its last snapshot, which a stop may just have preceded.
FinishSession(r) ==
  /\ job[r].step = "engine" /\ session[r] = "open"
  /\ session' = [session EXCEPT ![r] = "finished"]
  /\ UNCHANGED <<host, todo, runs, expired, reserved, job, prepVars, interventions>>

\* The result the engine returns is dropped when the context is done by now.
EngineReturns(r) ==
  /\ session[r] = "finished"
  /\ ~job[r].cancelled
  /\ Moves(r, "engine", "finalize")
  /\ UNCHANGED <<host, todo, runs, expired, reserved, session, prepVars, interventions>>

\* A call, a task or the engine fails, or the context is done.
ExecuteFails(r) ==
  /\ job[r].step \in {"propose", "proposing", "engine"}
  /\ Fails(r)
  /\ UNCHANGED <<host, todo, expired, reserved, session, prepVars, interventions>>

\* Mutant: the stop reason is not looked at.
DecideUnchecked(r) ==
  /\ Moves(r, "finalize", "decided")
  /\ runs' = [runs EXCEPT ![r].status = "completed"]
  /\ UNCHANGED <<host, todo, expired, reserved, session, prepVars, interventions>>

\* finalize; the stop reason it has read is read again in the transaction that
\* stores the decision.
Decide(r) ==
  /\ job[r].step = "finalize"
  /\ IF ConfigChanged(r)
       THEN Fails(r)
       ELSE /\ Moves(r, "finalize", "decided")
            /\ runs' = [runs EXCEPT ![r].status = "completed"]
  /\ UNCHANGED <<host, todo, expired, reserved, session, prepVars, interventions>>

\* The end of a goroutine that has decided; a stop that came since still counts.
EndJob(r) ==
  /\ job[r].step = "decided" /\ job' = [job EXCEPT ![r] = NoJob]
  /\ runs' = IF runs[r].stop = "" THEN runs
             ELSE [runs EXCEPT ![r].status = EndStatus(runs[r].stop)]
  /\ UNCHANGED <<host, todo, expired, reserved, session, prepVars, interventions>>

\* enforceCLIVersion and enforceReportedModel: an event of any call, also one the
\* engine has given up, shows another version or model.
ChangeDetected(r) ==
  /\ Intervene
  /\ Active(r) /\ ~ConfigChanged(r)
  /\ runs' = [runs EXCEPT ![r].stop = "changed", ![r].status = "failed"]
  /\ job' = [job EXCEPT ![r].cancelled = TRUE]
  /\ UNCHANGED <<host, todo, expired, reserved, session, prepVars>>

\* Once a run is over and decided its deadline means nothing.
DeadlineStrikes(r) ==
  /\ r \notin expired
  /\ Active(r) \/ runs[r].status \notin {"none", "completed"}
  /\ expired' = expired \cup {r}
  /\ job' = [job EXCEPT ![r].cancelled = Active(r)]
  /\ UNCHANGED <<host, todo, runs, reserved, session, prepVars, interventions>>

-----------------------------------------------------------------------------
(* Preparations.                                                           *)

\* A preparation that exists is answered as it is, a running one is waited for.
Analyze(p) ==
  /\ host = "up" /\ preps[p].status = "none"
  /\ preps' = [preps EXCEPT ![p].status = "running"]
  /\ analysis' = [analysis EXCEPT ![p] = "running"]
  /\ UNCHANGED <<host, todo, runVars, interventions>>

\* The context keeps its first error.
Cancelled(context) == IF context = "running" THEN "cancelled" ELSE context

\* The client leaves, or the deadline passes.
AnalysisInterrupted(p) ==
  /\ analysis[p] = "running"
  /\ Intervene
  /\ \E why \in {"cancelled", "expired"} : analysis' = [analysis EXCEPT ![p] = why]
  /\ UNCHANGED <<host, todo, runVars, preps>>

\* CancelPreparation also keeps an identifier from being used later.
CancelPreparation(p) ==
  /\ Intervene
  /\ host \in {"up", "closing"}
  /\ preps[p].status \in {"none", "running"}
  /\ preps' = [preps EXCEPT ![p].status = "cancelled"]
  /\ analysis' = [analysis EXCEPT ![p] = Cancelled(@)]
  /\ UNCHANGED <<host, todo, runVars>>

\* Mutant: an answer counts although the analysis was cancelled.
AnalysisEndsAnyway(p) ==
  /\ analysis[p] # "none"
  /\ \E status \in {"completed", "failed"} : preps' = [preps EXCEPT ![p].status = status]
  /\ analysis' = [analysis EXCEPT ![p] = "none"]
  /\ UNCHANGED <<host, todo, runVars, interventions>>

\* The goroutine stores what its context says, whatever the CLI answered.
AnalysisEnds(p) ==
  /\ analysis[p] # "none"
  /\ \E status \in {"completed", "failed", "cancelled"} :
       /\ status = "completed" => analysis[p] = "running"
       /\ status = "cancelled" <=> analysis[p] = "cancelled"
       /\ preps' = [preps EXCEPT ![p].status = status]
  /\ analysis' = [analysis EXCEPT ![p] = "none"]
  /\ UNCHANGED <<host, todo, runVars, interventions>>

-----------------------------------------------------------------------------
(* The process.                                                            *)

\* Close: every active run is interrupted, but for one whose configuration
\* changed, and every context is cancelled.
Close ==
  /\ Intervene
  /\ host = "up"
  /\ host' = "closing"
  /\ runs' = [r \in Runs |-> IF Active(r) /\ ~ConfigChanged(r)
                               THEN [runs[r] EXCEPT !.stop = "shutdown"] ELSE runs[r]]
  /\ job' = [r \in Runs |-> [job[r] EXCEPT !.cancelled = Active(r)]]
  /\ analysis' = [p \in Preparations |-> Cancelled(analysis[p])]
  /\ UNCHANGED <<todo, expired, reserved, session, preps>>

\* All goroutines have ended.
Exit ==
  /\ host = "closing"
  /\ \A r \in Runs : ~Active(r)
  /\ \A p \in Preparations : analysis[p] = "none"
  /\ host' = "down"
  /\ UNCHANGED <<todo, runVars, prepVars, interventions>>

Crash ==
  /\ host # "down" /\ Intervene
  /\ host' = "down" /\ todo' = {}
  /\ job' = [r \in Runs |-> NoJob]
  /\ analysis' = [p \in Preparations |-> "none"]
  /\ UNCHANGED <<runs, expired, reserved, session, preps>>

\* New: reconcilePreparations, then reconcile.
Restart ==
  /\ host = "down"
  /\ host' = "starting"
  /\ todo' = {r \in Runs : Exists(r)}
  /\ preps' = [p \in Preparations |->
                 IF preps[p].status = "running" THEN [preps[p] EXCEPT !.status = "interrupted"]
                                                ELSE preps[p]]
  /\ UNCHANGED <<runVars, analysis, interventions>>

\* Mutant: runs that were running are left as they are.
ReconciledOnlyDecided(r) ==
  IF runs[r].deleted \/ ConfigChanged(r) \/ session[r] # "finished"
    THEN runs[r] ELSE [runs[r] EXCEPT !.status = "completed"]

\* A finished session is decided, whoever stopped the run; one that was running
\* is interrupted.
Reconciled(r) ==
  IF runs[r].deleted \/ ConfigChanged(r) THEN runs[r]
  ELSE IF session[r] = "finished" THEN [runs[r] EXCEPT !.status = "completed"]
  ELSE IF runs[r].status = "running"
         THEN [runs[r] EXCEPT !.status = "interrupted", !.stop = "shutdown"]
         ELSE runs[r]

Reconcile(r) ==
  /\ host = "starting" /\ r \in todo
  /\ runs' = [runs EXCEPT ![r] = Reconciled(r)]
  /\ todo' = todo \ {r}
  /\ UNCHANGED <<host, expired, reserved, session, job, prepVars, interventions>>

Serve ==
  /\ host = "starting" /\ todo = {}
  /\ host' = "up"
  /\ UNCHANGED <<todo, runVars, prepVars, interventions>>

-----------------------------------------------------------------------------
User(r) ==
  \/ Start(r) \/ (\E p \in Preparations : StartPrepared(r, p)) \/ (\E q \in Runs : Branch(r, q))
  \/ Resume(r) \/ Stop(r) \/ Delete(r) \/ Restore(r)

\* What a goroutine does by itself once its context is done or its session is.
JobEnds(r) ==
  \/ EngineReturns(r) \/ Decide(r) \/ EndJob(r)
  \/ job[r].cancelled /\ ExecuteFails(r)

Executes(r) ==
  \/ Reserve(r) \/ CallProposer(r) \/ StoreProposal(r) \/ FinishSession(r)
  \/ JobEnds(r) \/ ExecuteFails(r)
  \/ ChangeDetected(r) \/ DeadlineStrikes(r)

Prepares(p) ==
  Analyze(p) \/ AnalysisInterrupted(p) \/ CancelPreparation(p) \/ AnalysisEnds(p)

Process == Close \/ Exit \/ Crash \/ Restart \/ Serve \/ (\E r \in Runs : Reconcile(r))

Next ==
  \/ \E r \in Runs : User(r) \/ Executes(r)
  \/ \E p \in Preparations : Prepares(p)
  \/ Process

Spec == Init /\ [][Next]_vars

\* Deadlines pass, goroutines whose context is done end, and the application is
\* opened again after it went down.  Nothing is assumed of users or providers.
FairSpec ==
  /\ Spec
  /\ \A r \in Runs : WF_vars(DeadlineStrikes(r)) /\ WF_vars(JobEnds(r))
  /\ \A p \in Preparations : WF_vars(AnalysisEnds(p))
  /\ WF_vars(Exit) /\ WF_vars(Restart) /\ WF_vars(Serve)
  /\ \A r \in Runs : WF_vars(Reconcile(r))

-----------------------------------------------------------------------------
(* Properties.                                                             *)

\* The variables range over their types.
HostTypeOK ==
  /\ host \in {"up", "closing", "down", "starting"} /\ todo \subseteq Runs
  /\ runs \in [Runs -> RunType]
  /\ expired \subseteq Runs /\ reserved \subseteq Runs \X Nat
  /\ session \in [Runs -> {"none", "open", "finished"}]
  /\ job \in [Runs -> JobType]
  /\ preps \in [Preparations -> PrepType]
  /\ analysis \in [Preparations -> {"none", "running", "cancelled", "expired"}]
  /\ interventions \in Nat

\* No run ever has more calls reserved than a run may have and no chain more than
\* a chain may have, over branches, attempts, deletions, restorations, adopted
\* preparations and restarts (chain_budget.go:103).
BudgetNeverExceeded ==
  /\ \A r \in Runs : RunCalls(reserved, r) <= RunLimit
  /\ \A root \in Runs : Cardinality({c \in reserved : runs[c[1]].root = root}) <= ChainLimit

\* A failure of the configuration is not turned into a success by a stop, a
\* shutdown, a decision that is about to be stored or a restart; only the user
\* resumes such a run (implementation.md:85).
ConfigFailureStands ==
  [][\A r \in Runs :
       ConfigChanged(r) => \/ runs'[r].stop = "changed" /\ runs'[r].status = "failed"
                           \/ runs'[r].attempt # runs[r].attempt]_vars

\* A run that was completed and whose goroutine has ended is never executed again:
\* it keeps its status and its calls, whatever is stopped, resumed, deleted,
\* restored, closed or restarted.  Until its goroutine ends, a stop, a shutdown or
\* a late event may still take the completion back.
CompletedStands ==
  [][\A r \in Runs :
       runs[r].status = "completed" /\ ~Active(r) =>
         /\ runs'[r].status = "completed" /\ runs'[r].attempt = runs[r].attempt
         /\ RunCalls(reserved', r) = RunCalls(reserved, r)]_vars

\* A preparation is adopted by one run, and stays settled: an answer that comes
\* after the cancellation is not taken (a deadline that had passed before may turn
\* it into a failure), and a restart revives none.
PreparationsStand ==
  [][\A p \in Preparations :
       /\ preps[p].usedBy # NoRun => preps'[p] = preps[p]
       /\ preps[p].status = "cancelled" => preps'[p].status \in {"cancelled", "failed"}
       /\ preps[p].status \notin {"none", "running"} /\ analysis[p] = "none" =>
            preps'[p].status = preps[p].status]_vars

\* No run is left running: through stops, deadlines, shutdowns, crashes and
\* restarts its status is settled in the end.
EveryRunSettles ==
  \A r \in Runs : runs[r].status = "running" ~> runs[r].status # "running"
=============================================================================
