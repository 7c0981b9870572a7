# Formal models of til-consensus

TLA+ models of til-consensus, checked with TLC on small instances and proved with TLAPS
where a statement should hold for every value of the constants. Paths below are relative
to `src/`; `desktop/…/` abbreviates `desktop/services/host/internal/`.

1. The system
2. The modules
3. The runs
4. Where code and documents part
5. What is proved
6. Not modelled
7. What could come next

## 1. The system

`til-consensus` runs a *session*: a request is framed, worked on by several agents in one
of three *workflows* (adjudication, free debate, delphi), reported, optionally acted on,
observed, and finished. The engine is a library (`consensus/`). A command line
(`internal/app`, `runner/`, with its configuration in `config/`) and a desktop host
(`desktop/services/host`) drive it. Delegates (`runtime/`, `desktop/…/delegate`) dispatch
its tasks to providers; `store/` keeps its snapshots and `observer/` its evidence ledger.

```
 command line, configuration      desktop host: run manager, preparations
        RunConfig, RunCommand            RunManager
                    \                      /
                     engine and closing sequence        SessionLifecycle
          /                   |                    \
 adjudication            free debate              delphi
 AdjudicationRun         FreeDebateRun            DelphiRun
 ClaimGraph              DebateVotes              DelphiAggregate
 Verification
          \                   |                    /
            tasks and batches, retry, delegates, providers
       TaskExecution, ProviderReply      HostDelegate, ProviderCall
                              |
           session store                evidence ledger
           SessionStore                 LedgerWAL, EvidenceLog
```

### Inventory

| Component | State it keeps | Operations | Interacts with | Hard behaviour | What makes it correct |
|---|---|---|---|---|---|
| State machine (`consensus/state.go`) | current phase | `Transition` | engine | an order of phases nobody tried | only the listed transitions are attempted |
| Engine and closing sequence (`engine.go`, `workflow_core.go`, `workflow_finalize.go`, `checkpoint.go`) | `workflowRun`, `RunResult` in memory; `SessionSnapshot` in the store | `Start`, `beginWorkflow`, `finalizeWorkflow`, `runObservePhase`, `finishSession`, `failSession`, `Resume` | store, ledger, observer, delegate | crash or error between any two steps, then resume | no committed action repeated; a result that agrees with the data; nothing finished with observations missing |
| Adjudication (`workflow_adjudication.go`, `resume.go`) | claim graph, tickets, findings, arbiter records, loop counters | propose, challenge, verify, revise, adjudicate, fallback, report | engine, arbiter, verifier | the control is written twice, once fresh and once as a resume chain | a resume takes the interrupted run's next step; fallback budget; termination |
| Free debate (`workflow_free_debate.go`, `mode_resume.go`, `debate_*.go`) | claims, rounds, votes | initial claims, rounds, deduplication, synthesis, amendments, vote | engine | claims merge and come back, rounds are replayed on resume, partial state is kept on failure | merges end at a claim that takes part; committed rounds and ballots not repeated; a ballot is whole or absent |
| Delphi (`workflow_delphi.go`, `delphi_responses.go`, `mode_resume.go`) | statements, ratings, rounds, stability | questionnaire, aggregation, summary, revision | engine | the count of stable rounds and their leader are restored from two places | convergence rests on enough stable rounds, on quorum, sample and agreement |
| Claim graph (`claims.go`) | claims, tickets | upsert, attach, apply decisions and revisions, close challenges | adjudication | status overwritten by a later, weaker fact; parts of it stored by a failure | only workers bring a withdrawn claim back; every claim left is decided; closed tickets and supported claims are backed by findings |
| Arbiter (`arbiter.go`) | none | decide, by an agent or by rules | adjudication | findings of all rounds weigh on a decision | a failed verification outweighs the rest |
| Verifier (`verifier.go`) | none | checks of five kinds and a semantic verifier | adjudication | a check that cannot be made, a deadline in the middle of one | what could not be checked is not taken for passed |
| Tasks (`task_retry.go`, `batch.go`) | attempts, results | `ExecuteTaskWithRetry`, `executeTaskBatch` | delegate, observer | timeout against a late answer, deadline, parallel limit | a result is the answer to its own attempt; every round ends |
| Runtime delegate (`runtime/delegate.go`) | pending tasks, artifacts, a counter | `Dispatch`, `Await`, `Cancel`, repair of malformed output | tasks, providers | abandoned attempts that go on, files written twice | an artifact the ledger refers to is not written over |
| Provider runners (`runtime/api`, `cli`, `sdk`, `mock`) | none | send, read, extract | runtime delegate | every provider says "nothing" in its own way | an answer is a text or an error |
| Session store (`store/file`, `store/memory`) | snapshot, version | `Save`, `Load`, `Patch`, `List` | engine, command line, desktop host | processes that share a session, failure and death while writing | evidence of a snapshot is in the ledger; a committed step has its evidence |
| Evidence ledger (`observer/ledger.go`) | ledger file, root checkpoint, manifest | `Append`, `Verify`, recovery | engine, viewers | death between three files, torn tail, two writers, power loss | append-only; recovery loses nothing an `Append` has synced and returned, and can go on |
| Run manager (`desktop/…/runmanager`) | runs, call reservations, goroutines | start, branch, resume, stop, delete, restore, decide, close, reconcile | storage, engine, user | stops, deadlines, shutdown and crash against goroutines; chains that share a budget | budgets; failures and completions that stand; every run settles |
| Preparations (`desktop/…/runmanager/preparation.go`) | preparations, goroutines | analyse, cancel, adopt, reconcile | run manager | an answer after the cancellation | adopted once, settled for good |
| Desktop delegate (`desktop/…/delegate`) | invocations, ballots, reviews | `Dispatch`, `Await`, `Close`, publishing in steps | engine, CLIs, callbacks | given-up invocations beside their retry; a callback that fails after half was stored | a supported result has everybody's vote; after `Close` nothing happens |
| Codex client (`desktop/…/codexserver`) | child process, goroutine, frames | `Run` | desktop delegate | a server that does not read, or ignores everything but a signal; a helper that holds its pipes | the call returns |
| Configuration (`config/`) | files, profiles | load, merge, validate, plan, edit | command line | layers that override each other; requests older than the configuration | criteria fit the mode; agents are usable |
| Command line and runner (`internal/app`, `runner/`) | sessions, follow-up cases | `run` with its sources, shortcuts, commands that write configurations | configuration, engine | a session resumed, replayed or followed up after edits | as above |
| Reports, viewer, events, telemetry, doctor, Electron application | none relevant | formatting, display, diagnostics | | | see section 6 |

`PROJECT.json` lists every component with its status, and every hazard with the line where
it bites and the properties that watch it.

## 2. The modules

| Module | Models | Kind |
|---|---|---|
| `SessionPhases` | phases and `allowedTransition` | definitions |
| `SessionLifecycle` | a session of any mode: prelude, abstract body, action, observation, result, failure, crash, resume | state machine |
| `AdjudicationRun` | the adjudication body, fresh and resumed, with the rest of `SessionLifecycle` | implements `SessionLifecycle` |
| `ClaimGraph`, `Verification` | claims, tickets, findings and decisions, with `AdjudicationRun`; which findings the checks can give | implements `AdjudicationRun` |
| `FreeDebateRun`, `DebateVotes` | the debate body, fresh and resumed; how its vote is decided | implements `SessionLifecycle` |
| `DelphiRun`, `DelphiAggregate` | the Delphi body, fresh and resumed; what a round makes of its responses | implements `SessionLifecycle` |
| `TaskExecution`, `ProviderReply` | a batch with its attempts and the runtime delegate; what a provider's reply is taken for | state machine |
| `SessionStore` | the snapshot and the engines that write it | state machine |
| `EvidenceLog` | what the ledger promises | abstract specification |
| `LedgerWAL` | the ledger's files and their recovery | implements `EvidenceLog` |
| `RunManager` | the desktop host's runs, chains and preparations | state machine |
| `HostDelegate`, `ProviderCall` | the desktop delegate in a vote; one call of a CLI | state machine |
| `RunCommand`, `RunConfig` | the `run` command over the life of a directory; how a request comes about | state machine |
| `…_proofs` | theorems about the module they are named after; `DesktopHost_proofs` about `RunManager` and `HostDelegate`, `Persistence_proofs` about `LedgerWAL`, `SessionStore` and `RunCommand` | proofs |
| `MC…` | finite instances | model checking |

Operators named as mutants (their comment says so) are variants of a definition with a
plausible bug; no specification uses them. `PROJECT.json` names, for every property, one
that breaks it.

### 2.1 `SessionLifecycle`

| Variable | In the code |
|---|---|
| `request` | what the properties tell apart in the `StartRequest`: mode, whether there is an action policy and what its risk gate says, the number of observe sources, the contradiction policy |
| `pc` | where the engine is; each value is a point between two effects on the store, the ledger, the delegate or the caller |
| `run` | `workflowRun` and `RunResult`: phase of the state machine, action output, observations, reopen flag, terminal state; `outcome` is what `determineWorkflowTerminalState` finds in the workflow's data; `fresh` tells `Start` from `Resume` |
| `snap` | `SessionSnapshot`: phase, `Checkpoint.LastCompletedPhase` (`done`), and the stored counterparts of `run`; `result = "failure"` is the record `failSession` writes |
| `dispatched`, `lost` | history: action tasks given to `executeTask`; outputs destroyed before a checkpoint held them |
| `crashes`, `failures` | bounds |

One action per operation: `Start`, `PreludeAdvance` and `PreludeCommit` (`beginWorkflow`,
`resumeModePrelude`); `BodyAdvance`, `BodyCommit`, `BodyReady`, `BodyRejected` (the body,
abstract); `EnterAction`, `BlockAction`, `DispatchAction`, `RefuseAction`, `SkipAction`,
`CommitAction`, `EnterObserve`, `ObserveBuiltin`, `ObserveSource`, `ObserveDone`,
`CommitObserve` (`finalizeWorkflow`, `gatedAction`, `executeAction`, `runObservePhase`);
`EnterFinished`, `PersistFinish`, `EmitFinalized` (`finishSession`); `StepError`,
`FailSession` (any error, and the deferred handler), `Crash`, `Resume`.

Abstractions, each weaker than the code:

- `advancePhase` changes the state machine and patches the snapshot in one step. An error
  of its patch leaves what an error just before it leaves, since the run is discarded.
  `finishSession` is split, because there the difference shows: `failSession` cannot leave
  phase finished.
- `StepError` is any error of the store, the ledger, an observer or a task that the code
  returns. In the prelude of a fresh run it returns without `failSession`.
- Either patch of the failure handler may fail too (`FailSession` chooses). Debate and
  delphi first store the run's observations, as their handlers do; adjudication does not.
- `dispatched` counts tasks. Retries of a failed attempt happen inside one task.
- `lost` also counts outputs of refused and blocked actions, which cost no dispatch.
- The body may commit and advance in any order the state machine allows. The refinements
  show that the workflows do no more than that.
- One engine works on a session at a time; several are the subject of `SessionStore`.

### 2.2 `AdjudicationRun`

`startAdjudication` and the chain `resumeAdjudication`, `afterProposalCheckpoint`,
`afterChallengeCheckpoint`, `afterVerifyCheckpoint`, `afterRevisionCheckpoint`,
`resumeAdjudicationDecision`, `resumeReportPhase` are different code for the same
workflow. The model keeps one action per phase and expresses where they differ:

| Difference | Fresh | Resumed |
|---|---|---|
| second revision (`StepAfterDecision`) | `runRevisionPhase` from phase revise | jumps to the handler of a completed revision |
| verification count after a revision (`CountersAfterRevision`) | kept | restarted |
| report (`CommitReportAgain`) | stored once | stored again when resumed at the report |
| decision (`ResumeDecision`) | just made | made again when no records are stored |

`loop` holds the next step, whether its phase has been entered, and the data the control
reads; `ckpt` is the stored counterpart; `plan`, `cycle` and `fallbacks` are history for
the properties. The claim graph is reduced to: how much of the proposals it holds, the
terminal state its verdicts and tickets give, whether a claim is left to revise, what the
records leave open. What agents, verifier and arbiter answer is a free choice within the
constraints of the code (`Findings`: a decision without records leaves nothing open). The
report and closing checkpoints reset the loop counters; nothing reads them afterwards and
the model keeps them.

`AdjNext` replaces the body actions of `SessionLifecycle` and conjoins the rest with what
happens to the loop, so `AdjSpec` implements `Spec` on the shared variables.

### 2.3 `ClaimGraph` and `Verification`

Each action of `AdjudicationRun` is conjoined with what its phase does to the graph: the
actions named `…G`, and `ProposeClaim`, `OpenTicket`, `VerifyClaim`, which take the
phase's agents one claim at a time. Where `AdjudicationRun` chooses (`pending`, `material`,
`outcome`, `leftover`, `records`) the conjunct names the value the graph gives, so every
behaviour of `GraphSpec` is one of `AdjSpec` by construction. The other direction is what
TLC's deadlock check adds: a graph that gives a value `AdjudicationRun` rules out would
leave its action disabled and the run stuck. `DataFollowsGraph` closes the loop for the
stored data.

| Variable | In the code |
|---|---|
| `graph` | `workflowRun.claimGraph`, `challengeTickets`, `verificationResults`, the records of the arbiter's report, `activeClaimIDs` |
| `stored` | the same in the snapshot and its checkpoint |
| `todo` | the claims a running challenge or verification has not come to yet |

Who stores what is part of the model: a checkpoint (`patchRunState`) stores the whole graph,
`advancePhase` and `failSession` claims and tickets only (`GraphPatch`), a crash nothing.

`Decisions` are the rule-based ones (`ruleBasedDecision`) or, for a request whose arbiter is
an agent, every list of decisions that passes validation, which may name withdrawn claims
and leave others out, with the records the engine derives where the agent gives none.
`Verification` gives the findings a verification can produce (`FindingSets`): one per check
of the request, by what the workspace, the commands and the diffs show, and one of the
semantic verifier.

Abstractions:

- A claim is its position, status and verdict. Confidence, texts, caveats and references to
  evidence are left out; whether a revision is material, and whether the boundary of a claim
  is clear (`Decided`), is free where the code computes it from them.
- Tickets of one claim are kept by kind: open without requested checks, open with some,
  closed. Which of the tickets with checks a conclusive finding resolves is free
  (`Resolutions`).
- Findings of one claim are kept by status; nothing reads how many there are.
- A challenge opens at most one new ticket per claim in a round, and agents send at most one
  revision per claim, for any claim of the graph. Built-in and sent records about one claim
  come in either order (`Revised`).
- The deadline that cuts a challenge or a verification short is an early commit.
- The stored `adjudicationRecords`, which an empty list does not replace, are `ckpt.records`;
  `report` holds the records of the arbiter's report, which is always replaced.
- A path is a sequence of names and a reading of a benchmark one of a few numbers.

### 2.4 `FreeDebateRun` and `DebateVotes`

`startFreeDebate` and `resumeFreeDebate` share most of their code through
`continueFreeDebate`; the model has one action per output, round and checkpoint
(`InitialOutput`, `CommitInitial`, `OpenRound`, `RoundOutput`, `RoundAbsent`, `CommitRound`,
`CommitRounds`, `Synthesize`, `Amend`, `CommitSynthesis`, `CastBallot`, `VoteAbsent`,
`CommitVote`, `CommitReport`). `loop` is the step, the participant whose turn it is, the
round, whether nobody objected so far, and the budget of new claims; `mem` and `ckpt` are
the claims, the recorded rounds, the votes and the absent voters, in memory and stored with
the step of the checkpoint. Outputs are applied in the participants' order, as the code
does after a parallel round.

A claim is its text up to `normalizedClaimKey`, its proposers, its category (a synthesis
draft or not), whether it is active and where it was merged. `Upsert`, `Merge`,
`ValidMerges`, `Truncated` and `ApplyJudgement` are the functions of the same kind in the
code; an output holds at most `MaxDrafts` new claims and one judgement. `DebateVotes` has
the rules of the vote: which ballots are valid, which votes count, aggregation by mean or
median, threshold, quorum and the outcome, with percentages for the floating-point shares.
The keyword filter of process notes is abstracted to drafts that are not sent.

### 2.5 `DelphiRun` and `DelphiAggregate`

`at` is the step and round, `panel` and `saved` the rounds, statements, stable rounds and
leader in memory and stored. One round is one action (`Round`): the panel answers, an expert
being absent or answering with ratings by identifier or by text; `Aggregate` validates,
assigns ratings to statements, and computes mean, agreement and order in hundredths, rounded
as the code rounds. `CountStable` counts the stable rounds, `RestoredAt` and `saved` carry them
over a resume. `NextPhase` reproduces the order of questionnaire, revision and summary phases,
which the state machine restricts. A facilitator may put a text of its own in place of the best
statement as the recommendation of a converged session (`Recommendations`); its summaries and its
own list of statements change texts only.

### 2.6 `LedgerWAL` and `EvidenceLog`

`lines`, `tail` and `synced` are the ledger file with its last, possibly incomplete line and
how many of its lines a power loss leaves; `root` and `manifest` are the derived files; `lock`
is the file lock; `at`, `entry`, `state` are where each process is in `Append`; `answered` is
history, the entries whose own `Append` returned them. `Begin` to `WriteManifest` are the
steps of one `Append` in their order: take the lock, read and repair the tail, check and
repair root and manifest, find an entry already there, append, sync, write the root, write
the manifest. Any step may fail (`StepFails`), write a part of its line (`PartialWrite`),
or be the last one (`Killed`); the next `Append` by any process recovers. `PowerLoss` may come
at any moment and takes any part of the lines that are not synced, whoever wrote them.

A hash chain is injective, so the hash of an entry stands for the prefix that ends with it.

A complete line whose `Append` could not sync it is an entry to every later `Append`, which
writes the root over it, and answers a retry with it, without a sync. Until another append
syncs the file, a power loss takes it away, and the root then covers more than the ledger.
`RefusedOnlyAfterLoss` says that this is the only way to a ledger that is refused: an action
property of what the files are before and after the loss. `EvidenceLog` is the promise that
remains: the synced lines (`log`) only grow and hold no identifier twice, the others
(`pending`) are lost to a loss of power only, and the `Append` that wrote an entry returns only
once it is in the log. That what any `Append` returns is synced, as `docs/outputs.md:137` has it, is
not true of a retry.

### 2.7 `SessionStore`

`file` is the snapshot reduced to version, evidence, cursor, committed steps and resumes;
`log` the ledger (a log that only grows, as `EvidenceLog` promises). `PatchRead` and
`PatchWrite` are `Patch` under the file lock; `AskPatch` names the fields each caller sets,
because `Patch` merges fields and two engines overwrite each other field by field:

| Caller | Action | Fields |
|---|---|---|
| `restoreAdjudicationRun`, `restoreModeRun` | `Resume` | evidence, cursor, resumes; not the checkpoint |
| `advancePhase` | `AdvancePhase` | cursor |
| `save…Checkpoint` | `CommitStep` | checkpoint, evidence, cursor |
| deferred failure handler | `Fails`, `AppendEvidence` (the ledger's error) | cursor; in a debate or Delphi session the evidence too |

A step of the workflow appends one piece of evidence and then commits; `mark` is where the
evidence of the step under way begins. The handler of a debate or Delphi session thereby stores
evidence of a step that was not committed and will be repeated (`saves`). `Kill` ends an
engine anywhere, also inside `Patch`, where the temporary file is not yet renamed. Engines are
processes that resume one session, together (`overlapped`) or one after the other.

Together they overwrite each other. Engine B loads the session at step 1, engine A commits step
2, and B's resume patch puts the older evidence under A's checkpoint: the snapshot says step 2
and lacks its evidence. So of the two parts of `StepsAccounted`, `StepsInSnapshot` is stated of
sessions that were never run by two at once, and `StepsInLedger` of all.

### 2.8 `TaskExecution` and `ProviderReply`

Tasks of a batch wait for a slot, are dispatched, awaited, retried after a back-off, or end
by the deadline or an observer's error. Each dispatched attempt is a call with a goroutine
that asks the provider, repairs a malformed reply by one more call, keeps replies as files
and sends its answer to a channel only the attempt that made it reads. Attempts that timed
out are cancelled and go on. `Restart` is a new process on the same artifact directory, which
repeats a round that was not committed.

`ProviderReply` gives what each protocol (two HTTP dialects with their parts, responses, SDK
clients, CLIs with their event streams, mock) can return and what the runner makes of it:
a text, a blank that is an error, a blank that is not, or an error; and whether
a text is read strictly, after normalisation, or not at all.

Abstractions: no task is bound to a provider, so any task may get any reply; whether a
dispatch fails is free for each attempt; several text parts joined may make up any of the
texts; an error of the delegate arrives as a string, so it is always worth a retry. The tasks see
the union of what the protocols can return, so no property depends on which protocol it is; the
module keeps them apart to show that this union is what each of them can and cannot return.

### 2.9 `RunManager`

`host`, `runs`, `reserved`, `session`, `job`, `preps` and `analysis` are the process, the
stored runs and reservations, the engine's session of a run, its goroutine, and the same for
preparations. Each operation of the manager holds its mutex and ends in one transaction and
is one action (`Start`, `StartPrepared`, `Branch`, `Resume`, `Stop`, `Delete`, `Restore`,
`CancelPreparation`, `Close`, …); the goroutines' steps (`CallProposer`, `StoreProposal`,
`FinishSession`, `EngineReturns`, `ExecuteFails`, `Decide`, `EndJob`, `ChangeDetected`,
`DeadlineStrikes`, `AnalysisEnds`) interleave with them, and `Exit`, `Crash`, `Restart`,
`Reconcile` end and begin a process.

Abstractions: a request with a known idempotency key is answered without a change and left
out; SQLite does not fail; the engine is one step that finishes a session or not.

### 2.10 `HostDelegate` and `ProviderCall`

The vote that ends a discussion: the engine dispatches a task per reviewer, awaits it for so
long, gives it up and may dispatch another. An invocation writes its input, probes the CLI,
announces itself, calls, writes its output, publishes its message, casts its ballot and
completes, each step through a callback that may fail. `ProviderCall` is the call:
Codex as a server that is asked for one turn over a pipe and stopped afterwards (frames, the
client's goroutine, the process, its helpers), every other CLI as one process. `Decision`
is what the host makes of ballots and of the engine's results.

The client of the Codex server is in one of two places: at its `select` (`Listens`), where it sees
a frame, a context that is done, or the end of the stream; or inside a write (`writes`): the
turn, an answer, an interrupt. A write does not look at the context. It ends when the server reads
or is gone, and only then does the client come to its deferred end, which closes the input,
waits, interrupts, waits, kills, and then waits without a limit for the process and for all who
hold its standard error (`held`, helpers outside the group). `ProcessExits` chooses whether there
are such helpers; nothing makes them end. So `Close` returns under two premises about what is
outside the host, that servers read in the end (`ServersRead`) and that helpers let go
(`HelpersLetGo`). Without them TLC finds a `Close` that waits for ever.

### 2.11 `RunConfig` and `RunCommand`

`RunConfig` computes: a layer is a record of functions on the fields it sets, so merging
lays one over the other (`Overlay`); `LoadFile` follows includes (`WithIncludes`) and refuses
cycles. The code keeps the chain of files it is in; here a chain longer than there are files is
one that has come back to a file. `SelectProfile`, `MergeConfig`,
`Normalize`, `Valid`, `Plan`, `NormalizeRequest`, `ValidRequest` and `Resolve` are the
functions of those names. `RunCommand` is the directory over time: files are edited by hand
(`Edit`) or by the commands that write configurations (`AddAgent`, `AddProvider`,
`InitConfig`, `SetUp`), and runs are started from an input, a shortcut, a stored
session (`ResumeSession`, `Replay`) or a follow-up case (which has a success criterion of its own,
added to the request's), each with the configuration as it is then.
Only the fields the properties speak of are kept: providers and their models, agents, roles,
criteria, rounds, profile, mode and directory; all other fields merge alike.

## 3. The runs

| Run | Instance | Checks |
|---|---|---|
| `Lifecycle` | all modes and risk gates, 2 observe sources, 2 crashes, 2 failed steps | `ActionAccounted`: the action is dispatched once, plus once per destroyed output. `ResultJustified`: a stored result agrees with the stored data. `ObservationsComplete`: no source is left unread. `FinishedIsFinal`: nothing rewrites a finished session |
| `Adjudication` | policies without fallback, with ingest, and the default; 3 revision, 2 verification, 2 fallback rounds; 2 crashes, 1 failure | `ProposalsComplete`, `RefusedAfterDecisionOnly` (which resumes attempt a refused transition), `FallbackBudget`, `ResumeContinues` (a resumed run takes the interrupted run's next step), the refinement `Spec`, `SessionFinishes` |
| `Claims` | requests: 1 claim and 2 verifications, 2 claims together, an arbiter agent; a revision, a fallback, a crash or a failure | `DataFollowsGraph`, `SupportIsEarned`, `ClosingIsBacked`, `ReportedClaimsDecided`, `RevivedByWorkersOnly` |
| `Debate` | 2 participants, 2 texts of which one is a draft, 2 rounds, 1 amendment round, threshold 67, quorum 60, median; a crash, a failure | `MergesAreFollowed`, `CommittedNotRepeated`, `BallotsMatchClaims`, the refinement `Spec`, `DebateFinishes` |
| `Delphi` | 2 experts with 5 answers, 3 rounds, quorum 60, 2 responses, agreement 75, 2 stable rounds; a crash, a failure | `ConvergedIsEarned`, `DelphiFinishes` |
| `Ledger` | 2 processes, 3 entries after an old one, one without artifact, 3 faults | `CommittedVerifies`: when an `Append` returns an entry, the files verify. `RefusedOnlyAfterLoss`: the files become such that the next `Append` refuses them only by a loss of power that takes abandoned lines. `ImplementsLog` |
| `Store` | 2 engines of 2 steps, 2 failures or deaths, both kinds of failure handler | `EvidenceBacked`; `StepsAccounted`: each committed step has its evidence in the ledger, and in the snapshot if engines do not overlap |
| `Tasks` | 2 tasks, 1 slot, 2 attempts, replies of every kind of provider, 1 fault | `LateAnswersIgnored`, `ArtifactsStand`, `RoundsFinish` |
| `Host` | 2 runs of one chain or of two, 1 preparation, budgets of 2 calls, 2 interventions | `BudgetNeverExceeded`, `ConfigFailureStands`, `CompletedStands`, `PreparationsStand`, `EveryRunSettles` |
| `Delegate` | 2 reviewers, the Codex one asked twice, 1 fault | `SupportedIsEarned`, `ClosedIsQuiet`, `CloseReturns` |
| `Command` | a main file with an include, 3 versions, 1 edit, 2 sessions, 1 follow-up case | `CriteriaFitTheMode`, `AgentsAreUsable` |
| `ResumeSecondRevision` | one revision, one fallback round, a crash | violated: `NeverRejected`, see section 4 |

Each run finishes within two minutes with two workers; the largest are `Store` (2.84 million
states), `Delphi` (1.82), `Debate` (1.71), `Adjudication` (1.66), `Host` (1.18), `Claims` (1.10) and `Tasks` (1.06). Invariants that only serve a
proof, the type invariants among them, are not in the configurations; they were checked on the
same instances before they were proved.

### Premises

`ProposalsComplete`, `ObservationsComplete`, `FinishedIsFinal`, `ResumeContinues`,
`ClosingIsBacked` and `ReportedClaimsDecided` are stated as long as no step has failed. The
failure handler is why: it stores the observations made so far, a record of its own, tickets
closed without their findings, and revised claims without a decision. Crashes are unrestricted
in all of them. `ResumeContinues` and `SessionFinishes` leave out the checkpoints from which a
resume parts ways with a fresh run (`PartingDecision`, `FruitlessFallback`), each described in
section 4. `CriteriaFitTheMode` is about files whose layers set mode and criteria together and for
each other, as the templates do (`WrittenTogether`; the files of the instance do): one that sets
the mode alone takes over the criteria of the layer it is laid on, which nothing in the code can
tell from its own. Inputs and flags are free. `StepsInSnapshot` is about
sessions that no two engines run together, `CloseReturns` about servers and helpers that behave in
the end (2.10). `ArtifactsStand` speaks of one process: a restarted one counts its files from zero.
The violations behind these premises are real behaviour of the code, so they are named here and
not hidden in an action.

### Bounds, and why they are enough

- Sessions. There is one action and one closing sequence, so the second of two crashes already
  falls on a run that was itself restored, and a third restores nothing new: a restored run is
  a function of the snapshot. Two verification and fallback rounds and three revisions let each
  counter pass through zero, a middle value and its limit, and a fallback start a second cycle
  whose counters differ from the first. Two sources distinguish none, some and all.
- Claims. Every operation but the selection works claim by claim, so one claim, with two
  verifications, suffices for what relates a claim to its tickets and findings; two are needed
  for what a selection leaves out. `FewFaults` takes the failures from the request with two
  claims and the crashes from the one with an agent.
- Debate and Delphi. One of two participants who is absent misses the quorum, and none does not;
  two rounds let a claim merge in one and come back in the next. Two stable rounds of three let
  stability begin, break and be resumed in the middle. `MaxActiveClaims` = 2 is reached.
- Ledger. With three faults a recovery can fail and the recovery from that failure too. One old
  entry makes a torn tail stand behind a complete line; the entry without artifact takes the
  other path through `Append`.
- Store. Two engines are enough for one to overwrite the other; the second step of each follows
  on a snapshot the other has changed. Two failures or deaths interrupt a run and the run that
  was resumed after it. Three engines, run once as far as time allowed, showed
  nothing new; the theorems are for any number.
- Tasks. One slot for two tasks makes a task wait; a second attempt stands beside the first.
- Host. Two runs in one chain share a budget; two interventions make a stop meet a resume,
  or a shutdown a crash. `Delegate`: the second call of a reviewer is the retry beside the
  invocation given up.
- Command. One edit between two sessions is what makes a stored request older than the
  configuration; the second session may be a child of the first.

The constants are unbounded in the theorems. No symmetry is used.

### Fairness

- Sessions: `WF(EngineStep)`, since the engine is sequential code whose steps return;
  `WF(FailSession)`, which runs in a `defer`; `WF(Resume)`, an assumption on the operator, not on
  the code: the liveness properties say what a session does *if it is resumed*. Crashes and
  failures are bounded, so they end.
- `TaskExecution`: the goroutines of a batch are scheduled and the timer of `Await` fires.
  Nothing is assumed of providers, so `RoundsFinish` holds if none ever answers.
- `RunManager`: deadlines pass, goroutines whose context is done end, the application is opened
  again. Nothing is assumed of users or of the engine.
- `HostDelegate`: goroutines proceed, a process that has been killed ends, contexts of tasks end
  (weak fairness of `Proceeds` and `Closed`). The client's `select` picks at random among what is
  ready, so it sees in the end that its context is done, however many frames the server sends:
  strong fairness of `ClientGivesUp`. No write to a server is assumed to end while the server
  lives or a helper has its pipe, no helper to end, and no server or CLI to answer.

Deadlock is checked for the session models, where a session that has stopped stutters by
`Returned`. It is not for `Host` (an idle host waits for its user), `Command` (nobody need type a
command), and `Tasks`, `Store`, `Ledger`, `Delegate`, which end when their work is done.

## 4. Where code and documents part

`ResumeSecondRevision` is the run for a plain contradiction: `docs/architecture.md:74` says that a
resume continues with the step after the last complete checkpoint. Resumed at a decision that
falls back to revise (`consensus/resume.go:325`), the run goes on as if the revision had been
made, attempts adjudicate → challenge, which the state machine refuses, and can never be resumed.

The following came up while the modules were written. Most are in the models as the code has them,
and the properties are stated around them; those marked ◦ are outside the modelled data.

Sessions
- A decision without records is made again on resume, from adjudicate to adjudicate, which is
  refused (`resume.go:249`).
- A fallback to ingest or revise that changed nothing goes to the report in a fresh run and to the
  challenge in a resumed one (`resume.go:59`).
- A proposal round that failed is continued with the claims of some proposers (`resume.go:45`).
- An error after the transition to finished makes the failure record the result of a finished
  session (`engine.go:84`, `engine.go:267`).
- An observation that reopened the case is forgotten by a crash after the observe checkpoint, and a
  failed debate or Delphi session, whose handler stored some observations, skips its observe phase
  when resumed (`workflow_finalize.go:134`).

Claims and checks
- A withdrawn claim is not verified again, so a ticket left open on it keeps the session in
  `unresolved_conflict` (`workflow_adjudication.go:497`).
- Findings are never dropped, so a claim that failed once stays rejected in every later decision,
  whatever it was revised to (`workflow_adjudication.go:602`).
- An arbiter agent may decide withdrawn claims and leave others out.
- A verification returns at the first claim the deadline left out and drops the findings of the
  claims after it (`workflow_adjudication.go:506`).
- A required command that cannot be started, or that the deadline kills, counts as failed, not as
  not checked (`verifier.go:344`). An allowed path `.` or `/` allows nothing below itself
  (`verifier.go:593`).
- ◦ The artifact of a verification is named after claim and check and written over by the next one.

Delphi
- The summary of a round is declared inside the loop, so the next questionnaire does not see it,
  against `docs/modes.md:11`; a resumed run does (`workflow_delphi.go:203`).

Ledger, store and tasks
- Recovery accepts the line of a writer that was killed or failed before its sync, and writes a root
  over it. If the machine then loses power, the line is gone and the ledger counts as truncated for
  ever (`observer/ledger.go:235`). A retried `Append` that finds such a line returns it as committed
  without a sync (`ledger.go:62`, against `docs/outputs.md:137`).
- Two processes that resume one session overwrite each other's snapshot: a resume stores evidence as
  old as it was loaded under a checkpoint committed since (`consensus/checkpoint.go:234`, `267`).
- A failed debate or Delphi session stores the evidence of the step that failed, and the step is
  repeated, so the snapshot accounts for it more than once (`workflow_delphi.go:20`).
- A new process counts artifacts from zero and writes over those of the process before it
  (`runtime/delegate.go:90`, against `docs/architecture.md:137`). `act` on a stored result does too.
- An error of a delegate becomes a string, so a cancelled task is retried like any other. A blank
  answer is an error with the HTTP runners and CLIs, and malformed output, worth a repair call, with
  the generic CLI and SDK runners. ◦ Some SDK clients retry inside one attempt.
- `StrictJSONObjectBytes` takes the first JSON object and ignores a second one.

Desktop host
- A stop that comes after the decision was stored but before the goroutine has ended turns a
  completed discussion into a stopped one (`runmanager/manager.go:415`).
- `Resume` clears the reason of a discussion stopped for a changed CLI or model. A preparation
  cancelled after its deadline becomes `failed`.
- The client of the Codex server writes without looking at the context and comes to the kill only
  after the write, so a server that does not read a long request is not stopped, and `Close` waits
  for it (`codexserver/client.go:116`, against `desktop/docs/design.md:350`).
- Helper processes of a CLI that exits by itself are not killed (`delegate/runner.go`), and one that
  has left the group of the Codex server and holds its standard error keeps the call from
  returning (`codexserver/client.go:137`). A failure after a message was stored fails the run with
  the message published (`delegate.go:273`). When the Codex server ends, frames still
  in the pipe may be dropped by `cmd.Wait`. A ballot counts although the callback that announces
  its completion fails, or its attempt was given up. In mock mode a failing `OnBallot` is not fatal.

Configuration and command line
- A profile that sets nothing but `mode` takes over criteria of another mode, against the comment at
  `config/plan.go:193`. `support_threshold` wins over `vote_threshold` across layers
  (`docs/config.md:183`). A fallback policy is taken from one layer as a whole.
- ◦ More rounds at least than at most, or one participant only, pass the validation of the
  configuration and are refused when a request is planned. The vote quorum of an input is never
  checked for its range. A synthesizer named by an input is neither trimmed nor validated.
- Adding an agent or provider writes the loaded, flattened configuration into the main file, so a
  profile asked for later lies over the settings of the earlier one. `setup` without `--force` stops
  midway and leaves the files it has written.
- ◦ `--resume-session` searches next to the templated directory, so sessions below
  `out/{requestId}/run` are never found; it takes no lock. A resumed run after an edit of the output
  directory continues in another ledger. A follow-up case run twice shares its directory.
  `error.json` stays after a later success.

## 5. What is proved

55 theorems in eight modules, for every value of the constants under the named assumptions of the
modules only (`RequestsAssumption`, `BoundsAssumption`, `PolicyAssumption`,
`AdjudicationRequests`, `ClaimAssumption`, `VerificationAssumption`, `DebateAssumption`, `DebateRequests`, `DebateRoles`,
`VotePolicyAssumption`, `DelphiPolicyAssumption`, `DelphiRoundsAssumption`, `DelphiRequests`,
`HostAssumption`, `CallAssumption`, `DelegateAssumption`, `LedgerAssumption`, `StoreAssumption`,
`NoSessionAssumption`, `TaskAssumption`, `ReplyAssumption`, `ContentsAssumption`), which TLC evaluates on every instance.
In each module, the invariants are shown inductive with one step per action.

`SessionLifecycle_proofs`
- `TypeCorrect`. `AdvanceKeeps` and `CheckpointStores` say once what the two common updates change.
- `ActionIsAccounted`, `ActionIsCommittedOnce`. `ActionAccounted` is not inductive: it does not say
  where an output is while the action is due again. `ActionInv` adds `ActionLocated` (a stored
  output is in every restored run, one in memory only is at a `pc` before its checkpoint) and
  `DispatchesAccounted` (the count is one lower while the action may still be dispatched).
- `ResultIsJustified`. `ResultInv` adds `TerminalLocated` (between gate and finish the terminal
  state in memory agrees with the output in memory, or an observation has reopened the case) and
  `ResultFinal` (a genuine result stands on the observe checkpoint that no later step changes).
- `ObservationsAreComplete`, `FinishedStands`. `CompleteInv` says, as long as no step has failed,
  what a snapshot and a run in memory hold at each step of the closing sequence.
- `FewerIsWellFounded`: four numbers compared from the left have no infinite descent. The engines of
  the three workflows are measured by such four: the part of the run (`PcRank`), and in the body
  three numbers of the workflow's own, elsewhere what is left of the part (`PartLeft`).
  `SessionStepLowers` says that every step outside the body lowers them, `MeasuresFall` what lowers
  them in general. The abstract body itself has no such measure: its phases may follow one another
  in circles, and that those of a workflow do not is what the theorems on the workflows say.

`AdjudicationRun_proofs`
- `AdjTypeCorrect`, `AdjImplementsSession`. `AdjInv` adds `LoopPhase`: the step worked on is that
  of the state machine's phase. From it each checkpoint is a `BodyCommit`, each entry of a phase a
  `BodyAdvance`, and the collection of proposals invisible. `AdjInherits` carries the session's
  theorems over.
- `FallbacksAreBounded`. `FallbackInv`: memory and checkpoint count the same rounds, and a session
  with claims never proposes again, which would reset the count.
- `RefusedOnlyThere`. Says for each checkpoint the step a resume takes from it, and that only the
  two kinds of decisions lead to a refused transition.
- `ProposalsAreComplete`, `ResumeGoesOn`. `PlanInv`: as long as no step has failed, the stored
  claims are whole and the plan of the run before, recorded as history, leads where the
  checkpoint does.
- `AdjudicationComesToItsEnd`: every step but the resume of a stopped session lowers the measure:
  fallback rounds left, revisions left, steps of the cycle left. The cycle from a decision back to
  challenge does not lower the last of them and has no counter of its own; it needs none, because
  the state machine refuses that transition, and a refused step counts as the last one (`BodyLeft`).
  `RevisionInv`: a revision is begun, or resumed, only where one is left to count. By
  `GraphImplementsRun` it holds with the claims too.

`ClaimGraph_proofs`
- `GraphImplementsRun`: every step with the claims is a step of `AdjudicationRun`, so the theorems
  above hold with the claims too, and the proofs below may use them (`WorkflowInv`).
- `GraphTypeCorrect`, `DataFollows`, `SupportEarned`, `ReportDecided`, `ClosingBacked` rest on one
  invariant, `GraphInv`:
  - `GraphKept`: which of memory and snapshot is ahead of the other. Outside the phases that work
    on the claims the two graphs agree but for the active claims, and findings differ only during a
    verification. This is what a crash, and the partial patch of a failure, are measured by.
  - `StepsLocated`: from which checkpoint each step of the loop is taken.
  - `EarnedInv`: once judged, and until a fallback opens another cycle, supported claims have
    passed and not failed, in the snapshot and in memory. It takes both: a failure stores the
    claims of the one beside the findings of the other (`FailureKeeps`).
  - `DecidedInv`, `BackedInv`: the same for decisions and closed tickets as long as no step has
    failed; `DataInv`: the loop's data are the graph's at each point the control reads them.
- The lemmas before them say what each operator does to a graph: `ClaimsUpdated`,
  `TicketsUpdated`, `FindingsUpdated`, `AdjudicatedIs`, `RuledIs`, `AgentDecisionIs`, `PatchParts`.
- `RevivalByWorkers`, from `WithdrawnKept` (a withdrawal that is stored is known in memory, but in
  the phases whose agents may revive the claim) and `WithdrawnRefuted` (a withdrawn claim is
  refuted, so no verification takes it up).

`FreeDebateRun_proofs`
- `DebateImplementsSession`, `DebateInherits`. `DebateInv` adds the shapes of claims and that a
  committed report is only closed; work in memory is invisible to the session.
- `CommittedIsNotRepeated`, from `CommitInv`, which says what is stored of the step a run is at.
- `BallotsAreFull`. `BallotInv`: the votes in memory are full ballots as well, and those of
  participants before the one whose turn it is. That participants are different, which the code
  sees to when it reads a request (`DebateRoles`), is what makes a ballot the only one of its voter.
- `MergesCanBeFollowed`. That no merge closes a cycle is not inductive claim by claim: a merged
  claim comes back (`Upsert`) and may go into one that had gone into it. `MergeInv` therefore ranks
  claims by when they were last merged away: each inactive claim went into one that is active or
  went later, and its proposers are among those of that claim (`Followed`). The ranks rise along
  the merges, so they end, and by counting ranks they end within as many steps as there are claims.
- `Least`, `Induction` and `Iterated` give induction over the numbers of a set, and with it the
  existence of the recursively defined functions of the module (`AddDrafts`, `MergeEach`).
- `DebateComesToItsEnd`: stages left (of which the rounds repeat two), rounds left, turns left.
  `RoundsBounded`: the round that is held is one of the policy's.

`DelphiRun_proofs`
- `DelphiImplementsSession`, `DelphiInherits`, likewise.
- `ConvergenceIsEarned`. `StableInv`: a count of stable rounds, in memory or stored, is backed by
  that many last rounds with their quorum, samples, agreement and one leader. A resume takes the
  count from one place and the leader from another, and the invariant says that they fit.
- `DelphiComesToItsEnd`: stages left, rounds left, phases to be entered before the next round.
  `RoundsBounded` says of the checkpoint what it says of the round to be asked: one that is not the
  last was written before the last round, so that a resume does not ask one too many.

`DesktopHost_proofs`
- `HostTypeCorrect`; `BudgetIsKept` (`BudgetInv`: every reserved call belongs to a run of its
  chain); `FailureStands` (the failure of a configuration is recorded before its goroutine is
  gone); `CompletionStands`; `SettledPreparationsStand` (`PrepInv`: an analysis runs for a
  preparation that waits for it only).
- `DelegateTypeCorrect`, `SupportNeedsVotes`, `ClosedMeansDead`, `ClosedStaysQuiet`. `DelegateInv`:
  what an invocation has stored on its way to each step (`Stored`), that a vote counted is the
  answer of the reviewer's current attempt and later attempts have not begun (`Asked`), that a
  process lives only while its call has not returned (`Confined`), and that `Close` returns only
  when no dispatched invocation is under way.

`Persistence_proofs`
- `LedgerInv`: what each writer that holds the lock has read and done is still so (`Known`); of the
  files between two `Append`s it says nothing but their types, since a loss of power can come then.
  From it `LedgerTypeCorrect`; `RefusalNeedsLoss` (no step of a writer and no failure takes a line
  that the root covers, and a loss takes only what is not synced, the line being appended not yet
  being under the root: `LossTakesAbandoned`); `CommittedIsVerified`; and the refinement
  `LedgerImplementsLog`, with `SplitFacts` and the lemmas on sequences cut at `synced`.
- `StoreInv`: `StoreBase`, true whoever runs the session (the evidence of every record, in memory,
  read or stored, is the ledger's in its order, and the ledger has the steps they count), gives
  `StoreTypeCorrect`, `EvidenceIsBacked` and `StepsAreInLedger`. `InTurn`, as long as engines have not
  overlapped, gives `StepsAreAccounted`: the one engine that runs is ahead of the snapshot by the
  checkpoint it is storing (`Turn`), so that a resume's older evidence meets its own checkpoint.
- `CriteriaAreOfTheMode`. `RequestsFit`: the files fit (`FilesFit`: finitely many, each layer sets
  mode and criteria together), and so do the requests of sessions, commands and cases, which were
  planned from earlier files. A configuration that is loaded fits, however long its chain of
  includes, because merging keeps it (`LayersMerge`, `ConfigsMerge`, and by induction over the
  parts and the depth `MergesFit`, `FilesLoad`); so do the files a command writes (`AgentsAdded`,
  `ProvidersAdded`, `TemplateFits`, `ThreeFilesFit`). `CriteriaFit` is then about one plan.
- `OnlyUsableAgents`, inductive as it stands: what is loaded is valid (`LoadValid`), and a request
  that is resolved, stored or not, names agents of what was loaded (`ResolvedIs`).

`TaskExecution_proofs`
- `TaskInv`: calls are numbered as they were made, a waiting task waits for the call of its current
  attempt, and a usable answer is filed under its own number. From it `TaskTypeCorrect`,
  `AnswersAreCurrent` and `RecordedArtifactsStand`.
- `TasksComeToTheirEnd`: within a round each step of a task uses up one of at most
  `3 * MaxAttempts + 1` steps, and no step of another task, of a late goroutine, of the deadline or
  of an observer gives it one back. It is what `RoundsFinish` needs besides fairness.

Model-checked only:
- Liveness: `SessionFinishes`, `DebateFinishes`, `DelphiFinishes`, `RoundsFinish`,
  `EveryRunSettles`, `CloseReturns`. Fairness conditions are out of the proof system's reach. The
  theorems `…ComeToTheirEnd` and `…ComesToItsEnd` are the part of it that needs none: an engine
  that goes on cannot go on forever. That it does go on, and is resumed, is left to the runs.

## 6. Not modelled

- Events, identifiers, interfaces: data declarations. The error of an observer is a failed step.
- Observers that write streams, reports, summaries, the viewer, artifacts and secure files, doctor,
  preflight, telemetry, the Electron application: output and diagnostics that no session reads.
- Execution of a desktop preparation: builds a prompt and parses one answer; its outcome is a choice.
- Prompts, and the decoding of answers beyond what makes them usable or not.

In part:
- Requests and policies: the fields the properties speak of; the normalisation of the others is
  field by field and has no state.
- External sources: a source is one step with any outcome; running its command is I/O.
- Provider runners: what each makes of a reply, not how a request is put together and sent.
- Run manager: exports, catalogs of models, and what a decision says are left out; SQLite does not
  fail. RPC, storage and providers of the desktop are the atomicity the run manager assumes.
- Runner: acting on a stored result, and the classification of errors for exit codes.
- Command line: commands that only read.

## 7. What could come next

1. `AdjudicationRun` over `SessionStore`: one session, two resumed workflows.
2. Real-time bounds of retries and deadlines, which are orders of events only so far.
