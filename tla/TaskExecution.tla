----------------------------- MODULE TaskExecution -----------------------------
(***************************************************************************)
(* How a round of tasks reaches the providers: executeTaskBatch runs the    *)
(* tasks under a limit, executeTask and ExecuteTaskWithRetry retry each of  *)
(* them, and the runtime delegate dispatches an attempt to a goroutine of   *)
(* its own, waits for its answer, repairs an answer it cannot read by one   *)
(* more call, and keeps what it received as files. An answer may come       *)
(* late or never; an attempt that is given up is cancelled but may go on    *)
(* beside the next one. An observer may fail at every event, the deadline   *)
(* may strike at any moment, and the process may be restarted, which        *)
(* repeats the round that was not committed.                                *)
(*                                                                          *)
(* Of an answer, which ProviderReply describes, only whether it can be      *)
(* read, as it is or after the repair, is kept. A file is known by its      *)
(* agent, the kind and the identifier of its task and whether the repair    *)
(* wrote it; what is in it is the call that wrote it.                       *)
(***************************************************************************)
EXTENDS ProviderReply, FiniteSets

CONSTANTS Tasks,        \* the tasks of a round, one per agent
          MaxParallel,  \* the limit on tasks in execution
          MaxAttempts,  \* attempts of a task: RetryAttempts + 1
          MaxRounds,    \* bound: rounds
          MaxFaults     \* bound: events an observer refuses and restarts of the process

ASSUME TaskAssumption == /\ MaxParallel \in Nat \ {0} /\ MaxAttempts \in Nat \ {0}
                         /\ MaxRounds \in Nat /\ MaxFaults \in Nat

VARIABLES
  at,        \* where a task is: "queued", "dispatch", "await", "backoff" or "done"
  attempt,   \* its attempt
  awaited,   \* the call whose answer it waits for, 0 for none
  result,    \* "none", or how it ended: "ok", "failed", "deadline" or "observer"
  calls,     \* the calls of this process, one per dispatched attempt
  seq,       \* the delegate's counter of task identifiers
  deadline,  \* the context of the run is done
  files,     \* the artifacts: which call wrote a file
  recorded,  \* the artifacts the ledger refers to
  round, restarts, faults

taskVars == <<at, attempt, awaited, result>>
vars == <<taskVars, calls, seq, deadline, files, recorded, round, restarts, faults>>

\* The first round asks for proposals, the later ones are all of one kind.
Kind(r) == IF r = 1 THEN "initial" ELSE "later"

\* A call keeps its task, kind and attempt, the identifier the delegate gave it,
\* whether it is in the delegate's table and cancelled, and what its goroutine does:
\* "calling", "repairing", or how it ended, "usable", "repaired" or "error".
Answered(c) == c.doing \in {"usable", "repaired", "error"}
FileName(c, repair) == [agent |-> c.task, kind |-> c.kind, id |-> c.id, repair |-> repair]
Written(n, repair) == [name |-> FileName(calls[n], repair),
                       by |-> [process |-> restarts, call |-> n]]
\* The file an answer is recorded with.
AnswerFile(n) == Written(n, calls[n].doing = "repaired")

FreshTasks == /\ at = [t \in Tasks |-> "queued"]
              /\ attempt = [t \in Tasks |-> 1]
              /\ awaited = [t \in Tasks |-> 0]
              /\ result = [t \in Tasks |-> "none"]

Init == /\ FreshTasks
        /\ calls = <<>> /\ seq = 0
        /\ deadline = FALSE
        /\ files = {} /\ recorded = {}
        /\ round = 1 /\ restarts = 0 /\ faults = 0
-----------------------------------------------------------------------------
(* The batch and the retries                                                *)

\* Mutant: a slot is not given back when its task ends.
InExecutionKept == {t \in Tasks : at[t] # "queued"}

InExecution == {t \in Tasks : at[t] \in {"dispatch", "await", "backoff"}}

Ends(t, how) == /\ at' = [at EXCEPT ![t] = "done"]
                /\ result' = [result EXCEPT ![t] = how]

\* A goroutine of the batch gets a slot, or gives up when the context is done;
\* executeTask looks at the deadline before the first attempt.
Acquire(t) ==
  /\ at[t] = "queued"
  /\ \/ deadline
     \/ Cardinality(InExecution) < MaxParallel
  /\ IF deadline THEN Ends(t, "deadline")
                 ELSE at' = [at EXCEPT ![t] = "dispatch"] /\ UNCHANGED result
  /\ UNCHANGED <<attempt, awaited, calls, seq, deadline, files, recorded, round, restarts, faults>>

\* Mutant: the identifier is the number of tasks in the table.
DispatchBySize(t) ==
  /\ at[t] = "dispatch"
  /\ calls' = Append(calls, [task |-> t, kind |-> Kind(round), attempt |-> attempt[t],
                             id |-> Cardinality({n \in DOMAIN calls : calls[n].inTable}),
                             inTable |-> TRUE, cancelled |-> FALSE, doing |-> "calling"])
  /\ awaited' = [awaited EXCEPT ![t] = Len(calls) + 1]
  /\ at' = [at EXCEPT ![t] = "await"]
  /\ UNCHANGED <<attempt, result, seq, deadline, files, recorded, round, restarts, faults>>

\* BeforeDispatch, then Delegate.Dispatch: a new entry of the table and a
\* goroutine that calls the provider.
Dispatch(t) ==
  /\ at[t] = "dispatch"
  /\ calls' = Append(calls, [task |-> t, kind |-> Kind(round), attempt |-> attempt[t],
                             id |-> seq, inTable |-> TRUE, cancelled |-> FALSE, doing |-> "calling"])
  /\ seq' = seq + 1
  /\ awaited' = [awaited EXCEPT ![t] = Len(calls) + 1]
  /\ at' = [at EXCEPT ![t] = "await"]
  /\ UNCHANGED <<attempt, result, deadline, files, recorded, round, restarts, faults>>

\* The observer refuses the event and the task ends with its error.
EventRefused(t) == /\ faults + restarts < MaxFaults
                   /\ faults' = faults + 1
                   /\ Ends(t, "observer")
                   /\ UNCHANGED attempt

DispatchRefused(t) ==
  /\ at[t] = "dispatch"
  /\ EventRefused(t)
  /\ UNCHANGED <<awaited, calls, seq, deadline, files, recorded, round, restarts>>

\* OnFailure and OnRetry, then the back-off; the last attempt's failure is final.
RetryOrFail(t) ==
  \/ /\ attempt[t] < MaxAttempts
     /\ at' = [at EXCEPT ![t] = "backoff"]
     /\ attempt' = [attempt EXCEPT ![t] = @ + 1]
     /\ UNCHANGED <<result, faults>>
  \/ /\ attempt[t] = MaxAttempts
     /\ Ends(t, "failed")
     /\ UNCHANGED <<attempt, faults>>
  \/ EventRefused(t)

\* The delegate knows no such agent or kind of provider, or the command's environment
\* lacks a variable that was passed on once.
DispatchFails(t) ==
  /\ at[t] = "dispatch"
  /\ RetryOrFail(t)
  /\ UNCHANGED <<awaited, calls, seq, deadline, files, recorded, round, restarts>>

Leaves(n, cancelled) == calls' = [calls EXCEPT ![n].inTable = FALSE, ![n].cancelled = cancelled]

\* Mutant: any answer to an attempt of the task is received.
ReceiveAny(t) ==
  /\ at[t] = "await"
  /\ \E n \in DOMAIN calls : calls[n].task = t /\ calls[n].doing \in {"usable", "repaired"}
  /\ Leaves(awaited[t], FALSE)
  /\ Ends(t, "ok") /\ UNCHANGED <<attempt, faults>>
  /\ UNCHANGED <<awaited, seq, deadline, files, recorded, round, restarts>>

\* Await receives the answer; OnSuccess reports it.
Receive(t) ==
  /\ at[t] = "await" /\ Answered(calls[awaited[t]])
  /\ Leaves(awaited[t], FALSE)
  /\ IF calls[awaited[t]].doing = "error"
     THEN RetryOrFail(t)
     ELSE \/ Ends(t, "ok") /\ UNCHANGED <<attempt, faults>>
          \/ EventRefused(t)
  /\ UNCHANGED <<awaited, seq, deadline, files, recorded, round, restarts>>

\* The timer of Await fires, maybe with the answer ready as well.
TimesOut(t) ==
  /\ at[t] = "await"
  /\ Leaves(awaited[t], TRUE)
  /\ RetryOrFail(t)
  /\ UNCHANGED <<awaited, seq, deadline, files, recorded, round, restarts>>

\* Await or the back-off sees that the context is done; that is not retried.
SeesDeadline(t) ==
  /\ deadline
  /\ \/ at[t] = "await" /\ Leaves(awaited[t], TRUE)
     \/ at[t] = "backoff" /\ UNCHANGED calls
  /\ \/ Ends(t, "deadline") /\ UNCHANGED <<attempt, faults>>
     \/ at[t] = "await" /\ EventRefused(t)
  /\ UNCHANGED <<awaited, seq, deadline, files, recorded, round, restarts>>

BackOff(t) == /\ at[t] = "backoff"
              /\ at' = [at EXCEPT ![t] = "dispatch"]
              /\ UNCHANGED <<attempt, awaited, result, calls, seq, deadline, files,
                             recorded, round, restarts, faults>>
-----------------------------------------------------------------------------
(* The goroutine of a call                                                  *)

Does(n, what) == calls' = [calls EXCEPT ![n].doing = what]
Keeps(n, repair) ==
  files' = {f \in files : f.name # FileName(calls[n], repair)} \cup {Written(n, repair)}

\* The provider fails, the call notices that it is cancelled, or the file of what
\* is sent or received cannot be written.
ProviderFails(n) == /\ ~Answered(calls[n])
                    /\ Error \in Replies
                    /\ Does(n, "error")
                    /\ UNCHANGED files
\* An answer that decodes, strictly or after normalisation.
ProviderAnswers(n) == /\ calls[n].doing = "calling"
                      /\ \E reply \in Replies \ {Error} : Readable(reply)
                      /\ Does(n, "usable")
                      /\ Keeps(n, FALSE)
\* An answer that does not: attemptRepair calls the provider once more.
ProviderMalformed(n) == /\ calls[n].doing = "calling"
                        /\ \E reply \in Replies \ {Error} : ~Readable(reply)
                        /\ Does(n, "repairing")
                        /\ Keeps(n, FALSE)
\* What the repair brings is only normalised.
RepairAnswers(n) == /\ calls[n].doing = "repairing"
                    /\ \E reply \in Replies \ {Error} : Normalised(reply)
                    /\ Does(n, "repaired")
                    /\ Keeps(n, TRUE)
RepairMalformed(n) == /\ calls[n].doing = "repairing"
                      /\ \E reply \in Replies \ {Error} : ~Normalised(reply)
                      /\ Does(n, "error")
                      /\ Keeps(n, TRUE)

Goroutine(n) == /\ \/ ProviderFails(n) \/ ProviderAnswers(n) \/ ProviderMalformed(n)
                   \/ RepairAnswers(n) \/ RepairMalformed(n)
                /\ UNCHANGED <<taskVars, seq, deadline, recorded, round, restarts, faults>>
-----------------------------------------------------------------------------
(* The round                                                                *)

DeadlineStrikes == /\ ~deadline
                   /\ deadline' = TRUE
                   /\ UNCHANGED <<taskVars, calls, seq, files, recorded, round, restarts, faults>>

Over == \A t \in Tasks : at[t] = "done"
NewRound == /\ at' = [t \in Tasks |-> "queued"]
            /\ attempt' = [t \in Tasks |-> 1]
            /\ awaited' = [t \in Tasks |-> 0]
            /\ result' = [t \in Tasks |-> "none"]

\* The workflow records the answers in the ledger, with their artifacts, and
\* goes on to the next round; the answers that are missing are degradations.
CommitRound ==
  /\ Over /\ round <= MaxRounds
  /\ recorded' = recorded \cup {AnswerFile(awaited[t]) : t \in {u \in Tasks : result[u] = "ok"}}
  /\ round' = round + 1
  /\ IF round < MaxRounds THEN NewRound ELSE UNCHANGED taskVars
  /\ UNCHANGED <<calls, seq, deadline, files, restarts, faults>>

\* The process is killed and the session resumed: the round that was not
\* committed starts again, under a new delegate and the same directory. (Of the
\* files only those the ledger refers to are followed from here.)
Restart ==
  /\ faults + restarts < MaxFaults /\ round <= MaxRounds
  /\ restarts' = restarts + 1
  /\ NewRound
  /\ calls' = <<>> /\ seq' = 0 /\ deadline' = FALSE
  /\ files' = {f \in files : \E r \in recorded : r.name = f.name}
  /\ UNCHANGED <<recorded, round, faults>>

TaskStep(t) == \/ Acquire(t) \/ Dispatch(t) \/ DispatchRefused(t) \/ DispatchFails(t)
               \/ Receive(t) \/ TimesOut(t) \/ SeesDeadline(t) \/ BackOff(t)
Next == \/ \E t \in Tasks : TaskStep(t)
        \/ \E n \in DOMAIN calls : Goroutine(n)
        \/ DeadlineStrikes \/ CommitRound \/ Restart

Spec == Init /\ [][Next]_vars

\* The goroutines of a batch are scheduled and the timer of Await fires. Nothing
\* is assumed of the providers.
Fairness == /\ \A t \in Tasks : WF_vars(TaskStep(t))
            /\ WF_vars(CommitRound)
FairSpec == Spec /\ Fairness
-----------------------------------------------------------------------------
(* Properties                                                               *)

\* A task that succeeded did so with the answer of its own last attempt, which
\* nobody had given up: a late answer to an attempt that timed out is not taken.
LateAnswersIgnored ==
  \A t \in Tasks :
    result[t] = "ok" => LET c == calls[awaited[t]]
                        IN c.task = t /\ c.attempt = attempt[t] /\ Answered(c) /\ ~c.cancelled

\* The artifact the ledger refers to is the one the answer came with, until the
\* process is restarted: no later attempt, repair or round writes over it.
ArtifactsStand == restarts = 0 => recorded \subseteq files

\* Every round ends, whatever the providers do: a task waits for a slot, an
\* answer or a back-off only for a bounded time.
RoundsFinish == <>(Over /\ round > MaxRounds)
=============================================================================
