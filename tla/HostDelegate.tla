----------------------------- MODULE HostDelegate -----------------------------
(* The desktop host's delegate in the vote that ends a debate.  Every task the *)
(* engine dispatches becomes an invocation with a goroutine, a context and an  *)
(* artifact of its own; the engine awaits it for so long, gives it up and may  *)
(* dispatch another, while the first is still on its way.  What an invocation  *)
(* publishes is stored by callbacks that may fail, and the decision is made    *)
(* from what is stored and from what the engine has got.                       *)
EXTENDS ProviderCall, FiniteSets

CONSTANTS
  Reviewers,     \* the reviewers of the run
  MaxAttempts,   \* attempts at the task of each reviewer (ExecuteTaskWithRetry)
  Identity,      \* the model each reviewer reports
  MaxFaults      \* bound: callbacks that fail, deadlines, a stop

ASSUME DelegateAssumption ==
  /\ MaxAttempts \in [Reviewers -> Nat \ {0}]
  /\ Calls = UNION {{v} \X (1 .. MaxAttempts[v]) : v \in Reviewers}
  /\ DOMAIN Identity = Reviewers

VARIABLES
  inv,       \* the invocations: their goroutine's step and their artifact
  fatal,     \* the delegate accepts no more tasks (d.fatal)
  closing,   \* Close has not been called, waits, or has returned
  stopped,   \* the context of the run is done
  vote,      \* the engine's view of each reviewer's vote
  attempt,   \* the attempt it is at
  messages, ballots,  \* the invocations whose message and ballot are stored
  blocking,  \* a stored review blocks
  decision,  \* what the host makes of it
  faults

voteVars == <<stopped, vote, attempt, decision>>
storedVars == <<messages, ballots, blocking>>
delegateVars == <<inv, fatal, closing>>
hostVars == <<delegateVars, voteVars, storedVars, faults>>
allDelegateVars == <<call, ended, hostVars>>

Steps == {"none", "input", "probe", "announce", "call", "output", "message",
          "ballot", "complete", "failing", "failed", "ok"}

DelegateInit ==
  /\ call = [i \in Calls |-> NoCall] /\ ended = {}
  /\ inv = [i \in Calls |-> [step |-> "none", artifact |-> "none"]]
  /\ fatal = FALSE /\ closing = "no" /\ stopped = FALSE
  /\ vote = [v \in Reviewers |-> "due"] /\ attempt = [v \in Reviewers |-> 1]
  /\ messages = {} /\ ballots = {} /\ blocking = FALSE
  /\ decision = "none" /\ faults = 0

Dispatched == {i \in Calls : inv[i].step # "none"}
\* The goroutine has ended (done is closed).
InvocationOver(i) == inv[i].step \in {"failed", "ok"}
Fault == faults < MaxFaults /\ faults' = faults + 1

-----------------------------------------------------------------------------
(* The goroutine of an invocation.                                         *)

At(i, step) == inv[i].step = step

\* Its next step, with the artifact it has written.
InvocationMoves(i, from, to) == At(i, from) /\ inv' = [inv EXCEPT ![i].step = to]

\* The step fails and the delegate goes on.
InvocationFails(i, from) ==
  /\ InvocationMoves(i, from, "failing")
  /\ UNCHANGED <<call, ended, fatal, closing, voteVars, storedVars>>

\* What the host has to store cannot be stored: no invocation is to go on.  An
\* error that says the context is done has no such consequence.
FailsForAll(i, from) ==
  /\ Fault
  /\ InvocationMoves(i, from, "failing")
  /\ fatal' = TRUE /\ ended' = ended \cup Dispatched
  /\ UNCHANGED <<call, closing, voteVars, storedVars>>

\* The input is written before anything can go wrong.
WriteInput(i) ==
  \/ /\ At(i, "input")
     /\ inv' = [inv EXCEPT ![i] = [step |-> "probe", artifact |-> "input"]]
     /\ UNCHANGED <<call, ended, fatal, closing, voteVars, storedVars, faults>>
  \/ FailsForAll(i, "input")

\* The CLI is probed and the prompt written with the input; a probe needs its
\* context.
Probe(i) ==
  \/ /\ i \notin ended /\ InvocationMoves(i, "probe", "announce")
     /\ UNCHANGED <<call, ended, fatal, closing, voteVars, storedVars, faults>>
  \/ InvocationFails(i, "probe") /\ (IF i \in ended THEN UNCHANGED faults ELSE Fault)

\* "started" is stored and the call reserved, unless the run was stopped (its
\* deadline does not count), its budget is spent or the version of the CLI another.
Announce(i) ==
  \/ /\ InvocationMoves(i, "announce", "call")
     /\ UNCHANGED <<call, ended, fatal, closing, voteVars, storedVars, faults>>
  \/ FailsForAll(i, "announce")
  \/ /\ stopped /\ InvocationMoves(i, "announce", "failing")
     /\ fatal' = TRUE /\ ended' = ended \cup Dispatched
     /\ UNCHANGED <<call, closing, voteVars, storedVars, faults>>

Calling(i) ==
  /\ At(i, "call") /\ CallStep(i)
  /\ UNCHANGED hostVars

\* The store fails while progress is reported: the callback's error also ends the
\* call, so ClientFails or ProgressFails is what follows.
ProgressLost(i) ==
  /\ At(i, "call") /\ Running(i) /\ ~fatal /\ Fault
  /\ fatal' = TRUE /\ ended' = ended \cup Dispatched
  /\ UNCHANGED <<call, inv, closing, voteVars, storedVars>>

\* An answer of another task, context or shape is refused; so is one that comes
\* when the context is done.
Returned(i) ==
  /\ At(i, "call") /\ call[i].returned
  /\ \/ /\ call[i].outcome = "ok" /\ i \notin ended
        /\ InvocationMoves(i, "call", "output")
        /\ UNCHANGED <<call, ended, fatal, closing, voteVars, storedVars, faults>>
     \/ InvocationFails(i, "call") /\ UNCHANGED faults

WriteOutput(i) ==
  \/ /\ At(i, "output")
     /\ inv' = [inv EXCEPT ![i] = [step |-> "message", artifact |-> "completed"]]
     /\ UNCHANGED <<call, ended, fatal, closing, voteVars, storedVars, faults>>
  \/ Fault /\ InvocationFails(i, "output")

\* Its reviews may block, as far as they are stored.
MessageStored(i) == messages' = messages \cup {i} /\ blocking' \in {blocking, TRUE}

\* publish: one invocation at a time; its context is looked at before the message
\* and before each review, so some may be stored and others not.  A review that
\* cannot be stored is fatal with the message stored.
Publish(i) ==
  \/ /\ i \notin ended /\ InvocationMoves(i, "message", "ballot")
     /\ MessageStored(i)
     /\ UNCHANGED <<call, ended, fatal, closing, voteVars, ballots, faults>>
  \/ /\ i \in ended /\ InvocationMoves(i, "message", "failing")
     /\ \/ UNCHANGED <<messages, blocking>>
        \/ MessageStored(i)
     /\ UNCHANGED <<call, ended, fatal, closing, voteVars, ballots, faults>>
  \/ FailsForAll(i, "message")
  \/ /\ Fault /\ InvocationMoves(i, "message", "failing")
     /\ fatal' = TRUE /\ ended' = ended \cup Dispatched
     /\ MessageStored(i)
     /\ UNCHANGED <<call, closing, voteVars, ballots>>

\* The context is not looked at again.
CastBallot(i) ==
  \/ /\ InvocationMoves(i, "ballot", "complete")
     /\ ballots' = ballots \cup {i}
     /\ UNCHANGED <<call, ended, fatal, closing, voteVars, messages, blocking, faults>>
  \/ FailsForAll(i, "ballot")

Complete(i) ==
  \/ /\ InvocationMoves(i, "complete", "ok")
     /\ UNCHANGED <<call, ended, fatal, closing, voteVars, storedVars, faults>>
  \/ FailsForAll(i, "complete")

\* finish: the artifact says what became of the invocation, over what it said
\* before, unless it cannot be written.
Finish(i) ==
  /\ At(i, "failing")
  /\ \E artifact \in {"failed", inv[i].artifact} :
       inv' = [inv EXCEPT ![i] = [step |-> "failed", artifact |-> artifact]]
  /\ UNCHANGED <<call, ended, fatal, closing, voteVars, storedVars, faults>>

\* WithTimeout.
TaskDeadline(i) ==
  /\ i \in Dispatched \ ended /\ ~InvocationOver(i) /\ Fault
  /\ ended' = ended \cup {i}
  /\ UNCHANGED <<call, delegateVars, voteVars, storedVars>>

-----------------------------------------------------------------------------
(* The engine.                                                             *)

Current(v) == <<v, attempt[v]>>

\* Another attempt; or none is left, or the error is not worth one.
GivenUp(v) ==
  \/ /\ attempt[v] < MaxAttempts[v]
     /\ vote' = [vote EXCEPT ![v] = "due"]
     /\ attempt' = [attempt EXCEPT ![v] = @ + 1]
  \/ vote' = [vote EXCEPT ![v] = "absent"] /\ UNCHANGED attempt

Dispatch(v) ==
  /\ vote[v] = "due" /\ ~stopped
  /\ IF fatal
       THEN GivenUp(v) /\ UNCHANGED inv
       ELSE /\ inv' = [inv EXCEPT ![Current(v)].step = "input"]
            /\ vote' = [vote EXCEPT ![v] = "waiting"] /\ UNCHANGED attempt
  /\ UNCHANGED <<call, ended, fatal, closing, stopped, decision, storedVars, faults>>

\* Await.
Answered(v) ==
  /\ vote[v] = "waiting"
  /\ \/ /\ At(Current(v), "ok")
        /\ \E choice \in {"accept", "reject"} : vote' = [vote EXCEPT ![v] = choice]
        /\ UNCHANGED attempt
     \/ At(Current(v), "failed") /\ GivenUp(v)
  /\ UNCHANGED <<call, ended, delegateVars, stopped, decision, storedVars, faults>>

\* The engine does not wait for the invocation to end.
AwaitTimeout(v) ==
  /\ vote[v] = "waiting" /\ ~stopped /\ Fault
  /\ ended' = ended \cup {Current(v)}
  /\ GivenUp(v)
  /\ UNCHANGED <<call, delegateVars, stopped, decision, storedVars>>

\* Stop, the run's deadline, another version or model.
StopRun ==
  /\ ~stopped /\ closing = "no" /\ Fault
  /\ stopped' = TRUE /\ ended' = ended \cup Dispatched
  /\ UNCHANGED <<call, delegateVars, vote, attempt, decision, storedVars>>

-----------------------------------------------------------------------------
(* The decision.                                                           *)

Cast == {v \in Reviewers : vote[v] \in {"accept", "reject"}}
Supporters == {v \in Reviewers : vote[v] = "accept"}

\* workflow.Finalize on the synthesis: all reviewers voted and none is absent, the
\* claim was accepted, with two of them in favour at least.
Consented(accepted) ==
  /\ accepted /\ Cast = Reviewers
  /\ Cardinality(Reviewers) >= 2 /\ Cardinality(Supporters) >= 2

\* applyBallotGate: a ballot for this proposal and this list of claims.
Bound(v) == \E i \in ballots : i[1] = v

\* applyIdentityGate.
Independent == \A v, w \in Reviewers : Identity[v] = Identity[w] => v = w

\* Mutant: an absent reviewer whose ballot is stored counts as present.
DecisionFromBallots(accepted) ==
  IF /\ accepted /\ Cardinality(Supporters) >= 1
     /\ \A v \in Reviewers : Bound(v)
     /\ ~blocking /\ Independent
    THEN "supported" ELSE "not_supported"

\* Every gate can only take the support away.
Decision(accepted) ==
  IF /\ Consented(accepted) /\ \A v \in Reviewers : Bound(v)
     /\ ~blocking /\ Independent
    THEN "supported" ELSE "not_supported"

\* The engine returns its result and the host decides while invocations that the
\* engine gave up may still be under way.  How votes add up is DebateVotes.
HostDecides ==
  /\ decision = "none" /\ closing = "no" /\ ~stopped
  /\ \A v \in Reviewers : vote[v] \in {"accept", "reject", "absent"}
  /\ \E accepted \in BOOLEAN :
       /\ accepted => Supporters # {}
       /\ decision' = Decision(accepted)
  /\ UNCHANGED <<call, ended, delegateVars, stopped, vote, attempt, storedVars, faults>>

-----------------------------------------------------------------------------
\* Close, when the engine has returned: with a result, or because of an error.
CloseDelegate ==
  /\ closing = "no" /\ (decision # "none" \/ stopped)
  /\ closing' = "waits" /\ fatal' = TRUE /\ ended' = ended \cup Dispatched
  /\ UNCHANGED <<call, inv, voteVars, storedVars, faults>>

\* Mutant: only the invocations the engine still waits for are waited for.
ClosedEarly ==
  /\ closing = "waits"
  /\ \A v \in Reviewers : vote[v] = "waiting" => InvocationOver(Current(v))
  /\ closing' = "closed"
  /\ UNCHANGED <<call, ended, inv, fatal, voteVars, storedVars, faults>>

Closed ==
  /\ closing = "waits"
  /\ \A i \in Dispatched : InvocationOver(i)
  /\ closing' = "closed"
  /\ UNCHANGED <<call, ended, inv, fatal, voteVars, storedVars, faults>>

Works(i) ==
  \/ WriteInput(i) \/ Probe(i) \/ Announce(i) \/ Calling(i) \/ ProgressLost(i)
  \/ Returned(i) \/ WriteOutput(i) \/ Publish(i) \/ CastBallot(i) \/ Complete(i)
  \/ Finish(i) \/ TaskDeadline(i)

Engine(v) == Dispatch(v) \/ Answered(v) \/ AwaitTimeout(v)

DelegateNext ==
  \/ \E i \in Calls : Works(i)
  \/ \E v \in Reviewers : Engine(v)
  \/ StopRun \/ HostDecides \/ CloseDelegate \/ Closed

DelegateSpec == DelegateInit /\ [][DelegateNext]_allDelegateVars

\* A goroutine goes on, and a process that is killed ends.  No server or CLI is
\* assumed to answer, no server to read what is written to it, and no helper to end.
Proceeds(i) ==
  \/ WriteInput(i) \/ Probe(i) \/ Announce(i) \/ Returned(i) \/ WriteOutput(i)
  \/ Publish(i) \/ CastBallot(i) \/ Complete(i) \/ Finish(i)
  \/ At(i, "call") /\ CallEnds(i) /\ UNCHANGED hostVars

DelegateFairSpec ==
  /\ DelegateSpec
  /\ \A i \in Calls :
       /\ WF_allDelegateVars(Proceeds(i))
       /\ SF_allDelegateVars(At(i, "call") /\ ClientGivesUp(i) /\ UNCHANGED hostVars)
  /\ WF_allDelegateVars(Closed)

-----------------------------------------------------------------------------
(* Properties.                                                             *)

\* Once Close has returned nothing happens any more: no process is started, no
\* artifact written and nothing published, also not for invocations the engine has
\* given up, so that the next attempt, a deletion or the end of the host meets no
\* one, and no process either (delegate.go:161).
ClosedIsQuiet ==
  [][closing = "closed" => UNCHANGED <<inv, call, messages, ballots, blocking>>]_allDelegateVars

\* A result counts as supported only if the engine has got the vote of every
\* reviewer, and the attempt it got it from is on record as such: with a message,
\* a ballot and a completed artifact.  Ballots of attempts that were given up, and
\* messages of attempts that failed after they were stored, do not make up for it.
SupportedIsEarned ==
  decision = "supported" =>
    \A v \in Reviewers :
      /\ vote[v] \in {"accept", "reject"}
      /\ Current(v) \in messages \cap ballots
      /\ inv[Current(v)].artifact = "completed"

\* No write to a server lasts for ever, and no helper keeps the server's pipes for
\* ever, for instance one that has left the group that is killed.
ServersRead == \A i \in CodexCalls : []<>(~call[i].writes)
HelpersLetGo == \A i \in CodexCalls : []<>(~call[i].held)

\* Close returns, whether CLIs and servers answer or not, whatever callbacks fail and
\* whichever invocations the engine has given up: if servers read and helpers let go.
CloseReturns ==
  ServersRead /\ HelpersLetGo => (closing = "waits" ~> closing = "closed")
=============================================================================
