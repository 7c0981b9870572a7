----------------------------- MODULE ProviderCall -----------------------------
(* One call of a provider's CLI by the desktop host.  Codex runs as a server   *)
(* that is asked for one turn over a pipe and stopped afterwards; every other  *)
(* CLI runs once and exits.  Both are leaders of a process group of their own, *)
(* in which helpers they start live on when the leader is gone.                *)
(*                                                                             *)
(* The client of the Codex server writes its requests without looking at the   *)
(* context, and waits at the end without a limit: a write lasts until the      *)
(* server reads it, and the wait until nobody holds the server's pipes.        *)
EXTENDS Naturals

CONSTANTS
  Calls,      \* identifiers of calls
  CodexCalls  \* those of Codex

ASSUME CallAssumption == CodexCalls \subseteq Calls

VARIABLES
  call,   \* the calls: their process, how far they are and how they end
  ended   \* the calls whose context is done

\* What the server has to send, in this order: the replies to initialize and to
\* thread/start, which count as one, then the turn, from turn/started over the answer
\* to turn/completed, which count as one.
Frames == 2

CallType ==
  [process : {"none", "alive", "gone"},
   sent : 0 .. Frames, handled : 0 .. Frames,
   aborted : BOOLEAN,      \* the callback for progress has failed
   writes : BOOLEAN,       \* the client is inside a write to the server
   held : BOOLEAN,         \* the server is gone, but a helper of it holds its pipes
   outcome : {"none", "ok", "error"},
   returned : BOOLEAN]

NoCall == [process |-> "none", sent |-> 0, handled |-> 0, aborted |-> FALSE,
           writes |-> FALSE, held |-> FALSE, outcome |-> "none", returned |-> FALSE]

Alive(i) == call[i].process = "alive"
\* The caller has not made up its mind.
Running(i) == call[i].process # "none" /\ call[i].outcome = "none"
Sets(i, c) == call' = [call EXCEPT ![i] = c] /\ UNCHANGED ended

\* The program is not found, or may not be run.
SpawnFails(i) ==
  /\ call[i].process = "none" /\ ~call[i].returned
  /\ Sets(i, [call[i] EXCEPT !.outcome = "error", !.returned = TRUE])

\* Codex does not look at its context first: it starts a process and then stops it.
\* What is written before the turn, to initialize and to start a thread, fits in the
\* empty pipe.
Spawn(i) ==
  /\ call[i].process = "none" /\ ~call[i].returned
  /\ i \in ended => i \in CodexCalls
  /\ Sets(i, [call[i] EXCEPT !.process = "alive"])

\* By itself, or because its input was closed, or by a signal, which does not reach
\* the helpers that have left the group.  Those of a CLI that runs once are waited for
\* two seconds only (runner.go:589).
ProcessExits(i) ==
  /\ Alive(i)
  /\ \E held \in BOOLEAN :
       /\ held => i \in CodexCalls
       /\ Sets(i, [call[i] EXCEPT !.process = "gone", !.held = held])

-----------------------------------------------------------------------------
(* Codex.                                                                  *)

\* The server or nobody has the reading end: the write returns, in the second case
\* with an error.  Short of that it may fit in the pipe, or last for ever.
WriteEnds(i) ==
  /\ call[i].writes
  /\ \E outcome \in {call[i].outcome} \cup (IF Running(i) THEN {"error"} ELSE {}) :
       /\ ~Alive(i) /\ ~call[i].held => outcome # "none"
       /\ Sets(i, [call[i] EXCEPT !.writes = FALSE, !.outcome = outcome])

\* Each follows a request, and each request what came before; what is sent to a
\* client that has made up its mind is not read.
ServerSends(i) ==
  /\ i \in CodexCalls /\ Alive(i) /\ Running(i) /\ ~call[i].writes
  /\ call[i].sent < Frames /\ call[i].sent = call[i].handled
  /\ Sets(i, [call[i] EXCEPT !.sent = @ + 1])

\* The client is back at its select.
Listens(i) == i \in CodexCalls /\ Running(i) /\ ~call[i].writes

\* The turn has begun, as far as the client knows.
TurnBegun(i) == call[i].handled >= Frames - 1

\* A frame the client expects and finds in order: it writes the request for the turn,
\* with the prompt, or it has its answer, and interrupts the turn if the context is
\* done by then.
ClientHandles(i) ==
  /\ Listens(i) /\ call[i].handled < call[i].sent
  /\ LET last == call[i].handled + 1 = Frames
     IN \E writes \in BOOLEAN :
          /\ IF last THEN writes => i \in ended ELSE writes
          /\ Sets(i, [call[i] EXCEPT !.handled = @ + 1,
                                     !.outcome = IF last THEN "ok" ELSE "none",
                                     !.writes = writes])

\* A request for approval is declined.
ClientDeclines(i) ==
  /\ Listens(i) /\ Alive(i) /\ TurnBegun(i)
  /\ Sets(i, [call[i] EXCEPT !.writes = TRUE])

\* The client gives up: an error or a frame it cannot accept (another model, other
\* reasoning, an interaction, a turn that failed or has no valid answer), a
\* callback that fails, a context that is done, or the end of the stream, which
\* drops the frames not read by then.  A turn that has begun is interrupted first.
ClientFails(i) ==
  /\ Listens(i)
  /\ \E writes \in BOOLEAN :
       /\ writes => TurnBegun(i)
       /\ Sets(i, [call[i] EXCEPT !.outcome = "error", !.writes = writes])

\* It may never happen.
HelperEnds(i) ==
  /\ call[i].held
  /\ Sets(i, [call[i] EXCEPT !.held = FALSE])

\* The deferred end: when the interrupt is written, the input is closed, the server
\* waited for and killed, its pipes waited for without a limit, and all that is left
\* of its group is killed; the pipe is gone.
CodexReturns(i) ==
  /\ i \in CodexCalls
  /\ call[i].outcome # "none" /\ ~call[i].returned
  /\ ~call[i].writes /\ call[i].process = "gone" /\ ~call[i].held
  /\ Sets(i, [call[i] EXCEPT !.sent = 0, !.handled = 0, !.returned = TRUE])

-----------------------------------------------------------------------------
(* A CLI that runs once.                                                   *)

\* The callback cancels the process.
ProgressFails(i) ==
  /\ i \in Calls \ CodexCalls /\ Alive(i) /\ ~call[i].aborted
  /\ Sets(i, [call[i] EXCEPT !.aborted = TRUE])

\* The output counts if the process was left alone and its text can be taken for
\* an answer; a group that was stopped is killed, that of a process which exited
\* by itself is not.
RunReturns(i) ==
  /\ i \in Calls \ CodexCalls /\ Running(i)
  /\ call[i].process = "gone"
  /\ \E outcome \in {"ok", "error"} :
       /\ outcome = "ok" => i \notin ended /\ ~call[i].aborted
       /\ Sets(i, [call[i] EXCEPT !.outcome = outcome, !.returned = TRUE])

-----------------------------------------------------------------------------
\* What a call does.
CallStep(i) ==
  \/ Spawn(i) \/ SpawnFails(i) \/ ProcessExits(i) \/ HelperEnds(i)
  \/ WriteEnds(i) \/ ServerSends(i) \/ ClientHandles(i) \/ ClientDeclines(i)
  \/ ClientFails(i) \/ CodexReturns(i)
  \/ ProgressFails(i) \/ RunReturns(i)

\* Mutant: the kill waits for the context of a CLI, not for its callback.
StoppingByContext(i) ==
  /\ Alive(i)
  /\ IF i \in CodexCalls THEN call[i].outcome # "none" /\ ~call[i].writes
                         ELSE i \in ended /\ call[i].aborted

\* A process that is being stopped is killed in the end: a server when its client has
\* made up its mind and is done with writing, a CLI with its context or its callback.
Stopping(i) ==
  /\ Alive(i)
  /\ IF i \in CodexCalls THEN call[i].outcome # "none" /\ ~call[i].writes
                         ELSE i \in ended \/ call[i].aborted

\* Steps that follow without anything else happening, once a call is to end: a write
\* nobody can read fails, and the stream ends with its last holder.
CallEnds(i) ==
  \/ Stopping(i) /\ ProcessExits(i)
  \/ ~Alive(i) /\ ~call[i].held /\ (WriteEnds(i) \/ ClientFails(i))
  \/ CodexReturns(i) \/ RunReturns(i) \/ Spawn(i) \/ SpawnFails(i)

\* The client's select picks at random among what is ready: it gets to see that its
\* context is done, whatever else the server sends.
ClientGivesUp(i) == i \in ended /\ ClientFails(i)
=============================================================================
