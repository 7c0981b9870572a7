------------------------- MODULE TaskExecution_proofs -------------------------
(***************************************************************************)
(* What holds of the rounds of tasks for any number of tasks, slots,       *)
(* attempts and rounds, and whatever the providers answer: an answer is    *)
(* taken for the attempt it was given to, the artifacts of recorded        *)
(* answers stand while the process lives, and a task goes only forward.    *)
(***************************************************************************)
EXTENDS TaskExecution, SequenceTheorems, TLAPS

Doing == {"calling", "repairing", "usable", "repaired", "error"}
CallType == [task : Tasks, kind : {"initial", "later"}, attempt : 1 .. MaxAttempts,
             id : Nat, inTable : BOOLEAN, cancelled : BOOLEAN, doing : Doing]

TaskTypeOK ==
  /\ at \in [Tasks -> {"queued", "dispatch", "await", "backoff", "done"}]
  /\ attempt \in [Tasks -> 1 .. MaxAttempts]
  /\ awaited \in [Tasks -> Nat]
  /\ result \in [Tasks -> {"none", "ok", "failed", "deadline", "observer"}]
  /\ calls \in Seq(CallType) /\ seq = Len(calls)
  /\ restarts \in Nat

\* The counter gives every call of a process an identifier of its own.
Numbered == \A n \in 1 .. Len(calls) : calls[n].id = n - 1

\* The call n was made for the attempt a task is at and has not been given up.
Current(t, n) ==
  /\ n \in 1 .. Len(calls)
  /\ calls[n].task = t /\ calls[n].attempt = attempt[t] /\ ~calls[n].cancelled

Waiting == \A t \in Tasks : /\ at[t] = "await" => Current(t, awaited[t])
                            /\ at[t] # "done" => result[t] = "none"

Usable(n) == calls[n].doing \in {"usable", "repaired"}

Succeeded == \A t \in Tasks : result[t] = "ok" =>
               at[t] = "done" /\ Current(t, awaited[t]) /\ Usable(awaited[t])

\* A usable answer is on file, and the ledger refers to such answers only.
Filed == \A n \in 1 .. Len(calls) : Usable(n) => AnswerFile(n) \in files
Referred ==
  restarts = 0 => \A r \in recorded : \E n \in 1 .. Len(calls) : Usable(n) /\ r = AnswerFile(n)

\* The inductive invariant.
TaskInv == TaskTypeOK /\ Numbered /\ Waiting /\ Succeeded /\ Filed /\ Referred

-----------------------------------------------------------------------------
(* What the steps have in common.                                          *)

LEMMA TaskInit == Init => TaskInv
<1> SUFFICES ASSUME Init PROVE TaskInv
  OBVIOUS
<1>1. TaskTypeOK
  BY TaskAssumption DEF Init, FreshTasks, TaskTypeOK
<1>2. Len(calls) = 0 /\ recorded = {}
  BY DEF Init
<1>3. Waiting /\ Succeeded
  BY DEF Init, FreshTasks, Waiting, Succeeded
<1> QED BY <1>1, <1>2, <1>3 DEF TaskInv, Numbered, Filed, Referred

\* The same call with another state: what a goroutine or Await does to the table.
Changed(n, c) ==
  /\ n \in 1 .. Len(calls) /\ c \in CallType
  /\ c.task = calls[n].task /\ c.kind = calls[n].kind /\ c.id = calls[n].id
  /\ c.attempt = calls[n].attempt
  /\ calls' = [calls EXCEPT ![n] = c]

LEMMA ChangedFacts ==
  ASSUME TaskTypeOK, NEW n, NEW c, Changed(n, c)
  PROVE  /\ calls' \in Seq(CallType) /\ Len(calls') = Len(calls) /\ calls'[n] = c
         /\ \A m \in 1 .. Len(calls) : m # n => calls'[m] = calls[m]
         /\ \A m \in 1 .. Len(calls) : /\ calls[m] \in CallType
                                       /\ calls'[m].task = calls[m].task
                                       /\ calls'[m].kind = calls[m].kind
                                       /\ calls'[m].id = calls[m].id
                                       /\ calls'[m].attempt = calls[m].attempt
<1>1. calls \in Seq(CallType) /\ n \in 1 .. Len(calls) /\ c \in CallType
      /\ calls' = [calls EXCEPT ![n] = c]
  BY DEF TaskTypeOK, Changed
<1>2. /\ calls' \in Seq(CallType) /\ Len(calls') = Len(calls) /\ calls'[n] = c
      /\ \A m \in 1 .. Len(calls) : m # n => calls'[m] = calls[m]
  BY <1>1
<1>3. \A m \in 1 .. Len(calls) : calls[m] \in CallType
  BY <1>1
<1> QED BY <1>2, <1>3 DEF Changed

\* A file is named after its call.
LEMMA NameOfCall ==
  ASSUME NEW c, NEW d, c.task = d.task, c.kind = d.kind, c.id = d.id, NEW repair
  PROVE  FileName(c, repair) = FileName(d, repair)
  BY DEF FileName

\* Await takes a call off the table, and cancels it or does not.
LEMMA LeavesIs ==
  ASSUME TaskTypeOK, NEW n \in 1 .. Len(calls), NEW cancelled \in BOOLEAN, Leaves(n, cancelled)
  PROVE  \E c : /\ Changed(n, c) /\ c.doing = calls[n].doing /\ c.cancelled = cancelled
<1>1. calls[n] \in CallType
  BY DEF TaskTypeOK
<1> DEFINE c == [calls[n] EXCEPT !.inTable = FALSE, !.cancelled = cancelled]
<1>2. c \in CallType /\ c.doing = calls[n].doing /\ c.cancelled = cancelled
      /\ c.task = calls[n].task /\ c.kind = calls[n].kind /\ c.id = calls[n].id
      /\ c.attempt = calls[n].attempt
  BY <1>1 DEF CallType
<1>3. calls' = [calls EXCEPT ![n] = c]
  BY DEF Leaves
<1> QED BY <1>2, <1>3 DEF Changed

LEMMA DoesIs ==
  ASSUME TaskTypeOK, NEW n \in 1 .. Len(calls), NEW what \in Doing, Does(n, what)
  PROVE  \E c : /\ Changed(n, c) /\ c.doing = what /\ c.cancelled = calls[n].cancelled
<1>1. calls[n] \in CallType
  BY DEF TaskTypeOK
<1> DEFINE c == [calls[n] EXCEPT !.doing = what]
<1>2. c \in CallType /\ c.doing = what /\ c.cancelled = calls[n].cancelled
      /\ c.task = calls[n].task /\ c.kind = calls[n].kind /\ c.id = calls[n].id
      /\ c.attempt = calls[n].attempt
  BY <1>1 DEF CallType
<1>3. calls' = [calls EXCEPT ![n] = c]
  BY DEF Does
<1> QED BY <1>2, <1>3 DEF Changed

\* The files of answers stay those of the same calls.
LEMMA SameFiles ==
  ASSUME TaskInv, NEW n, NEW c, Changed(n, c), c.doing = calls[n].doing,
         UNCHANGED <<files, recorded, restarts>>
  PROVE  Numbered' /\ Filed' /\ Referred'
<1>1. /\ Len(calls') = Len(calls)
      /\ \A m \in 1 .. Len(calls) :
           /\ calls'[m].doing = calls[m].doing /\ calls'[m].id = calls[m].id
           /\ Usable(m)' = Usable(m) /\ AnswerFile(m)' = AnswerFile(m)
  <2>1. TaskTypeOK
    BY DEF TaskInv
  <2>2. ASSUME NEW m \in 1 .. Len(calls)
        PROVE  /\ calls'[m].doing = calls[m].doing /\ calls'[m].id = calls[m].id
               /\ Usable(m)' = Usable(m) /\ AnswerFile(m)' = AnswerFile(m)
    <3>1. /\ calls'[m].doing = calls[m].doing /\ calls'[m].id = calls[m].id
          /\ calls'[m].task = calls[m].task /\ calls'[m].kind = calls[m].kind
      BY <2>1, ChangedFacts
    <3>2. Usable(m)' = Usable(m)
      BY <3>1 DEF Usable
    <3>3. AnswerFile(m)' = AnswerFile(m)
      BY <3>1 DEF AnswerFile, Written, FileName
    <3> QED BY <3>1, <3>2, <3>3
  <2> QED BY <2>1, <2>2, ChangedFacts
<1> QED BY <1>1 DEF TaskInv, Numbered, Filed, Referred

\* One task ends its attempt; the call it waited for has left the table. The other
\* tasks wait for other calls.
LEMMA OthersKeep ==
  ASSUME TaskInv, NEW t \in Tasks, Current(t, awaited[t]), NEW c, Changed(awaited[t], c),
         c.doing = calls[awaited[t]].doing,
         NEW u \in Tasks, u # t, Current(u, awaited[u]),
         attempt'[u] = attempt[u], awaited' = awaited
  PROVE  Current(u, awaited[u])' /\ Usable(awaited[u])' = Usable(awaited[u])
<1>1. awaited[u] # awaited[t] /\ awaited[u] \in 1 .. Len(calls)
  BY DEF Current
<1>2. calls'[awaited[u]] = calls[awaited[u]] /\ Len(calls') = Len(calls)
  BY <1>1, ChangedFacts DEF TaskInv
<1> QED BY <1>1, <1>2 DEF Current, Usable

\* The task steps that leave the calls alone or take one off the table.
LEMMA AttemptEnds ==
  ASSUME TaskInv, NEW t \in Tasks,
         \/ UNCHANGED calls /\ at[t] \in {"queued", "dispatch", "backoff"}
         \/ at[t] = "await" /\ \E c : Changed(awaited[t], c) /\ c.doing = calls[awaited[t]].doing,
         NEW place \in {"dispatch", "backoff", "done"}, at' = [at EXCEPT ![t] = place],
         NEW how \in {"none", "failed", "deadline", "observer"}, result' = [result EXCEPT ![t] = how],
         place = "done" \/ how = "none",
         NEW a \in 1 .. MaxAttempts, attempt' = [attempt EXCEPT ![t] = a],
         UNCHANGED <<awaited, seq, files, recorded, restarts>>
  PROVE  TaskInv'
<1> USE DEF TaskInv
<1>1. TaskTypeOK'
  <2>1. calls' \in Seq(CallType) /\ Len(calls') = Len(calls)
    BY ChangedFacts DEF TaskTypeOK
  <2> QED BY <2>1 DEF TaskTypeOK
<1>2. Numbered' /\ Filed' /\ Referred'
  <2>1. CASE UNCHANGED calls
    BY <2>1 DEF Numbered, Filed, Referred, Usable, AnswerFile, Written
  <2> QED BY <2>1, SameFiles
<1>3. ASSUME NEW u \in Tasks, u # t, Current(u, awaited[u])
      PROVE  Current(u, awaited[u])' /\ Usable(awaited[u])' = Usable(awaited[u])
  <2>1. attempt'[u] = attempt[u]
    BY <1>3 DEF TaskTypeOK
  <2>2. CASE UNCHANGED calls
    BY <2>1, <2>2, <1>3 DEF Current, Usable
  <2> QED BY <1>3, <2>1, <2>2, OthersKeep DEF Waiting
<1>4. Waiting'
  BY <1>3 DEF Waiting, TaskTypeOK
<1>5. Succeeded'
  BY <1>3 DEF Succeeded, TaskTypeOK
<1> QED BY <1>1, <1>2, <1>4, <1>5

-----------------------------------------------------------------------------
(* The steps of a task.                                                    *)

\* What follows a failed attempt.
LEMMA RetryCases ==
  ASSUME TaskInv, NEW t \in Tasks, at[t] # "done",
         RetryOrFail(t) \/ (Ends(t, "deadline") /\ UNCHANGED attempt)
  PROVE  \E place \in {"dispatch", "backoff", "done"},
            how \in {"none", "failed", "deadline", "observer"}, a \in 1 .. MaxAttempts :
              /\ at' = [at EXCEPT ![t] = place]
              /\ result' = [result EXCEPT ![t] = how]
              /\ place = "done" \/ how = "none"
              /\ attempt' = [attempt EXCEPT ![t] = a]
<1>1. /\ attempt = [attempt EXCEPT ![t] = attempt[t]] /\ attempt[t] \in 1 .. MaxAttempts
      /\ result[t] = "none" /\ result = [result EXCEPT ![t] = "none"]
  BY DEF TaskInv, TaskTypeOK, Waiting
<1>2. CASE attempt[t] < MaxAttempts /\ at' = [at EXCEPT ![t] = "backoff"]
           /\ attempt' = [attempt EXCEPT ![t] = @ + 1] /\ UNCHANGED <<result, faults>>
  <2>1. attempt[t] + 1 \in 1 .. MaxAttempts
    BY <1>1, <1>2, TaskAssumption
  <2> QED BY <1>1, <1>2, <2>1
<1>3. ASSUME NEW how \in {"failed", "deadline", "observer"}, Ends(t, how), UNCHANGED attempt
      PROVE  /\ at' = [at EXCEPT ![t] = "done"] /\ result' = [result EXCEPT ![t] = how]
             /\ attempt' = [attempt EXCEPT ![t] = attempt[t]]
  BY <1>1, <1>3 DEF Ends
<1> QED BY <1>1, <1>2, <1>3 DEF RetryOrFail, EventRefused

\* An attempt that ends without an answer.
GivesUp(t) ==
  /\ at[t] # "done"
  /\ \/ UNCHANGED calls /\ at[t] \in {"queued", "dispatch", "backoff"}
     \/ at[t] = "await" /\ \E cancelled \in BOOLEAN : Leaves(awaited[t], cancelled)
  /\ RetryOrFail(t) \/ (Ends(t, "deadline") /\ UNCHANGED attempt)
  /\ UNCHANGED <<awaited, seq, files, recorded, restarts>>

LEMMA EndsKeeps ==
  ASSUME TaskInv, NEW t \in Tasks, GivesUp(t)
  PROVE  TaskInv'
<1> USE DEF GivesUp
<1>1. at[t] = "await" => awaited[t] \in 1 .. Len(calls)
  BY DEF TaskInv, Waiting, Current
<1>2. \/ UNCHANGED calls /\ at[t] \in {"queued", "dispatch", "backoff"}
      \/ at[t] = "await" /\ \E c : Changed(awaited[t], c) /\ c.doing = calls[awaited[t]].doing
  BY <1>1, LeavesIs DEF TaskInv
<1>3. PICK place \in {"dispatch", "backoff", "done"},
           how \in {"none", "failed", "deadline", "observer"}, a \in 1 .. MaxAttempts :
        /\ at' = [at EXCEPT ![t] = place] /\ result' = [result EXCEPT ![t] = how]
        /\ place = "done" \/ how = "none"
        /\ attempt' = [attempt EXCEPT ![t] = a]
  BY RetryCases
<1> HIDE DEF GivesUp
<1>4. UNCHANGED <<awaited, seq, files, recorded, restarts>>
  BY DEF GivesUp
<1> QED BY <1>2, <1>3, <1>4, AttemptEnds

LEMMA AcquireKeeps ==
  ASSUME TaskInv, NEW t \in Tasks, Acquire(t)
  PROVE  TaskInv'
<1>1. CASE deadline
  BY <1>1, EndsKeeps DEF Acquire, GivesUp
<1>2. CASE ~deadline
  <2>1. /\ at[t] = "queued" /\ at' = [at EXCEPT ![t] = "dispatch"]
        /\ UNCHANGED <<result, attempt, awaited, calls, seq, files, recorded, restarts>>
    BY <1>2 DEF Acquire
  <2>2. /\ attempt' = [attempt EXCEPT ![t] = attempt[t]] /\ attempt[t] \in 1 .. MaxAttempts
        /\ result' = [result EXCEPT ![t] = "none"]
    BY <2>1 DEF TaskInv, TaskTypeOK, Waiting
  <2> QED BY <2>1, <2>2, AttemptEnds
<1> QED BY <1>1, <1>2

LEMMA BackOffKeeps ==
  ASSUME TaskInv, NEW t \in Tasks, BackOff(t)
  PROVE  TaskInv'
<1>1. /\ at[t] = "backoff" /\ at' = [at EXCEPT ![t] = "dispatch"]
      /\ UNCHANGED <<result, attempt, awaited, calls, seq, files, recorded, restarts>>
  BY DEF BackOff
<1>2. /\ attempt' = [attempt EXCEPT ![t] = attempt[t]] /\ attempt[t] \in 1 .. MaxAttempts
      /\ result' = [result EXCEPT ![t] = "none"]
  BY <1>1 DEF TaskInv, TaskTypeOK, Waiting
<1> QED BY <1>1, <1>2, AttemptEnds

LEMMA RefusedKeeps ==
  ASSUME TaskInv, NEW t \in Tasks, DispatchRefused(t) \/ DispatchFails(t) \/ TimesOut(t)
  PROVE  TaskInv'
<1>1. CASE DispatchRefused(t) \/ DispatchFails(t)
  <2>1. /\ at[t] = "dispatch" /\ RetryOrFail(t)
        /\ UNCHANGED <<awaited, calls, seq, files, recorded, restarts>>
    BY <1>1 DEF DispatchRefused, DispatchFails, RetryOrFail
  <2> QED BY <2>1, EndsKeeps DEF GivesUp
<1>2. CASE TimesOut(t)
  <2>1. /\ at[t] = "await" /\ RetryOrFail(t) /\ \E cancelled \in BOOLEAN : Leaves(awaited[t], cancelled)
        /\ UNCHANGED <<awaited, seq, files, recorded, restarts>>
    BY <1>2 DEF TimesOut
  <2> QED BY <2>1, EndsKeeps DEF GivesUp
<1> QED BY <1>1, <1>2

LEMMA SeesDeadlineKeeps ==
  ASSUME TaskInv, NEW t \in Tasks, SeesDeadline(t)
  PROVE  TaskInv'
<1>1. ASSUME EventRefused(t) PROVE RetryOrFail(t)
  BY <1>1 DEF RetryOrFail
<1>2. \/ UNCHANGED calls /\ at[t] = "backoff"
      \/ at[t] = "await" /\ Leaves(awaited[t], TRUE)
  BY DEF SeesDeadline
<1>3. EventRefused(t) \/ (Ends(t, "deadline") /\ UNCHANGED attempt)
  BY DEF SeesDeadline
<1>4. UNCHANGED <<awaited, seq, files, recorded, restarts>>
  BY DEF SeesDeadline
<1>5. RetryOrFail(t) \/ (Ends(t, "deadline") /\ UNCHANGED attempt)
  BY <1>1, <1>3
<1> QED BY <1>2, <1>4, <1>5, EndsKeeps DEF GivesUp

LEMMA DispatchKeeps ==
  ASSUME TaskInv, NEW t \in Tasks, Dispatch(t)
  PROVE  TaskInv'
<1> USE DEF TaskInv
<1> DEFINE c == [task |-> t, kind |-> Kind(round), attempt |-> attempt[t], id |-> seq,
                 inTable |-> TRUE, cancelled |-> FALSE, doing |-> "calling"]
<1>1. /\ at[t] = "dispatch" /\ calls' = Append(calls, c) /\ seq' = seq + 1
      /\ awaited' = [awaited EXCEPT ![t] = Len(calls) + 1]
      /\ at' = [at EXCEPT ![t] = "await"]
      /\ UNCHANGED <<attempt, result, files, recorded, restarts>>
  BY DEF Dispatch
<1>2. calls \in Seq(CallType) /\ Len(calls) \in Nat /\ seq = Len(calls)
  BY DEF TaskTypeOK
<1>3. c \in CallType
  BY <1>2 DEF CallType, TaskTypeOK, Kind, Doing
<1>4. /\ c.task = t /\ c.attempt = attempt[t] /\ ~c.cancelled /\ c.id = Len(calls)
      /\ c.doing = "calling"
  BY <1>2
<1> HIDE DEF c
<1>5. /\ calls' \in Seq(CallType) /\ Len(calls') = Len(calls) + 1
      /\ calls'[Len(calls) + 1] = c
      /\ \A n \in 1 .. Len(calls) : n \in 1 .. Len(calls') /\ calls'[n] = calls[n]
  BY <1>1, <1>2, <1>3
<1>6. \A n \in 1 .. Len(calls') : n \in 1 .. Len(calls) \/ n = Len(calls) + 1
  BY <1>2, <1>5
<1>7. TaskTypeOK'
  BY <1>1, <1>2, <1>5 DEF TaskTypeOK
<1>8. Numbered'
  BY <1>2, <1>4, <1>5, <1>6 DEF Numbered
<1>9. ASSUME NEW u \in Tasks, u # t, Current(u, awaited[u])
      PROVE  Current(u, awaited[u])' /\ Usable(awaited[u])' = Usable(awaited[u])
  <2>1. awaited'[u] = awaited[u] /\ attempt'[u] = attempt[u]
    BY <1>1, <1>9 DEF TaskTypeOK
  <2> QED BY <1>5, <1>9, <2>1 DEF Current, Usable
<1>10. Current(t, awaited[t])'
  <2>1. awaited'[t] = Len(calls) + 1 /\ awaited'[t] \in 1 .. Len(calls')
    BY <1>1, <1>2, <1>5 DEF TaskTypeOK
  <2> QED BY <1>1, <1>4, <1>5, <2>1 DEF Current
<1>11. Waiting'
  BY <1>1, <1>9, <1>10 DEF Waiting, TaskTypeOK
<1>12. Succeeded'
  BY <1>1, <1>9 DEF Succeeded, Waiting, TaskTypeOK
<1>13. \A n \in 1 .. Len(calls) : Usable(n)' = Usable(n) /\ AnswerFile(n)' = AnswerFile(n)
  BY <1>1, <1>5 DEF Usable, AnswerFile, Written, FileName
<1>14. \A n \in 1 .. Len(calls') : n \notin 1 .. Len(calls) => ~Usable(n)'
  BY <1>4, <1>5, <1>6 DEF Usable
<1>15. Filed'
  BY <1>1, <1>5, <1>6, <1>13, <1>14 DEF Filed
<1>16. Referred'
  BY <1>1, <1>5, <1>13 DEF Referred
<1> QED BY <1>7, <1>8, <1>11, <1>12, <1>15, <1>16

LEMMA ReceiveKeeps ==
  ASSUME TaskInv, NEW t \in Tasks, Receive(t)
  PROVE  TaskInv'
<1> USE DEF TaskInv
<1>1. /\ at[t] = "await" /\ Answered(calls[awaited[t]]) /\ Leaves(awaited[t], FALSE)
      /\ UNCHANGED <<awaited, seq, files, recorded, restarts>>
      /\ Current(t, awaited[t]) /\ awaited[t] \in 1 .. Len(calls)
  BY DEF Receive, Waiting, Current
<1>2. CASE RetryOrFail(t)
  <2>1. at[t] # "done" /\ \E cancelled \in BOOLEAN : Leaves(awaited[t], cancelled)
    BY <1>1
  <2> QED BY <1>1, <1>2, <2>1, EndsKeeps DEF GivesUp
<1>3. CASE Ends(t, "ok") /\ UNCHANGED attempt /\ calls[awaited[t]].doing # "error"
  <2>1. PICK c : Changed(awaited[t], c) /\ c.doing = calls[awaited[t]].doing /\ c.cancelled = FALSE
    BY <1>1, LeavesIs
  <2>2. at' = [at EXCEPT ![t] = "done"] /\ result' = [result EXCEPT ![t] = "ok"]
    BY <1>3 DEF Ends
  <2>3. calls' \in Seq(CallType) /\ Len(calls') = Len(calls) /\ calls'[awaited[t]] = c
    BY <2>1, ChangedFacts
  <2>4. TaskTypeOK'
    BY <1>1, <1>3, <2>2, <2>3 DEF TaskTypeOK
  <2>5. Numbered' /\ Filed' /\ Referred'
    BY <1>1, <2>1, SameFiles
  <2>6. ASSUME NEW u \in Tasks, u # t, Current(u, awaited[u])
        PROVE  Current(u, awaited[u])' /\ Usable(awaited[u])' = Usable(awaited[u])
    BY <1>1, <1>3, <2>1, <2>6, OthersKeep
  <2>7. Current(t, awaited[t])' /\ Usable(awaited[t])'
    BY <1>1, <1>3, <2>1, <2>3 DEF Current, Usable, Answered, Changed
  <2>8. Waiting'
    BY <2>2, <2>6 DEF Waiting, TaskTypeOK
  <2>9. Succeeded'
    BY <2>2, <2>6, <2>7 DEF Succeeded, TaskTypeOK
  <2> QED BY <2>4, <2>5, <2>8, <2>9
<1>4. CASE EventRefused(t)
  BY <1>4, <1>2 DEF RetryOrFail
<1> QED BY <1>2, <1>3, <1>4 DEF Receive

-----------------------------------------------------------------------------
(* The goroutines and the round.                                           *)

LEMMA GoroutineKeeps ==
  ASSUME TaskInv, NEW n \in DOMAIN calls, Goroutine(n)
  PROVE  TaskInv'
<1> USE DEF TaskInv
<1>1. /\ n \in 1 .. Len(calls) /\ ~Usable(n) /\ calls[n].doing \in {"calling", "repairing"}
      /\ UNCHANGED <<at, attempt, awaited, result, seq, recorded, restarts>>
  <2>1. n \in 1 .. Len(calls) /\ calls[n] \in CallType
    BY DEF TaskTypeOK
  <2>2. calls[n].doing \in Doing
    BY <2>1 DEF CallType
  <2> QED BY <2>1, <2>2 DEF Goroutine, taskVars, ProviderFails, ProviderAnswers, ProviderMalformed,
       RepairAnswers, RepairMalformed, Answered, Usable, Doing
<1>2. PICK what \in Doing : /\ Does(n, what)
                            /\ \/ what \notin {"usable", "repaired"} /\ UNCHANGED files
                               \/ \E repair \in BOOLEAN :
                                    Keeps(n, repair) /\ (what \in {"usable", "repaired"} => repair = (what = "repaired"))
  BY DEF Goroutine, ProviderFails, ProviderAnswers, ProviderMalformed, RepairAnswers, RepairMalformed, Doing
<1>3. PICK c : Changed(n, c) /\ c.doing = what /\ c.cancelled = calls[n].cancelled
  BY <1>1, <1>2, DoesIs
<1>4. /\ calls' \in Seq(CallType) /\ Len(calls') = Len(calls) /\ calls'[n] = c
      /\ \A m \in 1 .. Len(calls) : m # n => calls'[m] = calls[m]
      /\ \A m \in 1 .. Len(calls) : /\ calls[m] \in CallType
                                    /\ calls'[m].task = calls[m].task
                                    /\ calls'[m].kind = calls[m].kind
                                    /\ calls'[m].id = calls[m].id
                                    /\ calls'[m].attempt = calls[m].attempt
  BY <1>3, ChangedFacts
<1>5. TaskTypeOK'
  BY <1>1, <1>4 DEF TaskTypeOK
<1>6. Numbered'
  BY <1>4 DEF Numbered
<1>7. ASSUME NEW u \in Tasks, Current(u, awaited[u])
      PROVE  Current(u, awaited[u])' /\ (Usable(awaited[u]) => Usable(awaited[u])')
  <2>1. awaited[u] \in 1 .. Len(calls) /\ calls'[awaited[u]].cancelled = calls[awaited[u]].cancelled
    BY <1>3, <1>4, <1>7 DEF Current
  <2> QED BY <1>1, <1>4, <1>7, <2>1 DEF Current, Usable
<1>8. Waiting' /\ Succeeded'
  BY <1>1, <1>7 DEF Waiting, Succeeded
<1>9. ASSUME NEW m \in 1 .. Len(calls), m # n
      PROVE  /\ Usable(m)' = Usable(m) /\ AnswerFile(m)' = AnswerFile(m)
             /\ AnswerFile(m) \in files => AnswerFile(m) \in files'
  <2>1. Usable(m)' = Usable(m) /\ AnswerFile(m)' = AnswerFile(m)
    BY <1>1, <1>4, <1>9 DEF Usable, AnswerFile, Written, FileName
  <2>2. AnswerFile(m).name.id # calls[n].id
    BY <1>1, <1>9 DEF AnswerFile, Written, FileName, Numbered
  <2>3. \A repair : AnswerFile(m).name # FileName(calls[n], repair)
    BY <2>2 DEF FileName
  <2> QED BY <1>2, <2>1, <2>3 DEF Keeps
<1>10. what \in {"usable", "repaired"} => AnswerFile(n)' \in files'
  <2> SUFFICES ASSUME what \in {"usable", "repaired"} PROVE AnswerFile(n)' \in files'
    OBVIOUS
  <2>1. Written(n, what = "repaired") \in files'
    BY <1>2 DEF Keeps
  <2>2. AnswerFile(n)' = Written(n, what = "repaired")
    BY <1>1, <1>3, <1>4 DEF AnswerFile, Written, FileName
  <2> QED BY <2>1, <2>2
<1>11. Filed'
  BY <1>3, <1>4, <1>9, <1>10 DEF Filed, Usable
<1>12. Referred'
  BY <1>1, <1>4, <1>9 DEF Referred
<1> QED BY <1>5, <1>6, <1>8, <1>11, <1>12

LEMMA RoundKeeps ==
  ASSUME TaskInv, CommitRound \/ Restart \/ DeadlineStrikes \/ UNCHANGED vars
  PROVE  TaskInv'
<1> USE DEF TaskInv
<1>1. CASE DeadlineStrikes \/ UNCHANGED vars
  BY <1>1 DEF DeadlineStrikes, vars, taskVars, TaskTypeOK, Numbered, Waiting, Current, Succeeded,
     Usable, Filed, Referred, AnswerFile, Written
<1>2. ASSUME NewRound PROVE Waiting' /\ Succeeded'
  BY <1>2 DEF NewRound, Waiting, Succeeded
<1>3. ASSUME NewRound
      PROVE  /\ at' \in [Tasks -> {"queued", "dispatch", "await", "backoff", "done"}]
             /\ attempt' \in [Tasks -> 1 .. MaxAttempts] /\ awaited' \in [Tasks -> Nat]
             /\ result' \in [Tasks -> {"none", "ok", "failed", "deadline", "observer"}]
  BY <1>3, TaskAssumption DEF NewRound
<1>4. CASE CommitRound
  <2>1. /\ recorded' = recorded \cup {AnswerFile(awaited[t]) : t \in {u \in Tasks : result[u] = "ok"}}
        /\ UNCHANGED <<calls, seq, files, restarts>>
        /\ NewRound \/ UNCHANGED taskVars
    BY <1>4 DEF CommitRound
  <2>2. TaskTypeOK'
    BY <1>3, <2>1 DEF TaskTypeOK, taskVars
  <2>3. Waiting' /\ Succeeded'
    BY <1>2, <2>1 DEF Waiting, Succeeded, Current, Usable, taskVars
  <2>4. /\ \A n : Usable(n)' = Usable(n) /\ AnswerFile(n)' = AnswerFile(n)
        /\ Numbered' /\ Filed'
    BY <2>1 DEF Usable, AnswerFile, Written, Numbered, Filed
  <2>5. Referred'
    <3> SUFFICES ASSUME restarts' = 0, NEW r \in recorded'
                 PROVE  \E n \in 1 .. Len(calls) : Usable(n) /\ r = AnswerFile(n)
      BY <2>1, <2>4 DEF Referred
    <3>1. CASE r \in recorded
      BY <2>1, <3>1 DEF Referred
    <3>2. ASSUME NEW t \in Tasks, result[t] = "ok", r = AnswerFile(awaited[t])
          PROVE  \E n \in 1 .. Len(calls) : Usable(n) /\ r = AnswerFile(n)
      BY <3>2 DEF Succeeded, Current
    <3> QED BY <2>1, <3>1, <3>2
  <2> QED BY <2>2, <2>3, <2>4, <2>5
<1>5. CASE Restart
  <2>1. /\ NewRound /\ calls' = <<>> /\ seq' = 0 /\ restarts' = restarts + 1
    BY <1>5 DEF Restart
  <2>2. calls' \in Seq(CallType) /\ Len(calls') = 0 /\ restarts' \in Nat /\ restarts' # 0
    BY <2>1 DEF TaskTypeOK
  <2>3. TaskTypeOK'
    BY <1>3, <2>1, <2>2 DEF TaskTypeOK
  <2>4. Numbered' /\ Filed' /\ Referred'
    BY <2>2 DEF Numbered, Filed, Referred
  <2> QED BY <1>2, <2>1, <2>3, <2>4
<1> QED BY <1>1, <1>4, <1>5

LEMMA TaskStepKeeps == TaskInv /\ [Next]_vars => TaskInv'
<1> SUFFICES ASSUME TaskInv, [Next]_vars PROVE TaskInv'
  OBVIOUS
<1>1. ASSUME NEW t \in Tasks, TaskStep(t) PROVE TaskInv'
  BY <1>1, AcquireKeeps, DispatchKeeps, RefusedKeeps, ReceiveKeeps, SeesDeadlineKeeps, BackOffKeeps
     DEF TaskStep
<1> QED BY <1>1, GoroutineKeeps, RoundKeeps DEF Next

LEMMA TaskInvariant == Spec => []TaskInv
  BY TaskInit, TaskStepKeeps, PTL DEF Spec

-----------------------------------------------------------------------------
(* The theorems.                                                           *)

\* The tasks, attempts and calls keep their types.
THEOREM TaskTypeCorrect == Spec => []TaskTypeOK
<1>1. TaskInv => TaskTypeOK
  BY DEF TaskInv
<1> QED BY <1>1, TaskInvariant, PTL

\* A task succeeds with the answer to its own last attempt, which nobody gave up.
THEOREM AnswersAreCurrent == Spec => []LateAnswersIgnored
<1>1. TaskInv => LateAnswersIgnored
  BY DEF TaskInv, Succeeded, Current, Usable, Answered, LateAnswersIgnored
<1> QED BY <1>1, TaskInvariant, PTL

\* What the ledger refers to is on file, unchanged, while the process lives.
THEOREM RecordedArtifactsStand == Spec => []ArtifactsStand
<1>1. TaskInv => ArtifactsStand
  BY DEF TaskInv, Filed, Referred, ArtifactsStand
<1> QED BY <1>1, TaskInvariant, PTL

-----------------------------------------------------------------------------
(* A task comes to its end.                                                *)

\* How many steps a task has left in its round: each of its attempts is dispatched,
\* awaited and, before the next one, backed off from.
PlaceLeft(place) ==
  CASE place = "queued" -> 4 [] place = "backoff" -> 3 [] place = "dispatch" -> 2 [] OTHER -> 1
TaskLeft(t) == IF at[t] = "done" THEN 0 ELSE 3 * (MaxAttempts - attempt[t]) + PlaceLeft(at[t])

\* Within a round no step of its own or of another task gives a task more to do.
TasksGoOn ==
  [][UNCHANGED <<round, restarts>> =>
       \A t \in Tasks : UNCHANGED <<at[t], attempt[t], awaited[t], result[t]>>
                        \/ TaskLeft(t)' < TaskLeft(t)]_vars

\* A step of a task leads to a later place of its attempt, to the back-off before
\* the next attempt, or ends it.
LEMMA TaskMoves ==
  ASSUME TaskInv, NEW t \in Tasks, TaskStep(t)
  PROVE  /\ at[t] # "done"
         /\ \A u \in Tasks \ {t} : UNCHANGED <<at[u], attempt[u], awaited[u], result[u]>>
         /\ \/ at'[t] = "done"
            \/ at'[t] = "backoff" /\ at[t] \in {"dispatch", "await"}
                 /\ attempt'[t] = attempt[t] + 1 /\ attempt[t] < MaxAttempts
            \/ /\ <<at[t], at'[t]>> \in {<<"queued", "dispatch">>, <<"backoff", "dispatch">>,
                                         <<"dispatch", "await">>}
               /\ attempt'[t] = attempt[t]
<1>0. TaskTypeOK
  BY DEF TaskInv
<1>1. ASSUME NEW how, Ends(t, how), UNCHANGED <<attempt, awaited>>, at[t] # "done"
      PROVE  /\ at'[t] = "done"
             /\ \A u \in Tasks \ {t} : UNCHANGED <<at[u], attempt[u], awaited[u], result[u]>>
  BY <1>0, <1>1 DEF Ends, TaskTypeOK
<1>2. ASSUME NEW place, at' = [at EXCEPT ![t] = place], UNCHANGED <<attempt, result>>,
             UNCHANGED awaited \/ \E n : awaited' = [awaited EXCEPT ![t] = n]
      PROVE  /\ at'[t] = place /\ attempt'[t] = attempt[t]
             /\ \A u \in Tasks \ {t} : UNCHANGED <<at[u], attempt[u], awaited[u], result[u]>>
  BY <1>0, <1>2 DEF TaskTypeOK
<1>3. ASSUME RetryOrFail(t), UNCHANGED awaited, at[t] \in {"dispatch", "await"}
      PROVE  /\ \A u \in Tasks \ {t} : UNCHANGED <<at[u], attempt[u], awaited[u], result[u]>>
             /\ \/ at'[t] = "done"
                \/ at'[t] = "backoff" /\ attempt'[t] = attempt[t] + 1 /\ attempt[t] < MaxAttempts
  <2>1. CASE /\ attempt[t] < MaxAttempts /\ at' = [at EXCEPT ![t] = "backoff"]
             /\ attempt' = [attempt EXCEPT ![t] = @ + 1] /\ UNCHANGED <<result, faults>>
    BY <1>0, <1>3, <2>1 DEF TaskTypeOK
  <2> QED BY <1>1, <1>3, <2>1 DEF RetryOrFail, EventRefused
<1>4. CASE Acquire(t)
  <2>1. CASE deadline
    BY <1>1, <1>4, <2>1 DEF Acquire
  <2>2. CASE ~deadline
    BY <1>2, <1>4, <2>2 DEF Acquire
  <2> QED BY <2>1, <2>2
<1>5. CASE Dispatch(t)
  BY <1>2, <1>5 DEF Dispatch
<1>6. CASE DispatchRefused(t) \/ DispatchFails(t) \/ TimesOut(t)
  BY <1>1, <1>3, <1>6 DEF DispatchRefused, DispatchFails, TimesOut, EventRefused
<1>7. CASE Receive(t)
  <2>1. at[t] = "await" /\ UNCHANGED awaited
    BY <1>7 DEF Receive
  <2>2. RetryOrFail(t) \/ \E how : Ends(t, how) /\ UNCHANGED attempt
    BY <1>7 DEF Receive, EventRefused
  <2> QED BY <1>1, <1>3, <2>1, <2>2
<1>8. CASE SeesDeadline(t)
  BY <1>1, <1>8 DEF SeesDeadline, EventRefused
<1>9. CASE BackOff(t)
  BY <1>2, <1>9 DEF BackOff
<1> QED BY <1>4, <1>5, <1>6, <1>7, <1>8, <1>9 DEF TaskStep

LEMMA TaskLowers ==
  ASSUME TaskInv, TaskInv', NEW t \in Tasks, TaskStep(t)
  PROVE  TaskLeft(t)' < TaskLeft(t)
<1>1. /\ at[t] # "done"
      /\ \/ at'[t] = "done"
         \/ at'[t] = "backoff" /\ at[t] \in {"dispatch", "await"}
              /\ attempt'[t] = attempt[t] + 1 /\ attempt[t] < MaxAttempts
         \/ /\ <<at[t], at'[t]>> \in {<<"queued", "dispatch">>, <<"backoff", "dispatch">>,
                                      <<"dispatch", "await">>}
            /\ attempt'[t] = attempt[t]
  BY TaskMoves
<1>2. attempt[t] \in 1 .. MaxAttempts /\ MaxAttempts \in Nat
  BY TaskAssumption DEF TaskInv, TaskTypeOK
<1>3. /\ TaskLeft(t) = 3 * (MaxAttempts - attempt[t]) + PlaceLeft(at[t])
      /\ PlaceLeft(at[t]) \in 1 .. 4
  BY <1>1 DEF TaskLeft, PlaceLeft
<1>4. TaskLeft(t)' = IF at'[t] = "done" THEN 0
                     ELSE 3 * (MaxAttempts - attempt'[t]) + PlaceLeft(at'[t])
  BY DEF TaskLeft
<1>5. /\ PlaceLeft("queued") = 4 /\ PlaceLeft("backoff") = 3 /\ PlaceLeft("dispatch") = 2
      /\ PlaceLeft("await") = 1
  BY DEF PlaceLeft
<1>6. CASE at'[t] = "done"
  BY <1>2, <1>3, <1>4, <1>6
<1>7. CASE at'[t] = "backoff" /\ at[t] \in {"dispatch", "await"}
             /\ attempt'[t] = attempt[t] + 1 /\ attempt[t] < MaxAttempts
  BY <1>2, <1>3, <1>4, <1>5, <1>7
<1>8. CASE /\ <<at[t], at'[t]>> \in {<<"queued", "dispatch">>, <<"backoff", "dispatch">>,
                                     <<"dispatch", "await">>}
           /\ attempt'[t] = attempt[t]
  BY <1>2, <1>3, <1>4, <1>5, <1>8
<1> QED BY <1>1, <1>6, <1>7, <1>8

RoundsAreNumbers == round \in Nat

LEMMA RoundsAreCounted == Spec => []RoundsAreNumbers
<1>1. Init => RoundsAreNumbers
  BY DEF Init, RoundsAreNumbers
<1>2. [Next]_vars => round' \in {round, round + 1}
  BY DEF Next, vars, TaskStep, Acquire, Dispatch, DispatchRefused, DispatchFails, Receive,
     TimesOut, SeesDeadline, BackOff, Goroutine, DeadlineStrikes, CommitRound, Restart
<1>3. RoundsAreNumbers /\ [Next]_vars => RoundsAreNumbers'
  BY <1>2 DEF RoundsAreNumbers
<1> QED BY <1>1, <1>3, PTL DEF Spec

\* Whatever the providers answer or fail to answer, however late, and whatever the
\* other tasks, the deadline and the observers do: each step of a task uses up one
\* of the at most 3 * MaxAttempts + 1 steps executeTaskBatch and
\* ExecuteTaskWithRetry give it in a round, and nothing gives it more.
THEOREM TasksComeToTheirEnd == Spec => TasksGoOn
<1>1. TaskInv /\ TaskInv' /\ RoundsAreNumbers /\ [Next]_vars =>
        [UNCHANGED <<round, restarts>> =>
           \A t \in Tasks : UNCHANGED <<at[t], attempt[t], awaited[t], result[t]>>
                            \/ TaskLeft(t)' < TaskLeft(t)]_vars
  <2> SUFFICES ASSUME TaskInv, TaskInv', RoundsAreNumbers, [Next]_vars,
                      UNCHANGED <<round, restarts>>, NEW t \in Tasks
               PROVE  UNCHANGED <<at[t], attempt[t], awaited[t], result[t]>>
                      \/ TaskLeft(t)' < TaskLeft(t)
    OBVIOUS
  <2>1. ASSUME NEW u \in Tasks, TaskStep(u)
        PROVE  UNCHANGED <<at[t], attempt[t], awaited[t], result[t]>>
               \/ TaskLeft(t)' < TaskLeft(t)
    <3>1. CASE u = t
      BY <2>1, <3>1, TaskLowers
    <3>2. CASE u # t
      BY <2>1, <3>2, TaskMoves
    <3> QED BY <3>1, <3>2
  <2>2. CASE UNCHANGED vars \/ DeadlineStrikes \/ \E n \in DOMAIN calls : Goroutine(n)
    <3>1. UNCHANGED taskVars
      BY <2>2 DEF vars, DeadlineStrikes, Goroutine
    <3> QED BY <3>1 DEF taskVars
  <2>3. ~CommitRound
    BY DEF CommitRound, RoundsAreNumbers
  <2>4. ~Restart
    BY DEF Restart, TaskInv, TaskTypeOK
  <2> QED BY <2>1, <2>2, <2>3, <2>4 DEF Next
<1> QED BY <1>1, TaskInvariant, RoundsAreCounted, PTL DEF Spec, TasksGoOn
=============================================================================
