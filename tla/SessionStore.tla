----------------------------- MODULE SessionStore ------------------------------
(***************************************************************************)
(* The snapshot of one session in the store (store/file, store/memory) and  *)
(* the engines that write it: Save, Load and Patch, each a read-modify-     *)
(* write under the store's lock, called by Start, Resume, advancePhase,     *)
(* failSession and the checkpoints, together with the evidence the engines  *)
(* append to the ledger. The ledger is a log that only grows, which is what *)
(* EvidenceLog promises and LedgerWAL implements.                           *)
(*                                                                          *)
(* Nothing stops two processes from resuming one session, and an engine may *)
(* fail or die between any two steps. Of a snapshot only the version, the   *)
(* evidence, its cursor, the number of committed steps (the checkpoint) and *)
(* the count of resumes are kept. A step of the workflow appends one piece  *)
(* of evidence and then commits; the phase changes between them store the   *)
(* cursor alone, and a resume stores the evidence without the checkpoint.   *)
(***************************************************************************)
EXTENDS Naturals, Sequences, FiniteSets, SequencesExt

CONSTANTS Engines,    \* processes that start or resume the session
          NoSession,  \* the store has no snapshot
          Nobody,     \* nobody holds the store's lock
          MaxSteps,   \* bound: steps of the workflow
          MaxKills,   \* bound: engines that fail or die
          MaxLog,     \* bound: entries of the ledger
          MaxVersion  \* bound: the version up to which a phase change is stored

ASSUME StoreAssumption == /\ Nobody \notin Engines
                          /\ MaxSteps \in Nat /\ MaxKills \in Nat /\ MaxLog \in Nat
                          /\ MaxVersion \in Nat

VARIABLES
  file,       \* the snapshot in the store
  storeLock,  \* who holds the exclusive lock of the store
  log,        \* the evidence in the ledger: the step it is for and its number
  live,       \* the engines that are running the session
  doing,      \* "running", "patching" (waiting for the lock) or "writing" (holding it)
  run,        \* what an engine holds in memory: the evidence, how much of it is older
              \* than the step under way, the cursor and the steps
  patch,      \* the fields of the patch it is storing
  read,       \* the snapshot it read inside Patch
  saves,      \* whether the failure handler stores the evidence: in a debate and a
              \* Delphi session it does, in an adjudication it does not
  overlapped, \* whether an engine entered while another ran the session
  kills

vars == <<file, storeLock, log, live, doing, run, patch, read, saves, overlapped, kills>>

Evidence == [step : 1 .. MaxSteps, n : 1 .. MaxLog]
Snapshots == [version : Nat, entries : Seq(Evidence), cursor : Nat,
              step : 0 .. MaxSteps, resumes : Nat]
ASSUME NoSessionAssumption == NoSession \notin Snapshots
Runs == [entries : Seq(Evidence), mark : Nat, cursor : Nat, step : 0 .. MaxSteps, resumes : Nat]
\* "failure" stands for the result, error and time that failSession stores.
Fields == {"entries", "cursor", "step", "resumes", "failure"}

NoRun == [entries |-> <<>>, mark |-> 0, cursor |-> 0, step |-> 0, resumes |-> 0]
Empty(version) ==
  [version |-> version, entries |-> <<>>, cursor |-> 0, step |-> 0, resumes |-> 0]

Init == /\ file = NoSession
        /\ storeLock = Nobody
        /\ log = <<>>
        /\ live = {}
        /\ doing = [e \in Engines |-> "running"]
        /\ run = [e \in Engines |-> NoRun]
        /\ patch = [e \in Engines |-> {}]
        /\ read = [e \in Engines |-> Empty(0)]
        /\ saves \in BOOLEAN
        /\ overlapped = FALSE
        /\ kills = 0
-----------------------------------------------------------------------------
(* The store's operations                                                   *)

\* A nil field of the patch keeps what the snapshot has, and a list without
\* evidence is nil; the version counts up.
Patched(snapshot, fields, r) ==
  [version |-> snapshot.version + 1,
   entries |-> IF "entries" \in fields /\ r.entries # <<>> THEN r.entries ELSE snapshot.entries,
   cursor  |-> IF "cursor" \in fields THEN r.cursor ELSE snapshot.cursor,
   step    |-> IF "step" \in fields THEN r.step ELSE snapshot.step,
   resumes |-> IF "resumes" \in fields THEN r.resumes ELSE snapshot.resumes]

AskPatch(e, fields) == /\ patch' = [patch EXCEPT ![e] = fields]
                       /\ doing' = [doing EXCEPT ![e] = "patching"]

PatchRead(e) == /\ doing[e] = "patching" /\ storeLock = Nobody
                /\ storeLock' = e
                /\ read' = [read EXCEPT ![e] = file]
                /\ doing' = [doing EXCEPT ![e] = "writing"]
                /\ UNCHANGED <<file, log, live, run, patch, saves, overlapped, kills>>

\* Memory does not outlive an engine.
Leaves(e) == /\ live' = live \ {e}
             /\ run' = [run EXCEPT ![e] = NoRun]

\* The temporary file replaces the snapshot and the lock is released; an engine
\* that failed is through.
PatchWrite(e) == /\ doing[e] = "writing"
                 /\ file' = Patched(read[e], patch[e], run[e])
                 /\ storeLock' = Nobody
                 /\ doing' = [doing EXCEPT ![e] = "running"]
                 /\ patch' = [patch EXCEPT ![e] = {}]
                 /\ read' = [read EXCEPT ![e] = Empty(0)]
                 /\ IF "failure" \in patch[e] THEN Leaves(e) ELSE UNCHANGED <<live, run>>
                 /\ UNCHANGED <<log, saves, overlapped, kills>>
-----------------------------------------------------------------------------
(* The engines                                                              *)

Enters(e) == /\ live' = live \cup {e}
             /\ overlapped' = (overlapped \/ live # {})
             /\ UNCHANGED saves

\* beginWorkflow saves a new session.
Start(e) == /\ file = NoSession /\ live = {} /\ storeLock = Nobody
            /\ file' = Empty(1)
            /\ run' = [run EXCEPT ![e] = NoRun]
            /\ Enters(e)
            /\ UNCHANGED <<storeLock, log, doing, patch, read, kills>>

\* Resume loads the snapshot and restores the run from it; with the count of
\* resumes it stores the evidence again, as old as it is by then, and leaves the
\* checkpoint alone. Load waits for the lock, but releases it before that patch.
Resume(e) ==
  /\ e \notin live /\ file # NoSession /\ storeLock = Nobody
  /\ file.step < MaxSteps
  /\ run' = [run EXCEPT ![e] = [entries |-> file.entries, mark |-> Len(file.entries),
                                cursor |-> file.cursor, step |-> file.step,
                                resumes |-> file.resumes + 1]]
  /\ AskPatch(e, {"entries", "cursor", "resumes"})
  /\ Enters(e)
  /\ UNCHANGED <<file, storeLock, log, read, kills>>

Idle(e) == e \in live /\ doing[e] = "running"

\* The step under way has its evidence from this engine: what a resumed engine finds
\* in the snapshot does not count.
Evidenced(e) == Len(run[e].entries) > run[e].mark

\* The failure handlers store the cursor, and in a debate and a Delphi session the
\* evidence of the step under way just before; then the engine returns.
FailureFields == {"cursor", "failure"} \cup (IF saves THEN {"entries"} ELSE {})

Fails(e) == /\ Idle(e) /\ kills < MaxKills
            /\ AskPatch(e, FailureFields)
            /\ kills' = kills + 1
            /\ UNCHANGED <<file, storeLock, log, live, run, read, saves, overlapped>>

\* Mutant: the engine uses evidence the ledger refused.
AppendEvidenceRefused(e) ==
  /\ Idle(e) /\ run[e].step < MaxSteps /\ ~Evidenced(e) /\ Len(log) < MaxLog
  /\ LET new == [step |-> run[e].step + 1, n |-> Len(log) + 1]
     IN /\ log' \in {log, Append(log, new)}
        /\ run' = [run EXCEPT ![e].entries = Append(@, new), ![e].cursor = @ + 1]
  /\ UNCHANGED <<file, storeLock, live, doing, patch, read, saves, overlapped, kills>>

\* appendEvidence: the entry gets a new identifier. If the ledger fails after the
\* entry is durable, the engine does not get to use it and fails.
AppendEvidence(e) ==
  /\ Idle(e) /\ run[e].step < MaxSteps /\ ~Evidenced(e) /\ Len(log) < MaxLog
  /\ LET new == [step |-> run[e].step + 1, n |-> Len(log) + 1]
     IN /\ log' = Append(log, new)
        /\ \/ /\ run' = [run EXCEPT ![e].entries = Append(@, new), ![e].cursor = @ + 1]
              /\ UNCHANGED <<doing, patch, kills>>
           \/ /\ kills < MaxKills /\ kills' = kills + 1
              /\ AskPatch(e, FailureFields)
              /\ UNCHANGED run
  /\ UNCHANGED <<file, storeLock, live, read, saves, overlapped>>

\* advancePhase stores the cursor without the evidence.
AdvancePhase(e) == /\ Idle(e)
                   /\ file.cursor # run[e].cursor /\ file.version < MaxVersion
                   /\ AskPatch(e, {"cursor"})
                   /\ UNCHANGED <<file, storeLock, log, live, run, read, saves, overlapped, kills>>

\* Mutant: a checkpoint that leaves out the evidence.
CommitStepAlone(e) ==
  /\ Idle(e) /\ run[e].step < MaxSteps /\ Evidenced(e)
  /\ run' = [run EXCEPT ![e].step = @ + 1, ![e].mark = Len(run[e].entries)]
  /\ AskPatch(e, {"step", "cursor"})
  /\ UNCHANGED <<file, storeLock, log, live, read, saves, overlapped, kills>>

\* A checkpoint (patchRunState): the evidence, the cursor and the step together.
CommitStep(e) ==
  /\ Idle(e) /\ run[e].step < MaxSteps /\ Evidenced(e)
  /\ run' = [run EXCEPT ![e].step = @ + 1, ![e].mark = Len(run[e].entries)]
  /\ AskPatch(e, {"step", "entries", "cursor"})
  /\ UNCHANGED <<file, storeLock, log, live, read, saves, overlapped, kills>>

Finish(e) == /\ Idle(e) /\ run[e].step = MaxSteps
             /\ Leaves(e)
             /\ UNCHANGED <<file, storeLock, log, doing, patch, read, saves, overlapped, kills>>

\* A process dies anywhere; the lock goes with it and the snapshot is the old
\* one or the new one.
Kill(e) == /\ e \in live /\ kills < MaxKills
           /\ Leaves(e)
           /\ doing' = [doing EXCEPT ![e] = "running"]
           /\ patch' = [patch EXCEPT ![e] = {}]
           /\ read' = [read EXCEPT ![e] = Empty(0)]
           /\ storeLock' = IF storeLock = e THEN Nobody ELSE storeLock
           /\ kills' = kills + 1
           /\ UNCHANGED <<file, log, saves, overlapped>>

Work(e) == \/ PatchRead(e) \/ PatchWrite(e)
           \/ AppendEvidence(e) \/ AdvancePhase(e) \/ CommitStep(e) \/ Finish(e) \/ Fails(e)
Next == \E e \in Engines : Start(e) \/ Resume(e) \/ Work(e) \/ Kill(e)

Spec == Init /\ [][Next]_vars
-----------------------------------------------------------------------------
(* Properties                                                               *)

\* The variables range over their types; the lock is held by exactly the engine
\* that is inside Patch.
StoreTypeOK ==
  /\ file \in Snapshots \cup {NoSession}
  /\ log \in Seq(Evidence) /\ Len(log) <= MaxLog /\ live \subseteq Engines
  /\ run \in [Engines -> Runs] /\ read \in [Engines -> Snapshots]
  /\ doing \in [Engines -> {"running", "patching", "writing"}]
  /\ patch \in [Engines -> SUBSET Fields]
  /\ saves \in BOOLEAN /\ overlapped \in BOOLEAN /\ kills \in 0 .. MaxKills
  /\ storeLock \in Engines \cup {Nobody}
  /\ \A e \in Engines : storeLock = e <=> doing[e] = "writing"

\* The evidence of a snapshot is in the ledger, each piece once and in the order
\* of the ledger, however many engines store it and whenever they die.
EvidenceBacked ==
  file # NoSession =>
    \A i \in 1 .. Len(file.entries) :
      /\ file.entries[i] \in {log[j] : j \in 1 .. Len(log)}
      /\ \A j \in 1 .. i - 1 : file.entries[j].n < file.entries[i].n

\* Engines that run the session together overwrite each other's snapshot, a resume
\* puts old evidence under a new checkpoint: the snapshot can lack the evidence of
\* a committed step. The ledger never does, and has the steps in their order.
StepsInLedger ==
  file # NoSession =>
    \A k \in 1 .. file.step :
      \E j \in 1 .. Len(log) :
        /\ log[j].step = k
        /\ \A m \in 1 .. k - 1 : \E i \in 1 .. j - 1 : log[i].step = m

Pieces(k) == {i \in 1 .. Len(file.entries) : file.entries[i].step = k}

\* Of a session that is never run by two engines at once every committed step has
\* its evidence in the snapshot, wherever an engine dies or fails; exactly one
\* piece, although a step that was cut short is repeated and leaves more in the
\* ledger, unless the failure handler stores the evidence of such a step.
StepsInSnapshot ==
  file # NoSession /\ ~overlapped =>
    \A k \in 1 .. file.step :
      /\ Pieces(k) # {}
      /\ ~saves => Cardinality(Pieces(k)) = 1

\* Every committed step is accounted for: in the ledger whoever runs the session, and
\* in the snapshot where it is run by one engine at a time (patchRunState).
StepsAccounted == StepsInLedger /\ StepsInSnapshot
=============================================================================
