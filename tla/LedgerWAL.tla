------------------------------- MODULE LedgerWAL -------------------------------
(***************************************************************************)
(* The evidence ledger on disk (observer/ledger.go): the line file, the     *)
(* root checkpoint and the artifact manifest derived from it, written by    *)
(* several processes under one file lock. An Append repairs what an earlier *)
(* one left behind, appends its line, syncs it and rewrites the two derived *)
(* files. Any step may fail, a process may be killed between two steps, and *)
(* the machine may stop.                                                    *)
(*                                                                          *)
(* An entry is its identifier; the hash chain is injective, so the hash of  *)
(* an entry stands for the prefix of the ledger that ends with it and a     *)
(* root checkpoint, a count and a hash, is the prefix it covers. A rewrite  *)
(* through a renamed and synced temporary file is one step.                 *)
(*                                                                          *)
(* A complete line that an Append wrote and could not sync is an entry to   *)
(* the next one, which does not sync it either: it writes the root over it, *)
(* and returns it as committed to a caller who tries again.                 *)
(***************************************************************************)
EXTENDS Naturals, Sequences, FiniteSets

CONSTANTS Processes,     \* processes, and LedgerWriter values, of one ledger
          Ids,           \* identifiers of evidence entries
          WithArtifact,  \* those whose entry carries an artifact
          Old,           \* the entry of a ledger without hashes
          NoRoot,        \* no root checkpoint exists
          NoProcess,     \* nobody holds the lock
          MaxFaults      \* bound: failed steps, killed processes and power losses

ASSUME LedgerAssumption == /\ WithArtifact \subseteq Ids
                           /\ Old \in Ids
                           /\ NoRoot \notin Seq(Ids)
                           /\ NoProcess \notin Processes
                           /\ MaxFaults \in Nat

VARIABLES
  lines,     \* the complete entries of the ledger file
  tail,      \* how the file ends: "clean", "open" (the last entry has no newline)
             \* or "torn" (an incomplete entry follows)
  hashed,    \* whether the entries carry hashes
  synced,    \* how many of the lines a power loss leaves
  root,      \* the root checkpoint
  manifest,  \* the artifact manifest
  lock,      \* who holds the exclusive file lock
  at,        \* where a process is in Append
  entry,     \* the identifier it appends
  state,     \* the entries it has read
  failed,    \* the identifier of its last Append, if that returned an error
  answered,  \* the identifiers whose Append wrote them and returned them as committed
  outcome,   \* how the last Append that held the lock ended
  faults,    \* failed steps and killed processes so far
  losses     \* power losses so far

ledgerFiles == <<lines, tail, hashed, synced, root, manifest>>
callers == <<lock, at, entry, state, failed, answered, outcome>>
ledgerVars == <<ledgerFiles, callers, faults, losses>>

Steps == {"idle", "rewrite", "repairRoot", "repairManifest", "write", "sync",
          "writeRoot", "writeManifest"}

Listed(s) == {s[i] : i \in 1 .. Len(s)}
IsPrefixOf(s, t) == /\ Len(s) <= Len(t)
                    /\ \A i \in 1 .. Len(s) : s[i] = t[i]
ArtifactsOf(s) == SelectSeq(s, LAMBDA id : id \in WithArtifact)

LedgerInit ==
  /\ \/ lines = <<>> /\ hashed = TRUE
     \/ lines = <<Old>> /\ hashed = FALSE
  /\ tail = "clean"
  /\ synced = Len(lines)
  /\ root = NoRoot
  /\ manifest = <<>>
  /\ lock = NoProcess
  /\ at = [p \in Processes |-> "idle"]
  /\ entry \in [Processes -> {Old}]
  /\ state = [p \in Processes |-> <<>>]
  /\ failed = [p \in Processes |-> {}]
  /\ answered = {}
  /\ outcome = "none"
  /\ faults = 0
  /\ losses = 0
-----------------------------------------------------------------------------
(* One Append                                                               *)

\* parseLedger with recovery never rejects what the writers leave; the root
\* must cover a prefix, and a ledger without hashes must have none.
Recoverable == root # NoRoot => hashed /\ IsPrefixOf(root, lines)
\* Verify accepts: nothing to recover and the root covers exactly the ledger.
Verified == /\ tail = "clean"
            /\ hashed => IF root = NoRoot THEN lines = <<>> ELSE root = lines

Release(p, how) == /\ lock' = NoProcess
                   /\ at' = [at EXCEPT ![p] = "idle"]
                   /\ outcome' = how

\* The entry an Append is for: a new one, or the one its last Append failed on.
Fresh(id) == /\ id # Old
             /\ \A p \in Processes : id # entry[p] /\ id \notin failed[p]
             /\ id \notin Listed(lines)
Begin(p, id) ==
  /\ at[p] = "idle" /\ lock = NoProcess
  /\ Fresh(id) \/ id \in failed[p]
  /\ entry' = [entry EXCEPT ![p] = id]
  /\ IF Recoverable
     THEN /\ lock' = p
          /\ at' = [at EXCEPT ![p] = "rewrite"]
          /\ state' = [state EXCEPT ![p] = lines]
          /\ UNCHANGED <<failed, outcome>>
     ELSE /\ failed' = [failed EXCEPT ![p] = {id}]
          /\ outcome' = "refused"
          /\ UNCHANGED <<lock, at, state>>
  /\ UNCHANGED <<ledgerFiles, answered, faults, losses>>

GoesTo(p, step) == /\ at' = [at EXCEPT ![p] = step]
                   /\ UNCHANGED <<lock, entry, failed, answered, outcome, faults, losses>>

\* Mutant: a complete last entry without its newline is left as it is.
RewriteTorn(p) ==
  /\ at[p] = "rewrite"
  /\ IF tail = "torn" \/ ~hashed
     THEN lines' = state[p] /\ tail' = "clean" /\ hashed' = TRUE /\ synced' = Len(state[p])
     ELSE UNCHANGED <<lines, tail, hashed, synced>>
  /\ GoesTo(p, "repairRoot")
  /\ UNCHANGED <<root, manifest, state>>

\* A torn or open tail, or a ledger without hashes, is rewritten as a whole.
Rewrite(p) ==
  /\ at[p] = "rewrite"
  /\ IF tail # "clean" \/ ~hashed
     THEN lines' = state[p] /\ tail' = "clean" /\ hashed' = TRUE /\ synced' = Len(state[p])
     ELSE UNCHANGED <<lines, tail, hashed, synced>>
  /\ GoesTo(p, "repairRoot")
  /\ UNCHANGED <<root, manifest, state>>

RepairRoot(p) == /\ at[p] = "repairRoot"
                 /\ root' = state[p]
                 /\ GoesTo(p, "repairManifest")
                 /\ UNCHANGED <<lines, tail, hashed, synced, manifest, state>>

RepairManifest(p) == /\ at[p] = "repairManifest"
                     /\ manifest' = ArtifactsOf(state[p])
                     /\ GoesTo(p, "write")
                     /\ UNCHANGED <<lines, tail, hashed, synced, root, state>>

Returns(p) == /\ failed' = [failed EXCEPT ![p] = {}]
              /\ Release(p, "committed")

\* findExistingEntry: the entry is already there, synced or not.
FoundExisting(p) == /\ at[p] = "write" /\ entry[p] \in Listed(state[p])
                    /\ Returns(p)
                    /\ UNCHANGED <<ledgerFiles, entry, state, answered, faults, losses>>

\* Mutants: the root is written before the line; an entry is appended without
\* looking for it.
AppendLineRootFirst(p) ==
  /\ at[p] = "write" /\ entry[p] \notin Listed(state[p])
  /\ lines' = Append(lines, entry[p])
  /\ root' = lines'
  /\ GoesTo(p, "sync")
  /\ UNCHANGED <<tail, hashed, synced, manifest, state>>
AppendLineAgain(p) ==
  /\ at[p] = "write"
  /\ lines' = Append(lines, entry[p])
  /\ GoesTo(p, "sync")
  /\ UNCHANGED <<tail, hashed, synced, root, manifest, state>>

AppendLine(p) ==
  /\ at[p] = "write" /\ entry[p] \notin Listed(state[p])
  /\ lines' = Append(lines, entry[p])
  /\ GoesTo(p, "sync")
  /\ UNCHANGED <<tail, hashed, synced, root, manifest, state>>

SyncLine(p) == /\ at[p] = "sync"
               /\ synced' = Len(lines)
               /\ state' = [state EXCEPT ![p] = Append(@, entry[p])]
               /\ GoesTo(p, "writeRoot")
               /\ UNCHANGED <<lines, tail, hashed, root, manifest>>

WriteRoot(p) == /\ at[p] = "writeRoot"
                /\ root' = state[p]
                /\ GoesTo(p, "writeManifest")
                /\ UNCHANGED <<lines, tail, hashed, synced, manifest, state>>

WriteManifest(p) == /\ at[p] = "writeManifest"
                    /\ manifest' = ArtifactsOf(state[p])
                    /\ answered' = answered \cup {entry[p]}
                    /\ Returns(p)
                    /\ UNCHANGED <<lines, tail, hashed, synced, root, entry, state, faults, losses>>
-----------------------------------------------------------------------------
(* Faults                                                                   *)

FaultsLeft == faults + losses < MaxFaults

\* What a write that did not complete leaves at the end of the file.
PartialWrite(p) ==
  \/ UNCHANGED <<lines, tail>>
  \/ tail' = "torn" /\ UNCHANGED lines
  \/ tail' = "open" /\ lines' = Append(lines, entry[p])

Stopped(p) == /\ IF at[p] = "write" /\ entry[p] \notin Listed(state[p])
                 THEN PartialWrite(p) ELSE UNCHANGED <<lines, tail>>
              /\ faults' = faults + 1
              /\ UNCHANGED <<hashed, synced, root, manifest, entry, state, answered, losses>>

\* A step returns an error, and so does Append.
StepFails(p) == /\ at[p] # "idle" /\ FaultsLeft
                /\ Stopped(p)
                /\ failed' = [failed EXCEPT ![p] = {entry[p]}]
                /\ Release(p, "failed")

\* The process is killed: the lock is released with it, its successor knows
\* nothing of the entry.
Killed(p) == /\ at[p] # "idle" /\ FaultsLeft
             /\ Stopped(p)
             /\ failed' = [failed EXCEPT ![p] = {}]
             /\ Release(p, "killed")

\* The machine stops: of the lines that are not synced, whoever wrote them, the
\* first few survive, the last of them perhaps without its newline, and perhaps a
\* part of the line after them.
PowerLoss ==
  /\ FaultsLeft
  /\ \E n \in synced .. Len(lines) :
       /\ lines' = SubSeq(lines, 1, n)
       /\ synced' = n
       /\ \/ n = Len(lines) /\ tail' = tail
          \/ n < Len(lines) /\ tail' \in {"clean", "torn"}
          \/ n > synced /\ tail' = "open"
  /\ losses' = losses + 1
  /\ lock' = NoProcess
  /\ at' = [p \in Processes |-> "idle"]
  /\ failed' = [p \in Processes |-> {}]
  /\ outcome' = "killed"
  /\ UNCHANGED <<hashed, root, manifest, entry, state, answered, faults>>

Step(p) == \/ \E id \in Ids : Begin(p, id)
           \/ Rewrite(p) \/ RepairRoot(p) \/ RepairManifest(p) \/ FoundExisting(p)
           \/ AppendLine(p) \/ SyncLine(p) \/ WriteRoot(p) \/ WriteManifest(p)

LedgerNext == (\E p \in Processes : Step(p) \/ StepFails(p) \/ Killed(p)) \/ PowerLoss

LedgerSpec == LedgerInit /\ [][LedgerNext]_ledgerVars

-----------------------------------------------------------------------------
(* Properties                                                               *)

\* The variables range over their types, and the lock is held by exactly the
\* process that is inside Append (withLedgerLock).
LedgerTypeOK ==
  /\ lines \in Seq(Ids) /\ tail \in {"clean", "open", "torn"} /\ hashed \in BOOLEAN
  /\ synced \in 0 .. Len(lines)
  /\ root \in Seq(Ids) \cup {NoRoot}
  /\ manifest \in {<<>>} \cup {ArtifactsOf(s) : s \in Seq(Ids)}
  /\ at \in [Processes -> Steps] /\ entry \in [Processes -> Ids]
  /\ state \in [Processes -> Seq(Ids)] /\ failed \in [Processes -> SUBSET Ids]
  /\ answered \subseteq Ids /\ faults \in Nat /\ losses \in Nat
  /\ faults + losses <= MaxFaults
  /\ outcome \in {"none", "committed", "failed", "killed", "refused"}
  /\ lock \in Processes \cup {NoProcess}
  /\ \A p \in Processes : lock = p <=> at[p] # "idle"

Unsynced == SubSeq(lines, synced + 1, Len(lines))
\* Lines that are not synced and whose Append failed or was killed: nobody is
\* about to sync them.
Abandoned == Listed(Unsynced) \ {entry[p] : p \in {q \in Processes : at[q] = "sync"}}

\* The root checkpoint never runs ahead of the ledger (validateRecoverableRoot would
\* call it truncated for ever), whatever steps fail and whoever is killed. A loss of
\* power alone can bring that about, and only by taking lines that an earlier Append
\* left unsynced and a later one accepted; the line being appended is never covered.
RefusedOnlyAfterLoss ==
  [][Recoverable =>
       \/ Recoverable'
       \/ /\ losses' # losses /\ root' = root /\ IsPrefixOf(lines', root)
          /\ \A i \in Len(lines') + 1 .. Len(root) : lines[i] \in Abandoned]_ledgerVars

\* When an Append returned an entry as committed, the files it leaves pass
\* Verify, which recovers nothing, and the manifest lists every artifact.
CommittedVerifies ==
  lock = NoProcess /\ outcome = "committed" => Verified /\ manifest = ArtifactsOf(lines)

\* Through torn writes, kills, power losses and retries the synced lines are a log
\* that only grows, in which no entry appears twice and in which an entry stays once
\* the Append that wrote it returned it as committed; a line that is not synced is
\* lost to nothing but a loss of power.
Log == INSTANCE EvidenceLog WITH log <- SubSeq(lines, 1, synced), pending <- Unsynced
ImplementsLog == Log!LogSpec
=============================================================================
