-------------------------- MODULE Persistence_proofs --------------------------
(***************************************************************************)
(* What holds of the two things a session leaves on disk, and of the       *)
(* configuration files and the requests that are made of them.             *)
(*                                                                         *)
(* The evidence ledger, for any number of processes, entries and faults:   *)
(* an Append is refused only after a loss of power took lines that the     *)
(* root covered, what an Append reported as committed passes Verify at     *)
(* that moment, and the files implement EvidenceLog, losses included.      *)
(*                                                                         *)
(* The stored session, for any number of engines, together or one after    *)
(* the other, and of deaths: its evidence is that of the ledger, in its    *)
(* order; the ledger has every committed step; and as long as engines do   *)
(* not overlap, the snapshot has the evidence of every committed step.     *)
(*                                                                         *)
(* The run command, for any files, profiles, inputs, flags and commands:   *)
(* criteria are those of the mode, and agents are ones that can be used.   *)
(***************************************************************************)
EXTENDS LedgerWAL, SessionStore, RunCommand, SequenceTheorems, FiniteSetTheorems,
        WellFoundedInduction, TLAPS

-----------------------------------------------------------------------------
(* The evidence ledger.                                                    *)

\* What the process that holds the lock knows of the files at each step.
Known(p) ==
  /\ at[p] # "idle" => Recoverable
  /\ at[p] \in {"rewrite", "repairRoot", "repairManifest", "write", "writeRoot", "writeManifest"} =>
       state[p] = lines
  /\ at[p] = "sync" => /\ lines = Append(state[p], entry[p])
                       /\ entry[p] \notin Listed(state[p])
  /\ at[p] \notin {"idle", "rewrite"} => tail = "clean" /\ hashed
  /\ at[p] \in {"repairManifest", "write", "sync", "writeManifest"} => root = state[p]
  /\ at[p] = "write" => manifest = ArtifactsOf(state[p])
  /\ at[p] \in {"writeRoot", "writeManifest"} => entry[p] \in Listed(lines) /\ synced = Len(lines)

\* The inductive invariant. Between two Appends nothing is known of the root: a loss
\* of power can leave it ahead of the lines.
LedgerInv == LedgerTypeOK /\ \A p \in Processes : Known(p)

-----------------------------------------------------------------------------
(* Sequences.                                                              *)

LEMMA AppendFacts ==
  ASSUME NEW s \in Seq(Ids), NEW e \in Ids
  PROVE  /\ Append(s, e) \in Seq(Ids) /\ Len(Append(s, e)) = Len(s) + 1
         /\ SubSeq(Append(s, e), 1, Len(Append(s, e)) - 1) = s
         /\ SubSeq(Append(s, e), 1, Len(s)) = s
         /\ IsPrefixOf(s, Append(s, e))
         /\ e \in Listed(Append(s, e))
<1>1. /\ Append(s, e) \in Seq(Ids) /\ Len(Append(s, e)) = Len(s) + 1
      /\ \A i \in 1 .. Len(s) : Append(s, e)[i] = s[i]
      /\ Append(s, e)[Len(s) + 1] = e
  OBVIOUS
<1>2. SubSeq(Append(s, e), 1, Len(s)) = s
  OBVIOUS
<1>3. Len(s) \in Nat
  OBVIOUS
<1> QED BY <1>1, <1>2, <1>3 DEF IsPrefixOf, Listed

LEMMA PrefixFacts ==
  ASSUME NEW r \in Seq(Ids), NEW s \in Seq(Ids), NEW e \in Ids
  PROVE  /\ IsPrefixOf(s, s)
         /\ IsPrefixOf(r, s) => IsPrefixOf(r, Append(s, e))
  BY DEF IsPrefixOf

\* A sequence cut after its first n.
LEMMA SplitFacts ==
  ASSUME NEW s \in Seq(Ids), NEW n \in 0 .. Len(s)
  PROVE  /\ SubSeq(s, 1, n) \in Seq(Ids) /\ Len(SubSeq(s, 1, n)) = n
         /\ \A i \in 1 .. n : SubSeq(s, 1, n)[i] = s[i]
         /\ SubSeq(s, n + 1, Len(s)) \in Seq(Ids)
         /\ Len(SubSeq(s, n + 1, Len(s))) = Len(s) - n
         /\ \A i \in 1 .. Len(s) - n : SubSeq(s, n + 1, Len(s))[i] = s[n + i]
<1>1. Len(s) \in Nat /\ n \in Nat /\ n <= Len(s)
  OBVIOUS
<1>2. \A i \in 1 .. Len(s) : s[i] \in Ids
  OBVIOUS
<1>3. SubSeq(s, 1, n) = [i \in 1 .. n |-> s[i]]
  BY <1>1
<1>4. SubSeq(s, n + 1, Len(s)) = [i \in 1 .. Len(s) - n |-> s[n + i]]
  BY <1>1
<1> QED BY <1>1, <1>2, <1>3, <1>4

LEMMA SplitListed ==
  ASSUME NEW s \in Seq(Ids), NEW n \in 0 .. Len(s)
  PROVE  Listed(SubSeq(s, 1, n)) \cup Listed(SubSeq(s, n + 1, Len(s))) = Listed(s)
<1> DEFINE a == SubSeq(s, 1, n)
           b == SubSeq(s, n + 1, Len(s))
<1>1. /\ Len(a) = n /\ Len(b) = Len(s) - n /\ Len(s) \in Nat /\ n \in Nat /\ n <= Len(s)
      /\ \A i \in 1 .. n : a[i] = s[i]
      /\ \A i \in 1 .. Len(s) - n : b[i] = s[n + i]
  BY SplitFacts
<1> HIDE DEF a, b
<1>2. ASSUME NEW i \in 1 .. Len(s) PROVE s[i] \in Listed(a) \cup Listed(b)
  <2>1. CASE i <= n
    BY <1>1, <2>1 DEF Listed
  <2>2. CASE i > n
    <3>1. i - n \in 1 .. Len(b) /\ b[i - n] = s[i]
      BY <1>1, <2>2
    <3> QED BY <3>1 DEF Listed
  <2> QED BY <1>1, <2>1, <2>2
<1>3. Listed(a) \subseteq Listed(s)
  BY <1>1 DEF Listed
<1>4. Listed(b) \subseteq Listed(s)
  <2>1. ASSUME NEW i \in 1 .. Len(b) PROVE b[i] \in Listed(s)
    <3>1. n + i \in 1 .. Len(s) /\ b[i] = s[n + i]
      BY <1>1
    <3> QED BY <3>1 DEF Listed
  <2> QED BY <2>1 DEF Listed
<1>5. Listed(s) \subseteq Listed(a) \cup Listed(b)
  BY <1>2 DEF Listed
<1> QED BY <1>3, <1>4, <1>5 DEF a, b

\* The first m are the first n and those up to m of the others.
LEMMA SplitMore ==
  ASSUME NEW s \in Seq(Ids), NEW n \in 0 .. Len(s), NEW m \in n .. Len(s)
  PROVE  /\ SubSeq(s, 1, m) = SubSeq(s, 1, n) \o SubSeq(SubSeq(s, n + 1, Len(s)), 1, m - n)
         /\ m - n \in 0 .. Len(SubSeq(s, n + 1, Len(s)))
<1> DEFINE a == SubSeq(s, 1, n)
           b == SubSeq(s, n + 1, Len(s))
<1>1. /\ a \in Seq(Ids) /\ b \in Seq(Ids) /\ Len(a) = n /\ Len(b) = Len(s) - n
      /\ Len(s) \in Nat /\ n \in Nat /\ m \in Nat /\ n <= m /\ m <= Len(s)
      /\ \A i \in 1 .. n : a[i] = s[i]
      /\ \A i \in 1 .. Len(s) - n : b[i] = s[n + i]
  BY SplitFacts
<1> HIDE DEF a, b
<1>2. m - n \in 0 .. Len(b)
  BY <1>1
<1> DEFINE c == SubSeq(b, 1, m - n)
<1>3. /\ c \in Seq(Ids) /\ Len(c) = m - n
      /\ \A i \in 1 .. m - n : c[i] = b[i]
  BY <1>1, <1>2, SplitFacts
<1> HIDE DEF c
<1>4. /\ a \o c \in Seq(Ids) /\ Len(a \o c) = m
      /\ \A i \in 1 .. m : (a \o c)[i] = IF i <= n THEN a[i] ELSE c[i - n]
  <2>1. a \in Seq(Ids) /\ c \in Seq(Ids) /\ Len(a) = n /\ Len(c) = m - n
    BY <1>1, <1>3
  <2>2. n + (m - n) = m
    BY <1>1
  <2>3. /\ a \o c \in Seq(Ids) /\ Len(a \o c) = Len(a) + Len(c)
        /\ \A i \in 1 .. Len(a) + Len(c) :
             (a \o c)[i] = IF i <= Len(a) THEN a[i] ELSE c[i - Len(a)]
    BY <2>1, ConcatProperties
  <2> QED BY <2>1, <2>2, <2>3
<1>5. \A i \in 1 .. m : (a \o c)[i] = s[i]
  <2> TAKE i \in 1 .. m
  <2>1. CASE i <= n
    BY <1>1, <1>4, <2>1
  <2>2. CASE i > n
    <3>1. i - n \in 1 .. m - n /\ i - n \in 1 .. Len(s) - n /\ n + (i - n) = i
      BY <1>1, <2>2
    <3> QED BY <1>1, <1>3, <1>4, <2>2, <3>1
  <2>3. i <= n \/ i > n
    BY <1>1
  <2> QED BY <2>1, <2>2, <2>3
<1>6. SubSeq(s, 1, m) = a \o c
  <2>1. /\ SubSeq(s, 1, m) \in Seq(Ids) /\ Len(SubSeq(s, 1, m)) = m
        /\ \A i \in 1 .. m : SubSeq(s, 1, m)[i] = s[i]
    BY <1>1, SplitFacts
  <2> QED BY <1>4, <1>5, <2>1, SeqEqual
<1> QED BY <1>2, <1>6 DEF a, b, c

\* What follows the first n when one more is appended.
LEMMA SplitAppend ==
  ASSUME NEW s \in Seq(Ids), NEW e \in Ids, NEW n \in 0 .. Len(s)
  PROVE  /\ SubSeq(Append(s, e), 1, n) = SubSeq(s, 1, n)
         /\ SubSeq(Append(s, e), n + 1, Len(Append(s, e))) = Append(SubSeq(s, n + 1, Len(s)), e)
<1> DEFINE t == Append(s, e)
           b == SubSeq(s, n + 1, Len(s))
           c == SubSeq(t, n + 1, Len(t))
<1>1. /\ t \in Seq(Ids) /\ Len(t) = Len(s) + 1 /\ Len(s) \in Nat /\ n \in Nat /\ n <= Len(s)
      /\ \A i \in 1 .. Len(s) : t[i] = s[i]
      /\ t[Len(s) + 1] = e
  OBVIOUS
<1> HIDE DEF t
<1>2. n \in 0 .. Len(t)
  BY <1>1
<1>3. /\ b \in Seq(Ids) /\ Len(b) = Len(s) - n
      /\ \A i \in 1 .. Len(s) - n : b[i] = s[n + i]
      /\ c \in Seq(Ids) /\ Len(c) = Len(t) - n
      /\ \A i \in 1 .. Len(t) - n : c[i] = t[n + i]
      /\ SubSeq(t, 1, n) \in Seq(Ids) /\ Len(SubSeq(t, 1, n)) = n
      /\ SubSeq(s, 1, n) \in Seq(Ids) /\ Len(SubSeq(s, 1, n)) = n
      /\ \A i \in 1 .. n : SubSeq(t, 1, n)[i] = t[i] /\ SubSeq(s, 1, n)[i] = s[i]
  BY <1>1, <1>2, SplitFacts
<1>4. SubSeq(t, 1, n) = SubSeq(s, 1, n)
  <2>1. \A i \in 1 .. n : SubSeq(t, 1, n)[i] = SubSeq(s, 1, n)[i]
    BY <1>1, <1>3
  <2> QED BY <1>3, <2>1, SeqEqual
<1> HIDE DEF b, c
<1>5. c = Append(b, e)
  <2>1. /\ Append(b, e) \in Seq(Ids) /\ Len(Append(b, e)) = Len(b) + 1
        /\ \A i \in 1 .. Len(b) : Append(b, e)[i] = b[i]
        /\ Append(b, e)[Len(b) + 1] = e
    BY <1>3
  <2>2. Len(c) = Len(b) + 1 /\ Len(b) \in Nat
    BY <1>1, <1>3
  <2>3. \A i \in 1 .. Len(b) : c[i] = b[i]
    BY <1>1, <1>3
  <2>4. c[Len(b) + 1] = e
    <3>1. Len(b) + 1 \in 1 .. Len(t) - n /\ n + (Len(b) + 1) = Len(s) + 1
      BY <1>1, <1>3
    <3> QED BY <1>1, <1>3, <3>1
  <2>5. \A i \in 1 .. Len(c) : c[i] = Append(b, e)[i]
    BY <2>1, <2>2, <2>3, <2>4
  <2> QED BY <1>3, <2>1, <2>2, <2>5, SeqEqual
<1> QED BY <1>4, <1>5 DEF b, c, t

-----------------------------------------------------------------------------
(* Types and the lock.                                                     *)

\* Nobody else is inside Append.
LEMMA Alone ==
  ASSUME LedgerTypeOK, NEW p \in Processes, at[p] # "idle"
  PROVE  /\ lock = p
         /\ \A q \in Processes : q # p => at[q] = "idle"
  BY DEF LedgerTypeOK

LEMMA NobodyInside ==
  ASSUME LedgerTypeOK, lock = NoProcess
  PROVE  \A q \in Processes : at[q] = "idle"
  BY LedgerAssumption DEF LedgerTypeOK

\* The lock and the places after a step of its holder.
LEMMA MovesOn ==
  ASSUME LedgerTypeOK, NEW p \in Processes, at[p] # "idle",
         NEW step \in Steps \ {"idle"}, GoesTo(p, step)
  PROVE  /\ at' \in [Processes -> Steps] /\ entry' \in [Processes -> Ids]
         /\ failed' \in [Processes -> SUBSET Ids] /\ answered' \subseteq Ids
         /\ faults' = faults /\ losses' = losses
         /\ outcome' \in {"none", "committed", "failed", "killed", "refused"}
         /\ lock' \in Processes \cup {NoProcess}
         /\ \A q \in Processes : lock' = q <=> at'[q] # "idle"
         /\ at'[p] = step /\ entry'[p] = entry[p]
         /\ \A q \in Processes : q # p => at'[q] = "idle"
  BY Alone DEF GoesTo, LedgerTypeOK, Steps

LEMMA LetsGo ==
  ASSUME LedgerTypeOK, NEW p \in Processes, at[p] # "idle",
         NEW how \in {"committed", "failed", "killed"}, Release(p, how)
  PROVE  /\ at' \in [Processes -> Steps]
         /\ \A q \in Processes : at'[q] = "idle"
         /\ lock' = NoProcess
         /\ \A q \in Processes : lock' = q <=> at'[q] # "idle"
         /\ outcome' \in {"none", "committed", "failed", "killed", "refused"}
  BY Alone, LedgerAssumption DEF Release, LedgerTypeOK, Steps

-----------------------------------------------------------------------------
(* The inductive invariant.                                                *)

LEMMA LedgerStarts == LedgerInit => LedgerInv
<1> SUFFICES ASSUME LedgerInit PROVE LedgerInv
  OBVIOUS
<1>1. lines \in Seq(Ids) /\ synced \in 0 .. Len(lines)
  <2>1. CASE lines = <<>>
    BY <2>1 DEF LedgerInit
  <2>2. CASE lines = <<Old>>
    <3>1. <<Old>> \in Seq(Ids) /\ Len(<<Old>>) = 1
      BY LedgerAssumption
    <3> QED BY <2>2, <3>1 DEF LedgerInit
  <2> QED BY <2>1, <2>2 DEF LedgerInit
<1>2. LedgerTypeOK
  <2>1. hashed \in BOOLEAN /\ tail \in {"clean", "open", "torn"}
        /\ root \in Seq(Ids) \cup {NoRoot}
        /\ manifest \in {<<>>} \cup {ArtifactsOf(s) : s \in Seq(Ids)}
    BY DEF LedgerInit
  <2>2. at \in [Processes -> Steps] /\ entry \in [Processes -> Ids]
    BY LedgerAssumption DEF LedgerInit, Steps
  <2>3. state \in [Processes -> Seq(Ids)]
    BY DEF LedgerInit
  <2>4. failed \in [Processes -> SUBSET Ids] /\ answered \subseteq Ids
    BY DEF LedgerInit
  <2>5. \A p \in Processes : lock = p <=> at[p] # "idle"
    BY LedgerAssumption DEF LedgerInit
  <2>6. /\ faults \in Nat /\ losses \in Nat /\ faults + losses <= MaxFaults /\ lock \in Processes \cup {NoProcess}
        /\ outcome \in {"none", "committed", "failed", "killed", "refused"}
    BY LedgerAssumption DEF LedgerInit
  <2> QED BY <1>1, <2>1, <2>2, <2>3, <2>4, <2>5, <2>6 DEF LedgerTypeOK
<1>3. \A p \in Processes : Known(p)
  BY DEF LedgerInit, Known
<1> QED BY <1>2, <1>3 DEF LedgerInv

\* When everybody is outside there is nothing to know.
LEMMA NothingKnown ==
  ASSUME \A p \in Processes : at'[p] = "idle"
  PROVE  \A p \in Processes : Known(p)'
  BY DEF Known

LEMMA BeginKeeps ==
  ASSUME LedgerInv, NEW p \in Processes, NEW id \in Ids, Begin(p, id)
  PROVE  LedgerInv'
<1> USE DEF LedgerInv
<1>1. entry' \in [Processes -> Ids] /\ UNCHANGED <<ledgerFiles, answered, faults, losses>>
  BY DEF Begin, LedgerTypeOK
<1>2. \A q \in Processes : at[q] = "idle"
  BY NobodyInside DEF Begin
<1>3. CASE Recoverable
  <2>1. /\ lock' = p /\ at' = [at EXCEPT ![p] = "rewrite"]
        /\ state' = [state EXCEPT ![p] = lines] /\ UNCHANGED <<failed, outcome>>
    BY <1>3 DEF Begin
  <2>2. LedgerTypeOK'
    BY <1>1, <1>2, <2>1 DEF LedgerTypeOK, Steps, ledgerFiles
  <2>3. /\ state'[p] = lines' /\ at'[p] = "rewrite"
        /\ \A q \in Processes : q # p => at'[q] = "idle"
    BY <1>1, <1>2, <2>1 DEF LedgerTypeOK, ledgerFiles
  <2>4. Recoverable'
    BY <1>1, <1>3 DEF Recoverable, ledgerFiles
  <2>5. \A q \in Processes : Known(q)'
    BY <2>3, <2>4 DEF Known
  <2> QED BY <2>2, <2>5
<1>4. CASE ~Recoverable
  <2>1. /\ failed' = [failed EXCEPT ![p] = {id}] /\ outcome' = "refused"
        /\ UNCHANGED <<lock, at, state>>
    BY <1>4 DEF Begin
  <2>2. LedgerTypeOK'
    BY <1>1, <2>1 DEF LedgerTypeOK, ledgerFiles
  <2>3. \A q \in Processes : Known(q)'
    BY <1>2, <2>1, NothingKnown
  <2> QED BY <2>2, <2>3
<1> QED BY <1>3, <1>4

LEMMA RewriteKeeps ==
  ASSUME LedgerInv, NEW p \in Processes, Rewrite(p)
  PROVE  LedgerInv'
<1> USE DEF LedgerInv
<1>1. /\ at[p] = "rewrite" /\ GoesTo(p, "repairRoot") /\ UNCHANGED <<root, manifest, state>>
      /\ state[p] = lines /\ lines \in Seq(Ids)
  BY DEF Rewrite, Known, LedgerTypeOK
<1>2. lines' = lines /\ tail' = "clean" /\ hashed' /\ synced' \in 0 .. Len(lines)
  <2>1. CASE tail # "clean" \/ ~hashed
    <3>1. Len(lines) \in Nat
      BY <1>1
    <3> QED BY <1>1, <2>1, <3>1 DEF Rewrite
  <2>2. CASE tail = "clean" /\ hashed
    BY <2>2 DEF Rewrite, LedgerTypeOK
  <2> QED BY <2>1, <2>2
<1>3. LedgerTypeOK'
  BY <1>1, <1>2, MovesOn DEF LedgerTypeOK, Steps
<1>4. Recoverable'
  BY <1>1, <1>2 DEF Recoverable, Known
<1>5. \A q \in Processes : Known(q)'
  BY <1>1, <1>2, <1>4, MovesOn DEF Known, Steps
<1> QED BY <1>3, <1>5

LEMMA RepairRootKeeps ==
  ASSUME LedgerInv, NEW p \in Processes, RepairRoot(p)
  PROVE  LedgerInv'
<1> USE DEF LedgerInv
<1>1. /\ at[p] = "repairRoot" /\ GoesTo(p, "repairManifest")
      /\ UNCHANGED <<lines, tail, hashed, synced, manifest, state>>
      /\ state[p] = lines /\ root' = lines /\ lines \in Seq(Ids) /\ tail = "clean" /\ hashed
  BY DEF RepairRoot, Known, LedgerTypeOK
<1>2. LedgerTypeOK'
  BY <1>1, MovesOn DEF LedgerTypeOK, Steps
<1>3. Recoverable'
  BY <1>1, PrefixFacts DEF Recoverable, IsPrefixOf
<1>4. \A q \in Processes : Known(q)'
  BY <1>1, <1>3, MovesOn DEF Known, Steps
<1> QED BY <1>2, <1>4

LEMMA RepairManifestKeeps ==
  ASSUME LedgerInv, NEW p \in Processes, RepairManifest(p)
  PROVE  LedgerInv'
<1> USE DEF LedgerInv
<1>1. /\ at[p] = "repairManifest" /\ GoesTo(p, "write")
      /\ UNCHANGED <<lines, tail, hashed, synced, root, state>>
      /\ state[p] = lines /\ root = lines /\ lines \in Seq(Ids) /\ tail = "clean" /\ hashed
      /\ manifest' = ArtifactsOf(state[p])
  BY DEF RepairManifest, Known, LedgerTypeOK
<1>2. LedgerTypeOK'
  BY <1>1, MovesOn DEF LedgerTypeOK, Steps
<1>3. Recoverable'
  BY <1>1 DEF Recoverable, Known
<1>4. \A q \in Processes : Known(q)'
  BY <1>1, <1>3, MovesOn DEF Known, Steps
<1> QED BY <1>2, <1>4

LEMMA ReturnsKeeps ==
  ASSUME LedgerInv, NEW p \in Processes, at[p] # "idle", Returns(p),
         UNCHANGED <<lines, tail, hashed, synced, root, entry, state, faults, losses>>,
         manifest' \in {<<>>} \cup {ArtifactsOf(s) : s \in Seq(Ids)},
         answered' \subseteq Ids
  PROVE  LedgerInv'
<1> USE DEF LedgerInv
<1>1. Release(p, "committed") /\ failed' = [failed EXCEPT ![p] = {}]
  BY DEF Returns
<1>2. LedgerTypeOK'
  BY <1>1, LetsGo DEF LedgerTypeOK
<1>3. \A q \in Processes : Known(q)'
  BY <1>1, LetsGo, NothingKnown
<1> QED BY <1>2, <1>3

LEMMA FoundExistingKeeps ==
  ASSUME LedgerInv, NEW p \in Processes, FoundExisting(p)
  PROVE  LedgerInv'
  BY ReturnsKeeps DEF FoundExisting, LedgerInv, LedgerTypeOK, ledgerFiles

LEMMA AppendLineKeeps ==
  ASSUME LedgerInv, NEW p \in Processes, AppendLine(p)
  PROVE  LedgerInv'
<1> USE DEF LedgerInv
<1>1. /\ at[p] = "write" /\ GoesTo(p, "sync")
      /\ UNCHANGED <<tail, hashed, synced, root, manifest, state>>
      /\ state[p] = lines /\ root = lines /\ lines \in Seq(Ids) /\ entry[p] \in Ids
      /\ tail = "clean" /\ hashed
      /\ lines' = Append(lines, entry[p]) /\ entry[p] \notin Listed(state[p])
  BY DEF AppendLine, Known, LedgerTypeOK
<1>2. /\ lines' \in Seq(Ids) /\ Len(lines') = Len(lines) + 1 /\ Len(lines) \in Nat
      /\ IsPrefixOf(root, lines')
  BY <1>1, AppendFacts
<1>3. LedgerTypeOK'
  <2>1. synced' \in 0 .. Len(lines')
    BY <1>1, <1>2 DEF LedgerTypeOK
  <2>2. lines' \in Seq(Ids)
    BY <1>2
  <2> QED BY <1>1, <2>1, <2>2, MovesOn DEF LedgerTypeOK, Steps
<1>4. Recoverable'
  BY <1>1, <1>2 DEF Recoverable
<1>5. \A q \in Processes : Known(q)'
  BY <1>1, <1>4, MovesOn DEF Known, Steps
<1> QED BY <1>3, <1>5

LEMMA SyncLineKeeps ==
  ASSUME LedgerInv, NEW p \in Processes, SyncLine(p)
  PROVE  LedgerInv'
<1> USE DEF LedgerInv
<1>1. /\ at[p] = "sync" /\ GoesTo(p, "writeRoot") /\ synced' = Len(lines)
      /\ UNCHANGED <<lines, tail, hashed, root, manifest>>
      /\ lines = Append(state[p], entry[p]) /\ lines \in Seq(Ids)
      /\ entry[p] \in Ids /\ state[p] \in Seq(Ids)
      /\ state' = [state EXCEPT ![p] = Append(@, entry[p])]
      /\ tail = "clean" /\ hashed
  BY DEF SyncLine, Known, LedgerTypeOK
<1>2. /\ state' \in [Processes -> Seq(Ids)] /\ state'[p] = lines
      /\ Len(lines) \in Nat /\ entry[p] \in Listed(lines)
  BY <1>1, AppendFacts DEF LedgerTypeOK
<1>3. LedgerTypeOK'
  <2>1. synced' \in 0 .. Len(lines') /\ lines' \in Seq(Ids)
    BY <1>1, <1>2
  <2> QED BY <1>1, <1>2, <2>1, MovesOn DEF LedgerTypeOK, Steps
<1>4. Recoverable'
  BY <1>1 DEF Recoverable, Known
<1>5. \A q \in Processes : Known(q)'
  BY <1>1, <1>2, <1>4, MovesOn DEF Known, Steps
<1> QED BY <1>3, <1>5

LEMMA WriteRootKeeps ==
  ASSUME LedgerInv, NEW p \in Processes, WriteRoot(p)
  PROVE  LedgerInv'
<1> USE DEF LedgerInv
<1>1. /\ at[p] = "writeRoot" /\ GoesTo(p, "writeManifest")
      /\ UNCHANGED <<lines, tail, hashed, synced, manifest, state>>
      /\ state[p] = lines /\ root' = lines /\ lines \in Seq(Ids) /\ tail = "clean" /\ hashed
      /\ entry[p] \in Listed(lines) /\ synced = Len(lines)
  BY DEF WriteRoot, Known, LedgerTypeOK
<1>2. LedgerTypeOK'
  BY <1>1, MovesOn DEF LedgerTypeOK, Steps
<1>3. Recoverable'
  BY <1>1, PrefixFacts DEF Recoverable, IsPrefixOf
<1>4. \A q \in Processes : Known(q)'
  BY <1>1, <1>3, MovesOn DEF Known, Steps
<1> QED BY <1>2, <1>4

LEMMA WriteManifestKeeps ==
  ASSUME LedgerInv, NEW p \in Processes, WriteManifest(p)
  PROVE  LedgerInv'
<1>1. state[p] \in Seq(Ids) /\ answered' \subseteq Ids
  BY DEF WriteManifest, LedgerInv, LedgerTypeOK
<1> QED BY <1>1, ReturnsKeeps DEF WriteManifest

LEMMA StoppedKeeps ==
  ASSUME LedgerInv, NEW p \in Processes, at[p] # "idle", FaultsLeft, Stopped(p),
         NEW how \in {"failed", "killed"}, Release(p, how),
         failed' \in [Processes -> SUBSET Ids]
  PROVE  LedgerInv'
<1> USE DEF LedgerInv
<1>1. /\ UNCHANGED <<hashed, synced, root, manifest, entry, state, answered, losses>>
      /\ faults' = faults + 1
      /\ lines \in Seq(Ids) /\ entry[p] \in Ids
  BY DEF Stopped, LedgerTypeOK
<1>2. /\ lines' \in {lines, Append(lines, entry[p])} /\ tail' \in {"clean", "open", "torn"}
  BY DEF Stopped, PartialWrite, LedgerTypeOK
<1>3. lines' \in Seq(Ids) /\ synced' \in 0 .. Len(lines')
  <2>1. Len(lines) \in Nat /\ synced \in 0 .. Len(lines)
    BY <1>1 DEF LedgerTypeOK
  <2>2. Append(lines, entry[p]) \in Seq(Ids) /\ Len(Append(lines, entry[p])) = Len(lines) + 1
    BY <1>1, AppendFacts
  <2> QED BY <1>1, <1>2, <2>1, <2>2
<1>4. faults' \in Nat /\ losses' \in Nat /\ faults' + losses' <= MaxFaults
  BY <1>1, LedgerAssumption DEF LedgerTypeOK, FaultsLeft
<1>5. LedgerTypeOK'
  BY <1>1, <1>2, <1>3, <1>4, LetsGo DEF LedgerTypeOK
<1>6. \A q \in Processes : Known(q)'
  BY LetsGo, NothingKnown
<1> QED BY <1>5, <1>6

\* The machine keeps the synced lines and the first few of the others.
LEMMA PowerLossCuts ==
  ASSUME LedgerTypeOK, PowerLoss
  PROVE  /\ \E n \in synced .. Len(lines) : lines' = SubSeq(lines, 1, n) /\ synced' = n
         /\ lines' \in Seq(Ids) /\ synced' = Len(lines')
         /\ synced' \in synced .. Len(lines) /\ synced \in Nat /\ Len(lines) \in Nat
         /\ \A i \in 1 .. synced' : lines'[i] = lines[i]
<1>1. lines \in Seq(Ids) /\ synced \in 0 .. Len(lines) /\ Len(lines) \in Nat
  BY DEF LedgerTypeOK
<1>2. PICK n \in synced .. Len(lines) : lines' = SubSeq(lines, 1, n) /\ synced' = n
  BY DEF PowerLoss
<1>3. n \in 0 .. Len(lines)
  BY <1>1, <1>2
<1> QED BY <1>1, <1>2, <1>3, SplitFacts

LEMMA PowerLossKeeps == LedgerInv /\ PowerLoss => LedgerInv'
<1> SUFFICES ASSUME LedgerInv, PowerLoss PROVE LedgerInv'
  OBVIOUS
<1> USE DEF LedgerInv
<1>1. /\ UNCHANGED <<hashed, root, manifest, entry, state, answered, faults>>
      /\ losses' = losses + 1 /\ FaultsLeft /\ tail' \in {tail, "clean", "open", "torn"}
      /\ lock' = NoProcess /\ at' = [p \in Processes |-> "idle"]
      /\ failed' = [p \in Processes |-> {}] /\ outcome' = "killed"
  BY DEF PowerLoss
<1>2. lines' \in Seq(Ids) /\ synced' \in 0 .. Len(lines')
  BY PowerLossCuts
<1>3. faults' \in Nat /\ losses' \in Nat /\ faults' + losses' <= MaxFaults
  BY <1>1, LedgerAssumption DEF LedgerTypeOK, FaultsLeft
<1>4. LedgerTypeOK'
  BY <1>1, <1>2, <1>3, LedgerAssumption DEF LedgerTypeOK, Steps
<1>5. \A q \in Processes : Known(q)'
  BY <1>1, NothingKnown
<1> QED BY <1>4, <1>5

LEMMA LedgerStep == LedgerInv /\ [LedgerNext]_ledgerVars => LedgerInv'
<1> SUFFICES ASSUME LedgerInv, [LedgerNext]_ledgerVars PROVE LedgerInv'
  OBVIOUS
<1>1. ASSUME NEW p \in Processes, Step(p) PROVE LedgerInv'
  BY <1>1, BeginKeeps, RewriteKeeps, RepairRootKeeps, RepairManifestKeeps, FoundExistingKeeps,
     AppendLineKeeps, SyncLineKeeps, WriteRootKeeps, WriteManifestKeeps DEF Step
<1>2. ASSUME NEW p \in Processes, StepFails(p) PROVE LedgerInv'
  <2>1. failed' \in [Processes -> SUBSET Ids]
    BY <1>2 DEF StepFails, LedgerInv, LedgerTypeOK
  <2> QED BY <1>2, <2>1, StoppedKeeps DEF StepFails
<1>3. ASSUME NEW p \in Processes, Killed(p) PROVE LedgerInv'
  <2>1. failed' \in [Processes -> SUBSET Ids]
    BY <1>3 DEF Killed, LedgerInv, LedgerTypeOK
  <2> QED BY <1>3, <2>1, StoppedKeeps DEF Killed
<1>4. CASE UNCHANGED ledgerVars
  BY <1>4 DEF ledgerVars, ledgerFiles, callers, LedgerInv, LedgerTypeOK, Recoverable, Known
<1> QED BY <1>1, <1>2, <1>3, <1>4, PowerLossKeeps DEF LedgerNext

LEMMA LedgerInvariant == LedgerSpec => []LedgerInv
  BY LedgerStarts, LedgerStep, PTL DEF LedgerSpec

-----------------------------------------------------------------------------
(* The theorems.                                                           *)

\* A step that leaves the root alone and takes no line leaves the files recoverable.
LEMMA StaysRecoverable ==
  ASSUME LedgerTypeOK, Recoverable, root' = root, hashed' = hashed, NEW e \in Ids,
         lines' \in {lines, Append(lines, e)}
  PROVE  Recoverable'
<1> SUFFICES ASSUME root # NoRoot PROVE hashed' /\ IsPrefixOf(root', lines')
  BY DEF Recoverable
<1>1. hashed /\ IsPrefixOf(root, lines) /\ root \in Seq(Ids) /\ lines \in Seq(Ids)
  BY DEF Recoverable, LedgerTypeOK
<1> QED BY <1>1, PrefixFacts

LEMMA LossTakesAbandoned ==
  ASSUME LedgerInv, Recoverable, PowerLoss, ~Recoverable'
  PROVE  /\ losses' # losses /\ root' = root /\ IsPrefixOf(lines', root)
         /\ \A i \in Len(lines') + 1 .. Len(root) : lines[i] \in Abandoned
<1>1. root' = root /\ hashed' = hashed /\ losses' # losses
  <2>1. losses' = losses + 1 /\ losses \in Nat /\ root' = root /\ hashed' = hashed
    BY DEF PowerLoss, LedgerInv, LedgerTypeOK
  <2> QED BY <2>1
<1>2. root # NoRoot /\ hashed /\ IsPrefixOf(root, lines) /\ root \in Seq(Ids) /\ lines \in Seq(Ids)
  BY <1>1 DEF Recoverable, LedgerInv, LedgerTypeOK
<1>3. /\ lines' \in Seq(Ids) /\ synced' = Len(lines') /\ synced' \in synced .. Len(lines)
      /\ synced \in Nat /\ Len(lines) \in Nat /\ synced <= Len(lines)
      /\ \A i \in 1 .. Len(lines') : lines'[i] = lines[i]
  BY PowerLossCuts DEF LedgerInv, LedgerTypeOK
<1>4. Len(root) \in Nat /\ Len(root) <= Len(lines) /\ \A i \in 1 .. Len(root) : root[i] = lines[i]
  BY <1>2 DEF IsPrefixOf
<1>5. Len(lines') < Len(root)
  <2> SUFFICES ASSUME Len(root) <= Len(lines') PROVE IsPrefixOf(root, lines')
    BY <1>1, <1>2, <1>3, <1>4 DEF Recoverable
  <2> QED BY <1>3, <1>4 DEF IsPrefixOf
<1>6. IsPrefixOf(lines', root)
  BY <1>3, <1>4, <1>5 DEF IsPrefixOf
<1>7. ASSUME NEW i \in Len(lines') + 1 .. Len(root) PROVE lines[i] \in Abandoned
  <2>1. i \in synced + 1 .. Len(lines) /\ i \in 1 .. Len(root)
    BY <1>3, <1>4
  <2>2. lines[i] \in Listed(Unsynced)
    <3>1. /\ i - synced \in 1 .. Len(lines) - synced /\ synced + (i - synced) = i
          /\ synced \in 0 .. Len(lines)
      BY <1>3, <2>1
    <3>2. Len(Unsynced) = Len(lines) - synced /\ Unsynced[i - synced] = lines[i]
      BY <1>2, <3>1, SplitFacts DEF Unsynced
    <3> QED BY <3>1, <3>2 DEF Listed
  <2>3. ASSUME NEW p \in Processes, at[p] = "sync" PROVE lines[i] # entry[p]
    <3>1. root = state[p] /\ entry[p] \notin Listed(state[p])
      BY <2>3 DEF LedgerInv, Known
    <3> QED BY <1>4, <2>1, <3>1 DEF Listed
  <2> QED BY <2>2, <2>3 DEF Abandoned
<1> QED BY <1>1, <1>6, <1>7

\* The root checkpoint runs ahead of the ledger, which is then refused, in no way but
\* one: a loss of power takes lines that an Append left unsynced and a later one
\* accepted (validateRecoverableRoot).
THEOREM RefusalNeedsLoss == LedgerSpec => RefusedOnlyAfterLoss
<1> DEFINE Takes ==
      Recoverable =>
        \/ Recoverable'
        \/ /\ losses' # losses /\ root' = root /\ IsPrefixOf(lines', root)
           /\ \A i \in Len(lines') + 1 .. Len(root) : lines[i] \in Abandoned
<1>1. LedgerInv /\ LedgerInv' /\ [LedgerNext]_ledgerVars => [Takes]_ledgerVars
  <2> SUFFICES ASSUME LedgerInv, LedgerInv', [LedgerNext]_ledgerVars, Recoverable,
                      ledgerVars' # ledgerVars
               PROVE  Takes
    OBVIOUS
  <2>1. LedgerTypeOK
    BY DEF LedgerInv
  <2>2. ASSUME NEW p \in Processes, Step(p) PROVE Recoverable'
    <3>1. ASSUME NEW id \in Ids, Begin(p, id) PROVE Recoverable'
      BY <2>1, <3>1, StaysRecoverable DEF Begin, ledgerFiles
    <3>2. ASSUME NEW step \in Steps \ {"idle"}, at[p] # "idle", GoesTo(p, step)
          PROVE  Recoverable'
      <4>1. at'[p] # "idle"
        BY <2>1, <3>2, MovesOn
      <4> QED BY <4>1 DEF LedgerInv, Known
    <3>3. ASSUME FoundExisting(p) \/ WriteManifest(p) PROVE Recoverable'
      <4>1. UNCHANGED <<root, hashed, lines>> /\ entry[p] \in Ids
        BY <2>1, <3>3 DEF FoundExisting, WriteManifest, ledgerFiles, LedgerTypeOK
      <4> QED BY <2>1, <4>1, StaysRecoverable
    <3>4. ASSUME \/ Rewrite(p) \/ RepairRoot(p) \/ RepairManifest(p)
                 \/ AppendLine(p) \/ SyncLine(p) \/ WriteRoot(p)
          PROVE  Recoverable'
      BY <3>2, <3>4 DEF Rewrite, RepairRoot, RepairManifest, AppendLine, SyncLine, WriteRoot, Steps
    <3> QED BY <2>2, <3>1, <3>3, <3>4 DEF Step
  <2>3. ASSUME NEW p \in Processes, StepFails(p) \/ Killed(p) PROVE Recoverable'
    <3>1. /\ UNCHANGED <<root, hashed>> /\ entry[p] \in Ids
          /\ lines' \in {lines, Append(lines, entry[p])}
      BY <2>1, <2>3 DEF StepFails, Killed, Stopped, PartialWrite, LedgerTypeOK
    <3> QED BY <2>1, <3>1, StaysRecoverable
  <2>4. CASE PowerLoss
    BY <2>4, LossTakesAbandoned
  <2> QED BY <2>2, <2>3, <2>4 DEF LedgerNext
<1> QED BY <1>1, LedgerInvariant, PTL DEF LedgerSpec, RefusedOnlyAfterLoss

\* The variables keep their types, and only the holder of the lock is inside Append.
THEOREM LedgerTypeCorrect == LedgerSpec => []LedgerTypeOK
<1>1. LedgerInv => LedgerTypeOK
  BY DEF LedgerInv
<1> QED BY <1>1, LedgerInvariant, PTL

LEMMA CommittedStep ==
  LedgerInv /\ CommittedVerifies /\ [LedgerNext]_ledgerVars => CommittedVerifies'
<1> SUFFICES ASSUME LedgerInv, CommittedVerifies, [LedgerNext]_ledgerVars,
                    lock' = NoProcess, outcome' = "committed"
             PROVE  (Verified /\ manifest = ArtifactsOf(lines))'
  BY DEF CommittedVerifies
<1>1. LedgerTypeOK
  BY DEF LedgerInv
<1>2. ASSUME NEW p \in Processes, Step(p) PROVE (Verified /\ manifest = ArtifactsOf(lines))'
  <2>1. ASSUME NEW id \in Ids, Begin(p, id) PROVE FALSE
    BY <2>1, LedgerAssumption DEF Begin
  <2>2. ASSUME NEW step, GoesTo(p, step), at[p] # "idle" PROVE FALSE
    BY <1>1, <2>2, Alone, LedgerAssumption DEF GoesTo
  <2>3. CASE FoundExisting(p)
    <3>1. /\ tail = "clean" /\ root = lines /\ manifest = ArtifactsOf(lines)
          /\ root # NoRoot /\ UNCHANGED <<lines, tail, hashed, root, manifest>>
      BY <2>3, LedgerAssumption DEF FoundExisting, ledgerFiles, LedgerInv, LedgerTypeOK, Known
    <3> QED BY <3>1 DEF Verified
  <2>4. CASE WriteManifest(p)
    <3>1. /\ tail = "clean" /\ root = lines /\ manifest' = ArtifactsOf(lines)
          /\ root # NoRoot /\ UNCHANGED <<lines, tail, hashed, root>>
      BY <2>4, LedgerAssumption DEF WriteManifest, LedgerInv, LedgerTypeOK, Known
    <3> QED BY <3>1 DEF Verified
  <2>5. ASSUME \/ Rewrite(p) \/ RepairRoot(p) \/ RepairManifest(p)
               \/ AppendLine(p) \/ SyncLine(p) \/ WriteRoot(p)
        PROVE  FALSE
    BY <2>2, <2>5 DEF Rewrite, RepairRoot, RepairManifest, AppendLine, SyncLine, WriteRoot
  <2> QED BY <1>2, <2>1, <2>3, <2>4, <2>5 DEF Step
<1>3. ASSUME NEW p \in Processes, StepFails(p) \/ Killed(p) PROVE FALSE
  BY <1>3 DEF StepFails, Killed, Release
<1>4. ~PowerLoss
  BY DEF PowerLoss
<1>5. CASE UNCHANGED ledgerVars
  BY <1>5 DEF ledgerVars, ledgerFiles, callers, CommittedVerifies, Verified
<1> QED BY <1>2, <1>3, <1>4, <1>5 DEF LedgerNext

\* Once an Append has returned an entry as committed the files pass Verify, without
\* recovery, and the manifest lists every artifact.
THEOREM CommittedIsVerified == LedgerSpec => []CommittedVerifies
<1>1. LedgerInit => CommittedVerifies
  BY DEF LedgerInit, CommittedVerifies
<1> QED BY <1>1, CommittedStep, LedgerInvariant, PTL DEF LedgerSpec

-----------------------------------------------------------------------------
(* The files implement the log.                                            *)

\* A step that leaves the lines, the answers and what is synced alone.
LEMMA NothingLogged ==
  ASSUME UNCHANGED <<lines, synced, answered, losses>>
  PROVE  UNCHANGED Log!logVars
  BY DEF Log!logVars, Unsynced

\* A sync commits what was written.
LEMMA SyncCommits ==
  ASSUME LedgerInv, UNCHANGED <<lines, answered, losses>>, synced' = Len(lines)
  PROVE  Log!Commit
<1>1. lines \in Seq(Ids) /\ synced \in 0 .. Len(lines) /\ Len(lines) \in Nat
  BY DEF LedgerInv, LedgerTypeOK
<1>2. Len(lines) \in synced .. Len(lines) /\ Len(lines) \in 0 .. Len(lines)
  BY <1>1
<1>3. /\ Unsynced \in Seq(Ids) /\ Len(Unsynced) = Len(lines) - synced
      /\ SubSeq(lines, 1, Len(lines)) = SubSeq(lines, 1, synced) \o SubSeq(Unsynced, 1, Len(lines) - synced)
  BY <1>1, <1>2, SplitFacts, SplitMore DEF Unsynced
<1>4. SubSeq(Unsynced, 1, Len(Unsynced)) = Unsynced
  BY <1>3
<1>5. Unsynced' = <<>>
  BY <1>1 DEF Unsynced
<1> QED BY <1>3, <1>4, <1>5 DEF Log!Commit

\* A line is written.
LEMMA LineWrites ==
  ASSUME LedgerInv, NEW e \in Ids, e \notin Listed(lines), lines' = Append(lines, e),
         UNCHANGED <<synced, answered, losses>>
  PROVE  Log!LogNext
<1>1. lines \in Seq(Ids) /\ synced \in 0 .. Len(lines)
  BY DEF LedgerInv, LedgerTypeOK
<1>2. /\ SubSeq(lines', 1, synced') = SubSeq(lines, 1, synced)
      /\ Unsynced' = Append(Unsynced, e)
  BY <1>1, SplitAppend DEF Unsynced
<1>3. Log!Logged(SubSeq(lines, 1, synced)) \cup Log!Logged(Unsynced) = Listed(lines)
  BY <1>1, SplitListed DEF Log!Logged, Listed, Unsynced
<1>4. Log!Write(e)
  BY <1>2, <1>3 DEF Log!Write
<1> QED BY <1>4 DEF Log!LogNext

LEMMA StepLogs ==
  ASSUME LedgerInv, NEW p \in Processes, Step(p)
  PROVE  [Log!LogNext]_(Log!logVars)
<1>1. ASSUME NEW id \in Ids, Begin(p, id) PROVE UNCHANGED Log!logVars
  BY <1>1, NothingLogged DEF Begin, ledgerFiles
<1>2. ASSUME Rewrite(p) PROVE [Log!LogNext]_(Log!logVars)
  <2>1. lines' = lines /\ UNCHANGED <<answered, losses>> /\ synced' \in {synced, Len(lines)}
    BY <1>2 DEF Rewrite, GoesTo, LedgerInv, Known
  <2> QED BY <2>1, NothingLogged, SyncCommits DEF Log!LogNext
<1>3. ASSUME RepairRoot(p) \/ RepairManifest(p) \/ WriteRoot(p) \/ FoundExisting(p)
      PROVE  UNCHANGED Log!logVars
  BY <1>3, NothingLogged DEF RepairRoot, RepairManifest, WriteRoot, FoundExisting, GoesTo, ledgerFiles
<1>4. ASSUME AppendLine(p) PROVE Log!LogNext
  <2>1. /\ entry[p] \in Ids /\ entry[p] \notin Listed(lines) /\ lines' = Append(lines, entry[p])
        /\ UNCHANGED <<synced, answered, losses>>
    BY <1>4 DEF AppendLine, GoesTo, LedgerInv, LedgerTypeOK, Known
  <2> QED BY <2>1, LineWrites
<1>5. ASSUME SyncLine(p) PROVE Log!LogNext
  BY <1>5, SyncCommits DEF SyncLine, GoesTo, Log!LogNext
<1>6. ASSUME WriteManifest(p) PROVE Log!LogNext
  <2>1. /\ UNCHANGED <<lines, synced, losses>> /\ answered' = answered \cup {entry[p]}
        /\ entry[p] \in Listed(lines) /\ entry[p] \in Ids /\ synced = Len(lines)
        /\ lines \in Seq(Ids)
    BY <1>6 DEF WriteManifest, LedgerInv, LedgerTypeOK, Known
  <2>2. SubSeq(lines, 1, synced) = lines
    BY <2>1
  <2>3. UNCHANGED <<SubSeq(lines, 1, synced), Unsynced>>
    BY <2>1 DEF Unsynced
  <2>4. Log!Acknowledge(entry[p])
    BY <2>1, <2>2, <2>3 DEF Log!Acknowledge, Log!Logged, Listed
  <2> QED BY <2>1, <2>4 DEF Log!LogNext
<1> QED BY <1>1, <1>2, <1>3, <1>4, <1>5, <1>6 DEF Step

LEMMA FaultLogs ==
  ASSUME LedgerInv, NEW p \in Processes, StepFails(p) \/ Killed(p)
  PROVE  [Log!LogNext]_(Log!logVars)
<1>1. UNCHANGED <<synced, answered, losses>>
  BY DEF StepFails, Killed, Stopped
<1>2. CASE lines' = lines
  BY <1>1, <1>2, NothingLogged
<1>3. CASE lines' # lines
  <2>1. lines' = Append(lines, entry[p]) /\ at[p] = "write" /\ entry[p] \notin Listed(state[p])
    BY <1>3 DEF StepFails, Killed, Stopped, PartialWrite
  <2>2. entry[p] \notin Listed(lines) /\ entry[p] \in Ids
    BY <2>1 DEF LedgerInv, LedgerTypeOK, Known
  <2> QED BY <1>1, <2>1, <2>2, LineWrites
<1> QED BY <1>2, <1>3

LEMMA PowerLossLogs ==
  ASSUME LedgerInv, PowerLoss
  PROVE  Log!LosePower
<1>1. lines \in Seq(Ids) /\ synced \in 0 .. Len(lines)
  BY DEF LedgerInv, LedgerTypeOK
<1>2. PICK n \in synced .. Len(lines) : lines' = SubSeq(lines, 1, n) /\ synced' = n
  BY DEF PowerLoss
<1>3. n \in 0 .. Len(lines)
  BY <1>1, <1>2
<1>4. /\ SubSeq(lines, 1, n) = SubSeq(lines, 1, synced) \o SubSeq(Unsynced, 1, n - synced)
      /\ n - synced \in 0 .. Len(Unsynced)
  BY <1>1, <1>2, SplitMore DEF Unsynced
<1>5. Len(lines') = n /\ lines' \in Seq(Ids)
  BY <1>1, <1>2, <1>3, SplitFacts
<1>6. SubSeq(lines', 1, synced') = lines' /\ Unsynced' = <<>>
  BY <1>2, <1>3, <1>5 DEF Unsynced
<1>7. losses' = losses + 1 /\ answered' = answered
  BY DEF PowerLoss
<1> QED BY <1>2, <1>4, <1>6, <1>7 DEF Log!LosePower

\* Through torn writes, kills, power losses and retries the synced lines are a log
\* that only grows and never by an entry it has; an entry stays in it once its own
\* Append returned it, and lines not yet synced are lost to a loss of power alone.
THEOREM LedgerImplementsLog == LedgerSpec => ImplementsLog
<1>1. LedgerInit => Log!LogInit
  <2> SUFFICES ASSUME LedgerInit PROVE Log!LogInit
    OBVIOUS
  <2>1. /\ lines \in {<<>>} \cup {<<id>> : id \in Ids} /\ answered = {} /\ losses = 0
        /\ synced = Len(lines) /\ lines \in Seq(Ids)
    BY LedgerAssumption, LedgerStarts DEF LedgerInit, LedgerInv, LedgerTypeOK
  <2>2. SubSeq(lines, 1, synced) = lines /\ Unsynced = <<>>
    BY <2>1 DEF Unsynced
  <2> QED BY <2>1, <2>2 DEF Log!LogInit
<1>2. LedgerInv /\ [LedgerNext]_ledgerVars => [Log!LogNext]_(Log!logVars)
  <2> SUFFICES ASSUME LedgerInv, [LedgerNext]_ledgerVars PROVE [Log!LogNext]_(Log!logVars)
    OBVIOUS
  <2>1. CASE UNCHANGED ledgerVars
    BY <2>1, NothingLogged DEF ledgerVars, ledgerFiles, callers
  <2>2. CASE PowerLoss
    BY <2>2, PowerLossLogs DEF Log!LogNext
  <2> QED BY <2>1, <2>2, StepLogs, FaultLogs DEF LedgerNext
<1> QED BY <1>1, <1>2, LedgerInvariant, PTL DEF LedgerSpec, ImplementsLog, Log!LogSpec
-----------------------------------------------------------------------------
(* The stored session.                                                     *)

\* The evidence r holds, in the store or in memory, is in the ledger l, in order.
Ordered(l, r) ==
  /\ \A i \in 1 .. Len(r.entries) :
       r.entries[i].n \in 1 .. Len(l) /\ l[r.entries[i].n] = r.entries[i]
  /\ \A i, j \in 1 .. Len(r.entries) : j < i => r.entries[j].n < r.entries[i].n

\* The ledger has the first n steps; a step comes after those before it.
Logs(l, n) == \A k \in 1 .. n : \E j \in 1 .. Len(l) : l[j].step = k
Stepwise(l) == \A j \in 1 .. Len(l) : \A m \in 1 .. l[j].step - 1 :
                 \E i \in 1 .. j - 1 : l[i].step = m

Sound(l, r) == Ordered(l, r) /\ Logs(l, r.step)

\* What an engine has gathered beyond the mark is for the step under way.
Marked(r) == /\ r.mark <= Len(r.entries)
             /\ \A i \in r.mark + 1 .. Len(r.entries) : r.entries[i].step = r.step + 1

\* The patches engines store: that of a resume, of a checkpoint, of a phase change,
\* of a failure without evidence and with it.
Patches == {{}, {"entries", "cursor", "resumes"}, {"step", "entries", "cursor"}, {"cursor"},
            {"cursor", "failure"}, {"cursor", "failure", "entries"}}

\* What is true whoever runs the session.
StoreBase ==
  /\ StoreTypeOK
  /\ \A i \in 1 .. Len(log) : log[i].n = i
  /\ Stepwise(log)
  /\ file # NoSession => Sound(log, file)
  /\ \A e \in Engines : Sound(log, run[e]) /\ Marked(run[e])
  /\ \A e \in Engines : patch[e] \in Patches
  /\ \A e \in Engines : doing[e] = "running" => patch[e] = {}
  /\ \A e \in Engines : doing[e] # "running" => e \in live
  /\ live # {} => file # NoSession
  /\ \A e \in Engines : doing[e] = "writing" => read[e] = file

\* A record has evidence of every step that it counts as committed.
Covers(r) == \A k \in 1 .. r.step : \E i \in 1 .. Len(r.entries) : r.entries[i].step = k

\* It has one piece for a step at most, the first n for committed steps.
Neat(r, n) ==
  /\ \A i, j \in 1 .. Len(r.entries) : r.entries[i].step = r.entries[j].step => i = j
  /\ \A i \in 1 .. n : r.entries[i].step <= r.step

\* The engine that runs the session is ahead of the snapshot by the checkpoint it is
\* storing, and stores no evidence of a step under way unless failures do.
Turn(r, fields) ==
  /\ Covers(r)
  /\ ~saves => Neat(r, r.mark)
  /\ r.step = IF "step" \in fields THEN file.step + 1 ELSE file.step
  /\ ~saves /\ "entries" \in fields => r.mark = Len(r.entries)

InTurn ==
  ~overlapped =>
    /\ \A d, e \in live : d = e
    /\ file # NoSession => Covers(file) /\ (~saves => Neat(file, Len(file.entries)))
    /\ \A e \in live : Turn(run[e], patch[e])

\* The inductive invariant.
StoreInv == StoreBase /\ InTurn

-----------------------------------------------------------------------------
(* Records.                                                                *)

LEMMA EmptySound ==
  ASSUME NEW l, NEW r, r.entries = <<>>, r.step = 0
  PROVE  Sound(l, r) /\ Covers(r) /\ Neat(r, 0)
  BY DEF Sound, Ordered, Logs, Covers, Neat

LEMMA EmptyTyped == NoRun \in Runs /\ \A v \in Nat : Empty(v) \in Snapshots
  BY StoreAssumption DEF NoRun, Runs, Empty, Snapshots

LEMMA NoRunSound ==
  ASSUME NEW l
  PROVE  Sound(l, NoRun) /\ Marked(NoRun)
  BY EmptySound DEF NoRun, Marked

\* A longer ledger keeps what the shorter one had.
LEMMA SoundGrows ==
  ASSUME NEW l \in Seq(Evidence), NEW x \in Evidence, NEW r, Sound(l, r)
  PROVE  Sound(Append(l, x), r)
<1>1. /\ Len(Append(l, x)) = Len(l) + 1 /\ Len(l) \in Nat
      /\ \A i \in 1 .. Len(l) : Append(l, x)[i] = l[i]
  OBVIOUS
<1>2. \A i \in 1 .. Len(l) : i \in 1 .. Len(Append(l, x)) /\ Append(l, x)[i] = l[i]
  BY <1>1
<1>3. Ordered(Append(l, x), r)
  BY <1>2 DEF Sound, Ordered
<1>4. Logs(Append(l, x), r.step)
  BY <1>2 DEF Sound, Logs
<1> QED BY <1>3, <1>4 DEF Sound

\* An engine that has a committed record appends for the next step only.
LEMMA StepwiseGrows ==
  ASSUME NEW l \in Seq(Evidence), NEW x \in Evidence, NEW k \in Nat,
         Stepwise(l), Logs(l, k), x.step = k + 1
  PROVE  Stepwise(Append(l, x))
<1> DEFINE t == Append(l, x)
<1>1. /\ Len(t) = Len(l) + 1 /\ Len(l) \in Nat /\ t[Len(l) + 1] = x
      /\ \A i \in 1 .. Len(l) : t[i] = l[i]
  OBVIOUS
<1> HIDE DEF t
<1>2. ASSUME NEW j \in 1 .. Len(t), NEW m \in 1 .. t[j].step - 1
      PROVE  \E i \in 1 .. j - 1 : t[i].step = m
  <2>1. CASE j \in 1 .. Len(l)
    <3>1. t[j] = l[j]
      BY <1>1, <2>1
    <3>2. PICK i \in 1 .. j - 1 : l[i].step = m
      BY <1>2, <2>1, <3>1 DEF Stepwise
    <3>3. t[i] = l[i]
      BY <1>1, <2>1
    <3> QED BY <3>2, <3>3
  <2>2. CASE j = Len(l) + 1
    <3>1. m \in 1 .. k
      BY <1>1, <2>2
    <3>2. PICK i \in 1 .. Len(l) : l[i].step = m
      BY <3>1 DEF Logs
    <3>3. i \in 1 .. j - 1 /\ t[i] = l[i]
      BY <1>1, <2>2
    <3> QED BY <3>2, <3>3
  <2> QED BY <1>1, <2>1, <2>2
<1> QED BY <1>2 DEF Stepwise, t

\* A record gets one more piece, new in the ledger.
LEMMA AppendOrdered ==
  ASSUME NEW l, NEW r, NEW s, NEW x \in Evidence, NEW n \in Nat,
         r.entries \in Seq(Evidence), s.entries = Append(r.entries, x), Ordered(l, r),
         Len(l) = n + 1, x.n = n + 1, l[n + 1] = x,
         \A i \in 1 .. Len(r.entries) : r.entries[i].n \in 1 .. n
  PROVE  Ordered(l, s)
<1> DEFINE old == r.entries
           all == s.entries
<1>1. /\ Len(all) = Len(old) + 1 /\ all[Len(old) + 1] = x /\ Len(old) \in Nat
      /\ \A i \in 1 .. Len(old) : all[i] = old[i]
  OBVIOUS
<1>2. /\ \A i \in 1 .. Len(old) : l[old[i].n] = old[i] /\ old[i].n \in 1 .. n
      /\ \A i, j \in 1 .. Len(old) : j < i => old[j].n < old[i].n
  BY DEF Ordered
<1>3. \A i \in 1 .. Len(all) : i \in 1 .. Len(old) \/ i = Len(old) + 1
  BY <1>1
<1>4. ASSUME NEW i \in 1 .. Len(all) PROVE all[i].n \in 1 .. Len(l) /\ l[all[i].n] = all[i]
  <2>1. CASE i \in 1 .. Len(old)
    <3>1. all[i] = old[i]
      BY <1>1, <2>1
    <3> QED BY <1>2, <2>1, <3>1
  <2>2. CASE i = Len(old) + 1
    <3>1. all[i] = x
      BY <1>1, <2>2
    <3> QED BY <3>1
  <2> QED BY <1>3, <2>1, <2>2
<1>5. ASSUME NEW i \in 1 .. Len(all), NEW j \in 1 .. Len(all), j < i
      PROVE  all[j].n < all[i].n
  <2>1. j \in 1 .. Len(old) /\ all[j] = old[j] /\ old[j].n \in 1 .. n
    BY <1>1, <1>2, <1>5
  <2>2. CASE i \in 1 .. Len(old)
    <3>1. all[i] = old[i]
      BY <1>1, <2>2
    <3> QED BY <1>2, <1>5, <2>1, <2>2, <3>1
  <2>3. CASE i = Len(old) + 1
    <3>1. all[i] = x
      BY <1>1, <2>3
    <3> QED BY <2>1, <3>1
  <2> QED BY <1>3, <2>2, <2>3
<1> QED BY <1>4, <1>5 DEF Ordered

\* For the step under way it is beyond the mark.
LEMMA AppendKept ==
  ASSUME NEW r \in Runs, NEW s, NEW x \in Evidence,
         s.entries = Append(r.entries, x), s.step = r.step, s.mark = r.mark,
         x.step = r.step + 1, Marked(r), r.mark = Len(r.entries)
  PROVE  /\ Marked(s)
         /\ Covers(r) => Covers(s)
         /\ Neat(r, r.mark) => Neat(s, s.mark)
<1> DEFINE old == r.entries
           all == s.entries
<1>1. /\ Len(all) = Len(old) + 1 /\ all[Len(old) + 1] = x /\ Len(old) \in Nat
      /\ \A i \in 1 .. Len(old) : all[i] = old[i]
      /\ r.step \in Nat /\ r.mark \in Nat
  <2>1. old \in Seq(Evidence) /\ all = Append(old, x)
    BY DEF Runs
  <2>2. r.step \in Nat /\ r.mark \in Nat
    BY StoreAssumption DEF Runs
  <2> HIDE DEF old, all
  <2> QED BY <2>1, <2>2
<1>2. \A i \in 1 .. Len(all) : i \in 1 .. Len(old) \/ i = Len(old) + 1
  BY <1>1
<1>3. Marked(s)
  BY <1>1 DEF Marked
<1>4. ASSUME Covers(r), NEW k \in 1 .. s.step PROVE \E i \in 1 .. Len(all) : all[i].step = k
  <2>1. PICK i \in 1 .. Len(old) : old[i].step = k
    BY <1>4 DEF Covers
  <2>2. i \in 1 .. Len(all) /\ all[i] = old[i]
    BY <1>1
  <2> QED BY <2>1, <2>2
<1>5. ASSUME Neat(r, r.mark) PROVE Neat(s, s.mark)
  <2>1. /\ \A i, j \in 1 .. Len(old) : old[i].step = old[j].step => i = j
        /\ \A i \in 1 .. Len(old) : old[i].step <= r.step
    BY <1>5 DEF Neat
  <2>2. \A i \in 1 .. Len(old) : old[i].step # x.step
    BY <1>1, <2>1
  <2>3. \A i \in 1 .. s.mark : all[i].step <= s.step
    BY <1>1, <2>1
  <2> HIDE DEF old, all
  <2>4. \A i, j \in 1 .. Len(all) : all[i].step = all[j].step => i = j
    BY <1>1, <1>2, <2>1, <2>2
  <2> QED BY <2>3, <2>4 DEF Neat, all
<1> QED BY <1>3, <1>4, <1>5 DEF Covers

\* One step more counts as committed, for which there is evidence.
LEMMA StepKept ==
  ASSUME NEW l, NEW r \in Runs, NEW s,
         s.entries = r.entries, s.step = r.step + 1, s.mark = Len(r.entries),
         Sound(l, r), Marked(r), r.mark < Len(r.entries)
  PROVE  /\ Sound(l, s) /\ Marked(s)
         /\ Covers(r) => Covers(s)
         /\ Neat(r, r.mark) => Neat(s, s.mark)
<1> DEFINE n == Len(r.entries)
<1>1. /\ n \in Nat /\ r.step \in Nat /\ r.mark \in Nat
      /\ r.entries[n].step = r.step + 1 /\ n \in 1 .. n
  <2>1. r.entries \in Seq(Evidence) /\ r.step \in Nat /\ r.mark \in Nat
    BY StoreAssumption DEF Runs
  <2>2. n \in Nat
    BY <2>1
  <2> HIDE DEF n
  <2>3. n \in r.mark + 1 .. n /\ n \in 1 .. n
    BY <2>1, <2>2 DEF n
  <2> QED BY <2>1, <2>2, <2>3 DEF Marked, n
<1> HIDE DEF n
<1>2. \A k \in 1 .. s.step : k \in 1 .. r.step \/ k = r.step + 1
  BY <1>1
<1>3. Ordered(l, s)
  BY DEF Sound, Ordered
<1>4. Logs(l, s.step)
  <2>1. r.entries[n].n \in 1 .. Len(l) /\ l[r.entries[n].n].step = r.step + 1
    BY <1>1 DEF Sound, Ordered, n
  <2> QED BY <1>2, <2>1 DEF Sound, Logs
<1>5. Marked(s)
  BY <1>1 DEF Marked, n
<1>6. Covers(r) => Covers(s)
  BY <1>1, <1>2 DEF Covers, n
<1>7. ASSUME Neat(r, r.mark), NEW i \in 1 .. n PROVE r.entries[i].step <= r.step + 1
  <2>1. CASE i <= r.mark
    <3>1. i \in 1 .. r.mark
      BY <1>1, <2>1
    <3>2. r.entries[i].step <= r.step
      BY <1>7, <3>1 DEF Neat
    <3>3. r.entries[i].step \in Nat
      <4>1. r.entries[i] \in Evidence
        BY <1>7 DEF Runs, n
      <4> QED BY <4>1 DEF Evidence
    <3> QED BY <1>1, <3>2, <3>3
  <2>2. CASE ~(i <= r.mark)
    <3>1. i \in r.mark + 1 .. n
      BY <1>1, <2>2
    <3>2. r.entries[i].step = r.step + 1
      BY <3>1 DEF Marked, n
    <3> QED BY <1>1, <3>2
  <2> QED BY <2>1, <2>2
<1>8. Neat(r, r.mark) => Neat(s, s.mark)
  BY <1>7 DEF Neat, n
<1> QED BY <1>3, <1>4, <1>5, <1>6, <1>8 DEF Sound

\* The fields of a patched snapshot.
LEMMA PatchedIs ==
  ASSUME NEW f \in Snapshots, NEW fields \in SUBSET Fields, NEW r \in Runs
  PROVE  /\ Patched(f, fields, r) \in Snapshots
         /\ "entries" \in fields /\ r.entries # <<>> => Patched(f, fields, r).entries = r.entries
         /\ ~("entries" \in fields /\ r.entries # <<>>) =>
              Patched(f, fields, r).entries = f.entries
         /\ "step" \in fields => Patched(f, fields, r).step = r.step
         /\ "step" \notin fields => Patched(f, fields, r).step = f.step
  BY DEF Patched, Snapshots, Runs

LEMMA PatchedSound ==
  ASSUME NEW l, NEW f \in Snapshots, NEW fields \in SUBSET Fields, NEW r \in Runs,
         Sound(l, f), Sound(l, r)
  PROVE  Sound(l, Patched(f, fields, r))
<1> DEFINE s == Patched(f, fields, r)
<1>1. /\ s.entries = r.entries \/ s.entries = f.entries
      /\ s.step = r.step \/ s.step = f.step
  BY PatchedIs
<1> HIDE DEF s
<1>2. Ordered(l, s)
  <2>1. CASE s.entries = r.entries
    BY <2>1 DEF Sound, Ordered
  <2>2. CASE s.entries = f.entries
    BY <2>2 DEF Sound, Ordered
  <2> QED BY <1>1, <2>1, <2>2
<1>3. Logs(l, s.step)
  BY <1>1 DEF Sound
<1> QED BY <1>2, <1>3 DEF Sound, s

-----------------------------------------------------------------------------
(* The inductive invariant.                                                *)

LEMMA StoreInit == Init => StoreInv
<1> SUFFICES ASSUME Init PROVE StoreInv
  OBVIOUS
<1>1. StoreTypeOK
  <2>1. log \in Seq(Evidence) /\ Len(log) <= MaxLog /\ kills \in 0 .. MaxKills
    BY StoreAssumption DEF Init
  <2>2. run \in [Engines -> Runs] /\ read \in [Engines -> Snapshots]
    BY EmptyTyped DEF Init
  <2>3. \A e \in Engines : storeLock = e <=> doing[e] = "writing"
    BY StoreAssumption DEF Init
  <2> QED BY <2>1, <2>2, <2>3 DEF Init, StoreTypeOK
<1>2. StoreBase
  BY <1>1, NoRunSound DEF Init, StoreBase, Patches, Stepwise
<1>3. InTurn
  BY DEF Init, InTurn
<1> QED BY <1>2, <1>3 DEF StoreInv

\* The ledger stays what it is or gets entries.
Grows == /\ log' \in Seq(Evidence) /\ Len(log') <= MaxLog
         /\ \A i \in 1 .. Len(log') : log'[i].n = i
         /\ Stepwise(log')
         /\ \A r : Sound(log, r) => Sound(log', r)

LEMMA NoGrowth == StoreBase /\ UNCHANGED log => Grows
  BY DEF StoreBase, StoreTypeOK, Grows

\* Whoever runs the session without an overlap is alone.
LEMMA OnlyOne ==
  ASSUME StoreInv, NEW e \in live, ~overlapped
  PROVE  live \subseteq {e} /\ Turn(run[e], patch[e])
  BY DEF StoreInv, InTurn

LEMMA StartKeeps ==
  ASSUME StoreInv, NEW e \in Engines, Start(e)
  PROVE  StoreInv'
<1> USE DEF StoreInv
<1>1. /\ file' = Empty(1) /\ run' = [run EXCEPT ![e] = NoRun] /\ live' = {e} /\ live = {}
      /\ overlapped' = overlapped
      /\ UNCHANGED <<storeLock, log, doing, patch, read, saves, kills>>
  BY DEF Start, Enters, StoreBase, StoreTypeOK
<1>2. file' \in Snapshots /\ file' # NoSession
  BY <1>1, EmptyTyped, NoSessionAssumption
<1>3. Sound(log, file') /\ Covers(file') /\ Neat(file', Len(file'.entries))
  <2>1. file'.entries = <<>> /\ file'.step = 0 /\ Len(file'.entries) = 0
    BY <1>1 DEF Empty
  <2> QED BY <2>1, EmptySound
<1>4. \A d \in Engines : doing[d] = "running" /\ patch[d] = {}
  BY <1>1 DEF StoreBase
<1>5. \A d \in Engines : Sound(log, run'[d]) /\ Marked(run'[d])
  BY <1>1, NoRunSound DEF StoreBase, StoreTypeOK
<1>6. StoreTypeOK'
  BY <1>1, <1>2, EmptyTyped DEF StoreBase, StoreTypeOK
<1>7. StoreBase'
  BY <1>1, <1>2, <1>3, <1>4, <1>5, <1>6 DEF StoreBase
<1>8. InTurn'
  <2>1. run'[e] = NoRun /\ patch'[e] = {} /\ file'.step = 0
    BY <1>1, <1>4 DEF StoreBase, StoreTypeOK, Empty
  <2>2. Covers(NoRun) /\ Neat(NoRun, NoRun.mark) /\ NoRun.step = 0
    BY EmptySound DEF NoRun
  <2>3. Turn(run[e], patch[e])'
    BY <2>1, <2>2 DEF Turn
  <2> QED BY <1>1, <1>3, <2>3 DEF InTurn
<1> QED BY <1>7, <1>8

\* The engine waits for the lock with a patch of the right kind.
LEMMA AskKeeps ==
  ASSUME StoreInv, NEW e \in Engines, doing[e] = "running", NEW fields \in Patches,
         AskPatch(e, fields), file # NoSession, Grows,
         NEW r \in Runs, Sound(log', r), Marked(r), run' = [run EXCEPT ![e] = r],
         live' = live \cup {e}, kills' \in 0 .. MaxKills, overlapped' \in BOOLEAN,
         ~overlapped' => ~overlapped /\ live \subseteq {e} /\ Turn(r, fields),
         UNCHANGED <<file, storeLock, read, saves>>
  PROVE  StoreInv'
<1> USE DEF StoreInv
<1>1. /\ doing' = [doing EXCEPT ![e] = "patching"] /\ patch' = [patch EXCEPT ![e] = fields]
      /\ fields \in SUBSET Fields
  BY DEF AskPatch, Patches, Fields
<1>2. StoreTypeOK'
  <2>1. doing' \in [Engines -> {"running", "patching", "writing"}] /\ patch' \in [Engines -> SUBSET Fields]
        /\ run' \in [Engines -> Runs] /\ live' \subseteq Engines
    BY <1>1 DEF StoreBase, StoreTypeOK
  <2>2. \A d \in Engines : storeLock' = d <=> doing'[d] = "writing"
    BY <1>1 DEF StoreBase, StoreTypeOK
  <2>3. log' \in Seq(Evidence) /\ Len(log') <= MaxLog
    BY DEF Grows
  <2> QED BY <2>1, <2>2, <2>3 DEF StoreBase, StoreTypeOK
<1>3. \A d \in Engines : Sound(log', run'[d]) /\ Marked(run'[d])
  BY DEF StoreBase, StoreTypeOK, Grows
<1>4. Sound(log', file') /\ Stepwise(log') /\ \A i \in 1 .. Len(log') : log'[i].n = i
  BY DEF StoreBase, Grows
<1>5. /\ \A d \in Engines : patch'[d] \in Patches
      /\ \A d \in Engines : doing'[d] = "running" => patch'[d] = {}
      /\ \A d \in Engines : doing'[d] # "running" => d \in live'
      /\ \A d \in Engines : doing'[d] = "writing" => read'[d] = file'
  BY <1>1 DEF StoreBase, StoreTypeOK
<1>6. StoreBase'
  BY <1>2, <1>3, <1>4, <1>5 DEF StoreBase
<1>7. InTurn'
  <2> SUFFICES ASSUME ~overlapped' PROVE InTurn'
    BY DEF InTurn
  <2>1. live' = {e} /\ run'[e] = r /\ patch'[e] = fields
    BY <1>1 DEF StoreBase, StoreTypeOK
  <2>2. Turn(run[e], patch[e])'
    BY <2>1 DEF Turn
  <2> QED BY <2>1, <2>2 DEF InTurn
<1> QED BY <1>6, <1>7

LEMMA ResumeKeeps ==
  ASSUME StoreInv, NEW e \in Engines, Resume(e)
  PROVE  StoreInv'
<1> USE DEF StoreInv
<1> DEFINE r == [entries |-> file.entries, mark |-> Len(file.entries), cursor |-> file.cursor,
                 step |-> file.step, resumes |-> file.resumes + 1]
           fields == {"entries", "cursor", "resumes"}
<1>1. file \in Snapshots /\ file # NoSession
  BY DEF Resume, StoreBase, StoreTypeOK
<1>2. r \in Runs
  BY <1>1 DEF Snapshots, Runs
<1>3. Sound(log, r) /\ Marked(r)
  <2>1. Sound(log, file) /\ file.entries \in Seq(Evidence)
    BY <1>1 DEF StoreBase, Snapshots
  <2> QED BY <2>1 DEF Sound, Ordered, Marked
<1>4. doing[e] = "running"
  BY DEF Resume, StoreBase, StoreTypeOK
<1>5. /\ AskPatch(e, fields) /\ fields \in Patches /\ live' = live \cup {e}
      /\ overlapped' = (overlapped \/ live # {})
      /\ UNCHANGED <<file, storeLock, log, read, saves, kills>> /\ run' = [run EXCEPT ![e] = r]
  BY DEF Resume, Enters, Patches
<1>6. kills' \in 0 .. MaxKills /\ overlapped' \in BOOLEAN /\ Grows
  BY <1>5, NoGrowth DEF StoreBase, StoreTypeOK
<1>7. ~overlapped' => ~overlapped /\ live \subseteq {e} /\ Turn(r, fields)
  <2> SUFFICES ASSUME ~overlapped' PROVE ~overlapped /\ live = {} /\ Turn(r, fields)
    OBVIOUS
  <2>1. ~overlapped /\ live = {}
    BY <1>5 DEF StoreBase, StoreTypeOK
  <2>2. Covers(file) /\ (~saves => Neat(file, Len(file.entries)))
    BY <1>1, <2>1 DEF InTurn
  <2> QED BY <2>1, <2>2 DEF Turn, Covers, Neat
<1> HIDE DEF r, fields
<1>8. Sound(log', r)
  BY <1>3, <1>5
<1> QED BY <1>1, <1>2, <1>3, <1>4, <1>5, <1>6, <1>7, <1>8, AskKeeps

LEMMA PatchReadKeeps ==
  ASSUME StoreInv, NEW e \in Engines, PatchRead(e)
  PROVE  StoreInv'
<1> USE DEF StoreInv
<1>1. /\ doing[e] = "patching" /\ storeLock = Nobody /\ storeLock' = e
      /\ read' = [read EXCEPT ![e] = file] /\ doing' = [doing EXCEPT ![e] = "writing"]
      /\ UNCHANGED <<file, log, live, run, patch, saves, overlapped, kills>>
  BY DEF PatchRead
<1>2. e \in live /\ file \in Snapshots /\ file # NoSession
  BY <1>1 DEF StoreBase, StoreTypeOK
<1>3. \A d \in Engines : doing[d] # "writing"
  BY <1>1, StoreAssumption DEF StoreBase, StoreTypeOK
<1>4. StoreTypeOK'
  BY <1>1, <1>2, <1>3 DEF StoreBase, StoreTypeOK
<1>5. \A d \in Engines : /\ doing'[d] = "writing" => read'[d] = file'
                         /\ doing'[d] # "running" => d \in live'
                         /\ doing'[d] = "running" => patch'[d] = {}
  BY <1>1, <1>2, <1>3 DEF StoreBase, StoreTypeOK
<1>6. StoreBase'
  BY <1>1, <1>4, <1>5 DEF StoreBase
<1>7. InTurn'
  BY <1>1 DEF InTurn, Turn
<1> QED BY <1>6, <1>7

LEMMA PatchWriteKeeps ==
  ASSUME StoreInv, NEW e \in Engines, PatchWrite(e)
  PROVE  StoreInv'
<1> USE DEF StoreInv
<1> DEFINE p == patch[e]
           r == run[e]
<1>1. /\ doing[e] = "writing" /\ file' = Patched(read[e], p, r)
      /\ storeLock' = Nobody /\ doing' = [doing EXCEPT ![e] = "running"]
      /\ patch' = [patch EXCEPT ![e] = {}] /\ read' = [read EXCEPT ![e] = Empty(0)]
      /\ UNCHANGED <<log, saves, overlapped, kills>>
  BY DEF PatchWrite
<1>2. \/ "failure" \in p /\ live' = live \ {e} /\ run' = [run EXCEPT ![e] = NoRun]
      \/ live' = live /\ run' = run
  BY DEF PatchWrite, Leaves
<1>3. /\ storeLock = e /\ \A d \in Engines : d # e => doing[d] # "writing"
      /\ read[e] = file /\ file # NoSession /\ file \in Snapshots /\ e \in live
      /\ r \in Runs /\ p \in SUBSET Fields /\ p \in Patches
  BY <1>1 DEF StoreBase, StoreTypeOK
<1>4. file' \in Snapshots /\ Sound(log, file') /\ file' # NoSession
  <2>1. Sound(log, file) /\ Sound(log, r)
    BY <1>3 DEF StoreBase
  <2>2. file' = Patched(file, p, r)
    BY <1>1, <1>3
  <2> HIDE DEF p, r
  <2>3. Patched(file, p, r) \in Snapshots
    BY <1>3, PatchedIs
  <2>4. Sound(log, Patched(file, p, r))
    BY <1>3, <2>1, PatchedSound
  <2> QED BY <2>2, <2>3, <2>4, NoSessionAssumption
<1>5. /\ "entries" \in p /\ r.entries # <<>> => file'.entries = r.entries
      /\ ~("entries" \in p /\ r.entries # <<>>) => file'.entries = file.entries
      /\ "step" \in p => file'.step = r.step
      /\ "step" \notin p => file'.step = file.step
  <2>1. file' = Patched(file, p, r)
    BY <1>1, <1>3
  <2> HIDE DEF p, r
  <2> QED BY <1>3, <2>1, PatchedIs
<1>6. StoreBase'
  <2>1. \A d \in Engines : storeLock' = d <=> doing'[d] = "writing"
    BY <1>1, <1>3, StoreAssumption DEF StoreBase, StoreTypeOK
  <2>2. run' \in [Engines -> Runs] /\ live' \subseteq live
    BY <1>2, EmptyTyped DEF StoreBase, StoreTypeOK
  <2>3. StoreTypeOK'
    BY <1>1, <1>4, <2>1, <2>2, EmptyTyped DEF StoreBase, StoreTypeOK
  <2>4. \A d \in Engines : Sound(log, run'[d]) /\ Marked(run'[d])
    BY <1>2, NoRunSound DEF StoreBase, StoreTypeOK
  <2>5. \A d \in Engines : /\ patch'[d] \in Patches
                           /\ doing'[d] = "running" => patch'[d] = {}
                           /\ doing'[d] # "running" => d \in live'
                           /\ doing'[d] # "writing"
    BY <1>1, <1>2, <1>3 DEF StoreBase, StoreTypeOK, Patches
  <2> QED BY <1>1, <1>4, <2>3, <2>4, <2>5 DEF StoreBase
<1>7. InTurn'
  <2> SUFFICES ASSUME ~overlapped PROVE InTurn'
    BY <1>1 DEF InTurn
  <2>1. /\ live \subseteq {e} /\ Turn(r, p) /\ Covers(file)
        /\ ~saves => Neat(file, Len(file.entries))
    BY <1>3, OnlyOne DEF InTurn
  <2>2. "step" \in p => "entries" \in p
    BY <1>3 DEF Patches
  <2>3. /\ r.entries \in Seq(Evidence) /\ r.step \in Nat /\ r.mark \in Nat /\ file.step \in Nat
        /\ Len(<<>>) = 0
    BY <1>3, StoreAssumption DEF Runs, Snapshots
  <2> HIDE DEF r, p
  <2>4. file'.step = r.step
    BY <1>5, <2>1 DEF Turn
  <2>5. r.entries = <<>> => r.step = 0
    BY <2>1, <2>3 DEF Turn, Covers
  <2>6. file'.entries = r.entries \/ (file'.entries = file.entries /\ file.step = r.step)
    <3>1. CASE "step" \in p
      <4>1. r.step = file.step + 1
        BY <2>1, <3>1 DEF Turn
      <4>2. r.entries # <<>>
        BY <2>3, <2>5, <4>1
      <4> QED BY <1>5, <2>2, <3>1, <4>2
    <3>2. CASE "step" \notin p
      BY <1>5, <2>1, <3>2 DEF Turn
    <3> QED BY <3>1, <3>2
  <2>7. Covers(file')
    BY <2>1, <2>4, <2>6 DEF Turn, Covers
  <2>8. ASSUME ~saves PROVE Neat(file', Len(file'.entries))
    <3>1. CASE file'.entries = file.entries /\ file.step = r.step
      BY <2>1, <2>4, <2>8, <3>1 DEF Neat
    <3>2. CASE file'.entries = r.entries /\ "entries" \in p
      BY <2>1, <2>4, <2>8, <3>2 DEF Neat, Turn
    <3>3. CASE file'.entries = r.entries /\ "entries" \notin p
      BY <1>5, <2>1, <2>2, <2>4, <2>8, <3>3 DEF Neat, Turn
    <3> QED BY <2>6, <3>1, <3>2, <3>3
  <2>9. \A d \in live' : d = e /\ run'[d] = r /\ patch'[d] = {}
    BY <1>1, <1>2, <1>3, <2>1 DEF StoreBase, StoreTypeOK, r
  <2>10. \A d \in live' : Turn(run[d], patch[d])'
    BY <1>1, <2>1, <2>4, <2>9 DEF Turn
  <2> QED BY <1>1, <2>7, <2>8, <2>9, <2>10 DEF InTurn
<1> QED BY <1>6, <1>7

\* A piece of evidence for the step under way.
LEMMA EvidenceKeeps ==
  ASSUME StoreInv, NEW e \in Engines, AppendEvidence(e)
  PROVE  StoreInv'
<1> USE DEF StoreInv
<1> DEFINE was == run[e]
           new == [step |-> was.step + 1, n |-> Len(log) + 1]
           r == [was EXCEPT !.entries = Append(@, new), !.cursor = @ + 1]
<1>1. /\ e \in live /\ doing[e] = "running" /\ was.step < MaxSteps
      /\ ~Evidenced(e) /\ Len(log) < MaxLog /\ log' = Append(log, new)
      /\ UNCHANGED <<file, storeLock, live, read, saves, overlapped>>
  BY DEF AppendEvidence, Idle
<1>2. /\ log \in Seq(Evidence) /\ Len(log) \in Nat /\ was \in Runs
      /\ was.entries \in Seq(Evidence) /\ was.step \in Nat /\ was.cursor \in Nat /\ was.mark \in Nat
      /\ Sound(log, was) /\ Marked(was) /\ file # NoSession
  BY <1>1, StoreAssumption DEF StoreBase, StoreTypeOK, Runs
<1>3. new \in Evidence /\ new.n = Len(log) + 1 /\ new.step = was.step + 1
  BY <1>1, <1>2, StoreAssumption DEF Evidence
<1>4. was.mark = Len(was.entries)
  <2>1. Len(was.entries) \in Nat
    BY <1>2
  <2> QED BY <1>1, <1>2, <2>1 DEF Evidenced, Marked
<1>5. r \in Runs /\ r.entries = Append(was.entries, new) /\ r.step = was.step /\ r.mark = was.mark
  <2>1. Append(was.entries, new) \in Seq(Evidence) /\ was.cursor + 1 \in Nat
    BY <1>2, <1>3
  <2> HIDE DEF new, was
  <2> QED BY <1>2, <2>1 DEF Runs
<1> HIDE DEF new, r, was
<1>6. /\ log' \in Seq(Evidence) /\ Len(log') = Len(log) + 1 /\ log'[Len(log) + 1] = new
      /\ \A i \in 1 .. Len(log) : log'[i] = log[i]
  BY <1>1, <1>2, <1>3
<1>7. Grows
  <2>1. \A i \in 1 .. Len(log') : log'[i].n = i
    <3>1. \A i \in 1 .. Len(log) : log[i].n = i
      BY DEF StoreBase
    <3> QED BY <1>2, <1>3, <1>6, <3>1
  <2>2. \A s : Sound(log, s) => Sound(log', s)
    BY <1>1, <1>2, <1>3, SoundGrows
  <2>3. Stepwise(log')
    <3>1. Stepwise(log) /\ Logs(log, was.step)
      BY <1>2 DEF StoreBase, Sound
    <3> QED BY <1>1, <1>2, <1>3, <3>1, StepwiseGrows
  <2>4. Len(log') <= MaxLog
    BY <1>1, <1>2, <1>6, StoreAssumption
  <2> QED BY <1>6, <2>1, <2>2, <2>3, <2>4 DEF Grows
<1>8. Sound(log', was)
  BY <1>2, <1>7 DEF Grows
<1>9. Sound(log', r)
  <2> DEFINE n == Len(log)
             l == log'
  <2>1. /\ Ordered(l, was) /\ n \in Nat /\ Len(l) = n + 1 /\ l[n + 1] = new /\ new.n = n + 1
        /\ \A i \in 1 .. Len(was.entries) : was.entries[i].n \in 1 .. n
    BY <1>2, <1>3, <1>6, <1>8 DEF Sound, Ordered
  <2>2. Logs(l, r.step)
    BY <1>5, <1>8 DEF Sound
  <2> HIDE DEF n, l
  <2>3. Ordered(l, r)
    BY <1>2, <1>3, <1>5, <2>1, AppendOrdered
  <2> QED BY <2>2, <2>3 DEF Sound, l
<1>10. /\ Marked(r)
       /\ Covers(was) => Covers(r)
       /\ Neat(was, was.mark) => Neat(r, r.mark)
  BY <1>2, <1>3, <1>4, <1>5, AppendKept
<1>11. patch[e] = {} /\ (~overlapped => live \subseteq {e} /\ Turn(was, {}))
  <2>1. patch[e] = {}
    BY <1>1 DEF StoreBase
  <2> QED BY <1>1, <2>1, OnlyOne DEF was
<1>12. CASE run' = [run EXCEPT ![e] = r] /\ UNCHANGED <<doing, patch, kills>>
  <2>1. StoreTypeOK'
    BY <1>1, <1>5, <1>7, <1>12 DEF StoreBase, StoreTypeOK, Grows
  <2>2. \A d \in Engines : Sound(log', run'[d]) /\ Marked(run'[d])
    BY <1>7, <1>9, <1>10, <1>12 DEF StoreBase, StoreTypeOK, Grows
  <2>3. StoreBase'
    BY <1>1, <1>7, <1>12, <2>1, <2>2 DEF StoreBase, Grows
  <2>4. ASSUME ~overlapped PROVE Turn(r, {})
    BY <1>5, <1>10, <1>11, <2>4 DEF Turn
  <2>5. InTurn'
    <3> SUFFICES ASSUME ~overlapped PROVE InTurn'
      BY <1>1 DEF InTurn
    <3>1. run'[e] = r /\ patch'[e] = {} /\ live' = {e}
      BY <1>1, <1>11, <1>12 DEF StoreBase, StoreTypeOK
    <3>2. Turn(run[e], patch[e])'
      BY <1>1, <2>4, <3>1 DEF Turn
    <3> QED BY <1>1, <3>1, <3>2 DEF InTurn
  <2> QED BY <2>3, <2>5
<1>13. CASE kills < MaxKills /\ kills' = kills + 1 /\ AskPatch(e, FailureFields) /\ UNCHANGED run
  <2>1. FailureFields \in Patches /\ ("step" \notin FailureFields)
        /\ (~saves => "entries" \notin FailureFields)
    BY DEF FailureFields, Patches
  <2>2. run' = [run EXCEPT ![e] = was] /\ live' = live \cup {e} /\ kills' \in 0 .. MaxKills
        /\ overlapped' \in BOOLEAN
    BY <1>1, <1>13, StoreAssumption DEF StoreBase, StoreTypeOK, was
  <2>3. ~overlapped' => ~overlapped /\ live \subseteq {e} /\ Turn(was, FailureFields)
    BY <1>1, <1>11, <2>1 DEF Turn
  <2> QED BY <1>1, <1>2, <1>7, <1>8, <1>13, <2>1, <2>2, <2>3, AskKeeps
<1> QED BY <1>12, <1>13 DEF AppendEvidence, new, r, was

LEMMA AdvanceKeeps ==
  ASSUME StoreInv, NEW e \in Engines, AdvancePhase(e) \/ Fails(e)
  PROVE  StoreInv'
<1> USE DEF StoreInv
<1>1. PICK fields \in {{"cursor"}, FailureFields} :
        /\ e \in live /\ doing[e] = "running" /\ AskPatch(e, fields)
        /\ UNCHANGED <<file, storeLock, log, live, run, read, saves, overlapped>>
        /\ kills' = kills \/ (kills < MaxKills /\ kills' = kills + 1)
  BY DEF AdvancePhase, Fails, Idle
<1>2. /\ file # NoSession /\ run[e] \in Runs /\ Sound(log, run[e]) /\ Marked(run[e])
      /\ run' = [run EXCEPT ![e] = run[e]] /\ live' = live \cup {e} /\ patch[e] = {}
      /\ kills' \in 0 .. MaxKills /\ overlapped' \in BOOLEAN /\ Grows
  BY <1>1, NoGrowth, StoreAssumption DEF StoreBase, StoreTypeOK
<1>3. fields \in Patches /\ "step" \notin fields /\ (~saves => "entries" \notin fields)
  BY DEF FailureFields, Patches
<1>4. ~overlapped' => ~overlapped /\ live \subseteq {e} /\ Turn(run[e], fields)
  BY <1>1, <1>2, <1>3, OnlyOne DEF Turn
<1>5. Sound(log', run[e])
  BY <1>1, <1>2
<1> QED BY <1>1, <1>2, <1>3, <1>4, <1>5, AskKeeps

LEMMA CommitKeeps ==
  ASSUME StoreInv, NEW e \in Engines, CommitStep(e)
  PROVE  StoreInv'
<1> USE DEF StoreInv
<1> DEFINE was == run[e]
           r == [was EXCEPT !.step = @ + 1, !.mark = Len(was.entries)]
           fields == {"step", "entries", "cursor"}
<1>1. /\ e \in live /\ doing[e] = "running" /\ AskPatch(e, fields)
      /\ was.step < MaxSteps /\ Evidenced(e)
      /\ run' = [run EXCEPT ![e] = r]
      /\ UNCHANGED <<file, storeLock, log, live, read, saves, overlapped, kills>>
  BY DEF CommitStep, Idle
<1>2. /\ file # NoSession /\ was \in Runs /\ Sound(log, was) /\ Marked(was)
      /\ live' = live \cup {e} /\ fields \in Patches /\ patch[e] = {}
      /\ kills' \in 0 .. MaxKills /\ overlapped' \in BOOLEAN /\ Grows
  BY <1>1, NoGrowth DEF StoreBase, StoreTypeOK, Patches
<1>3. r \in Runs /\ r.entries = was.entries /\ r.step = was.step + 1 /\ r.mark = Len(was.entries)
  <2>1. was.step + 1 \in 0 .. MaxSteps /\ Len(was.entries) \in Nat
    BY <1>1, <1>2, StoreAssumption DEF Runs
  <2> HIDE DEF was
  <2> QED BY <1>2, <2>1 DEF Runs
<1>4. was.mark < Len(was.entries)
  BY <1>1, <1>2 DEF Evidenced, Runs
<1> HIDE DEF r, fields, was
<1>5. /\ Sound(log, r) /\ Marked(r)
      /\ Covers(was) => Covers(r)
      /\ Neat(was, was.mark) => Neat(r, r.mark)
  BY <1>2, <1>3, <1>4, StepKept
<1>6. ~overlapped' => ~overlapped /\ live \subseteq {e} /\ Turn(r, fields)
  <2> SUFFICES ASSUME ~overlapped PROVE live \subseteq {e} /\ Turn(r, fields)
    BY <1>1
  <2>1. live \subseteq {e} /\ Turn(was, {})
    BY <1>1, <1>2, OnlyOne DEF was
  <2> QED BY <1>3, <1>5, <2>1 DEF Turn, fields
<1>7. Sound(log', r)
  BY <1>1, <1>5
<1> QED BY <1>1, <1>2, <1>3, <1>5, <1>6, <1>7, AskKeeps

\* An engine that goes leaves nothing behind.
LEMMA LeavesKeeps ==
  ASSUME StoreInv, NEW e \in Engines, Leaves(e),
         kills' \in 0 .. MaxKills,
         doing' = [doing EXCEPT ![e] = "running"],
         patch' = [patch EXCEPT ![e] = {}],
         read' = [read EXCEPT ![e] = Empty(0)] \/ read' = read,
         storeLock' = IF storeLock = e THEN Nobody ELSE storeLock,
         UNCHANGED <<file, log, saves, overlapped>>
  PROVE  StoreInv'
<1> USE DEF StoreInv
<1>1. run' = [run EXCEPT ![e] = NoRun] /\ live' = live \ {e}
  BY DEF Leaves
<1>2. StoreTypeOK'
  <2>1. \A d \in Engines : storeLock' = d <=> doing'[d] = "writing"
    BY StoreAssumption DEF StoreBase, StoreTypeOK
  <2> QED BY <1>1, <2>1, EmptyTyped DEF StoreBase, StoreTypeOK
<1>3. \A d \in Engines : Sound(log, run'[d]) /\ Marked(run'[d])
  BY <1>1, NoRunSound DEF StoreBase, StoreTypeOK
<1>4. \A d \in Engines : /\ patch'[d] \in Patches
                         /\ doing'[d] = "running" => patch'[d] = {}
                         /\ doing'[d] # "running" => d \in live'
                         /\ doing'[d] = "writing" => read'[d] = file
  BY <1>1 DEF StoreBase, StoreTypeOK, Patches
<1>5. StoreBase'
  BY <1>1, <1>2, <1>3, <1>4 DEF StoreBase
<1>6. InTurn'
  <2>1. \A d \in live' : d \in live /\ run'[d] = run[d] /\ patch'[d] = patch[d]
    BY <1>1 DEF StoreBase, StoreTypeOK
  <2> QED BY <2>1 DEF InTurn, Turn
<1> QED BY <1>5, <1>6

LEMMA FinishKeeps ==
  ASSUME StoreInv, NEW e \in Engines, Finish(e)
  PROVE  StoreInv'
<1>1. /\ doing[e] = "running" /\ Leaves(e)
      /\ UNCHANGED <<file, storeLock, log, doing, patch, read, saves, overlapped, kills>>
  BY DEF Finish, Idle
<1>2. /\ doing' = [doing EXCEPT ![e] = "running"] /\ patch' = [patch EXCEPT ![e] = {}]
      /\ kills' \in 0 .. MaxKills
      /\ storeLock' = IF storeLock = e THEN Nobody ELSE storeLock
  BY <1>1 DEF StoreInv, StoreBase, StoreTypeOK
<1> QED BY <1>1, <1>2, LeavesKeeps

LEMMA KillKeeps ==
  ASSUME StoreInv, NEW e \in Engines, Kill(e)
  PROVE  StoreInv'
<1>1. kills' \in 0 .. MaxKills
  BY StoreAssumption DEF Kill, StoreInv, StoreBase, StoreTypeOK
<1> QED BY <1>1, LeavesKeeps DEF Kill

LEMMA StoreStep == StoreInv /\ [Next]_vars => StoreInv'
<1> SUFFICES ASSUME StoreInv, [Next]_vars PROVE StoreInv'
  OBVIOUS
<1>1. CASE UNCHANGED vars
  BY <1>1 DEF vars, StoreInv, StoreBase, StoreTypeOK, InTurn, Turn
<1>2. ASSUME NEW e \in Engines, Start(e) \/ Resume(e) \/ Work(e) \/ Kill(e)
      PROVE  StoreInv'
  BY <1>2, StartKeeps, ResumeKeeps, PatchReadKeeps, PatchWriteKeeps, EvidenceKeeps,
     AdvanceKeeps, CommitKeeps, FinishKeeps, KillKeeps DEF Work
<1> QED BY <1>1, <1>2 DEF Next

LEMMA StoreInvariant == Spec => []StoreInv
  BY StoreInit, StoreStep, PTL DEF Spec

-----------------------------------------------------------------------------
(* The theorems.                                                           *)

\* The variables keep their types, and only the holder of the store's lock writes.
THEOREM StoreTypeCorrect == Spec => []StoreTypeOK
<1>1. StoreInv => StoreTypeOK
  BY DEF StoreInv, StoreBase
<1> QED BY <1>1, StoreInvariant, PTL

\* Whoever stores a snapshot and whenever engines die, the stored evidence is in the
\* ledger, each piece once and in the ledger's order.
THEOREM EvidenceIsBacked == Spec => []EvidenceBacked
<1>1. StoreInv => EvidenceBacked
  <2> SUFFICES ASSUME StoreInv, file # NoSession, NEW i \in 1 .. Len(file.entries)
               PROVE  /\ file.entries[i] \in {log[j] : j \in 1 .. Len(log)}
                      /\ \A j \in 1 .. i - 1 : file.entries[j].n < file.entries[i].n
    BY DEF EvidenceBacked
  <2>1. Ordered(log, file)
    BY DEF StoreInv, StoreBase, Sound
  <2>2. file.entries[i] \in {log[j] : j \in 1 .. Len(log)}
    BY <2>1 DEF Ordered
  <2>3. \A j \in 1 .. i - 1 : j \in 1 .. Len(file.entries) /\ j < i
    OBVIOUS
  <2> QED BY <2>1, <2>2, <2>3 DEF Ordered
<1> QED BY <1>1, StoreInvariant, PTL

\* Whoever runs the session and however their snapshots overwrite each other, the
\* ledger has the evidence of every step the snapshot counts as committed, after that
\* of the steps before it.
THEOREM StepsAreInLedger == Spec => []StepsInLedger
<1>1. ASSUME StoreInv, file # NoSession, NEW k \in 1 .. file.step
      PROVE  \E j \in 1 .. Len(log) :
               /\ log[j].step = k
               /\ \A m \in 1 .. k - 1 : \E i \in 1 .. j - 1 : log[i].step = m
  <2>1. PICK j \in 1 .. Len(log) : log[j].step = k
    BY <1>1 DEF StoreInv, StoreBase, Sound, Logs
  <2>2. \A m \in 1 .. k - 1 : \E i \in 1 .. j - 1 : log[i].step = m
    BY <1>1, <2>1 DEF StoreInv, StoreBase, Stepwise
  <2> QED BY <2>1, <2>2
<1>2. StoreInv => StepsInLedger
  BY <1>1 DEF StepsInLedger
<1> QED BY <1>2, StoreInvariant, PTL

\* Every committed step is accounted for in the ledger, and as long as no two engines
\* run the session at once in the snapshot, by one piece of evidence unless failures
\* store evidence too.
THEOREM StepsAreAccounted == Spec => []StepsAccounted
<1>1. ASSUME StoreInv, file # NoSession, ~overlapped, NEW k \in 1 .. file.step
      PROVE  Pieces(k) # {} /\ (~saves => Cardinality(Pieces(k)) = 1)
  <2>1. Covers(file) /\ (~saves => Neat(file, Len(file.entries)))
    BY <1>1 DEF StoreInv, InTurn
  <2>2. PICK i \in 1 .. Len(file.entries) : file.entries[i].step = k
    BY <2>1 DEF Covers
  <2>3. ASSUME ~saves PROVE Pieces(k) = {i}
    BY <2>1, <2>2, <2>3 DEF Neat, Pieces
  <2> QED BY <2>2, <2>3, FS_Singleton DEF Pieces
<1>2. StoreInv => StepsInSnapshot
  BY <1>1 DEF StepsInSnapshot
<1>3. StepsInLedger /\ StepsInSnapshot <=> StepsAccounted
  BY DEF StepsAccounted
<1> QED BY <1>2, <1>3, StoreInvariant, StepsAreInLedger, PTL

-----------------------------------------------------------------------------
(* The configuration files and the requests that are made of them.         *)

\* A configuration of which every layer sets the mode and criteria together or not.
Fitting(config) == IsConfig(config) /\ TogetherIn(config)

\* Finitely many files with such configurations.
FilesFit(fs) ==
  /\ IsFiniteSet(DOMAIN fs)
  /\ \A name \in DOMAIN fs : IsFile(fs[name]) /\ TogetherIn(fs[name].config)

LEMMA OverlayTogether ==
  ASSUME NEW base, NEW over, Together(base), Together(over)
  PROVE  Together(Overlay(base, over))
BY DEF Together, Overlay

LEMMA NothingTogether == DOMAIN Nothing = {} /\ Together(Nothing)
<1>1. DOMAIN Nothing = {}
  BY DEF Nothing
<1> QED BY <1>1 DEF Together

LEMMA LayerFields ==
  /\ DOMAIN EmptyLayer = {"own", "policies", "providers", "agents", "roles", "directory"}
  /\ DOMAIN EmptyConfig = {"profile", "profiles", "layer"}
  /\ EmptyConfig.layer = EmptyLayer /\ EmptyConfig.profiles = Nothing /\ EmptyLayer.own = Nothing
BY DEF EmptyLayer, EmptyConfig

LEMMA EmptyFits == Fitting(EmptyConfig)
BY LayerFields, NothingTogether DEF Fitting, IsConfig, IsLayer, TogetherIn

LEMMA LayersMerge ==
  ASSUME NEW base, NEW over
  PROVE  /\ IsLayer(MergeLayers(base, over))
         /\ MergeLayers(base, over).own = Overlay(base.own, over.own)
<1>1. DOMAIN MergeLayers(base, over)
        = {"own", "policies", "providers", "agents", "roles", "directory"}
  BY DEF MergeLayers
<1>2. MergeLayers(base, over).own = Overlay(base.own, over.own)
  BY DEF MergeLayers
<1> QED BY <1>1, <1>2, LayerFields DEF IsLayer

LEMMA ConfigsMerge ==
  ASSUME NEW base, NEW over, Fitting(base), Fitting(over)
  PROVE  Fitting(MergeConfig(base, over))
<1> DEFINE both == MergeConfig(base, over)
<1>1. /\ DOMAIN both = {"profile", "profiles", "layer"}
      /\ both.layer = MergeLayers(base.layer, over.layer)
      /\ both.profiles = MergeEach(MergeLayers, base.profiles, over.profiles)
  BY DEF MergeConfig
<1>2. ASSUME NEW p \in DOMAIN both.profiles
      PROVE  /\ p \in DOMAIN base.profiles \cup DOMAIN over.profiles
             /\ p \notin DOMAIN over.profiles => both.profiles[p] = base.profiles[p]
             /\ p \notin DOMAIN base.profiles => both.profiles[p] = over.profiles[p]
             /\ p \in DOMAIN base.profiles \cap DOMAIN over.profiles =>
                  both.profiles[p] = MergeLayers(base.profiles[p], over.profiles[p])
  BY <1>1 DEF MergeEach
<1> HIDE DEF both
<1>3. IsLayer(both.layer) /\ Together(both.layer.own)
  BY <1>1, LayersMerge, OverlayTogether DEF Fitting, TogetherIn
<1>4. ASSUME NEW p \in DOMAIN both.profiles
      PROVE  IsLayer(both.profiles[p]) /\ Together(both.profiles[p].own)
  <2>1. CASE p \notin DOMAIN over.profiles \/ p \notin DOMAIN base.profiles
    BY <1>2, <2>1 DEF Fitting, TogetherIn, IsConfig
  <2>2. CASE p \in DOMAIN base.profiles \cap DOMAIN over.profiles
    <3>1. Together(base.profiles[p].own) /\ Together(over.profiles[p].own)
      BY <2>2 DEF Fitting, TogetherIn
    <3> QED BY <1>2, <2>2, <3>1, LayersMerge, OverlayTogether
  <2> QED BY <2>1, <2>2
<1>5. IsConfig(both) /\ TogetherIn(both)
  BY <1>1, <1>3, <1>4, LayerFields DEF IsConfig, TogetherIn
<1> QED BY <1>5 DEF Fitting, both

\* Induction over the natural numbers, for a set.
LEMMA Least ==
  ASSUME NEW T, T \subseteq Nat, T # {}
  PROVE  \E x \in T : \A y \in T : x <= y
<1> DEFINE Less == {p \in Nat \X Nat : p[1] < p[2]}
<1>1. IsWellFoundedOn(Less, Nat)
  BY NatLessThanWellFounded DEF OpToRel
<1>2. \E x \in T : \A y \in T : ~(<<y, x>> \in Less)
  <2> HIDE DEF Less
  <2> QED BY <1>1, WFMin, Zenon
<1>3. PICK x \in T : \A y \in T : ~(<<y, x>> \in Less)
  BY <1>2
<1>4. ASSUME NEW y \in T PROVE x <= y
  <2>1. ~(<<y, x>> \in Less) /\ x \in Nat /\ y \in Nat
    BY <1>3
  <2> QED BY <2>1
<1> QED BY <1>4

LEMMA Induction ==
  ASSUME NEW S, 0 \in S, \A n \in Nat : n \in S => n + 1 \in S
  PROVE  \A n \in Nat : n \in S
<1> DEFINE T == {n \in Nat : n \notin S}
<1>1. ASSUME T # {} PROVE FALSE
  <2>1. PICK x \in T : \A y \in T : x <= y
    BY <1>1, Least, T \subseteq Nat
  <2>2. x # 0 /\ x \in Nat
    OBVIOUS
  <2>3. x - 1 \in Nat /\ x - 1 \notin T
    BY <2>1, <2>2
  <2> QED BY <2>1, <2>2, <2>3
<1> QED BY <1>1

LEMMA MergesFit ==
  ASSUME NEW S, NEW parts \in Seq(S), \A i \in DOMAIN parts : Fitting(parts[i])
  PROVE  Fitting(MergeAll(parts))
<1> DEFINE n == Len(parts)
           Is(f, m) == f = [k \in 0 .. m |-> IF k = 0 THEN EmptyConfig ELSE MergeConfig(f[k - 1], parts[k])]
           chosen == CHOOSE f : Is(f, n)
           Some == {m \in Nat : \E f : Is(f, m)}
           Fit == {m \in Nat : m <= n => Fitting(chosen[m])}
<1>1. n \in Nat /\ DOMAIN parts = 1 .. n
  OBVIOUS
<1>2. 0 \in Some
  <2>1. Is([k \in 0 .. 0 |-> EmptyConfig], 0)
    OBVIOUS
  <2> QED BY <2>1
<1>3. ASSUME NEW m \in Nat, m \in Some PROVE m + 1 \in Some
  <2>1. PICK f : Is(f, m)
    BY <1>3
  <2> DEFINE g == [k \in 0 .. m + 1 |-> IF k <= m THEN f[k] ELSE MergeConfig(f[m], parts[m + 1])]
  <2>2. ASSUME NEW k \in 0 .. m + 1
        PROVE  g[k] = IF k = 0 THEN EmptyConfig ELSE MergeConfig(g[k - 1], parts[k])
    <3>1. CASE k = m + 1
      <4>1. k # 0 /\ k - 1 = m /\ m \in 0 .. m + 1 /\ ~(k <= m) /\ m <= m
        BY <3>1
      <4> QED BY <3>1, <4>1
    <3>2. CASE k # m + 1
      <4>1. k \in 0 .. m /\ k <= m /\ (k # 0 => k - 1 \in 0 .. m + 1 /\ k - 1 <= m)
        BY <3>2
      <4>2. f[k] = IF k = 0 THEN EmptyConfig ELSE MergeConfig(f[k - 1], parts[k])
        BY <2>1, <4>1
      <4> QED BY <4>1, <4>2
    <3> QED BY <3>1, <3>2
  <2>3. Is(g, m + 1)
    <3> HIDE DEF g
    <3>1. g = [k \in 0 .. m + 1 |-> g[k]]
      BY DEF g
    <3> QED BY <2>2, <3>1
  <2>4. \E h : Is(h, m + 1)
    <3> HIDE DEF g, Is
    <3> QED BY <2>3, Zenon
  <2>5. m + 1 \in Nat
    OBVIOUS
  <2> HIDE DEF Is
  <2> QED BY <2>4, <2>5, Zenon
<1>4. \E f : Is(f, n)
  <2>1. \A m \in Nat : m \in Some
    <3> HIDE DEF Some
    <3> QED BY <1>2, <1>3, Induction
  <2> QED BY <1>1, <2>1
<1>5. Is(chosen, n)
  <2> HIDE DEF Is
  <2> QED BY <1>4
<1>6. chosen[0] = EmptyConfig /\ \A k \in 1 .. n : chosen[k] = MergeConfig(chosen[k - 1], parts[k])
  <2> HIDE DEF chosen
  <2> QED BY <1>1, <1>5
<1> HIDE DEF chosen
<1>7. \A k \in Nat : k \in Fit
  <2>1. 0 \in Fit
    BY <1>6, EmptyFits
  <2>2. ASSUME NEW k \in Nat, k \in Fit PROVE k + 1 \in Fit
    <3>1. SUFFICES ASSUME k + 1 <= n PROVE Fitting(chosen[k + 1])
      OBVIOUS
    <3>2. k + 1 \in 1 .. n /\ (k + 1) - 1 = k /\ k <= n
      BY <1>1, <3>1
    <3>3. Fitting(chosen[k]) /\ Fitting(parts[k + 1])
      BY <1>1, <2>2, <3>2
    <3>4. Fitting(MergeConfig(chosen[k], parts[k + 1]))
      BY <3>3, ConfigsMerge
    <3> QED BY <1>6, <3>2, <3>4
  <2> HIDE DEF Fit
  <2> QED BY <2>1, <2>2, Induction
<1>8. MergeAll(parts) = chosen[n]
  BY DEF MergeAll, chosen
<1> QED BY <1>1, <1>7, <1>8

LEMMA IncludesFit ==
  ASSUME NEW conf, IsFile(conf), TogetherIn(conf.config), NEW loaded,
         \A x \in DOMAIN loaded : loaded[x] = Refused \/ Fitting(loaded[x])
  PROVE  WithIncludes(conf, loaded) = Refused \/ Fitting(WithIncludes(conf, loaded))
<1> DEFINE parts == [i \in DOMAIN conf.include |->
                      IF conf.include[i] \in DOMAIN loaded THEN loaded[conf.include[i]] ELSE Refused]
           S == {parts[i] : i \in DOMAIN conf.include}
           n == Len(conf.include)
<1>1. n \in Nat /\ DOMAIN conf.include = 1 .. n
  BY DEF IsFile
<1>2. parts \in Seq(S)
  <2>1. parts \in [1 .. n -> S]
    BY <1>1
  <2> QED BY <2>1
<1>3. \A i \in DOMAIN parts : parts[i] = Refused \/ Fitting(parts[i])
  OBVIOUS
<1>4. WithIncludes(conf, loaded) = IF \E i \in DOMAIN parts : parts[i] = Refused THEN Refused
                                   ELSE MergeConfig(MergeAll(parts), conf.config)
  BY DEF WithIncludes
<1>5. Fitting(conf.config)
  BY DEF IsFile, Fitting
<1> HIDE DEF parts, S
<1>6. CASE \E i \in DOMAIN parts : parts[i] = Refused
  BY <1>4, <1>6
<1>7. CASE \A i \in DOMAIN parts : Fitting(parts[i])
  <2>1. Fitting(MergeAll(parts))
    BY <1>2, <1>7, MergesFit
  <2>2. Fitting(MergeConfig(MergeAll(parts), conf.config))
    BY <1>5, <2>1, ConfigsMerge
  <2> QED BY <1>4, <2>2
<1> QED BY <1>3, <1>6, <1>7

LEMMA FilesLoad ==
  ASSUME NEW fs, FilesFit(fs), NEW f
  PROVE  LoadFile(fs, f) = Refused \/ Fitting(LoadFile(fs, f))
<1> DEFINE n == Cardinality(DOMAIN fs)
           Level(g, k) == [name \in DOMAIN fs |->
                             IF k = 0 THEN Refused ELSE WithIncludes(fs[name], g[k - 1])]
           Is(g, m) == g = [k \in 0 .. m |-> Level(g, k)]
           Loaded == CHOOSE g : Is(g, n)
           Some == {m \in Nat : \E g : Is(g, m)}
           SoundLevel(level) == /\ DOMAIN level = DOMAIN fs
                           /\ \A x \in DOMAIN fs : level[x] = Refused \/ Fitting(level[x])
           Fit == {m \in Nat : m <= n => SoundLevel(Loaded[m])}
<1>1. n \in Nat
  BY FS_CardinalityType DEF FilesFit
<1>2. 0 \in Some
  <2> DEFINE none == [k \in 0 .. 0 |-> [name \in DOMAIN fs |-> Refused]]
  <2>1. Is(none, 0)
    OBVIOUS
  <2>2. \E g : Is(g, 0)
    <3> HIDE DEF none, Is
    <3> QED BY <2>1
  <2> QED BY <2>2
<1>3. ASSUME NEW m \in Nat, m \in Some PROVE m + 1 \in Some
  <2>1. PICK g : Is(g, m)
    BY <1>3
  <2> DEFINE h == [k \in 0 .. m + 1 |->
                     IF k <= m THEN g[k] ELSE [name \in DOMAIN fs |-> WithIncludes(fs[name], g[m])]]
  <2>2. ASSUME NEW k \in 0 .. m + 1 PROVE h[k] = Level(h, k)
    <3>1. CASE k = m + 1
      <4>1. k # 0 /\ k - 1 = m /\ m \in 0 .. m + 1 /\ ~(k <= m) /\ m <= m
        BY <3>1
      <4> QED BY <3>1, <4>1
    <3>2. CASE k # m + 1
      <4>1. k \in 0 .. m /\ k <= m /\ (k # 0 => k - 1 \in 0 .. m + 1 /\ k - 1 <= m)
        BY <3>2
      <4>2. g[k] = Level(g, k)
        BY <2>1, <4>1
      <4>3. k # 0 => h[k - 1] = g[k - 1]
        BY <4>1
      <4> QED BY <4>1, <4>2, <4>3
    <3> QED BY <3>1, <3>2
  <2>3. Is(h, m + 1)
    <3> HIDE DEF h, Level
    <3>1. h = [k \in 0 .. m + 1 |-> h[k]]
      BY DEF h
    <3> QED BY <2>2, <3>1
  <2>4. \E g1 : Is(g1, m + 1)
    <3> HIDE DEF h, Is
    <3> QED BY <2>3
  <2> QED BY <2>4
<1>4. \E g : Is(g, n)
  <2>1. \A m \in Nat : m \in Some
    <3> HIDE DEF Some
    <3> QED BY <1>2, <1>3, Induction
  <2> QED BY <1>1, <2>1
<1>5. Is(Loaded, n)
  <2> HIDE DEF Is
  <2> QED BY <1>4
<1>6. \A k \in 0 .. n : Loaded[k] = Level(Loaded, k)
  <2> HIDE DEF Loaded, Level
  <2> QED BY <1>1, <1>5
<1>7. LoadFile(fs, f) = IF f \in DOMAIN fs THEN Loaded[n][f] ELSE Refused
  BY DEF LoadFile, Loaded
<1> HIDE DEF Loaded
<1>8. \A k \in Nat : k \in Fit
  <2>1. 0 \in Fit
    <3>1. Loaded[0] = [name \in DOMAIN fs |-> Refused]
      BY <1>1, <1>6
    <3> QED BY <3>1
  <2>2. ASSUME NEW k \in Nat, k \in Fit PROVE k + 1 \in Fit
    <3>1. SUFFICES ASSUME k + 1 <= n PROVE SoundLevel(Loaded[k + 1])
      OBVIOUS
    <3>2. k + 1 \in 0 .. n /\ (k + 1) - 1 = k /\ k <= n /\ k + 1 # 0
      BY <1>1, <3>1
    <3>3. SoundLevel(Loaded[k])
      BY <2>2, <3>2
    <3>4. Loaded[k + 1] = [name \in DOMAIN fs |-> WithIncludes(fs[name], Loaded[k])]
      BY <1>6, <3>2
    <3>5. ASSUME NEW x \in DOMAIN fs
          PROVE  \/ WithIncludes(fs[x], Loaded[k]) = Refused
                 \/ Fitting(WithIncludes(fs[x], Loaded[k]))
      BY <3>3, IncludesFit DEF FilesFit
    <3> QED BY <3>4, <3>5
  <2> HIDE DEF Fit
  <2> QED BY <2>1, <2>2, Induction
<1>9. SoundLevel(Loaded[n])
  BY <1>1, <1>8
<1> QED BY <1>7, <1>9

LEMMA AgentsChange ==
  ASSUME NEW config, Fitting(config), NEW agents, NEW other, other = [config EXCEPT !.layer.agents = agents]
  PROVE  Fitting(other)
<1>1. /\ DOMAIN config = {"profile", "profiles", "layer"}
      /\ DOMAIN config.layer = {"own", "policies", "providers", "agents", "roles", "directory"}
  BY LayerFields DEF Fitting, IsConfig, IsLayer
<1>2. /\ DOMAIN other = DOMAIN config /\ other.profiles = config.profiles
      /\ DOMAIN other.layer = DOMAIN config.layer /\ other.layer.own = config.layer.own
  BY <1>1
<1> QED BY <1>2 DEF Fitting, IsConfig, IsLayer, TogetherIn

LEMMA NormalizeFits ==
  ASSUME NEW config, Fitting(config)
  PROVE  Fitting(Normalize(config))
BY AgentsChange DEF Normalize

LEMMA SelectFits ==
  ASSUME NEW config, Fitting(config), NEW asked
  PROVE  SelectProfile(config, asked) = Refused \/ Fitting(SelectProfile(config, asked))
<1> DEFINE chosen == Overlay(config.profile, asked)
           profile == config.profiles[chosen.active]
           other == [config EXCEPT !.profile = chosen, !.layer = MergeLayers(@, profile)]
<1>1. CASE Unset(chosen)
  BY <1>1 DEF SelectProfile
<1>2. CASE ~Unset(chosen) /\ ~Sets(config.profiles, chosen.active)
  BY <1>2 DEF SelectProfile
<1>3. CASE ~Unset(chosen) /\ Sets(config.profiles, chosen.active)
  <2>1. SelectProfile(config, asked) = other
    BY <1>3 DEF SelectProfile
  <2>2. DOMAIN config = {"profile", "profiles", "layer"}
    BY LayerFields DEF Fitting, IsConfig
  <2>3. /\ DOMAIN other = DOMAIN config /\ other.profiles = config.profiles
        /\ other.layer = MergeLayers(config.layer, profile)
    BY <2>2
  <2>4. Together(profile.own) /\ Together(config.layer.own)
    BY <1>3 DEF Fitting, TogetherIn, Sets
  <2> HIDE DEF other, profile, chosen
  <2>5. Fitting(other)
    BY <2>3, <2>4, LayersMerge, OverlayTogether DEF Fitting, IsConfig, TogetherIn
  <2> QED BY <2>1, <2>5
<1> QED BY <1>1, <1>2, <1>3

LEMMA LoadFits ==
  ASSUME NEW fs, FilesFit(fs), NEW f, NEW asked, Load(fs, f, asked) # Refused
  PROVE  Fitting(Load(fs, f, asked))
<1> DEFINE loaded == LoadFile(fs, f)
           selected == IF loaded = Refused THEN Refused ELSE SelectProfile(loaded, asked)
           config == IF selected = Refused THEN Refused ELSE Normalize(selected)
<1>1. loaded = Refused \/ Fitting(loaded)
  BY FilesLoad
<1>2. selected = Refused \/ Fitting(selected)
  BY <1>1, SelectFits
<1>3. config = Refused \/ Fitting(config)
  BY <1>2, NormalizeFits
<1>4. Load(fs, f, asked) = IF config = Refused \/ ~Valid(config) THEN Refused ELSE config
  BY DEF Load
<1> QED BY <1>3, <1>4

LEMMA LoadValid ==
  ASSUME NEW fs, NEW f, NEW asked, Load(fs, f, asked) # Refused
  PROVE  ValidAgents(Load(fs, f, asked).layer)
<1> DEFINE loaded == LoadFile(fs, f)
           selected == IF loaded = Refused THEN Refused ELSE SelectProfile(loaded, asked)
           config == IF selected = Refused THEN Refused ELSE Normalize(selected)
<1>1. Load(fs, f, asked) = IF config = Refused \/ ~Valid(config) THEN Refused ELSE config
  BY DEF Load
<1> HIDE DEF config
<1> QED BY <1>1 DEF Valid

-----------------------------------------------------------------------------
(* Requests.                                                               *)

\* What is asked of every request, new or stored.
RequestFits(request) ==
  /\ DOMAIN request = {"mode", "roles", "criteria", "policy", "acts", "parent"}
  /\ request.criteria \in {"explicit", "none", request.mode}

LEMMA CriteriaFit ==
  ASSUME NEW config, Fitting(config), NEW mode, NEW input, NEW flags
  PROVE  Criteria(config, mode, input, flags) \in {"explicit", "none", mode}
<1> DEFINE own == config.layer.own
           fitting == {p \in DOMAIN config.profiles : HasCriteriaFor(config.profiles[p], mode)}
           p0 == CHOOSE p \in fitting : TRUE
<1>1. Together(own) /\ \A p \in DOMAIN config.profiles : Together(config.profiles[p].own)
  BY DEF Fitting, TogetherIn
<1>2. fitting # {} => config.profiles[p0].own.criteria = mode
  <2> SUFFICES ASSUME fitting # {} PROVE config.profiles[p0].own.criteria = mode
    OBVIOUS
  <2>1. p0 \in fitting
    OBVIOUS
  <2> HIDE DEF p0
  <2> QED BY <1>1, <2>1 DEF HasCriteriaFor, Together, Sets
<1>3. Sets(own, "criteria") => Sets(own, "mode") /\ own.criteria = own.mode
  BY <1>1 DEF Together, Sets
<1> HIDE DEF own, p0, fitting
<1> DEFINE others == IF fitting = {} THEN mode ELSE config.profiles[p0].own.criteria
           asked == Sets(flags.own, "criteria") \/ Sets(input.own, "criteria")
<1>5. Criteria(config, mode, input, flags) =
        CASE asked -> "explicit"
          [] ~asked /\ ~Sets(own, "criteria") -> "none"
          [] ~asked /\ Sets(own, "criteria") ->
               IF ~Sets(own, "mode") \/ own.mode = mode THEN own.criteria ELSE others
  BY DEF Criteria, own, p0, fitting
<1>6. others = mode
  BY <1>2
<1> HIDE DEF asked, others
<1>7. CASE asked
  BY <1>5, <1>7
<1>8. CASE ~asked /\ ~Sets(own, "criteria")
  BY <1>5, <1>8
<1>9. CASE ~asked /\ Sets(own, "criteria")
  BY <1>3, <1>5, <1>6, <1>9
<1> QED BY <1>7, <1>8, <1>9

LEMMA PlanFits ==
  ASSUME NEW config, Fitting(config), NEW input, NEW flags
  PROVE  RequestFits(Plan(config, input, flags))
<1> DEFINE request == Plan(config, input, flags)
           mode == (flags.own @@ input.own @@ config.layer.own @@ [mode |-> "adjudication"]).mode
<1>1. /\ DOMAIN request = {"mode", "roles", "criteria", "policy", "acts", "parent"}
      /\ request.mode = mode /\ request.criteria = Criteria(config, mode, input, flags)
  BY DEF Plan
<1> QED BY <1>1, CriteriaFit DEF RequestFits

LEMMA ResolvedIs ==
  ASSUME NEW config, NEW request, Resolve(config, request) # Refused
  PROVE  /\ config # Refused
         /\ Resolve(config, request) = NormalizeRequest(request)
         /\ AssignedAreKnown(config, Resolve(config, request))
BY DEF Resolve

LEMMA ResolvedFits ==
  ASSUME NEW config, NEW request, RequestFits(request), Resolve(config, request) # Refused
  PROVE  RequestFits(Resolve(config, request))
<1>1. Resolve(config, request) = [request EXCEPT !.policy = @ @@ DefaultPolicies[request.mode]]
  BY ResolvedIs DEF NormalizeRequest
<1> QED BY <1>1 DEF RequestFits

-----------------------------------------------------------------------------
(* What is written to the files.                                           *)

LEMMA OverlayFits ==
  ASSUME NEW fs, FilesFit(fs), NEW over, FilesFit(over)
  PROVE  FilesFit(Overlay(fs, over))
<1> DEFINE all == Overlay(fs, over)
<1>1. /\ DOMAIN all = DOMAIN fs \cup DOMAIN over
      /\ \A k \in DOMAIN all : all[k] = IF k \in DOMAIN over THEN over[k] ELSE fs[k]
  BY DEF Overlay
<1>2. IsFiniteSet(DOMAIN fs \cup DOMAIN over)
  BY FS_Union DEF FilesFit
<1> HIDE DEF all
<1>3. ASSUME NEW name \in DOMAIN all PROVE IsFile(all[name]) /\ TogetherIn(all[name].config)
  <2>1. CASE name \in DOMAIN over
    BY <1>1, <2>1 DEF FilesFit
  <2>2. CASE name \notin DOMAIN over
    BY <1>1, <2>2 DEF FilesFit
  <2> QED BY <2>1, <2>2
<1>4. FilesFit(all)
  BY <1>1, <1>2, <1>3 DEF FilesFit
<1> QED BY <1>4 DEF all

LEMMA FileFits ==
  ASSUME NEW include, Len(include) \in Nat, DOMAIN include = 1 .. Len(include), NEW config, Fitting(config)
  PROVE  LET conf == [include |-> include, config |-> config]
         IN IsFile(conf) /\ TogetherIn(conf.config)
BY DEF IsFile, Fitting

LEMMA OneFits ==
  ASSUME NEW name, NEW config, Fitting(config)
  PROVE  FilesFit([x \in {name} |-> [include |-> <<>>, config |-> config]])
<1> DEFINE conf == [include |-> <<>>, config |-> config]
           one == [x \in {name} |-> conf]
<1>1. IsFile(conf) /\ TogetherIn(conf.config)
  BY FileFits, DOMAIN <<>> = 1 .. 0, Len(<<>>) = 0
<1>2. DOMAIN one = {name} /\ one[name] = conf
  OBVIOUS
<1>3. IsFiniteSet({name})
  BY FS_Singleton
<1> HIDE DEF conf, one
<1>4. FilesFit(one)
  BY <1>1, <1>2, <1>3 DEF FilesFit
<1> QED BY <1>4 DEF one, conf

LEMMA LayerChange ==
  ASSUME NEW config, Fitting(config), NEW other,
         DOMAIN other = DOMAIN config, other.profiles = config.profiles,
         DOMAIN other.layer = DOMAIN config.layer, other.layer.own = config.layer.own
  PROVE  Fitting(other)
BY DEF Fitting, IsConfig, IsLayer, TogetherIn

LEMMA AgentsAdded ==
  ASSUME NEW config, Fitting(config), NEW a, NEW fields, NEW given,
         ApplyAddAgent(config, a, fields, given) # Refused
  PROVE  Fitting(ApplyAddAgent(config, a, fields, given))
<1> DEFINE layer == config.layer
           With(r) == IF r[2] = "helper" THEN {a} ELSE ValueOf(layer.roles, r, {}) \cup {a}
           agents == (a :> fields) @@ layer.agents
           roles == [r \in given |-> With(r)] @@ layer.roles
           other == [config EXCEPT !.layer.agents = agents, !.layer.roles = roles]
<1>1. ApplyAddAgent(config, a, fields, given) = Checked(other)
  BY DEF ApplyAddAgent
<1>2. /\ DOMAIN config = {"profile", "profiles", "layer"}
      /\ DOMAIN config.layer = {"own", "policies", "providers", "agents", "roles", "directory"}
  BY LayerFields DEF Fitting, IsConfig, IsLayer
<1> HIDE DEF agents, roles
<1>3. /\ DOMAIN other = DOMAIN config /\ other.profiles = config.profiles
      /\ DOMAIN other.layer = DOMAIN config.layer /\ other.layer.own = config.layer.own
  BY <1>2
<1> HIDE DEF other
<1>4. Fitting(Normalize(other))
  BY <1>3, LayerChange, NormalizeFits
<1> QED BY <1>1, <1>4 DEF Checked

LEMMA ProvidersAdded ==
  ASSUME NEW config, Fitting(config), NEW p, NEW models, NEW agents,
         ApplyAddProvider(config, p, models, agents) # Refused
  PROVE  Fitting(ApplyAddProvider(config, p, models, agents))
<1> DEFINE providers == (p :> [own |-> Nothing, models |-> models]) @@ config.layer.providers
           added == [config EXCEPT !.layer.providers = providers]
           new == CHOOSE a \in agents : TRUE
           other == IF agents = {} THEN Checked(added)
                    ELSE ApplyAddAgent(added, new, [provider |-> p], {})
<1>1. ApplyAddProvider(config, p, models, agents) = other
  BY DEF ApplyAddProvider
<1>2. /\ DOMAIN config = {"profile", "profiles", "layer"}
      /\ DOMAIN config.layer = {"own", "policies", "providers", "agents", "roles", "directory"}
  BY LayerFields DEF Fitting, IsConfig, IsLayer
<1> HIDE DEF providers, new
<1>3. /\ DOMAIN added = DOMAIN config /\ added.profiles = config.profiles
      /\ DOMAIN added.layer = DOMAIN config.layer /\ added.layer.own = config.layer.own
  BY <1>2
<1> HIDE DEF added
<1>4. Fitting(added) /\ Fitting(Normalize(added))
  BY <1>3, LayerChange, NormalizeFits
<1>5. Checked(added) = Refused \/ Fitting(Checked(added))
  BY <1>4 DEF Checked
<1> QED BY <1>1, <1>4, <1>5, AgentsAdded

LEMMA TemplateFits ==
  ASSUME NEW mode
  PROVE  Fitting(BuildTemplateConfig(mode))
<1> DEFINE layer == TemplateLayer(mode)
           config == [EmptyConfig EXCEPT !.layer = layer]
<1>1. /\ DOMAIN layer = {"own", "policies", "providers", "agents", "roles", "directory"}
      /\ layer.own = [mode |-> mode, criteria |-> mode]
  BY DEF TemplateLayer
<1> HIDE DEF layer
<1>2. DOMAIN config = DOMAIN EmptyConfig /\ config.profiles = Nothing /\ config.layer = layer
  BY LayerFields
<1>3. Together([mode |-> mode, criteria |-> mode])
  BY DEF Together
<1> HIDE DEF config
<1>4. Fitting(config)
  BY <1>1, <1>2, <1>3, LayerFields, NothingTogether DEF Fitting, IsConfig, IsLayer, TogetherIn
<1>5. BuildTemplateConfig(mode) = Normalize(config)
  BY DEF BuildTemplateConfig, config, layer
<1> QED BY <1>4, <1>5, NormalizeFits

LEMMA ThreeFilesFit ==
  ASSUME FilesFit(files), NEW mode, NEW force, SetUp(mode, force)
  PROVE  FilesFit(files')
<1> DEFINE config == BuildTemplateConfig(mode)
           part == [config.layer EXCEPT !.providers = Nothing, !.agents = Nothing]
           config1 == [EmptyConfig EXCEPT !.profile = [active |-> "default"]]
           layer2 == [EmptyLayer EXCEPT !.providers = config.layer.providers,
                                        !.agents = config.layer.agents]
           config2 == [EmptyConfig EXCEPT !.layer = layer2]
           config3 == [EmptyConfig EXCEPT !.profiles = [p \in {"default"} |-> part]]
           file1 == [include |-> <<"conf/providers", "conf/profiles">>, config |-> config1]
           file2 == [include |-> <<>>, config |-> config2]
           file3 == [include |-> <<>>, config |-> config3]
           written == <<[name |-> Main, file |-> file1],
                        [name |-> "conf/providers", file |-> file2],
                        [name |-> "conf/profiles", file |-> file3]>>
           May(i) == \A j \in 1..i : force \/ written[j].name \notin DOMAIN files
           done == {i \in 1..3 : May(i)}
           names == {written[i].name : i \in done}
           over == [n \in names |-> written[CHOOSE i \in done : written[i].name = n].file]
<1>1. files' = Overlay(files, over)
  BY DEF SetUp
<1>2. Fitting(config)
  BY TemplateFits
<1>3. /\ DOMAIN config.layer = {"own", "policies", "providers", "agents", "roles", "directory"}
      /\ Together(config.layer.own)
  BY <1>2, LayerFields DEF Fitting, IsConfig, IsLayer, TogetherIn
<1>4. DOMAIN part = DOMAIN config.layer /\ part.own = config.layer.own
  BY <1>3
<1>5. Fitting(config1)
  <2>1. /\ DOMAIN config1 = DOMAIN EmptyConfig /\ config1.profiles = EmptyConfig.profiles
        /\ config1.layer = EmptyConfig.layer
    BY LayerFields
  <2> HIDE DEF config1
  <2> QED BY <2>1, EmptyFits DEF Fitting, IsConfig, TogetherIn
<1>6. Fitting(config2)
  <2> HIDE DEF config
  <2>1. DOMAIN layer2 = DOMAIN EmptyLayer /\ layer2.own = EmptyLayer.own
    BY LayerFields
  <2> HIDE DEF layer2
  <2>2. /\ DOMAIN config2 = DOMAIN EmptyConfig /\ config2.profiles = EmptyConfig.profiles
        /\ config2.layer = layer2
    BY LayerFields
  <2> HIDE DEF config2
  <2> QED BY <2>1, <2>2, EmptyFits, LayerFields, LayerChange
<1>7. Fitting(config3)
  <2> HIDE DEF part
  <2>1. /\ DOMAIN config3 = DOMAIN EmptyConfig /\ config3.layer = EmptyConfig.layer
        /\ config3.profiles = [p \in {"default"} |-> part]
    BY LayerFields
  <2> HIDE DEF config3
  <2>2. IsLayer(part) /\ Together(part.own)
    BY <1>3, <1>4, LayerFields DEF IsLayer
  <2> QED BY <2>1, <2>2, EmptyFits DEF Fitting, IsConfig, TogetherIn
<1>8. /\ IsFile(file1) /\ TogetherIn(file1.config)
      /\ IsFile(file2) /\ TogetherIn(file2.config)
      /\ IsFile(file3) /\ TogetherIn(file3.config)
  <2> HIDE DEF config1, config2, config3
  <2>1. /\ DOMAIN <<"conf/providers", "conf/profiles">> = 1 .. 2 /\ DOMAIN <<>> = 1 .. 0
        /\ Len(<<"conf/providers", "conf/profiles">>) = 2 /\ Len(<<>>) = 0
    OBVIOUS
  <2>2. IsFile(file1) /\ TogetherIn(file1.config)
    BY <1>5, <2>1, FileFits
  <2>3. IsFile(file2) /\ TogetherIn(file2.config)
    BY <1>6, <2>1, FileFits
  <2>4. IsFile(file3) /\ TogetherIn(file3.config)
    BY <1>7, <2>1, FileFits
  <2> QED BY <2>2, <2>3, <2>4
<1> HIDE DEF file1, file2, file3
<1>9. \A i \in 1 .. 3 : IsFile(written[i].file) /\ TogetherIn(written[i].file.config)
  BY <1>8
<1>10. written[1].name = Main /\ written[2].name = "conf/providers" /\ written[3].name = "conf/profiles"
  OBVIOUS
<1> HIDE DEF written
<1>11. IsFiniteSet(names)
  <2>1. names \subseteq {Main} \cup ({"conf/providers"} \cup {"conf/profiles"})
    <3> HIDE DEF May
    <3> QED BY <1>10
  <2>2. IsFiniteSet({Main} \cup ({"conf/providers"} \cup {"conf/profiles"}))
    <3>1. IsFiniteSet({"conf/providers"} \cup {"conf/profiles"})
      BY FS_Singleton, FS_Union
    <3> QED BY <3>1, FS_Singleton, FS_Union
  <2> HIDE DEF names
  <2> QED BY <2>1, <2>2, FS_Subset
<1>12. ASSUME NEW n \in names PROVE IsFile(over[n]) /\ TogetherIn(over[n].config)
  <2> DEFINE i == CHOOSE x \in done : written[x].name = n
  <2>1. i \in done /\ over[n] = written[i].file
    <3> HIDE DEF done
    <3> QED OBVIOUS
  <2>2. i \in 1 .. 3
    BY <2>1
  <2> HIDE DEF i, over
  <2> QED BY <1>9, <2>1, <2>2
<1>13. DOMAIN over = names
  <2> HIDE DEF names
  <2> QED OBVIOUS
<1> HIDE DEF over, names
<1>14. FilesFit(over)
  BY <1>11, <1>12, <1>13 DEF FilesFit
<1> QED BY <1>1, <1>14, OverlayFits

-----------------------------------------------------------------------------
(* The invariant.                                                          *)

\* The files fit, and with them what has been loaded from them: the requests of the
\* sessions, of the commands and of the cases.
RequestsFit ==
  /\ FilesFit(files)
  /\ \E S : sessions \in Seq(S)
  /\ \A s \in DOMAIN sessions :
       DOMAIN sessions[s] = {"request", "finished", "at"} /\ RequestFits(sessions[s].request)
  /\ \A c \in running : RequestFits(c.request)
  /\ \A case \in cases : RequestFits(case)

LEMMA ContentsFit ==
  ASSUME WrittenTogether, NEW contents \in Contents
  PROVE  FilesFit(contents)
BY ContentsAssumption DEF WrittenTogether, FilesFit

LEMMA InitFits ==
  ASSUME WrittenTogether, CommandInit
  PROVE  RequestsFit
<1>1. FilesFit(files)
  BY ContentsFit DEF CommandInit
<1>2. sessions \in Seq({}) /\ DOMAIN sessions = {}
  BY DEF CommandInit
<1> QED BY <1>1, <1>2 DEF CommandInit, RequestsFit

LEMMA WritesFits ==
  ASSUME RequestsFit, NEW config, config # Refused => Fitting(config), Writes(config)
  PROVE  RequestsFit'
<1>1. FilesFit(files')
  <2>1. FilesFit([x \in {Main} |-> [include |-> <<>>, config |-> config]])
    BY OneFits DEF Writes
  <2> QED BY <2>1, OverlayFits DEF Writes, RequestsFit
<1>2. sessions' = sessions /\ running' = running /\ cases' = cases
  BY DEF Writes
<1> QED BY <1>1, <1>2 DEF RequestsFit

LEMMA StartsFits ==
  ASSUME RequestsFit, NEW config, NEW request, RequestFits(request), Starts(config, request)
  PROVE  RequestsFit'
<1> DEFINE id == Len(sessions) + 1
           session == [request |-> request, finished |-> FALSE, at |-> StoredAt(config, id)]
           command == [session |-> id, request |-> request, config |-> config]
<1>1. /\ sessions' = Append(sessions, session) /\ running' = running \cup {command}
      /\ files' = files /\ cases' = cases
  BY DEF Starts
<1>2. PICK S : sessions \in Seq(S)
  BY DEF RequestsFit
<1>3. /\ DOMAIN session = {"request", "finished", "at"} /\ session.request = request
      /\ command.request = request
  OBVIOUS
<1> HIDE DEF session, command
<1>4. sessions' \in Seq(S \cup {session})
  <2>1. sessions \in Seq(S \cup {session})
    BY <1>2
  <2> QED BY <1>1, <2>1
<1>5. ASSUME NEW s \in DOMAIN sessions'
      PROVE  /\ DOMAIN sessions'[s] = {"request", "finished", "at"}
             /\ RequestFits(sessions'[s].request)
  <2>1. CASE s \in DOMAIN sessions
    <3>1. sessions'[s] = sessions[s]
      BY <1>1, <1>2, <2>1
    <3> QED BY <2>1, <3>1 DEF RequestsFit
  <2>2. CASE s \notin DOMAIN sessions
    <3>1. sessions'[s] = session
      BY <1>1, <1>2, <1>5, <2>2
    <3> QED BY <1>3, <3>1
  <2> QED BY <2>1, <2>2
<1>6. \A c \in running' : RequestFits(c.request)
  BY <1>1, <1>3 DEF RequestsFit
<1> QED BY <1>1, <1>4, <1>5, <1>6 DEF RequestsFit

LEMMA ContinuesFits ==
  ASSUME RequestsFit, NEW s, NEW config, NEW request, RequestFits(request),
         Continues(s, config, request)
  PROVE  RequestsFit'
<1> DEFINE command == [session |-> s, request |-> request, config |-> config]
<1>1. /\ running' = running \cup {command}
      /\ files' = files /\ cases' = cases /\ sessions' = sessions
  BY DEF Continues
<1>2. command.request = request
  OBVIOUS
<1> HIDE DEF command
<1> QED BY <1>1, <1>2 DEF RequestsFit

LEMMA StoredRequestFits ==
  ASSUME RequestsFit, NEW config, NEW s \in DOMAIN sessions, Stored(config, s) # Refused
  PROVE  /\ RequestFits(Stored(config, s))
         /\ RequestFits([Stored(config, s) EXCEPT !.parent = s])
<1>1. RequestFits(Stored(config, s))
  BY DEF RequestsFit, Stored
<1> QED BY <1>1 DEF RequestFits

LEMMA EndsFits ==
  ASSUME RequestsFit, NEW c, Ends(c)
  PROVE  RequestsFit'
<1>1. PICK finished \in BOOLEAN : sessions' = [sessions EXCEPT ![c.session].finished = finished]
  BY DEF Ends
<1>2. files' = files /\ cases' = cases /\ running' \subseteq running
  BY DEF Ends
<1>3. PICK S : sessions \in Seq(S)
  BY DEF RequestsFit
<1> DEFINE ended == [sessions[c.session] EXCEPT !.finished = finished]
<1>4. /\ DOMAIN sessions' = DOMAIN sessions
      /\ \A s \in DOMAIN sessions : sessions'[s] = IF s = c.session THEN ended ELSE sessions[s]
  BY <1>1
<1>5. sessions' \in Seq(S \cup {ended})
  <2> HIDE DEF ended
  <2>1. DOMAIN sessions = 1 .. Len(sessions) /\ Len(sessions) \in Nat
    BY <1>3
  <2>2. sessions' = [s \in 1 .. Len(sessions) |-> IF s = c.session THEN ended ELSE sessions[s]]
    BY <1>1, <2>1 DEF ended
  <2>3. sessions' \in [1 .. Len(sessions) -> S \cup {ended}]
    BY <1>3, <2>1, <2>2
  <2> QED BY <2>1, <2>3
<1>6. ASSUME NEW s \in DOMAIN sessions'
      PROVE  /\ DOMAIN sessions'[s] = {"request", "finished", "at"}
             /\ RequestFits(sessions'[s].request)
  <2>1. /\ s \in DOMAIN sessions /\ DOMAIN sessions[s] = {"request", "finished", "at"}
        /\ RequestFits(sessions[s].request)
    BY <1>4 DEF RequestsFit
  <2>2. CASE s = c.session
    <3>1. DOMAIN ended = {"request", "finished", "at"} /\ ended.request = sessions[s].request
      BY <2>1, <2>2
    <3> HIDE DEF ended
    <3> QED BY <1>4, <2>1, <2>2, <3>1
  <2>3. CASE s # c.session
    BY <1>4, <2>1, <2>3
  <2> QED BY <2>2, <2>3
<1> QED BY <1>2, <1>5, <1>6 DEF RequestsFit

LEMMA ContradictedFits ==
  ASSUME RequestsFit, NEW c \in running, Contradicted(c)
  PROVE  RequestsFit'
<1> DEFINE case == [c.request EXCEPT !.parent = c.session, !.acts = FALSE,
                                     !.criteria = IF @ = "none" THEN "explicit" ELSE @]
<1>1. /\ cases' = cases \cup {case}
      /\ files' = files /\ sessions' = sessions /\ running' = running
  BY DEF Contradicted
<1>2. RequestFits(c.request)
  BY DEF RequestsFit
<1>3. RequestFits(case)
  BY <1>2 DEF RequestFits
<1> HIDE DEF case
<1> QED BY <1>1, <1>3 DEF RequestsFit

LEMMA CommandsFit ==
  ASSUME RequestsFit, NEW asked, NEW input, NEW flags, NEW mode
  PROVE  /\ Run(asked, input, flags) => RequestsFit'
         /\ Shortcut(mode, asked, input, flags) => RequestsFit'
<1> DEFINE config == Load(files, Main, asked)
<1>1. FilesFit(files)
  BY DEF RequestsFit
<1>2. config # Refused => Fitting(config)
  BY <1>1, LoadFits
<1>3. ASSUME NEW given, NEW request, request # Refused, Starts(config, request),
             request = IF config = Refused THEN Refused
                       ELSE Resolve(config, Plan(config, input, given))
      PROVE  RequestsFit'
  <2> HIDE DEF config
  <2>1. RequestFits(request)
    BY <1>2, <1>3, PlanFits, ResolvedFits
  <2> QED BY <1>3, <2>1, StartsFits
<1>4. ASSUME Run(asked, input, flags) PROVE RequestsFit'
  BY <1>3, <1>4 DEF Run
<1>5. ASSUME Shortcut(mode, asked, input, flags) PROVE RequestsFit'
  BY <1>3, <1>5 DEF Shortcut
<1> QED BY <1>4, <1>5

LEMMA ResumeFits ==
  ASSUME RequestsFit, NEW asked, NEW s \in DOMAIN sessions, ResumeSession(asked, s)
  PROVE  RequestsFit'
<1> DEFINE config == Load(files, Main, asked)
           request == Resolve(config, Stored(config, s))
<1>1. Stored(config, s) # Refused /\ Continues(s, config, request)
  BY DEF ResumeSession
<1>2. request # Refused
  BY <1>1 DEF Continues
<1>3. RequestFits(request)
  BY <1>1, <1>2, StoredRequestFits, ResolvedFits
<1> HIDE DEF request, config
<1> QED BY <1>1, <1>3, ContinuesFits

LEMMA ReplayFits ==
  ASSUME RequestsFit, NEW asked, NEW s \in DOMAIN sessions, Replay(asked, s)
  PROVE  RequestsFit'
<1> DEFINE config == Load(files, Main, asked)
           stored == Stored(config, s)
           request == IF stored = Refused THEN Refused
                      ELSE Resolve(config, [stored EXCEPT !.parent = s])
<1>1. request # Refused /\ Starts(config, request)
  BY DEF Replay
<1>2. RequestFits(request)
  BY <1>1, StoredRequestFits, ResolvedFits
<1> HIDE DEF request, config
<1> QED BY <1>1, <1>2, StartsFits

LEMMA FollowUpFits ==
  ASSUME RequestsFit, NEW asked, NEW case \in cases, FollowUp(asked, case)
  PROVE  RequestsFit'
<1> DEFINE config == Load(files, Main, asked)
           request == Resolve(config, case)
<1>1. request # Refused /\ Starts(config, request)
  BY DEF FollowUp
<1>2. RequestFits(case)
  BY DEF RequestsFit
<1>3. RequestFits(request)
  BY <1>1, <1>2, ResolvedFits
<1> HIDE DEF request, config
<1> QED BY <1>1, <1>3, StartsFits

LEMMA WritingFits ==
  ASSUME RequestsFit, NEW a, NEW fields, NEW given, NEW p, NEW models, NEW agents,
         NEW mode, NEW force
  PROVE  /\ AddAgent(a, fields, given) => RequestsFit'
         /\ AddProvider(p, models, agents) => RequestsFit'
         /\ InitConfig(mode, force) => RequestsFit'
         /\ SetUp(mode, force) => RequestsFit'
<1> DEFINE config == Load(files, Main, Nothing)
<1>1. FilesFit(files)
  BY DEF RequestsFit
<1>2. config # Refused => Fitting(config)
  BY <1>1, LoadFits
<1>3. ASSUME AddAgent(a, fields, given) PROVE RequestsFit'
  <2>1. config # Refused /\ Writes(ApplyAddAgent(config, a, fields, given))
    BY <1>3 DEF AddAgent
  <2> HIDE DEF config
  <2> QED BY <1>2, <2>1, AgentsAdded, WritesFits
<1>4. ASSUME AddProvider(p, models, agents) PROVE RequestsFit'
  <2>1. config # Refused /\ Writes(ApplyAddProvider(config, p, models, agents))
    BY <1>4 DEF AddProvider
  <2> HIDE DEF config
  <2> QED BY <1>2, <2>1, ProvidersAdded, WritesFits
<1>5. ASSUME InitConfig(mode, force) PROVE RequestsFit'
  BY <1>5, TemplateFits, WritesFits DEF InitConfig
<1>6. ASSUME SetUp(mode, force) PROVE RequestsFit'
  <2>1. FilesFit(files')
    BY <1>1, <1>6, ThreeFilesFit
  <2>2. sessions' = sessions /\ running' = running /\ cases' = cases
    BY <1>6 DEF SetUp
  <2> QED BY <2>1, <2>2 DEF RequestsFit
<1> QED BY <1>3, <1>4, <1>5, <1>6

LEMMA NextFits ==
  ASSUME WrittenTogether, RequestsFit, [CommandNext]_commandVars
  PROVE  RequestsFit'
<1>1. CASE UNCHANGED commandVars
  BY <1>1 DEF commandVars, RequestsFit
<1>2. CASE Edit
  <2>1. FilesFit(files')
    BY <1>2, ContentsFit DEF Edit
  <2> QED BY <1>2, <2>1 DEF Edit, RequestsFit
<1>3. CASE \E a \in NewAgents, given \in Assignable :
             \/ AddAgent(a.id, a.fields, given)
             \/ AddProvider(a.fields.provider, [m \in {"default"} |-> Nothing], {a.id})
  BY <1>3, WritingFits
<1>4. CASE \E mode \in Modes, force \in BOOLEAN : InitConfig(mode, force) \/ SetUp(mode, force)
  BY <1>4, WritingFits
<1>5. CASE \E asked \in Askable, input \in Inputs, flags \in Flags : Run(asked, input, flags)
  BY <1>5, CommandsFit
<1>6. CASE \E asked \in Askable, input \in Inputs, mode \in Modes :
             Shortcut(mode, asked, input, EmptyLayer)
  BY <1>6, CommandsFit
<1>7. CASE \E asked \in Askable, s \in DOMAIN sessions : ResumeSession(asked, s) \/ Replay(asked, s)
  BY <1>7, ResumeFits, ReplayFits
<1>8. CASE \E asked \in Askable, case \in cases : FollowUp(asked, case)
  BY <1>8, FollowUpFits
<1>9. CASE \E c \in running : Contradicted(c) \/ Ends(c)
  BY <1>9, ContradictedFits, EndsFits
<1> QED BY <1>1, <1>2, <1>3, <1>4, <1>5, <1>6, <1>7, <1>8, <1>9 DEF CommandNext

\* Where every layer that sets the mode or criteria sets both for each other, no
\* session has criteria of another mode: the edits, the profile, the commands that
\* write files, the input, the flags and the ways a run comes about keep it
\* (resolveSuccessCriteria, applySelectedProfile, mergeDefaults).
THEOREM CriteriaAreOfTheMode == CommandSpec => []CriteriaFitTheMode
<1>1. CASE WrittenTogether
  <2>1. CommandInit => RequestsFit
    BY <1>1, InitFits
  <2>2. RequestsFit /\ [CommandNext]_commandVars => RequestsFit'
    BY <1>1, NextFits
  <2>3. RequestsFit => CriteriaFitTheMode
    BY DEF RequestsFit, RequestFits, CriteriaFitTheMode
  <2> QED BY <2>1, <2>2, <2>3, PTL DEF CommandSpec
<1>2. CASE ~WrittenTogether
  <2>1. CriteriaFitTheMode
    BY <1>2 DEF CriteriaFitTheMode
  <2> QED BY <2>1, PTL
<1> QED BY <1>1, <1>2

-----------------------------------------------------------------------------
(* Agents.                                                                 *)

\* What AgentsAreUsable says of one command.
UsableIn(c) ==
  \A r \in DOMAIN c.request.roles \ {"synthesizer"} :
    \A a \in c.request.roles[r] : Usable(c.config.layer, a)

LEMMA ResolvedUsable ==
  ASSUME NEW fs, NEW asked, NEW other, NEW s, NEW config, config = Load(fs, Main, asked),
         NEW request, request # Refused, request = Resolve(config, other)
  PROVE  UsableIn([session |-> s, request |-> request, config |-> config])
<1>1. config # Refused /\ AssignedAreKnown(config, request)
  BY ResolvedIs
<1>2. \A a \in DOMAIN config.layer.agents : Usable(config.layer, a)
  BY <1>1, LoadValid DEF ValidAgents
<1> QED BY <1>1, <1>2 DEF UsableIn, AssignedAreKnown

LEMMA CommandUsable ==
  ASSUME AgentsAreUsable, NEW asked, NEW other, NEW request, request # Refused,
         request = Resolve(Load(files, Main, asked), other),
         \/ Starts(Load(files, Main, asked), request)
         \/ \E s : Continues(s, Load(files, Main, asked), request)
  PROVE  AgentsAreUsable'
<1> DEFINE config == Load(files, Main, asked)
<1>1. PICK s : running' = running \cup {[session |-> s, request |-> request, config |-> config]}
  BY DEF Starts, Continues
<1> DEFINE command == [session |-> s, request |-> request, config |-> config]
<1>2. UsableIn(command)
  BY ResolvedUsable
<1>3. \A c \in running : UsableIn(c)
  BY DEF AgentsAreUsable, UsableIn
<1> HIDE DEF command
<1>4. \A c \in running' : UsableIn(c)
  BY <1>1, <1>2, <1>3 DEF command
<1> QED BY <1>4 DEF AgentsAreUsable, UsableIn

LEMMA NextUsable ==
  ASSUME AgentsAreUsable, [CommandNext]_commandVars
  PROVE  AgentsAreUsable'
<1>1. ASSUME running' \subseteq running PROVE AgentsAreUsable'
  BY <1>1 DEF AgentsAreUsable
<1>2. CASE UNCHANGED commandVars
  BY <1>1, <1>2 DEF commandVars
<1>3. CASE Edit
  BY <1>1, <1>3 DEF Edit
<1>4. ASSUME NEW config, Writes(config) PROVE AgentsAreUsable'
  BY <1>1, <1>4 DEF Writes
<1>5. CASE \E a \in NewAgents, given \in Assignable :
             \/ AddAgent(a.id, a.fields, given)
             \/ AddProvider(a.fields.provider, [m \in {"default"} |-> Nothing], {a.id})
  BY <1>4, <1>5 DEF AddAgent, AddProvider
<1>6. CASE \E mode \in Modes, force \in BOOLEAN : InitConfig(mode, force) \/ SetUp(mode, force)
  BY <1>1, <1>4, <1>6 DEF InitConfig, SetUp
<1>7. CASE \E asked \in Askable, input \in Inputs, flags \in Flags : Run(asked, input, flags)
  BY <1>7, CommandUsable DEF Run
<1>8. CASE \E asked \in Askable, input \in Inputs, mode \in Modes :
             Shortcut(mode, asked, input, EmptyLayer)
  BY <1>8, CommandUsable DEF Shortcut
<1>9. CASE \E asked \in Askable, s \in DOMAIN sessions : ResumeSession(asked, s) \/ Replay(asked, s)
  <2>1. PICK asked \in Askable, s \in DOMAIN sessions : ResumeSession(asked, s) \/ Replay(asked, s)
    BY <1>9
  <2> DEFINE config == Load(files, Main, asked)
  <2>2. CASE ResumeSession(asked, s)
    <3>1. /\ Continues(s, config, Resolve(config, Stored(config, s)))
          /\ Resolve(config, Stored(config, s)) # Refused
      BY <2>2 DEF ResumeSession, Continues
    <3> QED BY <3>1, CommandUsable
  <2>3. CASE Replay(asked, s)
    BY <2>3, CommandUsable DEF Replay
  <2> QED BY <2>1, <2>2, <2>3
<1>10. CASE \E asked \in Askable, case \in cases : FollowUp(asked, case)
  BY <1>10, CommandUsable DEF FollowUp
<1>11. CASE \E c \in running : Contradicted(c) \/ Ends(c)
  BY <1>1, <1>11 DEF Contradicted, Ends
<1> QED BY <1>2, <1>3, <1>5, <1>6, <1>7, <1>8, <1>9, <1>10, <1>11 DEF CommandNext

\* Every agent that a running command may give a task to, but the synthesizer, is one
\* the configuration it has loaded can use, also when the request is older
\* (validateAssignedAgents, validateAgentProfiles).
THEOREM OnlyUsableAgents == CommandSpec => []AgentsAreUsable
<1>1. CommandInit => AgentsAreUsable
  BY DEF CommandInit, AgentsAreUsable
<1>2. AgentsAreUsable /\ [CommandNext]_commandVars => AgentsAreUsable'
  BY NextUsable
<1> QED BY <1>1, <1>2, PTL DEF CommandSpec
=============================================================================
