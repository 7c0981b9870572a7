------------------------------ MODULE EvidenceLog ------------------------------
(***************************************************************************)
(* What the evidence ledger promises: a log that only grows, in which no    *)
(* entry identifier appears twice. An entry is first written and then in    *)
(* the log; written entries reach the log in their order, and only a loss   *)
(* of power takes one away. The Append that wrote an entry returns it as    *)
(* committed only once it is in the log.                                    *)
(***************************************************************************)
EXTENDS Sequences, Naturals

CONSTANT Ids  \* the identifiers of evidence entries

VARIABLES log,       \* the entries nothing takes away, oldest first
          pending,   \* the entries written after them
          losses,    \* how often power was lost
          answered   \* the entries whose own Append returned them as committed

logVars == <<log, pending, losses, answered>>

Logged(l) == {l[i] : i \in 1 .. Len(l)}

\* The ledger is empty, or holds the entry an older version wrote.
LogInit == /\ log \in {<<>>} \cup {<<id>> : id \in Ids}
           /\ pending = <<>>
           /\ losses = 0
           /\ answered = {}

Write(id) == /\ id \notin Logged(log) \cup Logged(pending)
             /\ pending' = Append(pending, id)
             /\ UNCHANGED <<log, losses, answered>>

Commit == /\ log' = log \o pending
          /\ pending' = <<>>
          /\ UNCHANGED <<losses, answered>>

\* Of the entries not yet in the log the first few survive.
LosePower == /\ \E n \in 0 .. Len(pending) : log' = log \o SubSeq(pending, 1, n)
             /\ pending' = <<>>
             /\ losses' = losses + 1
             /\ UNCHANGED answered

Acknowledge(id) == /\ id \in Logged(log)
                   /\ answered' = answered \cup {id}
                   /\ UNCHANGED <<log, pending, losses>>

LogNext == Commit \/ LosePower \/ \E id \in Ids : Write(id) \/ Acknowledge(id)

LogSpec == LogInit /\ [][LogNext]_logVars
=============================================================================
