------------------------------ MODULE MCLedgerWAL ------------------------------
(* Two processes, an old entry and three new ones, of which one has no artifact. *)
EXTENDS LedgerWAL

MCIds == {"old", "one", "two", "three"}
MCWithArtifact == {"old", "two", "three"}
=============================================================================
