---------------------------- MODULE MCRunManager ----------------------------
(* The run manager with a discussion and a branch of it, or two discussions. *)
EXTENDS RunManager

CONSTANT prep

MCPreparations == {prep}
=============================================================================
