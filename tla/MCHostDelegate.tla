---------------------------- MODULE MCHostDelegate ----------------------------
(* Two reviewers, of which Codex may be asked twice. *)
EXTENDS HostDelegate, TLC

CONSTANTS codex, other

MCReviewers == {codex, other}
MCMaxAttempts == codex :> 2 @@ other :> 1
MCCalls == {<<codex, 1>>, <<codex, 2>>, <<other, 1>>}
MCCodexCalls == {<<codex, 1>>, <<codex, 2>>}
MCIdentity == [v \in MCReviewers |-> v]
=============================================================================
