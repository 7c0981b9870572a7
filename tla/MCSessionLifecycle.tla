------------------------- MODULE MCSessionLifecycle -------------------------
(* Finite instances of SessionLifecycle.                                   *)
EXTENDS SessionLifecycle

CONSTANT MaxSources   \* bound: observe sources of a request

MCRequests ==
  [mode : WorkflowModes, gate : {"none", "allows", "blocks"},
   sources : 0 .. MaxSources, reopens : BOOLEAN]
=============================================================================
