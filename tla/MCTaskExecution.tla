---------------------------- MODULE MCTaskExecution ----------------------------
(* Two agents of which one call may run at a time, and two attempts.              *)
EXTENDS TaskExecution

Wrapped(form, value) == [form |-> form, value |-> value]

\* A text of every form and every value.
MCTexts ==
  {Output, Blank, Prose, Wrapped("objects", "invalid"), Wrapped("object", "numbers"),
   Wrapped("recoverable", "valid")}
=============================================================================
