--------------------------- MODULE MCFreeDebateRun ---------------------------
(* Finite instances of FreeDebateRun.                                      *)
EXTENDS FreeDebateRun

CONSTANTS Ann, Bob, x, y

TwoParticipants == <<Ann, Bob>>
TwoTexts == {x, y}
DraftTexts == {y}

InFavour == {<<"accept", 100>>}

DebateRequest ==
  [mode : {"free_debate"}, gate : {"none"}, sources : {0}, reopens : {FALSE}]
=============================================================================
