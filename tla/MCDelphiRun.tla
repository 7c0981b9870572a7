---------------------------- MODULE MCDelphiRun ----------------------------
(* Finite instances of DelphiRun.                                          *)
EXTENDS DelphiRun

CONSTANTS Ann, Bob

TwoExperts == {Ann, Bob}

Rate(id, text, rating) == [id |-> id, text |-> text, rating |-> rating]

\* Absent; one statement or two; a statement rated by text and by identifier; an
\* identifier that may have no text.
SomeAnswers ==
  {<<>>,
   <<Rate(0, 1, 5)>>,
   <<Rate(0, 1, 4), Rate(0, 2, 5)>>,
   <<Rate(0, 2, 1), Rate(2, 0, 5)>>,
   <<Rate(2, 0, 5)>>}

DelphiRequest ==
  [mode : {"delphi"}, gate : {"none"}, sources : {0}, reopens : {FALSE}]
=============================================================================
