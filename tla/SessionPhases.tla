--------------------------- MODULE SessionPhases ---------------------------
(***************************************************************************)
(* The phases of a consensus session and the transitions its state machine *)
(* accepts (consensus/state.go).  Every workflow drives the same machine;  *)
(* which phases a workflow uses before its report depends on its mode.     *)
(***************************************************************************)

WorkflowModes == {"adjudication", "free_debate", "delphi"}

PreludePhases == {"created", "frame", "ingest"}

AdjudicationPhases ==
  {"ingest", "propose", "challenge", "verify", "revise", "adjudicate", "report"}

DebatePhases == {"ingest", "initial", "debate", "final_vote", "report"}

DelphiPhases ==
  {"ingest", "delphi_questionnaire", "delphi_summary", "delphi_revision", "report"}

\* The phases a workflow of each mode passes through between ingest and its
\* report, both included.
BodyPhases(mode) ==
  CASE mode = "adjudication" -> AdjudicationPhases
    [] mode = "free_debate"  -> DebatePhases
    [] mode = "delphi"       -> DelphiPhases

FinalPhases == {"action", "observe", "finished", "failed"}

Phases ==
  PreludePhases \cup AdjudicationPhases \cup DebatePhases \cup DelphiPhases
    \cup FinalPhases

\* The tail of a session that every mode shares.
Closing == {"action", "finished", "failed"}

\* The successors the state machine accepts, by current phase.
Successors ==
  [p \in Phases |->
    CASE p = "created"              -> {"frame", "failed"}
      [] p = "frame"                -> {"ingest", "failed"}
      [] p = "ingest"               -> {"propose", "challenge", "adjudicate", "initial",
                                        "delphi_questionnaire", "failed"}
      [] p = "propose"              -> {"challenge", "report", "finished", "failed"}
      [] p = "challenge"            -> {"verify", "finished", "failed"}
      [] p = "verify"               -> {"revise", "adjudicate", "finished", "failed"}
      [] p = "revise"               -> {"challenge", "verify", "adjudicate", "finished",
                                        "failed"}
      [] p = "adjudicate"           -> {"ingest", "revise", "report"} \cup Closing
      [] p = "initial"              -> {"debate", "final_vote", "report"} \cup Closing
      [] p = "debate"               -> {"final_vote", "report"} \cup Closing
      [] p = "final_vote"           -> {"report"} \cup Closing
      [] p = "delphi_questionnaire" -> {"delphi_summary", "report"} \cup Closing
      [] p = "delphi_summary"       -> {"delphi_revision", "report"} \cup Closing
      [] p = "delphi_revision"      -> {"delphi_summary", "report"} \cup Closing
      [] p = "report"               -> {"observe"} \cup Closing
      [] p = "action"               -> {"observe", "finished", "failed"}
      [] p = "observe"              -> {"finished", "failed"}
      [] OTHER                      -> {}]

AllowedTransition(current, next) == next \in Successors[current]
=============================================================================
