SPECIFICATION CommandSpec
CONSTANTS
  Main <- MCMain
  Contents <- MCContents
  Askable <- MCAskable
  Inputs <- MCInputs
  Flags <- MCFlags
  NewAgents <- MCNewAgents
  Assignable <- MCAssignable
  MaxEdits = 1
  MaxSessions = 2
CONSTRAINT Few
INVARIANTS CriteriaFitTheMode AgentsAreUsable
CHECK_DEADLOCK FALSE
