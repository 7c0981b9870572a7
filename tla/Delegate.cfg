SPECIFICATION DelegateFairSpec
CONSTANTS
  codex = codex
  other = other
  Reviewers <- MCReviewers
  Calls <- MCCalls
  CodexCalls <- MCCodexCalls
  Identity <- MCIdentity
  MaxAttempts <- MCMaxAttempts
  MaxFaults = 1
INVARIANTS SupportedIsEarned
PROPERTIES ClosedIsQuiet CloseReturns
CHECK_DEADLOCK FALSE
