SPECIFICATION AdjFairSpec
CONSTANTS
  MaxCrashes = 2
  MaxFailures = 1
  MaxRevisionRounds = 3
  MaxVerificationRounds <- TwoVerifications
  MaxFallbackRounds = 2
  AllowNoRecords = TRUE
  Requests <- MCRequests
  Fallback <- Policies
INVARIANTS ProposalsComplete RefusedAfterDecisionOnly FallbackBudget
PROPERTIES ResumeContinues Spec SessionFinishes
