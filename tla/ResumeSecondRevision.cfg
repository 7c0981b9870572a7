SPECIFICATION AdjSpec
CONSTANTS
  MaxCrashes = 1
  MaxFailures = 0
  MaxRevisionRounds = 1
  MaxVerificationRounds <- OneVerification
  MaxFallbackRounds = 1
  AllowNoRecords = FALSE
  Requests <- MCRequests
  Fallback <- Policies
INVARIANT NeverRejected
