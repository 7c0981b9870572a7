SPECIFICATION GraphSpec
CONSTANTS
  MaxCrashes = 1
  MaxFailures = 1
  MaxRevisionRounds = 1
  MaxFallbackRounds = 1
  MaxVerificationRounds <- MCVerifications
  AllowNoRecords = TRUE
  MaxClaims = 2
  ClaimBound <- MCClaimBound
  Setup <- MCSetup
  AgentDecides <- MCAgent
  Paths <- MCPaths
  Readings <- MCReadings
  HighEvidence <- MCEvidence
  HighRisk = FALSE
  Requests <- MCRequests
  Fallback <- MixedPolicy
CONSTRAINT FewFaults
INVARIANTS DataFollowsGraph SupportIsEarned ClosingIsBacked ReportedClaimsDecided
PROPERTIES RevivedByWorkersOnly
