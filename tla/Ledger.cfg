CONSTANTS
  Processes = {p1, p2}
  Ids <- MCIds
  WithArtifact <- MCWithArtifact
  Old = "old"
  NoRoot = NoRoot
  NoProcess = NoProcess
  MaxFaults = 3
SPECIFICATION LedgerSpec
INVARIANTS CommittedVerifies
PROPERTIES RefusedOnlyAfterLoss ImplementsLog
CHECK_DEADLOCK FALSE
