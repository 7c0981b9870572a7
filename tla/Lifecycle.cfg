SPECIFICATION FairSpec
CONSTANTS
  MaxSources = 2
  MaxCrashes = 2
  MaxFailures = 2
  Requests <- MCRequests
INVARIANTS ActionAccounted ResultJustified ObservationsComplete
PROPERTIES FinishedIsFinal
