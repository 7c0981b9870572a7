SPECIFICATION FairSpec

CONSTANTS
  prep = prep
  Preparations <- MCPreparations
  MaxRuns = 2
  RunLimit = 2
  ChainLimit = 2
  MaxInterventions = 2

INVARIANT BudgetNeverExceeded

PROPERTY ConfigFailureStands
PROPERTY CompletedStands
PROPERTY PreparationsStand
PROPERTY EveryRunSettles

CHECK_DEADLOCK FALSE
