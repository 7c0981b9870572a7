CONSTANTS
  Texts <- MCTexts
  MaxParts = 3
  Tasks = {t1, t2}
  MaxParallel = 1
  MaxAttempts = 2
  MaxRounds = 1
  MaxFaults = 1
SPECIFICATION FairSpec
INVARIANTS LateAnswersIgnored ArtifactsStand
PROPERTIES RoundsFinish
CHECK_DEADLOCK FALSE
