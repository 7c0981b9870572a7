SPECIFICATION DelphiFairSpec
CONSTANTS
  Ann = Ann
  Bob = Bob
  Panel <- TwoExperts
  Answers <- SomeAnswers
  Requests <- DelphiRequest
  ScaleMin = 1
  ScaleMax = 5
  ResponseQuorum = 60
  MinResponses = 2
  ConvergenceThreshold = 75
  MinRounds = 2
  MaxRounds = 3
  StabilityRounds = 2
  MaxCrashes = 1
  MaxFailures = 1
INVARIANTS ConvergedIsEarned
PROPERTIES DelphiFinishes
