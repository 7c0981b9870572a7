CONSTANTS
  Engines = {e1, e2}
  NoSession = NoSession
  Nobody = Nobody
  MaxSteps = 2
  MaxKills = 2
  MaxLog = 4
  MaxVersion = 5
SPECIFICATION Spec
INVARIANTS EvidenceBacked StepsAccounted
CHECK_DEADLOCK FALSE
