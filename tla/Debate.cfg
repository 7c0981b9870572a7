SPECIFICATION DebateFairSpec
CONSTANTS
  Ann = Ann
  Bob = Bob
  x = x
  y = y
  Synthesizer = Synthesizer
  Participants <- TwoParticipants
  Texts <- TwoTexts
  SynthesisTexts <- DraftTexts
  Requests <- DebateRequest
  VoteChoices <- InFavour
  VoteThreshold = 67
  VoteQuorum = 60
  VoteAggregation = "median"
  MaxCrashes = 1
  MaxFailures = 1
  MaxDrafts = 1
  MinRounds = 1
  MaxRounds = 2
  MaxNewClaims = 1
  MaxActiveClaims = 2
  DedupPerRound = TRUE
  Dedups = TRUE
  Synthesizes = TRUE
  AmendmentRounds = 1
INVARIANTS MergesAreFollowed CommittedNotRepeated BallotsMatchClaims
PROPERTIES Spec DebateFinishes
