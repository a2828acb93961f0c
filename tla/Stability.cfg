SPECIFICATION Spec
CONSTANTS
  MaxAyah = 5
  MaxSurah = 2
  Evidence <- EvidenceClasses
  BigJump = 3
  StreakCap = 3
INVARIANT LastSeen
PROPERTY CommitNeedsAgreement
PROPERTY CommittedMovesBackOnlyByReset
PROPERTY AgreementCommits
PROPERTY StableNeedsStreak
