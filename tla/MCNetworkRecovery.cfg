SPECIFICATION FairSpec
CONSTANTS
  MaxAttempts = 2
  MaxGenerations = 3
INVARIANTS
  OneChain
  MarksAreExact
  QuietWhenBlocked
PROPERTIES
  StuckIsRetried
