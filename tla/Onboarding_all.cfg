SPECIFICATION OnboardingSpec
CONSTANTS
  Ids = {i1, i2}
  Servers = {sA}
  None = None
  Remembered = 3
  MaxPending = 2
SYMMETRY Symmetry
INVARIANTS StoreFollowsSession PhraseIsOfTheKey BusyIsAnswered
