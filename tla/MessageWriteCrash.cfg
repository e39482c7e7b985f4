SPECIFICATION Spec
CONSTANTS
  Msgs = {m1, m2}
  Attempts = {a1, a2}
  MaxChunks = 0
  MaxCrashes = 2
  Faults = {"pg"}
SYMMETRY Symmetry
INVARIANTS ClaimExclusive UnfinishedIsClaimed AbortedIsOnLog
PROPERTIES OutcomeFinal
CHECK_DEADLOCK FALSE
