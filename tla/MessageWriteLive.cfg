SPECIFICATION FairSpec
CONSTANTS
  Msgs = {m1, m2}
  Attempts = {a1, a2}
  MaxChunks = 0
  MaxCrashes = 1
  Faults = {"ctx"}
INVARIANTS AnsweredIsRecorded HeadCoversAnswered
PROPERTIES ClaimResolved
CHECK_DEADLOCK FALSE
