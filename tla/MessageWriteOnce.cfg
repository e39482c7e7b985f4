SPECIFICATION Spec
CONSTANTS
  Msgs = {m1}
  Attempts = {a1, a2}
  MaxChunks = 1
  MaxCrashes = 0
  Faults = {}
INVARIANTS WrittenOnce
CHECK_DEADLOCK FALSE
