SPECIFICATION Spec
CONSTANTS
  Msgs = {m1}
  Attempts = {a1, a2}
  MaxChunks = 2
  MaxCrashes = 0
  Faults = {"s2", "late", "leave"}
SYMMETRY Symmetry
INVARIANTS TypeOK 
CHECK_DEADLOCK FALSE
