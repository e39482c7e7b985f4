SPECIFICATION Spec
CONSTANTS
  Agents = {a1, a2}
  Creator = a1
  Requests = {r1, r2, r3, r4}
  MaxCrashes = 1
  Faults = {"pg"}
SYMMETRY Symmetry
INVARIANTS TypeOK JoinsBalance
PROPERTIES NeverEmptied
CHECK_DEADLOCK FALSE
