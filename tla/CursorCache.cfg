SPECIFICATION FairSpec
CONSTANTS
  Keys = {k1}
  MaxSeq = 2
  Handlers = {h1}
INVARIANTS TypeOK NoLostUpdate CloseLosesNothing
PROPERTIES StoredMonotone ImplementsContract EventuallyStored
