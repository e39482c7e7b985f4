SPECIFICATION Spec
CONSTANTS
  Tails = {t1, t2, t3}
  Writes = {w1, w2}
  Leaves = {l1}
  MessageIds = {m1}
  MaxRecords = 4
  ChanCap = 2
  InviteBuffer = 1
  MaxInvites = 2
  MaxListeners = 3
  MaxHeard = 2
INVARIANTS ConnectionsSound NoGap ResidentSound
\* Every request is made once, and the last listener may be the last one.
CHECK_DEADLOCK FALSE
