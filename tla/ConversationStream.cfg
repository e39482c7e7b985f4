SPECIFICATION FairSpec
CONSTANTS
  Messages = {m1}
  Agents = {a1}
  HistoryLimit = 1
  c1 = c1
  c2 = c2
  Conversations <- TwoConversations
  Slots = {s1, s2}
  MaxEvents <- Records
  MaxRetries = 2
  MaxFaults = 3
INVARIANTS TypeOK LiveIsLogPrefix OneReader
PROPERTIES CatchesUp
