SPECIFICATION Spec
CONSTANTS
  Messages = {m1}
  Agents = {a1}
  HistoryLimit = 1
  c1 = c1
  c2 = c2
  Conversations <- TwoConversations
  Slots = {s1}
  MaxEvents <- OneRecord
  MaxRetries = 1
  MaxFaults = 1
INVARIANTS ConnectedIsOpen
