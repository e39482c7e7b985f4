SPECIFICATION FairSpec
CONSTANTS
  Conversations = {c1, c2}
  Agents = {a1}
  MaxHead = 1
  MaxClock = 3
  ToastLimit = 2
INVARIANTS TypeOK
PROPERTIES OnlyAdvanceFlags AdvanceShows ToastGoesAway MemberShows
