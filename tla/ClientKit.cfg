SPECIFICATION Spec
CONSTANTS
  Messages = {m1, m2}
  Agents = {a1, a2}
  HistoryLimit = 1
  MaxLog = 3
  MaxValue = 2
  MaxCopies = 2
  Tabs = {t1, t2}
  MaxIds = 2
  Bases = {b1}
  Getters = {g1}
  Users = {u1, u2}
  TOAST_LIMIT = 1
  MaxToasts = 2
  MaxSlides = 3
  Keys = {k1, k2}
  Fields = {n1, n2}
  Mockups = {f1, f2}
  MaxLoads = 3
  MaxScroll = 5
INVARIANTS FeedIsMerged TransientsTimed RequestsSound FetchSound
  ToastsSound PreviewsSound DerivedIsCurrent
PROPERTIES ClickWorks
