SPECIFICATION Spec
CONSTANTS
  api = api  mcp = mcp  f1 = f1  f2 = f2  a = a  b = b  c = c  s1 = s1  s2 = s2
  j1 = j1  j2 = j2
  None = None
  Procs = {api, mcp}
  Answering = {api}
  Files = {f1, f2}
  Contents = {a, b, c}
  Slugs = {s1, s2}
  Titles <- MCAnyTitle
  Jobs = {j1, j2}
  Reverts = FALSE
  MaxChanges = 2
  MaxEdits = 1
  MaxTools = 0
  MaxErrors = 1
  MaxStops = 1
SYMMETRY MCSymmetry
INVARIANTS TypeOK CacheNamesOwnNote QuietIsCanonical
PROPERTIES NothingUnreadIsLost
CHECK_DEADLOCK FALSE
