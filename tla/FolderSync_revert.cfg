SPECIFICATION Spec
CONSTANTS
  api = api  mcp = mcp  f1 = f1  f2 = f2  a = a  b = b  c = c  s1 = s1  s2 = s2
  j1 = j1  j2 = j2
  None = None
  Procs = {api}
  Answering = {api}
  Files = {f1, f2}
  Contents = {a, b}
  Slugs = {s1, s2}
  Titles <- MCAnyTitle
  Jobs = {j1, j2}
  Reverts = TRUE
  MaxChanges = 2
  MaxEdits = 0
  MaxTools = 0
  MaxErrors = 0
  MaxStops = 0
INVARIANT QuietIsCanonical
CHECK_DEADLOCK FALSE
