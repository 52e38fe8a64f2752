SPECIFICATION FairSpec
CONSTANTS
  api = api  mcp = mcp  f1 = f1  f2 = f2  a = a  b = b  c = c  s1 = s1  s2 = s2
  j1 = j1  j2 = j2
  None = None
  Procs = {api}
  Answering = {api}
  Files = {f1, f2}
  Contents = {a, b}
  Slugs = {s1, s2}
  Titles <- MCOwnTitle
  Jobs = {j1, j2}
  Reverts = FALSE
  MaxChanges = 2
  MaxEdits = 0
  MaxTools = 1
  MaxErrors = 1
  MaxStops = 1
PROPERTIES Settles
CHECK_DEADLOCK FALSE
