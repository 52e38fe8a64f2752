SPECIFICATION Spec
CONSTANTS
  p1 = p1  p2 = p2
  n1 = n1  n2 = n2  n3 = n3  work = work  home = home  job = job  personal = personal
  None = None
  Procs = {p1, p2}
  Slugs = {personal, work, home, job}
  Names = {n1, n2, n3}
  Deletable = {personal, work, home, job}
  FirstVault <- TwoDomains
  FirstConfig <- TwoConfig
  MaxCalls = 3
  MaxEdits = 1
  MaxFaults = 1
  Scopes = {work}
  Tools <- TwoTools
INVARIANTS TypeOK NothingLost OpsReturn ConfigFollows
