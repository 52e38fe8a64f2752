SPECIFICATION FairSpec
CONSTANTS
  api = api  mcp = mcp  r1 = r1  r2 = r2  domain = domain  port = port  low = low  high = high
  NoConfig = NoConfig  NoProc = NoProc  Torn = Torn
  Procs = {api, mcp}
  Lazy = {mcp}
  Reloaders = {r1}
  Fields = {domain, port}
  Values = {low, high}
  Defaults <- MCDefaults
  MaxSaves = 2
  MaxDeaths = 2
  MaxErrors = 1
INVARIANTS TypeOK NoPhantom
PROPERTIES SaveIsOneSetting Converges
