SPECIFICATION Spec
CONSTANTS
  c1 = c1  c2 = c2  x1 = x1  x2 = x2  x3 = x3  x4 = x4  None = None  Partial = Partial
  Cmds = {c1, c2}
  Pids = {x1, x2, x3, x4}
  Ports = {4317, 4318}
  Versions = {1, 2, 3}
  MaxCmds = 4
  MaxFaults = 2
  Keep = 1
SYMMETRY Alike
INVARIANTS TypeOK Tracked InstallAtHand DaemonCurrent
