SPECIFICATION FairSpec
CONSTANTS
  p1 = p1  p2 = p2  p3 = p3  i1 = i1  i2 = i2  NoFile = NoFile  NoId = NoId
  Procs = {p1, p2, p3}
  Ids = {i1}
  MaxLandings = 2
  MaxDeaths = 2
INVARIANTS TypeOK NothingLost AppliedLanded Settled
PROPERTIES NeverRequeued LandedLeavesQueue
