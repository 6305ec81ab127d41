CONSTANTS
  t1 = t1
  t2 = t2
  t3 = t3
  w1 = w1
  w2 = w2
  Tasks = {t1, t2, t3}
  Workers = {w1, w2}
  ZoneOf <- MCZoneOf
  Seconds <- MCSeconds
  MaxFaults = 1
SPECIFICATION FairSpec
INVARIANTS BusInv ClaimedOnce NotForgotten
PROPERTIES QueueKept TasksTaken
