CONSTANTS
  r1 = r1
  r2 = r2
  r3 = r3
  r4 = r4
  r5 = r5
  f1 = f1
  f2 = f2
  c1 = c1
  c2 = c2
  c3 = c3
  Runs = {r1, r2}
  Files = {f1, f2}
  Chunks = {c1, c2}
  NoRun = NoRun
  NoFile = NoFile
  NotMerged = NotMerged
  NoPath = NoPath
  Output <- MCOutput
  Illegal <- MCIllegal
  Features <- MCFeatures
  Vectors <- MCVectors
  BadLayers <- MCBadLayers
  Relations <- MCRelations
  MetaStatus <- MCStatus
  Mtime <- MCMtime
  InitFiles = {f1, f2}
  Callers = {}
  OneDirs = {"runs"}
  Queued = {r1, r2}
  BatchSize = 2
  MaxFaults <- OnlyCancel
SPECIFICATION Spec
INVARIANT MergeableNotFailed
CHECK_DEADLOCK FALSE
