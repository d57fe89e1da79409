\* A second run in the same process is asked to shut down; no Ctrl+C.
CONSTANTS
  i1 = i1
  i2 = i2
  Instances <- MCInstances
  MaxRuns = 2
  MaxPresses = 0
SPECIFICATION FairSpec
PROPERTY AskedRunEnds
