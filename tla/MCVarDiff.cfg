\* Two job tasks at a time, two difficulties.
CONSTANTS
  t1 = t1
  t2 = t2
  Tasks <- MCTasks
  Diffs = {1, 2}
  MinDiff = 2
SPECIFICATION FairSpec
INVARIANTS NeverZero InitializedHasDiff
PROPERTIES NotResurrected FollowsVardiff
