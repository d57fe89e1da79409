\* Two job tasks at a time, two templates, three jobs, one failure.
CONSTANTS
  t1 = t1
  t2 = t2
  Tasks <- MCTasks
  MaxTemplate = 2
  MaxJobs = 3
  MaxFailures = 1
SPECIFICATION FairSpec
INVARIANTS JobMatchesTable JobHasDifficulty
PROPERTY JobAfterAuthorize
