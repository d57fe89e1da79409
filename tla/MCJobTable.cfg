\* A table of four slots, jobs up to two and a half rounds.
CONSTANTS
  MaxJobs = 4
  MaxCounter = 9
  MaxSubmitted = 13
SPECIFICATION Spec
INVARIANTS SlotsAreLatest NoSlotTwice RetainedSolutionFound
PROPERTY WalkEnds
