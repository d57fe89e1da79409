\* The code's times in units of 125 ms, the pauses of 5 s and 10 s shortened
\* to 2 s.
CONSTANTS
  Stable = 16
  Poll = 3
  FirstBackoff = 2
  MaxBackoff = 16
  Wait = 8
  Limit = 2
  Pause = 16
  MaxCheck = 4
SPECIFICATION Spec
INVARIANTS StableBeforeOpen BoundedStart BoundedStaleness BoundedSilence OneAfterStop
