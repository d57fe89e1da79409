\* Two threads with two nonces each; two polls are published, the second with
\* the same template as the first or with a new one.
CONSTANTS
  m1 = m1
  m2 = m2
  NoThread = NoThread
  Threads <- MCThreads
  NonceCount = 2
  Solutions <- MCSolutions
  MaxVersion = 2
SPECIFICATION MinerSpec
INVARIANTS OneBlockPerTemplate LittleStaleWork NoLostWakeup
PROPERTIES TemplatesReachThreads FallsSilent
\* The miner ends after a shutdown.
CHECK_DEADLOCK FALSE
