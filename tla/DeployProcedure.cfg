SPECIFICATION FairSpec
CONSTANTS
  A = A
  B = B
  C = C
  Vnf = {A, B}
  NBlock <- MCNBlock
  NQueue = 8
  Lcore = {1, 2, 3, 4}
  Timer = 1
  Job <- MCJob
  NoJob = NoJob
  Ctl = {"rest", "main"}
  Nobody = Nobody
  Garbage = {31}
  Mask <- MCMaskWide
  MaxTids = 3
  Client = "settled"
  Procedure = TRUE
\* After shutdown, or after a crash, nothing happens any more.
CHECK_DEADLOCK FALSE
INVARIANTS QueueExclusive NoConfigRace LcoreIsFree RepliesAreTrue
PROPERTIES RequestAnswered ShutdownReleases
