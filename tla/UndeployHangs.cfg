SPECIFICATION FairSpec
CONSTANTS
  A = A
  B = B
  C = C
  Vnf = {A}
  NBlock <- MCNBlock
  NQueue = 8
  Lcore = {1, 2, 3}
  Timer = 1
  Job <- MCJob
  NoJob = NoJob
  Ctl = {"rest", "main"}
  Nobody = Nobody
  Garbage = {31}
  Mask <- MCMaskNarrow
  MaxTids = 3
  Client = "polling"
  Procedure = TRUE
\* After shutdown, or after a crash, nothing happens any more.
CHECK_DEADLOCK FALSE
PROPERTIES RequestAnswered
