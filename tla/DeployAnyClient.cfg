SPECIFICATION Spec
CONSTANTS
  A = A
  B = B
  C = C
  Vnf = {A, C}
  NBlock <- MCNBlock
  NQueue = 8
  Lcore = {1, 2}
  Timer = 1
  Job <- MCJob
  NoJob = NoJob
  Ctl = {"rest", "main"}
  Nobody = Nobody
  Garbage = {31}
  Mask <- MCMaskAny
  MaxTids = 3
  Client = "any"
  Procedure = FALSE
\* After shutdown, or after a crash, nothing happens any more.
CHECK_DEADLOCK FALSE
INVARIANTS NativeStateIsReal
