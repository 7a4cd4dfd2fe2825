SPECIFICATION Spec
CONSTANTS
  A = A
  B = B
  P = P
  Q = Q
  X = X
  Y = Y
  N = N
  Vnf = {A, B}
  Numa = {B}
  Port = {P, X}
  Virt = {X}
  Panel = {N}
  NoVnf = NoVnf
  NoPort = NoPort
  Lcore = {2, 3}
  Mask <- MCMask
  Garbage = {31}
  NQueue = 2
  MaxAcc = 3
  Procedure = {TRUE, FALSE}
\* A client of any kind can end the process.
CHECK_DEADLOCK FALSE
INVARIANTS AccessIdsAreSound EveryQueueIsPolled DeployedIsUsable
