SPECIFICATION Spec
CONSTANTS
  A = A
  B = B
  P = P
  X = X
  Y = Y
  N = N
  M = M
  Vnf = {A, B}
  Numa = {}
  Port = {X, Y}
  Virt = {X, Y}
  Panel = {N}
  NoVnf = NoVnf
  NoPort = NoPort
  Lcore = {2}
  Mask <- MCMask
  Garbage = {31}
  NQueue = 1
  MaxAcc = 1
  Program <- MCProgram
  Kind <- MCKind
\* Every object can have been deleted, or the process may have died.
CHECK_DEADLOCK FALSE
SYMMETRY MCSym
INVARIANTS MisuseHasACause
