SPECIFICATION Spec
CONSTANTS
  A = A
  C = C
  Net = {A}
  Client = {C}
  Remote <- MCRemote
  NRing = 2
  NQue = 1
  RingRoom = 1
  Burst = 2
  Pkt = {p1, p2}
  Wrap = 3
  MaxTx = 3
  MaxDeath = 1
  Sched = {1, 2}
  Queue <- MCQueue
  Obj = {1, 2, 3, 4, 5, 6}
  Prealloc = 2
  ObjPrealloc = 1
  MaxNode = 12
  Plan <- MCPlan
  Beyond = FALSE
\* Nothing goes on after a mishap.
CHECK_DEADLOCK FALSE
SYMMETRY PktSymmetry
INVARIANTS AttachedIsWhole CountersAgree NodesAreExclusive MishapHasCause
PROPERTIES PipeIsChannel QueueIsChannel
