SPECIFICATION Spec
CONSTANTS
  V = V
  W = W
  A = A
  B = B
  L = L
  R = R
  Vnf = {V, W}
  Nic = {A, B}
  PortOf <- MCPortOf
  Peer <- MCPeer
  Setup <- MCSetup
  NQueue = 2
  Burst = 2
  RingRoom = 1
  Desc = 2
  Mbuf = {1, 2}
  Flow <- MCFlow
  Junk = 9
\* The lcores stop where a buffer is misused.
CHECK_DEADLOCK FALSE
INVARIANTS FlowsInOrder FiguresAreExact
PROPERTY OneOwner MbufsComeBack
