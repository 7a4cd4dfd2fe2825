SPECIFICATION ServerSpec
CONSTANTS
  Conn = {1, 2}
  Setup <- MCSetup
  Signals <- MCSignals
\* Connections and the program end.
CHECK_DEADLOCK FALSE
INVARIANTS CallbacksFindConnection RepliesAnswer
PROPERTIES ConnectionsEnd ServerStops
