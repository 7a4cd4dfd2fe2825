SPECIFICATION Spec
CONSTANTS
  Streams <- MCStreams
  ULLONG_MAX = 127
  MAX_HEADER_SIZE = 60
  Cut = {1, 3}
\* Both feedings end.
CHECK_DEADLOCK FALSE
INVARIANTS DeliversWhatWasAsked PiecesDoNotMatter
