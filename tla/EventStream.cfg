SPECIFICATION Spec
CONSTANTS
  Streams <- MCStreams
  MaxLines = 4
INVARIANT DecodedAsWhole
CHECK_DEADLOCK FALSE
