CONSTANTS
  plain = plain
  stream = stream
  Calls = {plain, stream}
  Streams = {stream}
  Foreign = {plain}
  Workers = 1
  Lines = 2
  MaxFaults = 3
SPECIFICATION Spec
INVARIANT NobodyForgotten StreamIsWhole
PROPERTY OncePerCall
CHECK_DEADLOCK FALSE
