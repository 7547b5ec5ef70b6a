CONSTANTS
  Buffers = {b1, b2, b3, b4}
  b1 = b1
  b2 = b2
  b3 = b3
  b4 = b4
  NoBuffer = NoBuffer
  Timings <- MCTimings
  Faults = {}
  MaxFrames = 3
SPECIFICATION Spec
SYMMETRY Symmetry
INVARIANTS
  SameSequence
