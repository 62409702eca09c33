CONSTANTS
  Writer = {w1, w2}
  reader = reader
  Char = {"a", "b", "c"}
  NUL = NUL
  Argument <- TestArguments
  MemSize = 3
SPECIFICATION ShmSpec
INVARIANTS ShmTypeOK StaysInSegment Handoff OneSucceeds
PROPERTIES WriterEnds CleansUp
