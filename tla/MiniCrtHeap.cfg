\* A heap of 17 words with headers of 3: 10000 bytes with headers of 24
\* would be too many states: room for four blocks, and sizes that fit
\* exactly, with less than a header to spare, and with more. From 18 words
\* on, what follows a wrong merge is too many states.
CONSTANTS
  HeapSize = 17
  HeaderSize = 3
  Unsigned = 18
  Requests = {0, 1, 3, 5}
SPECIFICATION Spec
INVARIANTS TypeOK AlwaysSound FreedSaysSo NothingLost
PROPERTY KeepsSound
