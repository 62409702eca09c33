CONSTANTS
  CallsMade = 3
  Signals = 1
  Input = 7
  Layouts <- TestLayouts
  MaxLine = 4
  CallsOfPrintf <- TestCallsOfPrintf
  Texts <- TestTexts
  Copies <- TestCopies
  Width = 4
  User = {u1, u2}
  BufferLen = 2
  Counts = {1, 2, 3}
  Blocks = 3
  Address = {1, 2, 3, 4}
  Mapped = {2, 4}
  W = 6
  H = 4
  Screens <- TestScreens
SPECIFICATION Spec
CHECK_DEADLOCK FALSE
INVARIANT Safe
PROPERTY Ends
