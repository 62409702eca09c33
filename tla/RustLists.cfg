CONSTANTS
  Node = {n1, n2, n3}
  NULL = NULL
  Handle = {a, b, c}
  Elem = {e1, e2}
  None = None
  Debug = FALSE
SPECIFICATION Spec
INVARIANTS TypeOK NothingLeaks CountsExact NeverPanics InOrder ShallowDrop
PROPERTY Implements
