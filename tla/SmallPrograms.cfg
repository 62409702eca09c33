CONSTANTS
  Thread = {t1, t2, t3, t4}
  Permits = 2
  Rounds = 2
  Counting = {g1, g2, g3}
  Cap = 4
  Worker = {w1, w2}
  Directory = {"a", "b"}
  File = {"f", "g"}
SPECIFICATION Spec
CHECK_DEADLOCK FALSE
INVARIANTS TypeOK Safe
PROPERTY Ends
