\* main and two other clients, so that a put and a get of others can meet
\* between main's put and its get.
CONSTANTS
  Client = {"main", "c1", "c2"}
  Key = {"subject"}
  Value = {"6.824", "other"}
  main = "main"
  subject = "subject"
  written = "6.824"
  MaxCalls = 1
SPECIFICATION ServerSpec
INVARIANTS ServerTypeOK NoMapRace
PROPERTIES ImplementsStore Answered
