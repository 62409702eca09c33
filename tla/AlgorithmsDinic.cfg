CONSTANTS
  Graphs <- TestGraphs
  Arrays <- TestArrays
  Digraphs <- TestDigraphs
  VertexNum = 3
  Tests = 2
  Joint = {"s", "u", "v", "t"}
  Source = "s"
  Sink = "t"
  Pipes <- TestPipes
  Calls = 2
  VertexCount = 3
  EdgeBound = 2
  Url <- GolangUrl
  Root = "golang"
  Webs <- ThreePageWebs
  Programs = {"dinic"}
SPECIFICATION Spec
CHECK_DEADLOCK FALSE
INVARIANT DistancesShortest
