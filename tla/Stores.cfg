SPECIFICATION FairSpec
CONSTANTS
  Keys = {k1, k2, k3}
  Threads = {t1, t2}
  MaxEntries = 2
  MaxCalls = 4
  Layers = {l1, l2}
  Tokens = {x, y}
  PageSize = 2
  MaxPages = 2
  MaxAppend = 2
  FileSize = 3
  MaxRetries = 2
  MaxStarts = 2
  Sources = {r1, r2}
  Files = {"weights", "config"}
  Formats = {"any", "gguf"}
  Matching <- InFormat
  SizeOf <- Sizes
  Pullers = {p1, p2}
  Inodes = {1, 2, 3}
  NoFile = 0
  Size = 2
  MaxPulls = 3
  Jobs = {j1, j2, j3}
  Scripted = {"gptq"}
  MethodOf <- Methods
  Headers <- ThreeHeaders
  Names = {7, 20}
  Values <- FiveValues
  Tensors <- TwoTensors
  MaxPairs = 2
  MaxTensors = 1
CHECK_DEADLOCK FALSE
INVARIANTS
  TypesOK
  OvershootBounded
  OrderAgrees
  PagesAccounted
  CompletedIsWhole
  RowsHaveFiles
  QuantizationSound
PROPERTIES
  SetsReturn
  ImplementsLog
