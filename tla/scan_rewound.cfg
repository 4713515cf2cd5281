CONSTANTS
  Base = 2
  Mono = FALSE
  Costs = {1}
  RepCost = 1
  IrqAck = 1
  LongRep = 3
  MaxCount = 4
  MaxDepth = 1
  Lines = 4
  Visible = 2
  LineCycles = 3
  Program = {"scan", "flags", "port"}
  Counts = {3, 4}
  GameSources = {6}
  MaxOam = 1
SPECIFICATION Spec
INVARIANT RepeatsOnce
