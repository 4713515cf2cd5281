CONSTANTS
  Base = 2
  Mono = FALSE
  Costs = {1}
  RepCost = 1
  IrqAck = 1
  LongRep = 3
  MaxCount = 3
  MaxDepth = 1
  Lines = 4
  Visible = 2
  LineCycles = 3
  Program = {"flags", "port"}
  Counts = {}
  GameSources = {4, 6}
  MaxOam = 1
SPECIFICATION Spec
INVARIANT DeliveredEnabled
