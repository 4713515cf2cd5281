CONSTANTS
  Base = 2
  Mono = TRUE
  Costs = {1, 4}
  RepCost = 1
  IrqAck = 1
  LongRep = 3
  MaxCount = 3
  MaxDepth = 2
  Lines = 4
  Visible = 2
  LineCycles = 3
  Program = {"run", "flags", "shadow", "int", "halt", "move", "port"}
  Counts = {0, 3}
  GameSources = {0, 6}
  MaxOam = 1
SPECIFICATION Spec
INVARIANTS TypeOK CyclesConserved RewindsOnlyItself ShadowRespected RepeatsOnce
