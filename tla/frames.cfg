CONSTANTS
  Base = 2
  Mono = FALSE
  Costs = {3}
  RepCost = 1
  IrqAck = 1
  LongRep = 3
  MaxCount = 3
  MaxDepth = 1
  Lines = 4
  Visible = 2
  LineCycles = 2
  Program = {"run", "oam", "state", "timer", "halt", "port", "move"}
  Counts = {3}
  GameSources = {6, 7}
  MaxOam = 2
SPECIFICATION FairSpec
INVARIANT SpritesAreOams
PROPERTIES NoTearing TimerKeepsTime FrameCompletes HaltWakes
