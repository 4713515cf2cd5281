SPECIFICATION Spec
CONSTANTS
  Roms = {r1}
  Bios = Bios
  NoCart = NoCart
  HoldFrames = 1
  MaxSram = 1
  MaxStops = 1
  MaxBacklog = 1
  Scenario = {"load", "dump"}
PROPERTIES SwapLosesNothing
