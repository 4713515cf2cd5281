SPECIFICATION Spec
CONSTANTS
  Roms = {r1, r2}
  Bios = Bios
  NoCart = NoCart
  HoldFrames = 1
  MaxSram = 1
  MaxStops = 1
  MaxBacklog = 1
  Scenario = {"load", "dialog", "reset", "bios", "pause", "state", "quit", "capture", "sound"}
SYMMETRY RomSymmetry
INVARIANTS PausedMeansPaused OutputsBelongToMachine
PROPERTIES SwapLosesNothing HoldReachesBios
