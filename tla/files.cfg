SPECIFICATION Spec
CONSTANTS
  Roms = {r1, r2}
  Bios = Bios
  NoCart = NoCart
  HoldFrames = 1
  MaxSram = 1
  MaxStops = 1
  MaxBacklog = 0
  Scenario = {"load", "bios", "state", "quit", "crash", "die", "slow", "writeError"}
SYMMETRY RomSymmetry
INVARIANTS TypeOK SaveFileOwner StateFileNotForeign MachineMatchesPath
