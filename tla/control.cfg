SPECIFICATION FairSpec
CONSTANTS
  Roms = {r1}
  Bios = Bios
  NoCart = NoCart
  HoldFrames = 1
  MaxSram = 1
  MaxStops = 1
  MaxBacklog = 0
  Scenario = {"dialog", "capture", "reset", "bios", "pause", "dump", "quit", "die", "fault"}
INVARIANTS NoSilentFreeze
PROPERTIES ProgressSaved RequestsReturn ShutdownCompletes StopShown
