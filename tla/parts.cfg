SPECIFICATION Spec
CONSTANTS
  RingCapacity = 4
  MaxPairs = 2
  PairKinds = 2
  InRate = 3
  OutRates = {1, 3, 5, 8}
  LevelBits = 2
  IntBits = 5
  PacingCapacity = 20
  FrameSamples = 4
  Drained = {0, 1}
  FramePeriod = 4
  Poll = 1
  FrameTicks = {0, 1, 3, 11}
  CartBits = 2
  CartWords = 3
  Data = {d1}
  Erased = Erased
  NarrowBits = 2
  WideBits = 3
  ConsoleWords = 5
  OwnerWord = 3
  SecondCycles = 2
  FrameCycles = 1
  HostTimes <- MCTimes
  RawBytes = {153}
  MaxSeconds = 1
  SdmaSpace = 3
  ByteCycles = 1
  Rates = {1, 2}
  SegmentBytes = 4
  Segments = 4
  SlowSegment = 3
  RomByte = 9
  BurstLengths = {0, 2}
  Periods = 3
  WaveLength = 4
  SampleCycles = 4
  CycleBatches = {1, 2, 7}
  MaxCycles = 18
  Pitches = 4
  SweepInterval = 2
  MaxTime = 2
  ByteValues = 8
  MaxStep = 2
  NoisePeriods = {1, 2}
  Taps = {4, 8}
  MixedSteps = 0
  Nibbles = {0, 15}
  LatchBytes = {0, 127, 128, 255}
  Pads = {p1, p2}
  Actions = {0}
  PadButtons = {0, 1}
  Rebound = {1}
  NoKey = NoKey
  PictureWidth = 3
  PictureHeight = 2
  MaxEvents = 2
  MayCancel = FALSE
  RomPaths = {a, b, c}
  RecentLimit = 2
  MaxVolume = 2
  Scales = {0, 2}
  Volumes = {1, 3}
  MaxListed = 3
  MaxOpened = 2
  RegisterBits = 8
  Limbs = {0, 9, 10, 127, 128, 255}
  Programs <- Idioms
SYMMETRY PathSymmetry
INVARIANTS
  PartsTypeOK NoDrift PacingKept StaysOnBlock BatchingExact SweepResponds NoiseAlive
  NoStuckKeys InputFollowsScreen SettingsKept FullscreenSettles AluMatches
PROPERTIES
  RingIsQueue EepromIsMemory WritesSpareOwner SecondCarries BurstCopies
CHECK_DEADLOCK FALSE
