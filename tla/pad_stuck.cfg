SPECIFICATION InputSpec
CONSTANTS
  Pads = {p1, p2}
  Actions = {0}
  PadButtons = {0, 1}
  Rebound = {1, 2}
  NoKey = NoKey
  PictureWidth = 3
  PictureHeight = 2
  MaxEvents = 2
  MayCancel = TRUE
INVARIANT NoStuckKeys
