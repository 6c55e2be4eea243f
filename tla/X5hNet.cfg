SPECIFICATION NetSpec
CONSTANTS
  RingSize = 2
  TxSize = 1
  MboxSize = 2
  MaxFrames = 3
  MaxUnbinds = 1
  OsBoxSize = 2
  TickMod = 4
  FetchWaits = {0, 2}
  OsPosters = {p1, p2}
INVARIANT OsSound
PROPERTIES LinkSound RingIsDrained LinkGoesOn OsServes
CHECK_DEADLOCK FALSE
