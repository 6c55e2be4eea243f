SPECIFICATION EdgesSpec
CONSTANTS
  RetiredWindow = 2
  Candidates <- MCCandidates
  MaxEvents = 3
  ByteBase = 4
  SeqMod = 8
  CanMessages <- MCMessages
  CanStarts = {6}
  MaxSends = 3
  BusBound = 3
  MaxDelay = 3
  CanTimeout = 1
  MaxFaults = 1
  GateThreads = {c1, c2}
  StaleThreshold = 2
  FreshThreshold = 1
  EdgeInterval = 3
  GateMaxTime = 7
  GateMaxLate = 2
INVARIANTS
  StreamSound NoRevival CanSound StartsAsAsked
PROPERTIES
  FaultTicksStop FaultThenRecovery NeverBackwards DrivesWhenHeard GateSound
CHECK_DEADLOCK FALSE
