SPECIFICATION Spec
CONSTANTS
  Config = "si_vp"
  Feedback = {"odometry", "steering_report", "operation_mode"}
  Timeout <- OneUnit
  Unlimited = {"operation_mode"}
  Window = 1
  Decel = 1
  MaxSteer = 1
  MaxSpeed = 3
  MaxAccel = 2
  FollowerMaxSteer = 2
  LegacyStopOnly = FALSE
  HasSiChannel = FALSE
  EgoWindow = 1
  RetiredWindow = 1
  Odometries <- TwoFrames
  SteerReports = {1}
  Commands <- None
  References <- References_
  Trajectories <- None
  FollowerOutputs <- OneProposal
  SendsHeartbeat = FALSE
  WallSteps = {}
  MaxTime = 2
  MaxSeq = 2
  MaxSiEvents = 0
INVARIANTS TypeOK
PROPERTY EverySourceCounts
CHECK_DEADLOCK FALSE
