SPECIFICATION Spec
CONSTANTS
  Config = "vp"
  Feedback = {"odometry", "steering_report"}
  Timeout <- OneUnit
  Unlimited = {}
  Window = 1
  Decel = 1
  MaxSteer = 1
  MaxSpeed = 3
  MaxAccel = 2
  FollowerMaxSteer = 2
  LegacyStopOnly = FALSE
  HasSiChannel = FALSE
  EgoWindow = 1
  RetiredWindow = 1
  Odometries <- OneSpeed
  SteerReports = {1}
  Commands <- VpCommands
  References <- None
  Trajectories <- None
  FollowerOutputs <- None
  SendsHeartbeat = FALSE
  WallSteps = {}
  MaxTime = 3
  MaxSeq = 4
  MaxSiEvents = 0
PROPERTIES StopUntilReenabled EverySourceCounts ApprovalEarned SteeringHeld
CHECK_DEADLOCK FALSE
