SPECIFICATION Spec
CONSTANTS
  Config = "si_autoware"
  Feedback = {"odometry", "steering_report"}
  Timeout <- OneUnit
  Unlimited = {}
  Window = 1
  Decel = 1
  MaxSteer = 1
  MaxSpeed = 3
  MaxAccel = 2
  FollowerMaxSteer = 2
  LegacyStopOnly = FALSE
  HasSiChannel = FALSE
  EgoWindow = 1
  RetiredWindow = 1
  Odometries <- OneSpeed
  SteerReports = {1}
  Commands <- None
  References <- None
  Trajectories <- Plans
  FollowerOutputs <- Proposals
  SendsHeartbeat = TRUE
  WallSteps = {}
  MaxTime = 3
  MaxSeq = 2
  MaxSiEvents = 0
PROPERTIES StopCarriesFault EverySourceCounts ApprovalEarned
CHECK_DEADLOCK FALSE
