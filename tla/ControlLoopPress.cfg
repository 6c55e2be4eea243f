SPECIFICATION LoopSpec
CONSTANTS
  Config = "vp"
  Feedback = {"odometry", "steering_report"}
  Timeout <- OneUnit
  Unlimited = {}
  Window = 1
  Decel = 1
  MaxSteer = 1
  MaxSpeed = 3
  MaxAccel = 2
  FollowerMaxSteer = 2
  LegacyStopOnly = FALSE
  HasSiChannel = FALSE
  EgoWindow = 1
  RetiredWindow = 1
  Odometries <- OneSpeed
  SteerReports = {1}
  Commands <- OneCommand
  References <- None
  Trajectories <- None
  FollowerOutputs <- None
  SendsHeartbeat = FALSE
  WallSteps = {}
  MaxTime = 4
  MaxSeq = 4
  MaxSiEvents = 0
  Period = 1
  PassBound = 1
  SendsReenable = TRUE
PROPERTY PressAnswersThisFault
CHECK_DEADLOCK FALSE
