SPECIFICATION LoopSpec
CONSTANTS
  Config = "vp"
  Feedback = {"odometry", "steering_report"}
  Timeout <- OneUnit
  Unlimited = {}
  Window = 1
  Decel = 1
  MaxSteer = 1
  MaxSpeed = 3
  MaxAccel = 2
  FollowerMaxSteer = 2
  LegacyStopOnly = FALSE
  HasSiChannel = FALSE
  EgoWindow = 1
  RetiredWindow = 1
  Odometries <- OneSpeed
  SteerReports = {1}
  Commands <- OneCommand
  References <- None
  Trajectories <- None
  FollowerOutputs <- None
  SendsHeartbeat = FALSE
  WallSteps <- Forward
  MaxTime = 5
  MaxSeq = 2
  MaxSiEvents = 0
  Period = 1
  PassBound = 1
  SendsReenable = TRUE
INVARIANT DeadSourceStopsInTime
PROPERTY StallIsNotReplayed
CHECK_DEADLOCK FALSE
