SPECIFICATION Spec
CONSTANTS
  Config = "vp"
  Feedback = {"odometry", "steering_report"}
  Timeout <- OneUnit
  Unlimited = {}
  Window = 1
  Decel = 1
  MaxSteer = 1
  MaxSpeed = 3
  MaxAccel = 2
  FollowerMaxSteer = 2
  LegacyStopOnly = FALSE
  HasSiChannel = TRUE
  EgoWindow = 1
  RetiredWindow = 1
  Odometries <- TwoSpeeds
  SteerReports = {1}
  Commands <- OneVpCommand
  References <- None
  Trajectories <- None
  FollowerOutputs <- None
  SendsHeartbeat = FALSE
  WallSteps <- Backward
  MaxTime = 3
  MaxSeq = 3
  MaxSiEvents = 2
PROPERTIES FaultInputStops ImplementsStopLatch StopNeverSpeedsUp
CHECK_DEADLOCK FALSE
