SPECIFICATION ControllersSpec
CONSTANTS
  Roads <- MCRoads
  Views <- MCViews
  P <- MCP
  L <- MCL
  EmgCap = 8
  MaxAbsAccel = 5
  BothInputs <- MCBothInputs
  LonInputs <- MCLonInputs
  LatInputs <- MCLatInputs
  References <- MCReferences
  LerpArgs <- MCLerpArgs
  SplineArgs <- MCSplineArgs
  ResampleArgs <- MCResampleArgs
  CycleArgs <- MCCycleArgs
  SmoothArgs <- MCSmoothArgs
  SteerArgs <- MCSteerArgs
  MatrixArgs <- MCMatrixArgs
  LimitArgs <- MCLimitArgs
  FilterArgs <- MCFilterArgs
  PidArgs <- MCPidArgs
  StopArgs <- MCStopArgs
  DelayArgs <- MCDelayArgs
  CscArgs <- MCCscArgs
  CurvatureLimits <- MCCurvatureLimits
  SpeedLimits <- MCSpeedLimits
  PidParams <- MCPidParams
  MatrixInputs <- MCMatrixInputs
  RateInputs <- MCRateInputs
INVARIANTS
  CommandsInside
  ConversionFaithful KeysInside OptimisationStated PredictionsAndLimits
PROPERTIES StateChanges EventuallyDeparts
