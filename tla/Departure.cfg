SPECIFICATION DepartureSpec
CONSTANTS
  Roads <- MCRoads
  Views <- MCViews
  P <- MCP
  L <- MCL
  EmgCap = 8
  MaxAbsAccel = 5
  BothInputs <- MCBothInputs
  LonInputs <- MCLonInputs
  LatInputs <- MCLatInputs
PROPERTY DepartsConvergedTwice
