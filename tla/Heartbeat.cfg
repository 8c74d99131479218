SPECIFICATION HeartbeatFairSpec
PROPERTIES
  RunsAgain
CHECK_DEADLOCK FALSE
