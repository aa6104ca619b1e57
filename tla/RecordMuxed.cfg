SPECIFICATION Spec
CONSTANTS
  MaxRecorders = 1
  MaxSessions = 1
  MaxFrames = 1
  Failures <- NoFailures
  RacyEmpty = FALSE
CHECK_DEADLOCK FALSE
INVARIANT MuxedOnce
