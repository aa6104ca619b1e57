SPECIFICATION Spec
CONSTANTS
  MaxRecorders = 1
  MaxSessions = 1
  MaxFrames = 1
  Failures <- NoFailures
  RacyEmpty = TRUE
CHECK_DEADLOCK FALSE
INVARIANT VideoFullyEncoded
