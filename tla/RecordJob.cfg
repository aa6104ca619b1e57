SPECIFICATION FairSpec
CONSTANTS
  MaxRecorders = 2
  MaxSessions = 1
  MaxFrames = 2
  Failures <- NoFailures
  RacyEmpty = FALSE
CHECK_DEADLOCK FALSE
PROPERTIES ImplementsJob EndedIsReported
