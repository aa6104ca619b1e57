SPECIFICATION Spec
CONSTANTS
  MaxRecorders = 1
  MaxSessions = 1
  MaxFrames = 1
  Failures <- EndFailures
  RacyEmpty = FALSE
CHECK_DEADLOCK FALSE
INVARIANT ReportedIsSaved
