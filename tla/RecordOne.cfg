SPECIFICATION FairSpec
CONSTANTS
  MaxRecorders = 1
  MaxSessions = 1
  MaxFrames = 2
  Failures <- FailureNames
  RacyEmpty = FALSE
CHECK_DEADLOCK FALSE
INVARIANTS TypeOK VideoFullyEncoded AtMostOneLateBuffer MuxInputsComplete LastOneMuxes OneCleanup NoOrphanEncoder ReleasedNeverMuxed NoDanglingGlobal VideoNeverFaults
PROPERTY ToldThreadsExit
