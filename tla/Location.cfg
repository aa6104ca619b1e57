SPECIFICATION Spec
CONSTANT Requests = 5
INVARIANTS
  LocationTypeOK
  TaskHasClient
  ClientHasTask
  CrashOnlyOvertaken
PROPERTY RequestShown
CHECK_DEADLOCK FALSE
