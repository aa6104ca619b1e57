SPECIFICATION Spec
CONSTANTS
  Screens = 2
  Recordings = 2
  Failures = {"open", "start", "release", "flash", "mkdirs"}
INVARIANTS
  CameraTypeOK
  CameraNotLost
  ReadyMeansRunning
  LedShowsTorch
  RecordedByOneCamera
CHECK_DEADLOCK FALSE
