SPECIFICATION ScreenSpec
CONSTANTS
  u1 = u1
  u2 = u2
  Uris = {u1, u2}
  Sizes <- MCSizes
  Infos = {"buffering", "unknown"}
  MaxPosition = 0
  InboxBound = 1
  FirstStream = u1
  Live = TRUE
  Networks <- MCNetworks
  QueueBound = 1
CHECK_DEADLOCK FALSE
INVARIANTS ScreenTypeOK DestroyedIsSilent 
