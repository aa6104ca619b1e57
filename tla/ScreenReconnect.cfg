SPECIFICATION ScreenSpec
CONSTANTS
  u1 = u1
  u2 = u2
  Uris = {u1}
  Sizes <- MCSizes
  Infos = {"rendering", "buffering", "unknown"}
  MaxPosition = 0
  InboxBound = 1
  FirstStream = u1
  Live = TRUE
  Networks = {3}
  QueueBound = 1
CHECK_DEADLOCK FALSE
PROPERTY ErrorReconnects
