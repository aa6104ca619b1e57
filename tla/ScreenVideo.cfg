SPECIFICATION ScreenSpec
CONSTANTS
  u1 = u1
  u2 = u2
  Uris = {u1, u2}
  Sizes <- NoSizes
  Infos = {"rendering", "unknown"}
  MaxPosition = 0
  InboxBound = 1
  FirstStream = u1
  Live = FALSE
  Networks = {6}
  QueueBound = 1
CHECK_DEADLOCK FALSE
INVARIANTS UserPauseKept ShownPanelTicks
