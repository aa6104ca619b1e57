SPECIFICATION FairSpec
CONSTANTS
  u1 = u1
  Uris = {u1}
  Infos = {"rendering"}
  Sizes <- MCSizes
  MaxPosition = 1
  InboxBound = 2
INVARIANTS TypeOK PendingSeekApplied PlaysOnlyAsWished DisplayFollowsSurface
PROPERTY WishIsServed
