SPECIFICATION FairSpec
CONSTANTS
  Roles = {"connect", "accept"}
  Systems = {{"pending"}}
  MaxSends = 2
  PeerSends = 2
INVARIANT SwapIsEnough
CHECK_DEADLOCK FALSE
