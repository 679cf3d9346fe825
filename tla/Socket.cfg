SPECIFICATION FairSpec
CONSTANTS
  Roles = {"connect", "accept"}
  Systems = {{"pending"}, {"sync"}}
  MaxSends = 2
  PeerSends = 2
INVARIANTS
  TypeOK
  SentInOrder
  ReceivedInOrder
  RecvGoesOn
PROPERTIES
  EventuallySent
  ResetReported
CHECK_DEADLOCK FALSE
