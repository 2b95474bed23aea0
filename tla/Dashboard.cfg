\* One order, two of two custodians, two polls in flight, one restart.
SPECIFICATION FairSpec
CONSTANTS
  Orders = {o1}
  Custodians = {c1, c2}
  Nums = {1, 2}
  ShareHolders = {1, 2}
  Nullifiers = {n1}
  Blobs = {b1}
  Garbled = {}
  TOTAL_CUSTODIANS = 2
  THRESHOLD = 2
  TTL = 0
  MaxTime = 1
  None = None
  Note = Note
  Err = Err
  Missing = Missing
  User = c1
  UserNum = 1
  Slots = {1, 2}
  MaxRestarts = 1
INVARIANTS
  NeverAhead
  BlankHasReason
PROPERTIES
  FirstVoteStands
  ListCatchesUp
