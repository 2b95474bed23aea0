\* One person, two orders on one nullifier, three transactions, one restart.
SPECIFICATION Spec
CONSTANTS
  Nullifiers = {n1}
  Wallets = {w1}
  Absent = Absent
  Deployer = Deployer
  Orders = {o1, o2}
  Custodians = {c1}
  Nums = {1}
  ShareHolders = {1}
  Blobs = {b1}
  Garbled = {}
  TOTAL_CUSTODIANS = 1
  THRESHOLD = 1
  TTL = 0
  MaxTime = 1
  None = None
  Note = Note
  Err = Err
  MaxTx = 3
  MaxCrashes = 1
SYMMETRY InstanceSymmetry
INVARIANTS
  HistoryExplainsBox
  BlobWasRegistered
  BlobLossHasReason
  ExecutedMeansRevoked
