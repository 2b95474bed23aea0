\* The thresholds of the code: five custodians who use any of three numbers,
\* one order, a readable blob, a garbled one or none.
SPECIFICATION Spec
CONSTANTS
  Orders = {o1}
  Custodians = {c1, c2, c3, c4, c5}
  Nums = {1, 2, 3}
  ShareHolders = {1, 2, 3}
  Nullifiers = {n1}
  Blobs = {b1, b2}
  Garbled = {b2}
  TOTAL_CUSTODIANS = 5
  THRESHOLD = 3
  TTL = 1
  MaxTime = 2
  None = None
  Note = Note
  Err = Err
INVARIANTS
  TypeOK
  DecidedByThreshold
  IdentityOnlyWhileApproved
PROPERTIES
  NoLateVote
  KeepsPromise
