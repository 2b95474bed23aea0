\* Expected to fail: three approvals with a repeated custodian number.
SPECIFICATION Spec
CONSTANTS
  Orders = {o1}
  Custodians = {c1, c2, c3, c4, c5}
  Nums = {1, 2, 3, 4, 5}
  ShareHolders = {1, 2, 3, 4, 5}
  Nullifiers = {n1}
  Blobs = {b1}
  Garbled = {}
  TOTAL_CUSTODIANS = 5
  THRESHOLD = 3
  TTL = 1
  MaxTime = 2
  None = None
  Note = Note
  Err = Err
SYMMETRY CustodianSymmetry
INVARIANTS
  ApprovalDecrypts
