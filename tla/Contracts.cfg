\* Each contract on its own: three nullifiers, three wallets, three blobs, a
\* supply that runs out, four updates of the root in four rounds.
SPECIFICATION MCSpec
CONSTANTS
  Nullifiers = {n1, n2, n3}
  Wallets = {w1, w2, w3}
  Blobs = {b1, b2, b3}
  Accounts = {deployer, successor}
  Absent = Absent
  Total = 3
  MaxIssued = 4
  NotIn = NotIn
  Roots = {r1, r2, r3}
  MaxUpdates = 4
  MaxRound = 3
INVARIANTS
  TotalMatchesBoxes
  CountersExplainCredentials
  NonTransferable
