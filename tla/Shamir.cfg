\* Three of five shares over the integers modulo 7: bytes are 0..5, and the
\* share value 6 stands for 256.
SPECIFICATION SharingSpec
CONSTANTS
  PRIME = 7
  N = 5
  K = 3
  NotYet = NotYet
CHECK_DEADLOCK FALSE
INVARIANTS
  AnyKRecover
  FewerTellNothing
  RepeatsDropOut
