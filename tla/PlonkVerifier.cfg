\* The field of 13 elements: every zeta, a few of the other challenges.
SPECIFICATION Spec
CONSTANTS
  PRIME = 13
  N = 4
  OMEGA = 5
  SHIFT = 2
  NbPublic = 2
  Gates <- MCGates
  Sigma <- MCSigma
  Blinding <- MCBlinding
  Instances <- MCInstances
  Taus = {2, 9}
  Alphas = {7}
  Betas = {2}
  Gammas = {3, 11}
  Rs = {1, 6}
  Others = {4}
  Us = {1, 6}
  Deltas = {1}
INVARIANTS
  InterpolationIsLagrange
  TrueIsAccepted
  AcceptedFitsIdentity
  ChangeIsRefused
CHECK_DEADLOCK FALSE
