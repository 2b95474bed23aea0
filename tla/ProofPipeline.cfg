\* A field of 1009 elements, a tree of depth 2, all birth years that matter.
SPECIFICATION PipelineSpec
CONSTANTS
  P = 1009
  MimcConstants <- MCConstants
  SMT_DEPTH = 2
  AadhaarHashes = {3, 1008}
  Secrets = {0, 77, 1086}
  AppIds = {5, 6}
  OwnApp = 5
  Years <- MCYears
  ThisYear = 2026
  CurrentYears = {2026, 2008}
  Siblings = {0, 900}
  None = None
CHECK_DEADLOCK FALSE
INVARIANTS
  AcceptedIsEntitled
  AdultsGetThrough
  CircuitsAgree
