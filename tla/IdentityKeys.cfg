\* Two persons, one order at a time, two keys, three starts.
SPECIFICATION Spec
CONSTANTS
  Keys = {k1, k2}
  Persons = {p1, p2}
  Orders = {o1}
  Custodians = {1, 2, 3}
  Unset = Unset
  Short = Short
  NonHex = NonHex
  Gone = Gone
  None = None
  Note = Note
  Err = Err
  Junk = Junk
  MaxBoots = 3
SYMMETRY InstanceSymmetry
INVARIANTS
  KeyNotLost
PROPERTIES
  KeySurvivesRestart
  PromiseIsKept
