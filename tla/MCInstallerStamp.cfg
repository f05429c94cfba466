SPECIFICATION Spec
CONSTANTS
  MaxRelease = 2
  MaxEdit = 2
  Stamps = {s1}
INVARIANT
  NothingLost
