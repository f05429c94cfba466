SPECIFICATION Spec
CONSTANTS
  MaxRelease = 2
  MaxEdit = 3
  Stamps = {s1,s2}
INVARIANTS
  MarkerMeansInstalled
  LossExplained
SYMMETRY Alike
