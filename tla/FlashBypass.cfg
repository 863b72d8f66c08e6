SPECIFICATION Spec
CONSTANTS
  Sector = {s1, s2}
  PerSector = 2
  Erased = ones
  Data = {ones, d1}
  Garbage = garbage
  LooksErased = {}
  OverRead = {TRUE}
  RewritesErased = TRUE
  Failures = {}
  NULL = NULL
SYMMETRY MCAlike
INVARIANTS ReadsLastWrite

