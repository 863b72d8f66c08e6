SPECIFICATION Spec
CONSTANTS
  Sector = {s1, s2}
  PerSector = 2
  Erased = ones
  Data = {ones, d1}
  Garbage = garbage
  LooksErased = {}
  OverRead = {TRUE, FALSE}
  RewritesErased = FALSE
  Failures = {"power", "command"}
  NULL = NULL
SYMMETRY MCAlike
INVARIANTS TypeOK ReadsLastWrite CopyIsComplete ProgramsErased
PROPERTIES DamageIsLocal
