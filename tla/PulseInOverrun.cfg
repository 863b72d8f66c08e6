SPECIFICATION Spec
CONSTANTS
  MaxLen = 4
  Word16 = 8
  Word32 = 16
  UsPerMs = 2
  Cap = 3
  LastMs = 2
  Untimely = {"pop_past_end"}
  NULL = NULL
PROPERTIES KeepsLastPulses
