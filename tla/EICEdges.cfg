SPECIFICATION FairSpec
CONSTANTS
  N = 2
  NULL = NULL
  Sleeper = zzz
  a4 = a4
  a20 = a20
  d7 = d7
  PulseIn = {p1}
  Encoder = {e1}
  Ops = {"pulsein", "encoder", "pause", "zzz", "end"}
  BackgroundOk = {TRUE}
  Pin <- MCPin
  HasExtint <- MCSomeExtint
  ChannelOf <- MCChannelOf
INVARIANTS SleepIsArmed FirstEdgeThenBoth
PROPERTIES EdgeServed
