SPECIFICATION FairSpec
CONSTANTS
  N = 2
  NULL = NULL
  Sleeper = zzz
  a4 = a4
  a20 = a20
  d7 = d7
  PulseIn = {p1}
  Encoder = {}
  Ops = {"zzz"}
  BackgroundOk = {TRUE}
  Pin <- MCPin
  HasExtint <- MCPin
  ChannelOf <- MCChannelOf
PROPERTIES WakeNotLost
