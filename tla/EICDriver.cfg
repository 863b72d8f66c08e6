SPECIFICATION Spec
CONSTANTS
  N = 2
  NULL = NULL
  Sleeper = zzz
  a4 = a4
  a20 = a20
  d7 = d7
  PulseIn = {p1}
  Encoder = {e1}
  Ops = {"pulsein", "encoder", "deinit", "pause", "resume", "zzz", "end"}
  BackgroundOk = {TRUE, FALSE}
  Pin <- MCPin
  HasExtint <- MCPin
  ChannelOf <- MCChannelOf
SYMMETRY MCAlike
VIEW MCView
INVARIANTS TypeOK IInv Listening ConfigUpdateKept NoDanglingData EnabledIsOwned ClientsKeepChannels
PROPERTIES HandlerStaysOnChannel ChannelsUsedExclusively
