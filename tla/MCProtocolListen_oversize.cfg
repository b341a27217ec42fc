SPECIFICATION Spec
CONSTANTS
  LoaderTypes = {"DATA", "RUNTIME"}
  PlainTypes = {"PING"}
  InvalidTypes = {"UNKNOWN"}
  ResetMayFail = {"RUNTIME"}
  MaxSize = 3
  CONFIG_KENNING_MESSAGE_RECV_BUFFER_SIZE = 2
  Scripts <- MCScripts
  GarbageHeaders <- MCGarbageHeaders
  NullLoaderSizes = {0, 3}
  MaxSeries = 3
  MaxStalls = 1
INVARIANTS
  OversizeRefused
