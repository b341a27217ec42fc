SPECIFICATION ServerSpec
CONSTANTS
  ValidHalves = {1, 2}
  RejectedHalves = {0, 3}
  NoTensors = 0
  HalfBytes <- MCHalfBytes
  LoaderSizes = {0, 1, 2}
  MaxLoaderSize = 1
  CONFIG_KENNING_RESPONSE_PAYLOAD_SIZE = 1
INVARIANTS
  ServerTypeOK
  ClientKnowsState
  LogsFollowSession
  SessionSucceeds
CHECK_DEADLOCK FALSE
