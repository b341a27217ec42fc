SPECIFICATION LlextSpec
CONSTANTS
  ValidHalves = {1}
  RejectedHalves = {0}
  NoTensors = 0
  HalfBytes <- MCHalfBytes
  LoaderSizes = {0, 1}
  MaxLoaderSize = 1
  CONFIG_KENNING_RESPONSE_PAYLOAD_SIZE = 1
  Graphs = {g1, g2}
  HeapSize = 2
  RuntimeSizes = {1, 4, 5}
  CONFIG_KENNING_MESSAGE_RECV_BUFFER_SIZE = 3
INVARIANTS
  LlextTypeOK
  OneExtensionInUse
  CrashesAfterFailuresOnly
  RunsAcceptedModel
  HeapAccounted
  WholeRuntimeLoads
PROPERTIES
  ImplementsSteps
CHECK_DEADLOCK FALSE
