SPECIFICATION StaticSpec
CONSTANTS
  g1 = g1  g2 = g2  x1 = x1  x2 = x2
  Graphs = {g1, g2}
  Inputs = {x1, x2}
  GraphSpec <- MCGraphSpec
  Tensor <- MCTensor
  SentSpecs <- MCSentSpecs
  BuiltIn = g2
  CONFIG_KENNING_EMLEARN_OUTPUT_BUFFER_SIZE = 1
  RESPONSE_STATISTICS = 21
  INFERENCE_STATISTICS_BUFFER_LENGTH = 16
  WordSize = 256
  MAX_MODEL_TENSOR_DIM = 4
  ValidHalves = {1, 2, 4}
  RejectedHalves = {0, 3, 5}
  NoTensors = 0
  HalfBytes <- MCHalfBytes
  LoaderSizes = {0, 1, 2}
  MaxLoaderSize = 2
  CONFIG_KENNING_RESPONSE_PAYLOAD_SIZE = 2
SYMMETRY Symmetric
INVARIANTS
  StaticTypeOK
  OutputIsComputed
  DemoPrintsComputed
  CrashHasCause
  CopyInBounds
  IreeDeviceNeedsInitialized
CHECK_DEADLOCK FALSE
