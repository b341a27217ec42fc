SPECIFICATION Spec
CONSTANTS
  Cells = {1, 2, 3, 4, 5}
  Networks <- SomeNetworks
  None = None
  CONFIG_KENNING_AI8X_CNN_TIMEOUT_MS = 2
INVARIANTS
  WaitMeansCompleted
