SPECIFICATION TracingSpec
CONSTANTS
  CONFIG_KENNING_LOG_BUFFER_SIZE = 5
  MAX_SINGLE_MESSAGE_LENGTH = 4
  LineLengths = {3, 5}
  MaxLines = 3
  CONFIG_ZPL_TRACE_BACKEND_KENNING_PROTOCOL_BUFFER_SIZE = 4
  EventLengths = {1, 2}
  MaxTraceEvents = 5
INVARIANTS
  SizeFieldInBounds
  Framing
  DeliveredOnceInOrder
  TraceTypeOK
  TraceInOrder
PROPERTIES
  LossIsExplained
