\* The COBS writers against the buffer they allocate.
SPECIFICATION Spec
CONSTANTS
  IdCount = 2
  MIN_BDSP_COBS_DEPTH = 2
  Configs <- MCConfigs
  Input <- MCInput
  MaxData <- MCMaxData
INVARIANT BufferInBounds
