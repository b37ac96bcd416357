\* The COBS writers initialised again, also in the middle of a sequence.
SPECIFICATION Spec
CONSTANTS
  IdCount = 2
  MIN_BDSP_COBS_DEPTH = 2
  Configs <- MCConfigs
  Input <- MCInput
  MaxData <- MCMaxData
INVARIANT InitMakesReady
