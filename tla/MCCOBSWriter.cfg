\* A stream writer with each of the three COBS strategies.
SPECIFICATION Spec
CONSTANTS
  IdCount = 2
  MIN_BDSP_COBS_DEPTH = 2
  Configs <- MCConfigs
  Input <- MCInput
  MaxData <- MCMaxData
INVARIANTS BoundedOverhead ReadyIsConfigured
PROPERTIES RoundTrip DepthCellsSuffice
