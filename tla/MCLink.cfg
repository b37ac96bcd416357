\* The whole link under faults.
SPECIFICATION LinkSpec
CONSTANTS
  IdCount = 2
  ChecksumFunctions = {3}
  DefaultChecksum = 3
  Checksum <- MCChecksum
  Blocks = {b1}
  Readers = {r1}
  Null = Null
  MaxPacketSizes = {2}
  DEFAULT_BDSP_MAX_PACKET_SIZE = 2
  Input = {}
  xor <- MCxor
  default_config <- MCConfig
  Configs <- MCConfigs
  ConfigsFor <- MCConfigsFor
  DefaultConfig <- MCDefaultFor
  ConfigAccepted <- Accepted
  DecoderStates = {TRUE, FALSE}
  ResetDecoder <- ResetState
  InitDecoder <- AfterInit
  DecoderBusy <- ReadInProcess
  CallsOfRead <- ReadCalls
  StatusOfRead <- ReadStatus
  AfterReading <- AfterRead
  MeaningOf <- Decoded
  MaxFrame = 40
  Writer = w1
  Ids = {0, 1}
  Buffers <- MCBuffers
  Messages <- MCMessages
  Noise = {5, 3, 0}
  MaxWire = 5
  MaxFaults = 2
PROPERTIES ImplementsChannel PacketsArrive
