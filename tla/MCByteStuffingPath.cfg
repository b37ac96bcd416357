\* Reader, byte stuffing strategy and receiver.
SPECIFICATION PathSpec
CONSTANTS
  IdCount = 2
  ChecksumFunctions = {3, 5}
  DefaultChecksum = 3
  Checksum <- MCChecksum
  Blocks = {b1}
  Readers = {r1}
  Null = Null
  MaxPacketSizes = {1}
  DEFAULT_BDSP_MAX_PACKET_SIZE = 1
  Input = {0, 1, 3, 4, 5}
  xor <- MCxor
  default_config <- MCDefault
  Configs <- MCConfigs
  ConfigsFor <- MCConfigsFor
  DefaultConfig <- MCDefaultFor
  ConfigAccepted <- Accepted
  DecoderStates = {TRUE, FALSE}
  ResetDecoder <- ResetState
  InitDecoder <- AfterInit
  DecoderBusy <- ReadInProcess
  CallsOfRead <- ReadCalls
  StatusOfRead <- ReadStatus
  AfterReading <- AfterRead
  MeaningOf <- Decoded
  MaxFrame = 6
INVARIANTS FrameExact Resynchronised
