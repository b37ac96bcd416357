\* Reader, COBS or COBS/GSE strategy and receiver.
SPECIFICATION PathSpec
CONSTANTS
  IdCount = 2
  ChecksumFunctions = {3, 5}
  DefaultChecksum = 3
  Checksum <- MCChecksum
  Blocks = {b1}
  Readers = {r1}
  Null = Null
  MaxPacketSizes = {1}
  DEFAULT_BDSP_MAX_PACKET_SIZE = 1
  Input = {0, 1, 3, 5}
  MIN_BDSP_COBS_DEPTH = 2
  Configs <- MCConfigs
  ConfigsFor <- ConfigsOfClass
  DefaultConfig <- DefaultOfClass
  ConfigAccepted <- Accepted
  DecoderStates <- ReadState
  ResetDecoder <- ResetState
  InitDecoder <- AfterInit
  DecoderBusy <- ReadInProcess
  CallsOfRead <- ReadCalls
  StatusOfRead <- ReadStatus
  AfterReading <- AfterRead
  MeaningOf <- Decoded
  MaxFrame = 7
INVARIANTS FrameExact Resynchronised OffsetInRange NullCallNeedsError
