\* The transmitter and what its writer takes.
SPECIFICATION Spec
CONSTANTS
  IdCount = 1
  ChecksumFunctions = {1}
  DefaultChecksum = 1
  Checksum <- MCChecksum
  Writers = {w1}
  Null = Null
  MaxPacketSizes = {0, 7, 8}
  DEFAULT_BDSP_MAX_PACKET_SIZE = 63
  Ids = {0, 1}
  Buffers <- MCBuffers
  MaxOpen = 2
INVARIANTS FrameIsPacket NothingLeftOver
