\* The receiver alone: every method in every state, malloc failures, handlers
\* that keep packets or detach the reader.
SPECIFICATION Spec
CONSTANTS
  IdCount = 2
  ChecksumFunctions = {1}
  DefaultChecksum = 1
  Checksum <- MCChecksum
  Blocks = {b1, b2}
  Readers = {r1}
  Null = Null
  MaxPacketSizes = {0, 1}
  DEFAULT_BDSP_MAX_PACKET_SIZE = 2
  Input <- MCInput
SYMMETRY Symmetry
INVARIANTS TypeOK MemorySafe NoLeak DeliveredIsFramed
PROPERTIES HandedOverUntouched
