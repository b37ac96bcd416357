\* All CRC-8 functions over short packets.
SPECIFICATION Spec
CONSTANTS
  Data = {0, 139}
  MaxBytes = 3
CHECK_DEADLOCK FALSE
INVARIANTS IsRemainder BurstsShow
