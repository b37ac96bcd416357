\* Byte stuffing with configurations of all kinds and every byte.
SPECIFICATION Spec
CONSTANTS
  IdCount = 1
  xor <- MCxor
  default_config <- MCDefault
  Configs <- MCConfigs
  MaxSent = 3
INVARIANTS LinkExact
