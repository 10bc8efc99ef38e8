CONSTANTS
  AT_SIZE = 9
  VM_USERLO_PI = 2
  VM_USERHI_PI = 7
SPECIFICATION PLSpec
INVARIANTS
  OnlyNormalAllocated
  PLInv
  SentinelNotFree
PROPERTIES
  ATSpec
  PallocTerminates
