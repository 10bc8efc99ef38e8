CONSTANTS
  AT_SIZE = 7
  VM_USERLO_PI = 2
  VM_USERHI_PI = 6
  PAGESIZE = 2
  MAXADDR = 13
  NSLOTS = 3
  E820 <- MCE820
SPECIFICATION MMSpec
CHECK_DEADLOCK FALSE
INVARIANTS
  CoverageKept
  NormalIsUsable
  UsableIsNormal
  LeavesBootTable
PROPERTIES
  BootCompletes
