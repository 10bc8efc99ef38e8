CONSTANTS
  SECTOR_SIZE = 2
  PAGESIZE = 4
  SMAP_ROWS = 4
  KMEM = 60
  ELFHDR = 0
  MASK = 64
  Machines <- MCMachines
  VM_USERLO = 64
  VM_USERHI = 88
  VM_DYNLINK = 84
  ADDRESSES = 96
  Programs <- MCPrograms
  CopyArgs <- MCCopyArgs
SPECIFICATION LoadSpec
INVARIANTS
  KernelLoaded
  ProgramLoaded
  CopiesAgree
CHECK_DEADLOCK FALSE
