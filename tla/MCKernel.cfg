CONSTANTS
  AT_SIZE = 20
  VM_USERLO_PI = 8
  VM_USERHI_PI = 16
  NUM_IDS = 3
  MAX_CHILDREN = 2
  WORD = 64
  NPDE = 5
  NPTE = 4
  IDPTBL_PI = 1
  MAGIC_PI = 1
  Perms <- MCPerms
  Junk <- MCJunk
  Quotas = {1}
  Image <- MCImage
  VM_DYNLINK <- MCDynlink
  Touched <- MCTouched
  Stores <- MCStores
SPECIFICATION MCSpec
CHECK_DEADLOCK FALSE
INVARIANTS
  PhysicalView
  TLBCoherent
  UserHitsOwn
  FaultsJustified
  LoaderStoresInProcess
PROPERTIES
  AccessCompletes
