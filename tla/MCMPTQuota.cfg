CONSTANTS
  AT_SIZE = 14
  VM_USERLO_PI = 8
  VM_USERHI_PI = 12
  NUM_IDS = 3
  MAX_CHILDREN = 2
  WORD = 32
  NPDE = 7
  NPTE = 2
  IDPTBL_PI = 1
  MAGIC_PI = 1
  Perms <- MCPerms
  Junk <- MCJunk
  Quotas = {1}
SPECIFICATION MCSpec
INVARIANTS
  CanConsumeIsRight
