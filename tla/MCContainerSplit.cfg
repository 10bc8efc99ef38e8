CONSTANTS
  AT_SIZE = 6
  VM_USERLO_PI = 1
  VM_USERHI_PI = 5
  NUM_IDS = 5
  MAX_CHILDREN = 2
  WORD = 16
SPECIFICATION SplitSpec
PROPERTIES
  SplitTakesNewContainer
