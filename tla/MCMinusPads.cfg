CONSTANTS
  MEM = 6
  BYTE = 3
  WORD = 2
  Fill <- MCFill
  UINT = 16
  MAX_BUF = 4
  Job <- MCMinusJob
SPECIFICATION LibSpec
INVARIANTS
  MinusPadsRight
