CONSTANTS
  MEM = 6
  BYTE = 3
  WORD = 2
  Fill <- MCFill
  UINT = 16
  MAX_BUF = 4
  Job <- MCJob
SPECIFICATION LibSpec
INVARIANTS
  KeepsContract
  FormatsAsMeant
  OutputComplete
  ReadsBack
