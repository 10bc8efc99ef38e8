CONSTANTS
  Key <- MCKey
  PENDING = 3
  CONSOLE_BUFFER_SIZE = 3
  SerialByte = {0, 200}
  FIFO = 2
  MAX_INPUT = 4
  serial_exists = TRUE
  CRT_ROWS = 3
  CRT_COLS = 3
  BUFLEN = 7
  MAXARGS = 2
  Letter = {"x"}
  Prompt <- MCPrompt
  Message <- MCMessage
  Value = {1, 2}
  Vector = {0, 14, 19}
  HasErr = {14}
  Installed = {0, 14}
  T_PGFLT = 14
  T_DEFAULT = 254
  DEPTH = 2
SPECIFICATION DevSpec
INVARIANTS
  TypedAsMeant
  RebootIsMeant
  RLTypeOK
  EchoMatches
  InstalledFramesRight
  FaultReturns
PROPERTIES
  RingIsQueue
  AllTaken
