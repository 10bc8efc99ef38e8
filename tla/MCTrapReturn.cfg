CONSTANTS
  Value = {1, 2}
  Vector = {0, 14, 19}
  HasErr = {14}
  Installed = {0, 14}
  T_PGFLT = 14
  T_DEFAULT = 254
  DEPTH = 2
SPECIFICATION TFSpec
CHECK_DEADLOCK FALSE
INVARIANTS
  StateRestored
