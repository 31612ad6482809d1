SPECIFICATION Spec
CONSTANTS
  Sessions = {s1, s2}
  Users = {u1, u2}
  Paths = {p1, p2}
  None = None
  bytes_in_avail = 2
  files_in_avail = 2
  QuotaLock = TRUE
  MaxSize = 2
  MaxCommands = 4
  Width = 3
SYMMETRY Permuted
INVARIANTS
  NoLostUpdate
  OneRecordEach
  HardLimitAtRest
  
CHECK_DEADLOCK FALSE
