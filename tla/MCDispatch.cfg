CONSTANTS
  Codes = {226, 450}
  MaxCommands = 3
  MaxAdds = 3
SPECIFICATION Spec
INVARIANTS
  
  PoolOfRunningCommand
  LogsOwnResponse
PROPERTIES
  
  NoStaleResponse
CHECK_DEADLOCK FALSE
