SPECIFICATION Spec
CONSTANTS
  Sess = {p1, p2}
  Daemon = d
  NoPid = nopid
  MaxSlots = 3
  MaxForks = 3
  Attempts = 1
  MaxConns = 0
  MaxClients = 1
  InetdScrub = FALSE
INVARIANT SlotOwnership
INVARIANT MaxClientsEnforced
PROPERTY OthersLeaveEntryAlone
PROPERTY ImplementsRegistry
SYMMETRY Symmetry
