SPECIFICATION FairSpec
CONSTANTS
  Sess = {p1, p2}
  Daemon = d
  NoPid = nopid
  MaxSlots = 2
  MaxForks = 2
  Attempts = 2
  MaxConns = 1
  MaxClients = 0
  InetdScrub = FALSE
PROPERTY StaleEntryScrubbed
INVARIANT MaxConnsEnforced
