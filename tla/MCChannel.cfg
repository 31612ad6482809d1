\* Two channels opened one after the other, under the same number or another.
SPECIFICATION Spec
CONSTANTS
  RemoteIds = {r1, r2}
  channel_max = 1
  chan_window_size = 4
  chan_packet_size = 1
  remote_max_packetsz = 1
  WindowMax = 2
  MaxOpens = 2
  MaxBytes = 2
  MaxRekeys = 1
  MaxQueue = 2
INVARIANTS
  InOrder
  WindowsKept
  NothingWaitsInVain
  

  
  
SYMMETRY Numbers
CHECK_DEADLOCK FALSE
