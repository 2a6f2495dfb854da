CONSTANTS
  p = p
  q = q
  runt = runt
  hfs = hfs
  audio = audio
  Protocols = {p, q}
  Runt = runt
  CanReset = TRUE
  MaxPackets = 3
  Setups <- MCSetups
  Discs = {hfs, audio}
  HFS = {hfs}
  MaxRestarts = 1
SPECIFICATION MCSpec
INVARIANT TypesOK
INVARIANT OneInterrupt
INVARIANT HandlerHasData
INVARIANT DrivesFound
INVARIANT RightDisc
PROPERTY PacketsRead
PROPERTY EventForDisk
PROPERTY OneEventPerDisk
PROPERTY DisksMounted
