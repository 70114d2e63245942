SPECIFICATION Spec
CONSTANTS
  MaxFds = 3
  LastFd = 2
  Main = Main
  Worker = {w1, w2}
  SizeT = 16
  MaxCalls = 4
  NoFd = NoFd
  NoProc = NoProc
SYMMETRY Symmetric
INVARIANTS
  PlaceFindsOwnSlot
  LookupFinds
