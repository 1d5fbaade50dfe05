SPECIFICATION Spec
CONSTANTS
  HalfBank = 8
  TagSize = 2
  Half = 8
  Meg = 16
  BufferEnd = 96
  HeaderPos = 7
  ZeroPos = 1
  MappersUsed = {"lorom", "hirom", "exlorom", "sfxrom", "sa1rom", "bigsa1rom"}
  RomLens = {8, 16, 32, 72}
  UsedBytes <- MCUsed
  Sizes = {0, 3, 7}
  Codes = {TRUE, FALSE}
  Aligns = {FALSE}
  MaxRequests = 3
  MaxPatches = 3
INVARIANTS TypeOK DisjointUnlessJumped ProtectedUnlessJumped NoLeakUnlessJumped ContentInOneBank
PROPERTIES SearchEnds
CHECK_DEADLOCK FALSE
