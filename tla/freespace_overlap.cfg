SPECIFICATION Spec
CONSTANTS
  HalfBank = 8
  TagSize = 2
  Half = 8
  Meg = 16
  BufferEnd = 96
  HeaderPos = 7
  ZeroPos = 1
  MappersUsed = {"lorom"}
  RomLens = {16, 32}
  UsedBytes <- MCUsed
  Sizes = {1, 3, 5}
  Codes = {TRUE}
  Aligns = {FALSE}
  MaxRequests = 3
  MaxPatches = 1
INVARIANTS OwnedDisjoint
CHECK_DEADLOCK FALSE
