SPECIFICATION DiskSpec
CONSTANTS
  p1 = p1
  p2 = p2
  p3 = p3
  None = None
  Addr = {p1, p2, p3}
  Slots = {0, 1, 2}
  Images = {4, 6}
  Word = 16
  BlockSize = 2
  Lbas = {2, 8}
  Sizes = {0, 1, 2, 12}
  Stock <- MCStock
  Partitions <- MCPartitions
  LayerSizes = {1, 3, 6, 9}
  MaxImage = 6
SYMMETRY Symmetry
INVARIANTS LoaderHasItsDisk InstalledIsServed ReadStaysInside NoSlotLost
