SPECIFICATION MCSpec
CONSTANTS
  f1 = f1
  f2 = f2
  f3 = f3
  v1 = v1
  v2 = v2
  None = None
  End = 99
  Vols = {v1, v2}
  Files = {f1, f2, f3}
  VolSlots = {0, 1}
  FileSlots = {0, 1, 2}
  Tree <- MCTree
  Names <- MCNames
  Sizes = {0, 2}
  Positions = {0, 4}
  FsErrors = TRUE
  RngSlots = {0, 1}
  Handles = {h1, h2}
  Addresses = {a1, a2, a3}
  Lengths = {0, 9}
  Period = 3
  Null = Null
SYMMETRY Symmetry
INVARIANTS HandlesMatchVolumes ReadsInOrder RngFoundIsServed
