SPECIFICATION MCSpec
CONSTANTS
  k1 = k1
  k2 = k2
  ia = ia
  ib = ib
  ic = ic
  empty = empty
  Keys = {k1, k2}
  MaxKeys = 2
  Menus <- AllMenus
  MsPerSec = 2
  MaxEx = 6
  IntHalf = 16
  Items = {ia, ib, ic, empty}
  EmptyItem = empty
  Hash1 <- H1
  Hash2 <- H2
  SeedHash <- Seeds
  NumHashes = 2
  DefaultBits = 3
  MaxText = 3
  MaxSize = 3
  MaxCount = 3
  Elems <- MCElems
  Pivots <- MCPivots
  Norm <- MCNorm
  Size <- MCSize
  Indices <- MCIndices
  NodeSize = 5
  MaxDead = 3
  SizeClass = 4
  MaxLen = 4
  Restores = "live"
INVARIANTS
  EffectsConfined
  ValuesReadBack
  CollectionsAgree
  OneSidedErrors
  PanicsExplained
PROPERTY
  DequeIsList
