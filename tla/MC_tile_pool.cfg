SPECIFICATION Spec
CONSTANTS
  t1 = t1
  t2 = t2
  near = near
  far = far
  None = None
  Black = Black
  Threads <- TwoThreads
  Caches <- TwoCaches
  Positions <- ThreePositions
  PoolSize = 3
  Upstream <- Chain
  Reads <- SamePlace
  Areas <- NearAreas
  Failing <- FarCache
  MaxAsks = 1
INVARIANTS TypeOK OwnTiles RefsExact OneComputes AbortsWhenFull SomeCallMoves
PROPERTIES CallsEnd ReadsDelivered
