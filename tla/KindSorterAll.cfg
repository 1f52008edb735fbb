SPECIFICATION SorterSpec
CONSTANTS
  Kinds <- SomeKinds
  KindRank <- Alphabetical
  Names = {1, 2}
  MaxObjects = 3
INVARIANT KnownInOrder
CHECK_DEADLOCK FALSE
