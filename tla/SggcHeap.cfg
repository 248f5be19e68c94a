CONSTANTS
  SmallKinds = {"cons", "sym", "char"}
  BigKinds = {"vec"}
  Uncollected = {"sym"}
  Told = {"char"}
  KindObjects <- MCTwoCells
  MaxRefs <- MCMaxRefs
  DataFails = {"vec"}
  MaxSegments = 2
  MaxRoots = 2
  MaxKept = 1
  MaxLinks = 2
SPECIFICATION Spec
INVARIANTS TypeOK FreeListExact OldToNewCovers OldToNewInUse NoDangling ChunksCounted
PROPERTIES ImplementsHeap FullCollection
