SPECIFICATION FairHistorySpec
CONSTANTS
  NumSlots = 3
  TileArgs <- TileAndBeyond
  AttributeArgs <- AttributeAndBeyond
  Values = {0, 1}
  InitialBytes = {0}
INVARIANTS
  TypeOK
  PublishedAddressesAreWhole
  QueriesReturnConfirmedTiles
  OnlyLateWritesAreMisplaced
PROPERTIES
  PendingEntriesAreStable
  LastCallWinsUnlessStraddled
  EveryWriteLeavesTheQueue
  ImplementsBackgroundWrites
