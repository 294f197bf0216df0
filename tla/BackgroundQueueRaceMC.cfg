SPECIFICATION HistorySpec
CONSTANTS
  NumSlots = 4
  TileArgs <- OneTile
  AttributeArgs = {}
  Values = {1, 2}
  InitialBytes = {0}
PROPERTY LastCallWins
