SPECIFICATION FairSpec
CONSTANTS
  BackgroundPalettes = {}
  SpritePalettes = {"sprite0"}
  NumEntries = 2
  Colors <- TwoColors
  PowerOn = PowerOn
  CallbackStages = TRUE
  DefaultPalettes = {"sprite0"}
  DefaultColor = 1
INVARIANTS
  TypeOK
  OnlySpoiledUpdatesAreLost
PROPERTIES
  UnspoiledUploadsAreWhole
  PalettesSettle
