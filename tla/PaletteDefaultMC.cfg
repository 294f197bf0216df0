SPECIFICATION Spec
CONSTANTS
  BackgroundPalettes = {}
  SpritePalettes = {"sprite0"}
  NumEntries = 1
  Colors <- OneColor
  PowerOn = PowerOn
  CallbackStages = FALSE
  DefaultPalettes = {"sprite0"}
  DefaultColor = 1
INVARIANT NoUpdateIsLost
