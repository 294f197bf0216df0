SPECIFICATION Spec
CONSTANTS
  Axis = {0, 1}
  CallbackStages = TRUE
PROPERTY ScrollChangesToNewestPair
