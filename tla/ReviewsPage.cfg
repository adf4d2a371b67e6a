SPECIFICATION PageSpec
CONSTANTS
  App = {1, 2}
  NoApp = NoApp
  Slot = {s1, s2}
  Window = {h48, h168}
  Hook = {"reviews"}
  MaxVersion = 0
  MaxArmed = 1
  MaxInFlight = 1
SYMMETRY Symmetry
INVARIANTS TypeOK InStep SelectedIsListed FlagsHaveRequest ShownIsListed
