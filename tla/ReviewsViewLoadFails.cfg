SPECIFICATION Spec
CONSTANTS
  App = {a1, a2}
  NoApp = NoApp
  Window = {h48}
  Hook = {"reviews"}
  MaxVersion = 1
  MaxArmed = 2
  MaxInFlight = 2
  CanFail = TRUE
INVARIANTS ListIsOfSelection
