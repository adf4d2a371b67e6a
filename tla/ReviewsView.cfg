SPECIFICATION FairSpec
CONSTANTS
  App = {a1, a2}
  NoApp = NoApp
  Window = {h48, h168}
  Hook = {"reviews"}
  MaxVersion = 1
  MaxArmed = 2
  MaxInFlight = 1
  CanFail = TRUE
INVARIANTS TypeOK LoadingHasLoad SettledIsSelected
PROPERTIES OnlySelectedArrives CatchesUp
