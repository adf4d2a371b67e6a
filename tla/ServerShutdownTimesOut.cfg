SPECIFICATION Spec
CONSTANTS
  App = {a1, a2}
  Handler = {h1}
  Concurrency = 1
  ShutdownTimesOut = TRUE
PROPERTIES AddsBeforeShutdownReturns
