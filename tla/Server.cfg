SPECIFICATION FairSpec
CONSTANTS
  App = {a1, a2}
  Handler = {h1}
  Concurrency = 1
  ShutdownTimesOut = FALSE
INVARIANTS TypeOK PassesDoNotOverlap StopsQuietly
PROPERTIES ShutdownCompletes RegisteredIsPolled RemovedIsLeft
