SPECIFICATION Spec
CONSTANTS
  App = {a1, a2}
  Writer = {w1, w2}
  NoWriter = NoWriter
  Meta <- MCMeta
  NotTracked = NotTracked
  Seeds <- MCSeeds
  Oversized = {}
  Faults = {"io", "dirSync", "kill", "power"}
  DirOpens = TRUE
SYMMETRY Symmetry
INVARIANTS TypeOK SeededOnce
PROPERTIES KeepsPromise RestartKeepsRegistry
