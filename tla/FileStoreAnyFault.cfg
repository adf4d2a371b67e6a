SPECIFICATION Spec
CONSTANTS
  App = {a1, a2}
  Writer = {w1, w2}
  NoWriter = NoWriter
  Review <- MCReview
  Id <- MCId
  IdOf <- MCIdOf
  Batch <- MCBatch
  Oversized <- NoneOversized
  Faults <- AnyFault
  DirOpens = TRUE
INVARIANTS TypeOK NoTornFile OnePerId
PROPERTIES KeepsPromise
