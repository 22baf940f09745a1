\* A document with two DELETE requests that may overlap, or two that compete for
\* the only job slot; two tries (scaled from max_jobs = 4, max_tries = 5).
CONSTANTS
  d1 = d1
  Doc = {d1, d2}
  Deleter = {x1, x2}
  NoDoc = NoDoc
  HasFK = TRUE
  MaxTries = 2
  MaxJobs = 1
SPECIFICATION MCFairSpec
CHECK_DEADLOCK FALSE
INVARIANTS
  ReadyIsIngested
  DeletedIsGone
  FileUntilDeleted
PROPERTIES
  StatusLifecycle
  ProcessingSettles
