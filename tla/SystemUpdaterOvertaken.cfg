\* A confirmation saves its journal after an install has saved its own.
SPECIFICATION Spec
CONSTANTS
  Images = {i1, i2}
  Starters = {h1}
  Confirmers = {t1}
  MaxJobs = 2
  MaxUploads = 2
  MaxCuts = 2
  Faults = {"overtaking"}
INVARIANTS
  JournalBeforeTrailer
\* Nothing is left to do once the bounds are used up.
CHECK_DEADLOCK FALSE
