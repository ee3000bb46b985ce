\* Failing calls and saves, power cuts between any two steps; one thread of each
\* kind, without symmetry.
SPECIFICATION FairSpec
CONSTANTS
  Images = {i1, i2}
  Starters = {h1}
  Confirmers = {t1}
  MaxJobs = 2
  MaxUploads = 2
  MaxCuts = 2
  Faults = {"unreadable"}
INVARIANTS
  LastUpdateIsTrue
  JournalBeforeTrailer
PROPERTIES
  InstallSettles
\* Nothing is left to do once the bounds are used up.
CHECK_DEADLOCK FALSE
