\* Everything that can go wrong at once.
SPECIFICATION Spec
CONSTANTS
  Images = {i1, i2}
  Starters = {h1, h2}
  Confirmers = {t1, t2}
  MaxJobs = 2
  MaxUploads = 2
  MaxCuts = 2
  Faults = {"unreadable", "load", "half_request", "overtaking"}
SYMMETRY ThreadSymmetry
INVARIANTS
  RevertImageKept
  InstallsAreApart
\* Nothing is left to do once the bounds are used up.
CHECK_DEADLOCK FALSE
