\* Two appliers that race on one counter, a scanner that races with both and the holder of
\* the mutex; no symmetry, as a liveness property is checked.
\* Two appliers and a scanner: releases race with claims of the same counter.
SPECIFICATION FairSpec
CONSTANTS
  Appliers = {a1, a2}
  Scanners = {s1}
INVARIANTS
  NothingLeaks
PROPERTIES
  ConflictsExclude
  MutexIsReleased
