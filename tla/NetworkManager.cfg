\* Three configurations beside the first one over two boots: a transaction is overtaken by
\* its successor, by a reboot and by a scan accepted meanwhile.
\* Every call to the store and to the adapter may fail; one restart at any step.
SPECIFICATION FairSpec
CONSTANTS
  MaxConfigs = 3
  MaxJobs = 3
  MaxBoots = 2
  Faults = {"begin", "commit", "erase", "push", "scan"}
INVARIANTS
  StatusIsTrue
  NothingIsHeld
PROPERTIES
  OnlyTheConfirmedStays
  ChangeEnds
