\* The administrator's password and the commissioning window, and the jobs of both.
SPECIFICATION FairWebSpec
CONSTANTS
  c1 = c1
  c2 = c2
  p1 = p1
  p2 = p2
  s1 = s1
  r1 = r1
  r2 = r2
  Callers <- MCCallers
  Passwords <- MCPasswords
  Slots <- MCSlots
  RequestSlots <- MCRequestSlots
  MaxMatterJobs = 2
  MaxEvents = 2
  None = None
  GlobalFailures = 1
  Window = 2
  MaxJobs = 2
  MaxBoots = 1
INVARIANTS
  OnlyThisPassword
  GuessesAreLimited
  CommissioningIsTold
PROPERTIES
  EveryJobEnds
CHECK_DEADLOCK FALSE
