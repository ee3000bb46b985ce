\* Images, bodies, headers, requests and configurations from outside, and the jobs they
\* start: two full records and two compact slots, so that four jobs fill both tiers, and a
\* fourth may repeat the key of one that was retired.
SPECIFICATION RequestsSpec
CONSTANTS
  MaxJobs = 2
  DedupeSlots = 2
  Retention = 1
  Keys = {k1}
  NoKey = NoKey
  Hashes = {h1}
  Codes = {busy}
  NoError = NoError
  SetStates = {"running", "waiting_confirmation", "succeeded"}
  MaxIds = 4
  MaxTime = 2
INVARIANTS
  ImagesAreJudged
  BodiesAreJudged
  JobsAreKept
PROPERTIES
  RequestsAreJudged
  NetworkConfigIsJudged
  OutcomeIsFinal
  RepeatedOnlyWhenForgotten
\* What is read is read once.
CHECK_DEADLOCK FALSE
