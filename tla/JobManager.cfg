\* Jobs under one key and without: three slots are taken before a record is retired.
SPECIFICATION Spec
CONSTANTS
  MaxJobs = 2
  DedupeSlots = 1
  Retention = 1
  Keys = {k1}
  NoKey = NoKey
  Hashes = {h1}
  Codes = {busy}
  NoError = NoError
  SetStates = {"running", "waiting_confirmation", "succeeded"}
  MaxIds = 4
  MaxTime = 2
PROPERTIES
  KeyOutlivesRetention
CHECK_DEADLOCK FALSE
