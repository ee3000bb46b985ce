\* A two-chunk image, two uploads, one install, and a power cut at any step; two pages, two
\* presses, one lost answer, one restart, a job table of two.
SPECIFICATION FairUpdateSpec
CONSTANTS
  Size = 2
  MaxUploads = 2
  MaxJobs = 1
  MaxCuts = 1
  Faults = {}
  Senders = {"a", "b"}
  SentFiles = {1}
  SentChunks = 1
  Patience = 2
  ApiScripts = {"cancel"}
  UploadLimit = 2
  UploadJobs = 2
  MaxPresses = 2
  MaxLost = 1
  MaxBoots = 1
INVARIANTS
  PackagesAreKept
  LastIsTrue
  GivenBack
PROPERTIES
  UpdatesEnd
CHECK_DEADLOCK FALSE
