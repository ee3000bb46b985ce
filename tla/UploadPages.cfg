\* One page for each processor, and a script that asks for checks.
SPECIFICATION Spec
CONSTANTS
  Pages = {"a", "b"}
  Targets = {"esp32c6", "stm32u585"}
  Files = {1}
  Size = 1
  Patience = 2
  Scripts = {"verify"}
  MaxUploads = 2
  MaxJobs = 6
  MaxPresses = 3
  MaxLost = 0
  MaxBoots = 0
INVARIANT NothingIsWrittenOver
CHECK_DEADLOCK FALSE
