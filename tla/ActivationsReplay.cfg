SPECIFICATION Spec
CONSTANTS
  Profiles = {1, 2}
  Requested = {1}
  Runs = {r1}
  BatchSize = 1
  Kinds = {"delta", "full"}
  MaxFaults = 1
PROPERTIES NoReplay
CHECK_DEADLOCK FALSE
