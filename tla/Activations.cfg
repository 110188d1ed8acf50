SPECIFICATION Spec
CONSTANTS
  Profiles = {1, 2}
  Requested = {1}
  Runs = {r1, r2}
  BatchSize = 1
  Kinds = {"delta", "file"}
  MaxFaults = 2
INVARIANTS ErasedIsRevoked BaselineWasSent SucceededIsDelivered NoneStranded
SYMMETRY RunSymmetry
CHECK_DEADLOCK FALSE
