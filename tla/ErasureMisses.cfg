SPECIFICATION ErasureSpec
CONSTANTS
  Identifier = {"email", "phone"}
  Row = {"r1", "r2", "w1"}
  Carries <- MCCarries
  ApiRow = {"w1"}
  Admin = {a, b}
  MaxDeletions = 1
INVARIANT NothingOfTheErased
CHECK_DEADLOCK FALSE
