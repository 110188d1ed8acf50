SPECIFICATION ConsentSpec
CONSTANTS
  a = a
  b = b
  ra = ra
  rb = rb
  Profile = {a, b}
  Record = {ra, rb}
  Home <- MCHome
  Authoritative = {ra}
  Channel = {"email"}
  Said <- MCTimed
  MaxSaid = 3
INVARIANT OptOutOfAnySource
CHECK_DEADLOCK FALSE
