SPECIFICATION ScreenSpec
CONSTANTS
  u1 = u1
  owner = owner
  ostars = ostars
  None = None
  Tx = {first, second}
  Worker = {w1}
  User = {u1}
  Owners = {}
  UserOf <- OneUser
  OfferOf <- OneUser
  Free = {}
  Test = {}
  Stars = {}
  Faults = {}
INVARIANTS ScreenIsTruthful
CHECK_DEADLOCK FALSE
