SPECIFICATION ScreenSpec
CONSTANTS
  u1 = u1
  owner = owner
  ostars = ostars
  None = None
  Tx = {first, free, test, ostars}
  Worker = {w1}
  User = {u1, owner}
  Owners = {owner}
  UserOf <- UserOfTx
  OfferOf <- OfferOfTx
  Free = {free}
  Test = {test}
  Stars = {ostars}
  Faults = {"crash"}
INVARIANTS ScreenFollowsPurchase
CONSTRAINT StarsAndTestsAlone
CHECK_DEADLOCK FALSE
