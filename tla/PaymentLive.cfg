SPECIFICATION FairSpec
CONSTANTS
  u1 = u1
  owner = owner
  ostars = ostars
  None = None
  Tx = {paid, stars}
  Worker = {w1, w2}
  User = {u1, owner}
  Owners = {owner}
  UserOf <- UserOfTx
  OfferOf <- OfferOfTx
  Free = {}
  Test = {}
  Stars = {stars}
  Faults = {"purchase"}
INVARIANTS NothingStranded
PROPERTIES PaidIsSettled
CHECK_DEADLOCK FALSE
