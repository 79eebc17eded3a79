SPECIFICATION Spec
CONSTANTS
  u1 = u1
  owner = owner
  ostars = ostars
  None = None
  Tx = {paid, free, test, ostars}
  Worker = {w1, w2}
  User = {u1, owner}
  Owners = {owner}
  UserOf <- UserOfTx
  OfferOf <- OfferOfTx
  Free = {free}
  Test = {test}
  Stars = {ostars}
  Faults = {"crash", "db", "purchase", "webhook"}
INVARIANTS GrantedOnce GrantBacked RewardBacked
PROPERTIES StatusEdges ImplementsDelivery
CONSTRAINT StarsAndTestsAlone
CHECK_DEADLOCK FALSE
