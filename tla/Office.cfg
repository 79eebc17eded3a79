SPECIFICATION OfficeSpec
CONSTANTS
  None = None
  u1 = u1
  u2 = u2
  u3 = u3
  t1 = t1
  t2 = t2
  User = {u1, u2, u3}
  Txn = {t1, t2}
  Bought <- Purchases
  SettingsChoices <- SettingsOfRuns
  Faults = {"database", "panel", "stop"}
  A = A
  B = B
  rub = rub
  usd = usd
  stars = stars
  card = card
  PlanId = {A, B}
  Content <- Contents
  Starts <- Situations
  Method = {stars, card}
  Currency = {rub, usd}
  CurrencyOf <- Rates
  Stars = stars
  Default = rub
  Whole = {rub}
  Methods <- MethodOrders
  Discounts <- Pairs
  MaxOrders = 2
  MaxEdits = 1
  Admin = {u1, u2}
  Payment = {t1, t2}
  Worker = {w1, w2}
  Beginnings <- Chances
  w1 = w1
  w2 = w2
INVARIANTS
  BalanceAccounted IssuedWasGranted RewardFollowsChain ShownIsOrdered AmountFollowsRules
  GatewaysAreTrue
CHECK_DEADLOCK FALSE
