SPECIFICATION Spec
CONSTANTS
  User = {u1, u2}
  Call = {c1, c2, c3}
  Version <- AnyVersion
  Unlimited = Unlimited
  Faults = {"stop", "panel", "unsubscribe"}
  Nothing = Nothing
SYMMETRY Symmetry
CONSTRAINT OneMix
INVARIANTS LimitRespected FirstOfItsUser ConsumedIsRewarded RewardAccounted
CHECK_DEADLOCK FALSE
