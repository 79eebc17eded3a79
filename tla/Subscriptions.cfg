SPECIFICATION SubscriptionsSpec
CONSTANTS
  Call = {c1, c2, c3}
  Handler = {sync}
  Command = {"NEW", "RENEW", "CHANGE", "trial", "set", "extend", "toggle", "delete", "leave", "join"}
  Days = 2
  MaxNow = 1
  Parallel = 1
  Faults = {"stop", "panel"}
  b1 = b1
  b2 = b2
  c1 = c1
  c2 = c2
  c3 = c3
  sync = sync
  u1 = u1
  u2 = u2
  u3 = u3
  u4 = u4
  j1 = j1
  j2 = j2
  None = None
  Account = {u1, u2, u3, u4}
  Telegram = {u1, u2}
  Num = {1, 2, 3, 4}
  Tasks = {j1, j2}
  Outsets <- Situations
SYMMETRY Symmetry
INVARIANTS CurrentIsNotDeleted NothingForFree BusyIsSafe AllAgree OneAtATime
CHECK_DEADLOCK FALSE
