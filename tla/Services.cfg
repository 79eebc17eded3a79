SPECIFICATION ServicesSpec
CONSTANTS
  None = None
  User = {u1}
  Call = {c1, c2, c3}
  Parallel = 2
  Faults = {"block", "stop"}
  Chat = {u1, u2}
  WebOnly = {w1}
  BatchSize = 1
  MaxEvents = 4
  MaxOutside = 1
INVARIANTS
  ExchangedOnce RestRevoked
  RowsAreTrue OnlyBatchIsLost
PROPERTIES Ends QueuedIsSent
CHECK_DEADLOCK FALSE
