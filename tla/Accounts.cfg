SPECIFICATION AccountsSpec
CONSTANTS
  None = None
  Account = {a1, a2}
  Email = {e1}
  Person = {b1}
  Call = {c1, c2, c3}
  Kinds = {"open", "restrict", "payments", "block", "clear", "register", "pay"}
  Web = {w1, w2}
  Shell = {t1}
  Sub = {s1, s2}
  Txn = {x1}
  MaxExpire = 2
  Link = {l1, l2}
SYMMETRY Symmetry
INVARIANTS
  StoredWasDelivered SpentOnce
  KeysAreKept StaleOnlyByRace NoticeBeforeClear
  MergeKeeps
CHECK_DEADLOCK FALSE
