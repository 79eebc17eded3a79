SPECIFICATION DashboardSpec
CONSTANTS
  None = None
  User = {u1, u2, u3}
  Update = {d1, d2, d3}
  Beginnings <- RoleBeginnings
  Admin = {a1, a2}
  PlanId = {p1, p2, p3}
  Guest = {u1}
  Identities <- BothIdentities
  Squad = {s1, s2}
  Name = {"x", "y", "z", "default"}
  Default = "default"
  Days = {7, 30}
  DefaultDays <- WeekAndMonth
  Files <- Exported
  Settings <- PlanSettings
  PromoId = {p1, p2, p3}
  Code = {"A", "B", "C"}
  Sold = {p1}
  Reward = {0, 50, 150}
  Drafts <- PromoBeginnings
  Customer = {u1, u2}
  Lower = {u1}
  Invited <- Invitations
  Opening <- Openings
  a1 = a1
  a2 = a2
  u1 = u1
  u2 = u2
  u3 = u3
  s1 = s1
  s2 = s2
  d1 = d1
  d2 = d2
  d3 = d3
  p1 = p1
  p2 = p2
  p3 = p3
SYMMETRY Symmetry
INVARIANTS PlansAreSound OwnerIsConfigured WindowsAreTrue
PROPERTIES WritesStayInside RanksRespected
CHECK_DEADLOCK FALSE
