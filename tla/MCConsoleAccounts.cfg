CONSTANTS
  u1 = u1  u2 = u2
  r1 = r1  r2 = r2
  None = None
  Users = {u1, u2}
  Requests = {r1, r2}
  Seeds = {u1, u2, None}
  Machine = "viewer"
  Private = FALSE
  Loopback = TRUE
  Idle = 2
  Absolute = 3
  MaxTime = 3
  MaxTokens = 2
  MaxChanges = 1
SPECIFICATION Spec
SYMMETRY Alike
INVARIANTS RowsAreCurrent
PROPERTIES LiveAdminStays EndedStaysEnded
CHECK_DEADLOCK FALSE
