SPECIFICATION Spec
CONSTANTS
  Parts = {"logins", "accounts", "guard"}
  Slots = {s1, s2}
  MaxOps <- CalmOps
  MaxOverlaps <- OverlappingOps
  Ids = {i1, i2}
  Addresses = {mail}
  Passwords = {p1, p2}
  MaxFails = 3
  MaxTokens = 2
  Ips = {home, away}
CHECK_DEADLOCK FALSE
INVARIANTS OneHolder LockIsEarned
PROPERTIES VerdictIsRight FreedInTheEnd
