SPECIFICATION Spec
CONSTANTS
  Users = {u1, u2}
  Tasks = {t1, t2}
  Day = 2
  Month = 2
  Year = 4
  PassHours <- OnePass
  Horizon = 4
  MaxOps = 3
  Overlapping = TRUE
  Faults = {"lost", "refused", "down"}
  NoUser = NoUser
SYMMETRY Symmetry
CHECK_DEADLOCK FALSE
INVARIANTS RenewalsArePaid
