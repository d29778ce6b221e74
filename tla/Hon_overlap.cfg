SPECIFICATION Spec
CONSTANTS
  Users = {u1, u2}
  Tasks = {t1, t2}
  WelcomeHon = 1
  Charges = {2}
  Fees = {1, 3}
  AdminAmounts <- GiveAndTake
  DailyEvents <- DailySettings
  Overlapping = TRUE
  Faults = {"refused", "crash"}
  MaxOps = 4
  NoUser = NoUser
SYMMETRY Symmetry
CHECK_DEADLOCK FALSE
INVARIANTS Solvent Backed
