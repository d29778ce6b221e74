SPECIFICATION Spec
CONSTANTS
  Users = {u1, u2}
  Tasks = {t1}
  WelcomeHon = 1
  Charges = {2}
  Fees = {1, 3}
  AdminAmounts <- GiveAndTake
  DailyEvents <- TakingSettings
  Overlapping = FALSE
  Faults = {}
  MaxOps = 5
  NoUser = NoUser
SYMMETRY Symmetry
CHECK_DEADLOCK FALSE
INVARIANTS BooksBalance StatedBalance
