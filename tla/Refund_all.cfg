\* Calm behaviours of eleven requests, overlapping or failing ones of seven.
SPECIFICATION Spec
CONSTANTS
  Asked = {"GENERAL", "REFUND"}
  Tasks = {t1, t2}
  HonAmounts = {1000, 5000}
  PlanAmounts = {12000}
  Fees = {70}
  WelcomeHon = 50
  UsedValues = {250}
  MaxPays = 3
  MaxInquiries = 2
  MaxOps = 11
  MaxOverlaps = 7
SYMMETRY Symmetry
CHECK_DEADLOCK FALSE
INVARIANTS TypeOK CancelledIsPaidBack  
 
