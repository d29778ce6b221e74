SPECIFICATION FairSpec
CONSTANTS
  Users = {u1, u2}
  Tasks = {t1}
  Day = 2
  Month = 2
  Year = 4
  PassHours <- OnePass
  Horizon = 7
  MaxOps = 4
  Overlapping = FALSE
  Faults = {}
  NoUser = NoUser
CHECK_DEADLOCK FALSE
INVARIANTS NoFreeRide CapturedIsOnRecord
PROPERTIES NotChargedEarly StoppedIsNotCharged DueIsSettled
