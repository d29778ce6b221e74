\* Two weeks: the first may go wrong, the second makes it up.
SPECIFICATION Spec
CONSTANTS
  Settings = {"weekly", "manual", "shops", "race", "faults", "readers", "lateReaders"}
  Keys <- SomeKeys
  MaxWeeks = 2
  MaxAttempts = 2
  MaxExtras = 2
CHECK_DEADLOCK FALSE
INVARIANTS NothingTwice UpcomingHasRow CacheShowsDraws
PROPERTIES DrawnIsAnalysed SiteOpens FreshInTheEnd
