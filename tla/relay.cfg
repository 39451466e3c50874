SPECIFICATION FairSpec
CONSTANTS
  t1 = t1
  t2 = t2
  Turns = {t1}
  MaxMaps = 2
  MaxAttempts = 2
  MaxTroubles = 2
INVARIANTS NothingStranded
PROPERTIES NothingForeign 
CHECK_DEADLOCK FALSE
