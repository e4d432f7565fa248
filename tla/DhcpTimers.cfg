SPECIFICATION TimersSpec
CONSTANTS
  Leases = {4}
  Width = 6
  Ticks = 1
  MaxAge = 5
INVARIANTS TimersTypeOK LeaseRespected NotStuck AskedFirst
