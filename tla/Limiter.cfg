SPECIFICATION FairLimiterSpec
CONSTANTS
  w1 = w1
  w2 = w2
  w3 = w3
  w4 = w4
  Workers <- FourWorkers
  AdaptiveMin = 1
  AdaptiveStart = 2
  AdaptiveMax = 4
  Threads = {0, 3}
  Rates <- FewRates
INVARIANTS
  LimitWithinBounds
  NoLostWakeup
PROPERTIES
  CancelReleases
CHECK_DEADLOCK FALSE
