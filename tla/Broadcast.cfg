SPECIFICATION FairSpec
CONSTANTS
  v1 = v1
  v2 = v2
  Viewers <- TwoViewers
  Units = 3
  Size <- Uneven
  Budget = 2
  Slots = 2
INVARIANTS
  ViewerGapless
  TailDelivered
  BudgetHolds
PROPERTIES
  ProducerNeverWaits
  ViewersReleased
CHECK_DEADLOCK FALSE
