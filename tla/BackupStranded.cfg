\* Two accounts, one interruption.
SPECIFICATION FairSpec
CONSTANTS
  None = None
  acc1 = acc1
  acc2 = acc2
  Order <- const_Order
  Folders <- const_Folders
  MaxRetries = 1
  MaxInterrupts = 1
  MaxAsks = 0
  MaxFails = 0
PROPERTIES ResumedPicksUp
CHECK_DEADLOCK FALSE
