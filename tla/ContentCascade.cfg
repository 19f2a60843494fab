\* Two accounts, two slots, one switch, mailbox opened or outage, one failure.
SPECIFICATION FairSpec
CONSTANTS
  None = None
  acc1 = acc1
  acc2 = acc2
  Accounts <- const_Accounts
  First = acc1
  Graph <- const_Graph
  Inbox = "INBOX"
  Sent = "Sent"
  Mail <- const_Mail
  Cached <- const_Cached
  MaxSlots = 2
  MaxInterrupts = 1
  MaxFails = 1
  Env = {}
INVARIANTS TypeOK NothingLost NoStall BackgroundOneAtATime
PROPERTIES WaitedMeansFetched CascadeEnds
CHECK_DEADLOCK FALSE
