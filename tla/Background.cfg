\* Backup: two accounts, one interruption, one manual backup, one failure.
\* Migration: two folders, one resume, two failed requests.
\* Bulk: two mailboxes, one UID, two runs that may overlap, one cancel.
\* Vault: two drives, two messages, two moves, at once or not, one mishap.
SPECIFICATION JobSpec
CONSTANTS
  None = None
  acc1 = acc1
  acc2 = acc2
  Order <- const_Order
  Folders <- const_Folders
  MaxRetries = 1
  MaxInterrupts = 1
  MaxAsks = 1
  MaxFails = 1
  NFolders = 2
  Size <- const_Size
  Id <- const_Id
  Folded <- const_Folded
  Transports = {"imap", "graph"}
  MaxRuns = 2
  MaxFaults = 2
  Env = {"tokenless"}
  Home = Home
  Drives = {d1, d2}
  Letters = {m1, m2}
  Initially = {m1}
  MaxMoves = 2
  MaxMishaps = 1
  Inbox = inbox
  Second = second
  Uid = {u1}
  Torn = Torn
INVARIANTS JobsTypeOK SuccessIsComplete PauseStopsTheRun DisplayTellsManual
  CompletedIsCopied NothingTwice CancelStops VaultKeepsMail DeletedWasChosen
PROPERTIES BackupsGetDone RunsEnd
CHECK_DEADLOCK FALSE
