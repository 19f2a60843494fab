SPECIFICATION FairSpec
CONSTANTS
    Mailbox = {inbox}
    Inbox = inbox
    Uid = {u1, u2}
    Types = {"delete", "archive_and_delete", "delete_everywhere"}
    Env = {"crash", "cancel", "persistFail", "reject", "writeFail", "deleteFail"}
    MaxRuns = 2
    MaxCancels = 1
    MaxCrashes = 1
    None = None
    Torn = Torn
CHECK_DEADLOCK FALSE
INVARIANTS DeletedHasFile Recoverable
PROPERTIES PurgeKeepsLastCopy ManagerFrees
