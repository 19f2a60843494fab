SPECIFICATION Spec
CONSTANTS
    Mailbox = {inbox}
    Inbox = inbox
    Uid = {u1}
    Types = {"archive_and_delete"}
    Env = {"writeFail"}
    MaxRuns = 1
    MaxCancels = 0
    MaxCrashes = 0
    None = None
    Torn = Torn
CHECK_DEADLOCK FALSE
INVARIANT LocalCopyStays
