SPECIFICATION Spec
CONSTANTS
    Mailbox = {inbox}
    Inbox = inbox
    Uid = {u1}
    Types = {"archive_and_delete"}
    Env = {"cancel"}
    MaxRuns = 1
    MaxCancels = 1
    MaxCrashes = 0
    None = None
    Torn = Torn
CHECK_DEADLOCK FALSE
INVARIANT CancelHolds
