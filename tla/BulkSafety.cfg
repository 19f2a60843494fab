SPECIFICATION Spec
CONSTANTS
    Mailbox = {inbox, work}
    Inbox = inbox
    Uid = {u1, u2}
    Types = {"archive", "delete", "archive_and_delete"}
    Env = {"crash", "cancel", "lateAnswer", "persistFail", "deleteFail"}
    MaxRuns = 2
    MaxCancels = 1
    MaxCrashes = 1
    None = None
    Torn = Torn
SYMMETRY UidSymmetry
CHECK_DEADLOCK FALSE
INVARIANTS TypeOK LocalCopyStays FileNamesSelection
PROPERTIES CancelStopsDeletes
