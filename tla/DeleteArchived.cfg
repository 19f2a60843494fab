SPECIFICATION Spec
CONSTANTS
    inbox = inbox
    work = work
    u1 = u1
    u2 = u2
    Mailbox = {inbox, work}
    Inbox = inbox
    Uid = {u1, u2}
    Stored <- TwoBoxes
    Archived <- InWorkVault
    Env = {}
    MaxRuns = 1
    MaxCrashes = 0
    MaxReads = 2
CHECK_DEADLOCK FALSE
INVARIANT DeletedStaysHidden
