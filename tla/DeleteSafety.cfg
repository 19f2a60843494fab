SPECIFICATION FairSpec
CONSTANTS
    inbox = inbox
    work = work
    u1 = u1
    u2 = u2
    Mailbox = {inbox, work}
    Inbox = inbox
    Uid = {u1, u2}
    Stored <- TwoBoxes
    Archived <- InVault
    Env = {"refuse", "answerLost", "credentials"}
    MaxRuns = 2
    MaxCrashes = 1
    MaxReads = 1
CHECK_DEADLOCK FALSE
INVARIANTS TypeOK Durable OnlyTheChosen NoResurrection UntouchedStayCached
PROPERTIES Answered ImplementsJournal
