SPECIFICATION Spec
CONSTANTS
    MaxUid = 2
    PageSize = 1
    MaxGap = 1
    Tasks = {t1, t2}
    MaxChanges = 1
    MaxFaults = 0
INVARIANT WaitSeesItsSync
CHECK_DEADLOCK FALSE
