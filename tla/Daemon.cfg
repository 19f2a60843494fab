\* Pool: two calls, two pools of one session.
\* Sync: one request at a time, three UIDs, two changes, one fault.
SPECIFICATION JobSpec
CONSTANTS
    Task = {t1, t2}
    Key = {a}
    Kinds <- Both
    Manners = {"strict", "lenient", "keeping"}
    MaxPoolSize = 1
    MaxDisconnects = 1
    MaxUid = 3
    PageSize = 1
    MaxGap = 1
    Syncs = {t1}
    MaxChanges = 2
    MaxFaults = 1
INVARIANTS TypeOK PoolBounded FailedStaysOut SyncTypeOK FlagsNotLost
PROPERTIES Served NothingLivePruned CacheConverges
CHECK_DEADLOCK FALSE
