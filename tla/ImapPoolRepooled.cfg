SPECIFICATION Spec
CONSTANTS
    Task = {t1, t2, t3}
    Key = {a}
    Kinds <- Background
    Manners = {"strict", "lenient", "keeping"}
    MaxPoolSize = 2
    MaxDisconnects = 1
INVARIANT NeverRepooled
