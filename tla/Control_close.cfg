\* One profile, one target, three operations.
CONSTANTS
    Profile = {u1}
    Target = {t1}
    None = None
    MaxOps = 3
    MaxProgress = 1
SPECIFICATION FairSpec
PROPERTY CloseHonoured
CHECK_DEADLOCK FALSE
