\* Two processes, two repairs, any two calls may fail, one crash and one logon.
CONSTANTS
    Proc = {p1, p2}
    Path = {f1, f2}
    Empty = Empty
    Backup = {b1, b2}
    None = None
    MaxFaults = 2
    MaxCrashes = 1
    MaxLogons = 1
    MaxRepairs = 2
SPECIFICATION MCSpec
SYMMETRY Interchangeable
INVARIANTS
    TypeOK
    SuccessIsTruthful
PROPERTIES
    FailedRepairRestores
    SuccessRepairs
    RegistrationsSurvive
CHECK_DEADLOCK FALSE
