\* Two profiles, one target, four operations, two progress reports each.
CONSTANTS
    Profile = {u1, u2}
    Target = {t1}
    None = None
    MaxOps = 4
    MaxProgress = 2
SPECIFICATION FairSpec
INVARIANTS
    NoExitDuringOperation
    BusyCoversOperation
    DeferredCloseCancels
    PreflightIsCurrent
    ConfirmationIsCurrent
PROPERTY OperationEnds
CHECK_DEADLOCK FALSE
