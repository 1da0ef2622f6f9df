SPECIFICATION FairSpec
CONSTANTS
    Process = {p1, p2}
    PollAttempts = 2
    MaxLaunches = 2
    MaxFaults = 2
    MaxCrashes = 1
INVARIANTS
    ConsoleAccounted
    PrivilegesRestored
    OutcomeFollowsRequest
PROPERTY
    LaunchEnds
CHECK_DEADLOCK FALSE
