SPECIFICATION Spec
CONSTANTS
    system = system
    alice = alice
    bob = bob
    home = home
    other = other
    None = None
    Sid = {system, alice, bob}
    Orphan = {bob}
    Dir = {home, other}
    Names <- MCNames
    KeyChoices <- MCKeyChoices
    Start <- MCStart
    MaxLockers = 2
    MaxScans = 2
    MaxChanges = 1
    MaxFaults = 1
INVARIANTS
    QuietScanIsExact
    ShownIsAudited
    LockedHiveBlocksRepair
CHECK_DEADLOCK FALSE
