SPECIFICATION Spec
CONSTANTS
    Process = {p1, p2}
    MaxCalls = 4
    MaxFaults = 1
    MaxCrashes = 1
    EntrySizes = {3, 6}
    MaxLogBytes = 5
    MaxArchives = 2
    MaxMemory = 2
SYMMETRY Symmetry
INVARIANTS
    JournalIsSuffix
    AckedIsDurable
    LogBounded
    ExportsComplete
    HeldSnapshotIntact
    FailedSnapshotLeavesNothing
    InventoryBrokenForCause
