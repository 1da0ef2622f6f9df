\* Two processes, two migrations; crashes, failing calls and a substitution.
CONSTANTS
    Proc = {p1, p2}
    Id = {i1, i2}
    Protected = {n1, n2, n3}
    Permissive = {x1, x2}
    None = None
    MaxFaults = 2
    MaxCrashes = 2
    MaxSubstitutions = 1
SPECIFICATION Spec
SYMMETRY Interchangeable
INVARIANTS
    TypeOK
    JournalConsistent
    PhaseMatchesNamespace
    DetachedWasConsented
    DashboardRootPinned
    AuditedRootKept
PROPERTY ReplacesOnce
