\* One process; every attempt that fails or crashes can use up one identifier.
CONSTANTS
    Proc = {p1}
    Id = {i1, i2, i3}
    Protected = {n1, n2, n3}
    Permissive = {x1}
    None = None
    MaxFaults = 1
    MaxCrashes = 1
    MaxSubstitutions = 0
SPECIFICATION FairSpec
PROPERTY StartupCompletes
