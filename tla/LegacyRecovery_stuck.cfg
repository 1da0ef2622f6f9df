\* A second instance creates the root between the two renames.
CONSTANTS
    Proc = {p1, p2}
    Id = {i1, i2}
    Protected = {n1, n2, n3}
    Permissive = {x1}
    None = None
    MaxFaults = 0
    MaxCrashes = 0
    MaxSubstitutions = 0
SPECIFICATION ClosingSpec
PROPERTY MigrationSettles
