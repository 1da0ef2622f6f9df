\* A second instance beside the one that created the root.
CONSTANTS
    Proc = {p1, p2}
    Id = {i1, i2}
    Protected = {n1, n2, n3}
    Permissive = {x1}
    None = None
    MaxFaults = 0
    MaxCrashes = 0
    MaxSubstitutions = 0
SPECIFICATION Spec
INVARIANT OnlyPermissiveDetached
