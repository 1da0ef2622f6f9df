\* Four directories, two files of up to two buffers; two faults, one foreign object, one change.
CONSTANTS
    appdata = appdata
    roaming = roaming
    sub = sub
    documents = documents
    note = note
    photo = photo
    a = a
    b = b
    Dir = {appdata, roaming, sub, documents}
    File = {note, photo}
    Target = Target
    Children <- MCChildren
    Roaming <- MCRoaming
    Personal <- MCPersonal
    Chunk = {a, b}
    Content <- MCContent
    MaxFaults = 2
    MaxForeign = 1
    MaxChanges = 1
SPECIFICATION MCSpec
INVARIANTS
    RolledBackIsGone
    SuccessIsComplete
    CancelHonoured
    JournalTellsOutcome
PROPERTIES
    ForeignKept
    ProgressMonotone
    MigrationEnds
CHECK_DEADLOCK FALSE
