CONSTANTS
    a1 = a1
    a2 = a2
    a3 = a3
    a4 = a4
    i1 = i1
    i2 = i2
    f1 = f1
    f2 = f2
    Admins = {a1, a2, a3, a4}
    Readers = {r1}
    Ids = {i1, i2}
    Files = {f1, f2}
    Commands <- MCCommands
    MaxRegistrations = 1
    NoAdmin = NoAdmin
SPECIFICATION Spec
SYMMETRY Symmetry
CHECK_DEADLOCK FALSE
INVARIANTS
    DeliveryMatchesOutcome
    AuditExplainsRows
    OutcomeIsTrue
    InitializedStays
    SnapshotIsCommitted
    StoreStaysReadable
PROPERTIES
    RetiredStaysRetired
