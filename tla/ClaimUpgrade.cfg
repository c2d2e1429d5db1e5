\* An older operator left the objects with its own rules, and the list of classes changes.
SPECIFICATION Spec
CONSTANTS
    csi1 = csi1
    csi2 = csi2
    other = other
    NoOwner = NoOwner
    Absent = Absent
    NoCR = NoCR
    Uids <- MCUids
    NameOf <- MCNameOf
    ClassNames <- MCClassNames
    SnapNames <- MCSnapNames
    DefaultSnap = "snap-default"
    NoName = "none"
    Params = {"p1", "p2"}
    Specs <- TwoFirstClasses
    CRName = "csi"
    Origins = {"legacy"}
    SCC = TRUE
    SnapshotCRDs = TRUE
    CDI = FALSE
    Allowed = {"edit"}
    MaxTrouble = 2
INVARIANTS
    AdoptedAreCurrent
CHECK_DEADLOCK FALSE
