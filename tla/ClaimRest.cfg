\* Nothing goes wrong and nobody edits anything.
SPECIFICATION FairSpec
CONSTANTS
    csi1 = csi1
    csi2 = csi2
    other = other
    NoOwner = NoOwner
    Absent = Absent
    NoCR = NoCR
    Uids <- MCUids
    NameOf <- MCNameOf
    ClassNames <- MCClassNames
    SnapNames <- MCSnapNames
    DefaultSnap = "snap-default"
    NoName = "none"
    Params = {"p1", "p2"}
    Specs <- NASOne
    CRName = "csi"
    Origins = {"fresh"}
    SCC = TRUE
    SnapshotCRDs = TRUE
    CDI = FALSE
    Allowed = {}
    MaxTrouble = 2
PROPERTIES
    ComesToRest
CHECK_DEADLOCK FALSE
