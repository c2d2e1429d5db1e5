\* A discovery request fails on OpenShift.
SPECIFICATION Spec
CONSTANTS
    csi1 = csi1
    csi2 = csi2
    other = other
    NoOwner = NoOwner
    Absent = Absent
    NoCR = NoCR
    Uids <- MCUids
    NameOf <- MCNameOf
    ClassNames <- MCClassNames
    SnapNames <- MCSnapNames
    DefaultSnap = "snap-default"
    NoName = "none"
    Params = {"p1", "p2"}
    Specs <- NASPair
    CRName = "csi"
    Origins = {"fresh"}
    SCC = TRUE
    SnapshotCRDs = TRUE
    CDI = FALSE
    Allowed = {"discovery"}
    MaxTrouble = 2
INVARIANTS
    FallbackIsGenuine
CHECK_DEADLOCK FALSE
