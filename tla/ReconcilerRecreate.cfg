\* The CR is deleted and created again while reconciles of the old one still run and the
\* garbage collector takes its objects apart; on a new cluster, and on one where another
\* CR holds the objects of some kinds.
SPECIFICATION Spec
CONSTANTS
    csi1 = csi1
    csi2 = csi2
    other = other
    NoOwner = NoOwner
    Absent = Absent
    NoCR = NoCR
    Uids <- MCUids
    NameOf <- MCNameOf
    ClassNames <- MCClassNames
    SnapNames <- MCSnapNames
    DefaultSnap = "snap-default"
    NoName = "none"
    Params = {"p1", "p2"}
    Specs <- NASPair
    CRName = "csi"
    Origins = {"fresh", "foreign"}
    SCC = FALSE
    SnapshotCRDs = TRUE
    CDI = FALSE
    Allowed = {"delete", "create"}
    MaxTrouble = 2
SYMMETRY MCSymmetry
INVARIANTS
    DoneStepsInPlace
    AvailableMeansInPlace
    NothingLeftBehind
PROPERTIES
    WorkloadsOfOthersKept
    OnlyWorkloadsReplaced
CHECK_DEADLOCK FALSE
