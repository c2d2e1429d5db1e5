\* Convergence of the cluster and of the status, and teardown, on a new vanilla cluster: after
\* the last edit, deletion, crash or failure, as long as no status patch fails.
SPECIFICATION FairSpec
CONSTANTS
    csi1 = csi1
    csi2 = csi2
    other = other
    NoOwner = NoOwner
    Absent = Absent
    NoCR = NoCR
    Uids <- MCUids
    NameOf <- MCNameOf
    ClassNames <- MCClassNames
    SnapNames <- MCSnapNames
    DefaultSnap = "snap-default"
    NoName = "none"
    Params = {"p1", "p2"}
    Specs <- NASClassAdded
    CRName = "csi"
    Origins = {"fresh"}
    SCC = FALSE
    SnapshotCRDs = TRUE
    CDI = FALSE
    Allowed = {"edit", "crash", "fault", "delete"}
    MaxTrouble = 2
INVARIANTS
    QuietMeansObserved
PROPERTIES
    Settles
    StatusFollows
    TeardownCompletes
CHECK_DEADLOCK FALSE
