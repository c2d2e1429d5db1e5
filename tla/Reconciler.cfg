\* Edits, crashes, failing calls and deleted objects on OpenShift, on a new cluster and
\* on one an operator without owner references has used. Once the trouble is used up
\* the system may come to rest.
SPECIFICATION Spec
CONSTANTS
    csi1 = csi1
    csi2 = csi2
    other = other
    NoOwner = NoOwner
    Absent = Absent
    NoCR = NoCR
    Uids <- MCUids
    NameOf <- MCNameOf
    ClassNames <- MCClassNames
    SnapNames <- MCSnapNames
    DefaultSnap = "snap-default"
    NoName = "none"
    Params = {"p1", "p2"}
    Specs <- MCSpecs
    CRName = "csi"
    Origins = {"fresh", "legacy"}
    SCC = TRUE
    SnapshotCRDs = TRUE
    CDI = FALSE
    Allowed = {"edit", "drift", "crash", "fault", "discovery", "status"}
    MaxTrouble = 2
INVARIANTS
    TypeOK
    AvailableMeansInPlace
    QuietMeansSettled
CHECK_DEADLOCK FALSE
