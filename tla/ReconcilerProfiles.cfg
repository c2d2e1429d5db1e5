\* What CDI, the SCC detection and failing status patches leave behind is put right by the
\* resync, on OpenShift.
SPECIFICATION ResyncSpec
CONSTANTS
    csi1 = csi1
    csi2 = csi2
    other = other
    NoOwner = NoOwner
    Absent = Absent
    NoCR = NoCR
    Uids <- MCUids
    NameOf <- MCNameOf
    ClassNames <- MCClassNames
    SnapNames <- MCSnapNames
    DefaultSnap = "snap-default"
    NoName = "none"
    Params = {"p1", "p2"}
    Specs <- DiskOrNAS
    CRName = "csi"
    Origins = {"fresh"}
    SCC = TRUE
    SnapshotCRDs = TRUE
    CDI = TRUE
    Allowed = {"edit", "crash", "fault", "discovery", "status"}
    MaxTrouble = 2
INVARIANTS
    LinkedClassExists
PROPERTIES
    ProfilesFollow
    BindingFollows
    StatusFollows
CHECK_DEADLOCK FALSE
