\* An older operator left a VolumeSnapshotClass without an owner.
SPECIFICATION Spec
CONSTANTS
    csi1 = csi1
    csi2 = csi2
    other = other
    NoOwner = NoOwner
    Absent = Absent
    NoCR = NoCR
    Uids <- MCUids
    NameOf <- MCNameOf
    ClassNames <- MCClassNames
    SnapNames <- MCSnapNames
    DefaultSnap = "snap-default"
    NoName = "none"
    Params = {"p1", "p2"}
    Specs <- DiskAlone
    CRName = "csi"
    Origins = {"legacy"}
    SCC = TRUE
    SnapshotCRDs = TRUE
    CDI = FALSE
    Allowed = {}
    MaxTrouble = 2
INVARIANTS
    LegacySnapshotClassAdopted
CHECK_DEADLOCK FALSE
