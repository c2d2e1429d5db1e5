\* One claim with its pod and a snapshot, on a cluster with a single master.
SPECIFICATION FairSpec
CONSTANTS
    m1 = m1
    w1 = w1
    None = None
    Classes <- MCClasses
    Controllers <- MCControllers
    Nodes <- MCNodes
    NodeLabels <- MCNodeLabels
    NodeTaints <- MCNodeTaints
    Zones = {"a", "b"}
    MaxTrouble = 3
INVARIANTS
    TypeOK
    OneProvisioner
    DisksNearTheirPods
    BoundMeansComplete
PROPERTIES
    ImplementsVolumeLife
    ClaimsServed
    SnapshotsReady
    Reclaimed
CHECK_DEADLOCK FALSE
