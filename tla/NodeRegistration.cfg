\* One node without public egress; a NAS driver whose NodeGetInfo makes a signed call.
SPECIFICATION FairSpec
CONSTANTS
    Configs <- MCConfigs
    NASCalls <- MCNASCalls
    Egress = FALSE
    FailureThreshold = 2
    MaxTrouble = 3
INVARIANTS
    TypeOK
PROPERTIES
    HealsOnlyTheUnregistered
    EveryDriverRegisters
    DiskNeedsNoCredentials
    EveryContainerRuns
CHECK_DEADLOCK FALSE
