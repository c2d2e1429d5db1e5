\* The two helpers and their refinement of AtomicApply: two managers.
\* Everything stops once the log is full and no call is left, hence no deadlock check.
SPECIFICATION FairSpec
CONSTANTS
    m1 = m1
    m2 = m2
    csi1 = csi1
    csi2 = csi2
    other = other
    plain = plain
    edited = edited
    NoOwner = NoOwner
    Absent = Absent
    Uids <- MCUids
    NameOf <- MCNameOf
    Callers = {m1, m2}
    Me <- MCMe
    Want <- MCWant
    Contents <- MCContents
    MaxTries = 2
    MaxVersions = 2
INVARIANTS
    TypeOK
    OkMeansControlled
PROPERTIES
    AdoptNeverSteals
    AdoptKeepsContent
    ImplementsAtomicApply
    CallsAreNumbered
    CallsReturn
CHECK_DEADLOCK FALSE
