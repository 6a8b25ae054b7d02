SPECIFICATION PartSpec
CONSTANTS
    k1 = k1
    k2 = k2
    o1 = o1
    o2 = o2
    None = None
    NoMessage = NoMessage
    Empty = Empty
    PrivateKeys <- MCPrivateKeys
    OrgKeys <- MCOrgKeys
    MaxMail = 2
    MaxCrashes = 3
    MaxStarts = 3
    MaxLosses = 2
    MaxInFlight = 3
INVARIANTS
    TypeOK
    PublishedKeyLasts
    OrgKeyIsReadable
    ReportedKeyIsUsable
    AliveIsRevocable
PROPERTIES
    NodeComesToRun
    GoneIsTold
    RunningIsTold
CHECK_DEADLOCK FALSE
