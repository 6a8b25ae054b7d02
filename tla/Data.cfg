SPECIFICATION PartSpec
CONSTANTS
    a = a
    b = b
    c1 = c1
    c2 = c2
    c3 = c3
    None = None
    Apps <- MCApps
    Manifests <- MCManifests
    MaxChanges = 4
    MaxCrashes = 2
    Containers <- MCContainers
    Slashless <- MCSlashless
    MaxContainers = 2
    MaxTime = 3
    MaxFaults = 1
    MaxRestarts = 1
    Size = 2
    Image <- TwoImages
    Clean <- CleanNames
    Texts <- AllTexts
    Atoi <- Numbers
    NotANumber = NotANumber
    Connections <- SmallConnections
INVARIANTS
    TypesOK
    FileIsCurrent
    NothingPassedOver
    SentOnce
    WiringIsRight
    SecretsStayApart
    EndFitsMessage
PROPERTIES
    RestartSucceeds
    ChangesAreAtomic
    EveryLineLeaves
CHECK_DEADLOCK FALSE
