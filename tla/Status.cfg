SPECIFICATION PartSpec
CONSTANTS
    a = a
    b = b
    db = db
    web = web
    gui = gui
    None = None
    Apps <- MCApps
    Images <- MCImages
    Manifests <- SmallManifests
    Unstable <- UnstableWeb
    ForeignCounts <- MCForeignCounts
    MaxNetworkIndex = 2
    Misconnected <- NoManifests
    Secretive <- NoManifests
    MaxCommands = 3
    MaxFaults = 2
    MaxCrashes = 2
    Teams <- AnyTeam
    Harsh <- HarshGui
    MaxChanges = 1
INVARIANTS
    UndisturbedIsTrue
    LocalRecordIsTrue
PROPERTIES
    MonitorNotices
CHECK_DEADLOCK FALSE
