SPECIFICATION FairReportSpec
CONSTANTS
    a = a
    b = b
    db = db
    web = web
    gui = gui
    None = None
    Apps <- OneApp
    Images <- MCImages
    Manifests <- OneModule
    Unstable <- UnstableWeb
    ForeignCounts <- MCForeignCounts
    MaxNetworkIndex = 2
    Misconnected <- NoManifests
    Secretive <- NoManifests
    MaxCommands = 2
    MaxFaults = 2
    MaxCrashes = 0
    Teams <- Heartbeat
    Harsh <- NoneHarsh
    MaxChanges = 1
PROPERTIES
    RetainedBecomesTrue
CHECK_DEADLOCK FALSE
