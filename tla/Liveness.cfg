SPECIFICATION FairSpec
CONSTANTS
    a = a
    b = b
    db = db
    web = web
    gui = gui
    None = None
    Apps <- OneApp
    Images <- MCImages
    Manifests <- OneAppManifests
    Unstable <- UnstableWeb
    ForeignCounts <- MCForeignCounts
    MaxNetworkIndex = 2
    Misconnected <- NewVersion
    Secretive <- NoManifests
    MaxCommands = 4
    MaxFaults = 1
    MaxCrashes = 1
INVARIANTS
    Settled
    StatusFits
PROPERTIES
    EveryCommandEnds
