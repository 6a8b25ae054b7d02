SPECIFICATION Spec
CONSTANTS
    a = a
    b = b
    db = db
    web = web
    gui = gui
    None = None
    Apps <- OneApp
    Images <- MCImages
    Manifests <- OneAppManifests
    Unstable <- UnstableWeb
    ForeignCounts <- MCForeignCounts
    MaxNetworkIndex = 9
    Misconnected <- NoManifests
    Secretive <- NoManifests
    MaxCommands = 2
    MaxFaults = 0
    MaxCrashes = 0
INVARIANTS
    StopVerified
