SPECIFICATION CrashSpec
CONSTANTS
    a = a
    b = b
    db = db
    web = web
    gui = gui
    None = None
    Apps <- OneApp
    Images <- MCImages
    Manifests <- OneAppManifests
    Unstable <- NoUnstable
    ForeignCounts <- MCForeignCounts
    MaxNetworkIndex = 9
    Misconnected <- NoManifests
    Secretive <- NoManifests
    MaxCommands = 1
    MaxFaults = 0
    MaxCrashes = 1
INVARIANTS
    DeployVerified
