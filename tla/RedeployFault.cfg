SPECIFICATION Spec
CONSTANTS
    a = a
    b = b
    db = db
    web = web
    gui = gui
    None = None
    Apps <- OneApp
    Images <- MCImages
    Manifests <- OneAppManifests
    Unstable <- NoUnstable
    ForeignCounts <- MCForeignCounts
    MaxNetworkIndex = 9
    Misconnected <- NoManifests
    Secretive <- NoManifests
    MaxCommands = 2
    MaxFaults = 1
    MaxCrashes = 0
INVARIANTS
    DeployVerified
