SPECIFICATION Spec
CONSTANTS
    a = a
    b = b
    db = db
    web = web
    gui = gui
    None = None
    Apps <- MCApps
    Images <- MCImages
    Manifests <- MCManifests
    Unstable <- NoUnstable
    ForeignCounts <- MCForeignCounts
    MaxNetworkIndex = 2
    Misconnected <- NoManifests
    Secretive <- NoManifests
    MaxCommands = 8
    MaxFaults = 2
    MaxCrashes = 0
INVARIANTS
    RunningMatchesManifest
    NoErrorWithoutFault
    DeleteIsComplete
    TypeOK
    InactiveIsEmpty
    NetworksDistinct
    ImagesOfContainersPresent
PROPERTIES
    RedeployKeepsImages
    RemovalDropsImages
    StartsInReverseOrder
    HandlerGetsOn
