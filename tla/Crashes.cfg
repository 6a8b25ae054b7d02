SPECIFICATION CrashSpec
CONSTANTS
    a = a
    b = b
    db = db
    web = web
    gui = gui
    None = None
    Apps <- MCApps
    Images <- MCImages
    Manifests <- MoreManifests
    Unstable <- NoUnstable
    ForeignCounts <- MCForeignCounts
    MaxNetworkIndex = 9
    Misconnected <- LastVersion
    Secretive <- SecretB
    MaxCommands = 4
    MaxFaults = 0
    MaxCrashes = 2
INVARIANTS
    InactiveIsEmptyAfterCrash
    StoppedIsQuiet
    UnsavedOnlyInitiated
PROPERTIES
    ImplementsLifecycle
