----------------------------- MODULE LocalDeploy -----------------------------
(***************************************************************************)
(* The option --manifest: before main connects, ReadDeployManifestLocal    *)
(* (internal/edgeapp/local_deploy.go) undeploys the app of a manifest file *)
(* and deploys it, over whatever an earlier process has left on the host.  *)
(*                                                                         *)
(* The earlier process is EdgeApp as it stands, ended between any two of   *)
(* its calls; the two calls of ReadDeployManifestLocal are the handlers of *)
(* EdgeApp, given to it as messages.  They were written for an agent that  *)
(* is connected.  This one has no client yet (com/mqtt.go 29 and 121), so  *)
(* that the first status they publish ends the process in a panic.         *)
(***************************************************************************)
EXTENDS EdgeAppProperties

VARIABLES
    local,      \* the manifest of the file, None in a process without the option
    stage       \* "serving", or with the option "undeploy" and "deploy"; where it
                \* ends: "fatal", "panicked" or, when main goes on, "connect"

localVars == <<vars, local, stage>>

LocalInit == Init /\ local = None /\ stage = "serving"

Serve == Next /\ stage = "serving" /\ UNCHANGED <<local, stage>>

Ended == stage \in {"fatal", "panicked"}

\* A new process: the record is what the file says.  MaxCrashes bounds their number.
Started(message) ==
    /\ crashes < MaxCrashes /\ crashes' = crashes + 1
    /\ op' = Idle /\ last' = None /\ msg' = message
    /\ InitKnownManifests
    /\ UNCHANGED <<dockerVars, nodeStatus, commands, faults>>

\* The agent, which ends wherever it is, is started with the option.  Parse refuses
\* a secret, as no key is there yet; a bad connection is left to EdgeApp.
StartLocal ==
    /\ stage = "serving" \/ Ended
    /\ local' \in Manifests \ (Misconnected \cup Secretive)
    /\ stage' = "undeploy"
    /\ Started([cmd |-> "UNDEPLOY", app |-> local'.id, man |-> None])

\* It is started without it, and serves; a message that waits for it is received.
StartWithout ==
    /\ Ended
    /\ local' = None /\ stage' = "serving"
    /\ Started(None)

Running == stage \in {"undeploy", "deploy"}

\* The steps at whose end setAndSendStatus has set a status (no app, no status), or
\* RemoveEdgeApp sends one.
SetsStatus ==
    \/ (Undeploy \/ UndeployDone \/ DeployDone) /\ IsKnown(op.app)
    \/ (ListContainersFails \/ RemoveContainerFails \/ PruneNetworksFails) /\ IsKnown(op.app)
    \/ (SelectImagesFails \/ RemoveImageFails) /\ IsKnown(op.app)
    \/ (PullFails \/ CreateNetworkFails \/ LateError) /\ IsKnown(op.app)
    \/ Forget

\* The status is saved, read and published, with a client that is nil.
Panics == Running /\ Handler /\ SetsStatus /\ stage' = "panicked" /\ UNCHANGED local

\* A step of the handlers that sends nothing: it sets no status, or GetStatusMessage
\* fails, an error that is only logged.  Containers change by themselves in Serve only.
Called == Running /\ Handler /\ UNCHANGED <<local, stage>>

Returned(ok) == Running /\ msg = None /\ last # None /\ last.ok = ok

UndeployReturned ==
    /\ stage = "undeploy" /\ Returned(TRUE)
    /\ stage' = "deploy"
    /\ msg' = [cmd |-> "DEPLOY", app |-> local.id, man |-> local] /\ last' = None
    /\ UNCHANGED <<dockerVars, storeVars, op, nodeStatus, counters, local>>

\* Only if GetStatusMessage failed for every status that was set.
DeployReturned ==
    /\ stage = "deploy" /\ Returned(TRUE)
    /\ stage' = "connect"
    /\ UNCHANGED <<vars, local>>

\* main ends the agent with the error of either call.
Fatal ==
    /\ Returned(FALSE)
    /\ stage' = "fatal"
    /\ UNCHANGED <<vars, local>>

LocalNext ==
    \/ Serve \/ StartLocal \/ StartWithout \/ Called \/ Panics
    \/ UndeployReturned \/ DeployReturned \/ Fatal

LocalSpec == LocalInit /\ [][LocalNext]_localVars

------------------------------------------------------------------------------
\* All of man and nothing else of its app is there, running, on one network.
IsServed(man) ==
    /\ Cardinality(ContainersOf(man.id)) = Len(man.modules)
    /\ {c.image : c \in ContainersOf(man.id)} = ModuleImages(man)
    /\ \A c \in ContainersOf(man.id) : c.state = "running"
    /\ Cardinality({n \in networks : n.app = man.id}) = 1

\* Wherever a process with the option is stopped by its missing client, and if it ever
\* gets to connect, the file tells the next process the truth of the app: Running means
\* the manifest of the option, whole and alone; Undeployed or no record means that
\* nothing of it is left - whatever calls failed in this process or the ones before.
LocalRecordIsTrue ==
    LET rec == file[local.id] IN
    /\ stage = "connect" => rec # None /\ rec.status = "Running"
    /\ stage \in {"connect", "panicked"} =>
        /\ rec = None \/ rec.status = "Undeployed" => Empty(local.id)
        /\ rec # None /\ rec.status = "Running" => rec.man = local /\ IsServed(local)

\* The option deploys the manifest (README.md 91: "Path to the .json manifest file to be
\* deployed"): when ReadDeployManifestLocal is through, in whatever way, and no call to
\* the engine ever failed, the app runs with it.
ManifestIsDeployed ==
    faults = 0 /\ (Ended \/ stage = "connect") =>
        HasStatus(local.id, "Running") /\ known[local.id].man = local
==============================================================================
