------------------------------- MODULE EdgeApp -------------------------------
(***************************************************************************)
(* The commands of the cloud service MAPI and what the agent does to obey  *)
(* them: internal/handler and internal/edgeapp/edgeapp.go over the record  *)
(* of internal/manifest/status.go and the engine of internal/docker.       *)
(*                                                                         *)
(* One command is handled at a time, in the callback of the MQTT client.   *)
(* A handler is a chain of calls, each of them one step here: another      *)
(* goroutine may write the file, a container may change its state, a call  *)
(* may fail (with or without its effect) and the agent may crash between   *)
(* any two.  The frame op is the handler's stack: pc is the next call,     *)
(* caller is the path by which it was reached.                             *)
(***************************************************************************)
EXTENDS Docker, KnownManifests

CONSTANTS
    Misconnected,   \* manifests with a connection to or from a module they do not
                    \* have (ManifestWiring tells which those are)
    Secretive,      \* manifests with secret values among their arguments
    MaxCommands,    \* bound: commands received
    MaxFaults,      \* bound: failing calls
    MaxCrashes      \* bound: crashes of the agent

(* The messages MAPI sends.  Parse refuses a manifest without modules; a   *)
(* secret too short to be one ends the process in it, which is a crash     *)
(* before the first step of the handler.                                   *)
Message ==
    {[cmd |-> "DEPLOY", app |-> m.id, man |-> m] : m \in Manifests}
    \cup {[cmd |-> c, app |-> a, man |-> None] :
            c \in {"STOP", "RESUME", "UNDEPLOY", "REMOVE"}, a \in Apps}
    \cup {[cmd |-> "DELETE", app |-> None, man |-> None]}

ASSUME EdgeAppAssumption ==
    /\ Manifests \subseteq [id : Apps, updatedAt : Nat, modules : Seq(Images)]
    /\ \A m \in Manifests : m.modules # <<>>
    /\ Misconnected \cup Secretive \subseteq Manifests
    /\ None \notin Manifests \cup Record \cup Apps \cup Message
    /\ MaxCommands \in Nat /\ MaxFaults \in Nat /\ MaxCrashes \in Nat

VARIABLES
    op,             \* the running handler
    msg,            \* the message it handles, not yet acknowledged, or None
    last,           \* what the last handler returned, None since a newer message
    nodeStatus,     \* com's node status, as the commands set it
    commands, faults, crashes   \* counters for the bounds

handlerVars == <<op, msg, last, nodeStatus>>
counters == <<commands, faults, crashes>>
vars == <<dockerVars, storeVars, handlerVars, counters>>

Caller == {"none", "DEPLOY", "redeploy", "rollback", "lateRollback",
           "STOP", "RESUME", "UNDEPLOY", "REMOVE", "DELETE"}

Label == {"idle", "add", "image", "network", "create", "start", "deployed",
          "lateError", "stop", "resume", "undeploy", "list",
          "removeContainers", "undeployed", "images", "removeImages",
          "deleteNext", "deleted"}

Frame(label, caller, a) ==
    [pc |-> label, caller |-> caller, app |-> a, idx |-> 0, net |-> 0,
     todo |-> {}, imgs |-> {}, failed |-> FALSE]

Idle == Frame("idle", "none", None)

Init ==
    /\ containers = {} /\ networks = {} /\ images = {}
    /\ known = [a \in Apps |-> None] /\ file = known
    /\ op = Idle /\ msg = None /\ last = None
    /\ nodeStatus = "Connected"
    /\ commands = 0 /\ faults = 0 /\ crashes = 0

At(label) == op.pc = label
Handling(cmd) == At("idle") /\ msg # None /\ msg.cmd = cmd

Step(frame) == op' = frame /\ UNCHANGED <<msg, last, nodeStatus>>
GoTo(label) == Step([op EXCEPT !.pc = label])

\* The handler is done: the client acknowledges the message.
Return(ok) ==
    /\ op' = Idle
    /\ msg' = None
    /\ last' = [cmd |-> msg.cmd, app |-> msg.app, man |-> msg.man, ok |-> ok]
    /\ UNCHANGED nodeStatus

NoFault == UNCHANGED faults
HostOnly == NoFault /\ UNCHANGED storeVars     \* only the host changes
RecordOnly == NoFault /\ UNCHANGED dockerVars  \* only the record changes
Neither == NoFault /\ UNCHANGED <<dockerVars, storeVars>>

Fault == faults < MaxFaults /\ faults' = faults + 1

\* A call that returns an error may have had its effect all the same.
Fails(Effect) == Fault /\ (Effect \/ UNCHANGED dockerVars)

\* A call about a container that is not there any more fails.
FailsOn(id, Effect) ==
    \/ Exists(id) /\ Fails(Effect)
    \/ ~Exists(id) /\ NoFault /\ UNCHANGED dockerVars

\* Loops over a list of containers: docker lists the newest first.
IsNewest(id, S) == \A i \in S : i <= id

\* Variant: the list is walked from its head.
IsOldestForward(id, S) == IsNewest(id, S)

IsOldest(id, S) == \A i \in S : id <= i

------------------------------------------------------------------------------
(* Where UndeployEdgeApp and RemoveEdgeApp return to.                      *)

\* Variant: deleting all apps goes on after an error.
ReturnFromRemoveGoingOn(ok) ==
    \/ op.caller = "REMOVE" /\ Return(ok)
    \/ op.caller = "redeploy" /\ GoTo("add")
    \/ op.caller = "rollback" /\ Return(FALSE)
    \/ op.caller = "lateRollback" /\ GoTo("lateError")
    \/ op.caller = "DELETE" /\ GoTo("deleteNext")

ReturnFromRemove(ok) ==
    \/ op.caller = "REMOVE" /\ Return(ok)
    \/ op.caller = "redeploy" /\ GoTo("add")    \* the error is not looked at
    \/ op.caller = "rollback" /\ Return(FALSE)
    \/ op.caller = "lateRollback" /\ GoTo("lateError")
    \/ op.caller = "DELETE" /\ GoTo(IF ok THEN "deleteNext" ELSE "deleted")

ReturnFromUndeploy(ok) ==
    \/ op.caller = "UNDEPLOY" /\ Return(ok)
    \/ op.caller # "UNDEPLOY" /\ ok /\ GoTo("images")
    \/ op.caller # "UNDEPLOY" /\ ~ok /\ ReturnFromRemove(FALSE)

------------------------------------------------------------------------------
(* DeployEdgeApp                                                           *)

DeployFresh ==
    /\ Handling("DEPLOY") /\ Inactive(msg.app)
    /\ Step(Frame("add", "DEPLOY", msg.app)) /\ Neither

\* Variant: the old version is not removed.
DeployOverOldVersion ==
    /\ Handling("DEPLOY") /\ ~Inactive(msg.app)
    /\ known[msg.app].man.updatedAt < msg.man.updatedAt
    /\ Step(Frame("add", "redeploy", msg.app)) /\ Neither

DeployNewVersion ==
    /\ Handling("DEPLOY") /\ ~Inactive(msg.app)
    /\ known[msg.app].man.updatedAt < msg.man.updatedAt
    /\ Step(Frame("undeploy", "redeploy", msg.app)) /\ Neither

\* Not newer; or Parse cannot decrypt a secret, as in every process until it has
\* been sent the organization key.
DeployRejected ==
    /\ Handling("DEPLOY")
    /\ \/ ~Inactive(msg.app) /\ known[msg.app].man.updatedAt >= msg.man.updatedAt
       \/ msg.man \in Secretive
    /\ Return(FALSE) /\ Neither

Add ==
    /\ At("add")
    /\ AddKnownManifest(msg.man)
    /\ Step([op EXCEPT !.pc = "image", !.idx = 1]) /\ RecordOnly

ModuleImage == msg.man.modules[op.idx]

\* Variant: the loop over the modules ends one early.
NextImageButLast ==
    IF op.idx + 1 < Len(msg.man.modules) THEN [op EXCEPT !.idx = @ + 1]
                                         ELSE [op EXCEPT !.pc = "network"]

NextImage ==
    IF op.idx < Len(msg.man.modules) THEN [op EXCEPT !.idx = @ + 1]
                                     ELSE [op EXCEPT !.pc = "network"]

Rollback(caller) == [op EXCEPT !.pc = "undeploy", !.caller = caller]

\* The one failure that sets no status and rolls nothing back.
InspectFails ==
    /\ At("image") /\ Fault
    /\ Return(FALSE) /\ UNCHANGED <<dockerVars, storeVars>>

ImagePresent ==
    /\ At("image") /\ ModuleImage \in images
    /\ Step(NextImage) /\ Neither

Pull ==
    /\ At("image") /\ ModuleImage \notin images
    /\ PullImage(ModuleImage)
    /\ Step(NextImage) /\ HostOnly

\* An error the engine reports inside the pull's event stream is not looked at.
PullErrorUnseen ==
    /\ At("image") /\ ModuleImage \notin images /\ Fault
    /\ Step(NextImage) /\ UNCHANGED <<dockerVars, storeVars>>

PullFails ==
    /\ At("image") /\ ModuleImage \notin images
    /\ Fails(PullImage(ModuleImage))
    /\ SetStatus(op.app, "Error")
    /\ Step(Rollback("rollback"))

\* Variant: the limit of networks is not looked at.
CreateAppNetworkUnlimited ==
    /\ At("network")
    /\ CreateNetwork(op.app)
    /\ Step([op EXCEPT !.pc = "create", !.net = NewCount,
                       !.idx = Len(msg.man.modules)])
    /\ HostOnly

CreateAppNetwork ==
    /\ At("network") /\ NewCount >= 0
    /\ CreateNetwork(op.app)
    /\ Step([op EXCEPT !.pc = "create", !.net = NewCount,
                       !.idx = Len(msg.man.modules)])
    /\ HostOnly

CreateNetworkFails ==
    /\ At("network")
    /\ \/ NewCount < 0 /\ NoFault /\ UNCHANGED dockerVars
       \/ NewCount >= 0 /\ Fails(CreateNetwork(op.app))
    /\ SetStatus(op.app, "Error")
    /\ Step(Rollback("rollback"))

CreateModule == createContainer(op.app, op.net, op.idx, ModuleImage)

\* UpdateManifest comes before the first of them.
CreateContainer ==
    /\ At("create") /\ msg.man \notin Misconnected /\ ModuleImage \in images
    /\ CreateModule
    /\ Step([op EXCEPT !.pc = "start", !.todo = {NewContainerId}]) /\ HostOnly

\* From here on the rollback comes first and the status after it.
CreateContainerFails ==
    /\ At("create") /\ msg.man \notin Misconnected
    /\ \/ ModuleImage \notin images /\ NoFault /\ UNCHANGED dockerVars
       \/ ModuleImage \in images /\ Fails(CreateModule)
    /\ Step(Rollback("lateRollback")) /\ UNCHANGED storeVars

StartModule ==
    /\ At("start")
    /\ \E id \in op.todo : Exists(id) /\ StartContainer(id)
    /\ Step(IF op.idx > 1 THEN [op EXCEPT !.pc = "create", !.idx = @ - 1]
                          ELSE [op EXCEPT !.pc = "deployed"])
    /\ HostOnly

StartModuleFails ==
    /\ At("start")
    /\ \E id \in op.todo : FailsOn(id, StartContainer(id))
    /\ Step(Rollback("lateRollback")) /\ UNCHANGED storeVars

DeployDone ==
    /\ At("deployed")
    /\ SetStatus(op.app, "Running") /\ Return(TRUE) /\ RecordOnly

LateError ==
    /\ At("lateError")
    /\ SetStatus(op.app, "Error") /\ Return(FALSE) /\ RecordOnly

Deploy ==
    \/ DeployFresh \/ DeployNewVersion \/ DeployRejected \/ Add
    \/ InspectFails \/ ImagePresent \/ Pull \/ PullErrorUnseen \/ PullFails
    \/ CreateAppNetwork \/ CreateNetworkFails
    \/ CreateContainer \/ CreateContainerFails
    \/ StartModule \/ StartModuleFails
    \/ DeployDone \/ LateError

------------------------------------------------------------------------------
(* StopEdgeApp                                                             *)

RunningIn(a) == {c \in ContainersOf(a) : c.state = "running"}

\* Not Running; the list cannot be read; there is nothing to stop.
StopRefused ==
    /\ Handling("STOP") /\ Return(FALSE)
    /\ \/ ~HasStatus(msg.app, "Running") /\ Neither
       \/ /\ HasStatus(msg.app, "Running")
          /\ \/ Fault /\ UNCHANGED <<dockerVars, storeVars>>
             \/ /\ ContainersOf(msg.app) = {}
                /\ SetStatus(msg.app, "Error") /\ RecordOnly

StopBegin ==
    /\ Handling("STOP") /\ HasStatus(msg.app, "Running")
    /\ ContainersOf(msg.app) # {}
    /\ SetStatus(msg.app, "Executing")
    /\ Step([Frame("stop", "STOP", msg.app) EXCEPT
                !.todo = Ids(RunningIn(msg.app))])
    /\ RecordOnly

\* Variant: the loop does not move on to the next container.
StopNextAgain ==
    /\ At("stop")
    /\ \E id \in op.todo :
        /\ IsNewest(id, op.todo)
        /\ Exists(id) /\ StopContainer(id)
        /\ Step(op)
    /\ HostOnly

StopNext ==
    /\ At("stop")
    /\ \E id \in op.todo :
        /\ IsNewest(id, op.todo)
        /\ Exists(id) /\ StopContainer(id)
        /\ Step([op EXCEPT !.todo = @ \ {id}])
    /\ HostOnly

\* Variant: a failed STOP leaves the status as it is.
StopFailsSilently ==
    /\ At("stop")
    /\ \E id \in op.todo : IsNewest(id, op.todo) /\ FailsOn(id, StopContainer(id))
    /\ Return(FALSE) /\ UNCHANGED storeVars

StopFails ==
    /\ At("stop")
    /\ \E id \in op.todo : IsNewest(id, op.todo) /\ FailsOn(id, StopContainer(id))
    /\ SetStatus(op.app, "Error") /\ Return(FALSE)

StopDone ==
    /\ At("stop") /\ op.todo = {}
    /\ SetStatus(op.app, "Stopped") /\ Return(TRUE) /\ RecordOnly

Stop == StopRefused \/ StopBegin \/ StopNext \/ StopFails \/ StopDone

------------------------------------------------------------------------------
(* ResumeEdgeApp                                                           *)

\* As for STOP, but that a list that cannot be read makes the status Error.
ResumeRefused ==
    /\ Handling("RESUME") /\ Return(FALSE)
    /\ \/ ~HasStatus(msg.app, "Stopped") /\ Neither
       \/ /\ HasStatus(msg.app, "Stopped") /\ SetStatus(msg.app, "Error")
          /\ \/ Fault /\ UNCHANGED dockerVars
             \/ ContainersOf(msg.app) = {} /\ RecordOnly

\* Variant: the app stays Stopped until all its containers run.
ResumeBeginStopped ==
    /\ Handling("RESUME") /\ HasStatus(msg.app, "Stopped")
    /\ ContainersOf(msg.app) # {}
    /\ Step([Frame("resume", "RESUME", msg.app) EXCEPT
                !.todo = Ids(ContainersOf(msg.app) \ RunningIn(msg.app))])
    /\ Neither

ResumeBegin ==
    /\ Handling("RESUME") /\ HasStatus(msg.app, "Stopped")
    /\ ContainersOf(msg.app) # {}
    /\ SetStatus(msg.app, "Executing")
    /\ Step([Frame("resume", "RESUME", msg.app) EXCEPT
                !.todo = Ids(ContainersOf(msg.app) \ RunningIn(msg.app))])
    /\ RecordOnly

ResumeNext ==
    /\ At("resume")
    /\ \E id \in op.todo :
        /\ IsOldest(id, op.todo)
        /\ Exists(id) /\ StartContainer(id)
        /\ Step([op EXCEPT !.todo = @ \ {id}])
    /\ HostOnly

ResumeFails ==
    /\ At("resume")
    /\ \E id \in op.todo : IsOldest(id, op.todo) /\ FailsOn(id, StartContainer(id))
    /\ SetStatus(op.app, "Error") /\ Return(FALSE)

ResumeDone ==
    /\ At("resume") /\ op.todo = {}
    /\ SetStatus(op.app, "Running") /\ Return(TRUE) /\ RecordOnly

Resume == ResumeRefused \/ ResumeBegin \/ ResumeNext \/ ResumeFails \/ ResumeDone

------------------------------------------------------------------------------
(* UndeployEdgeApp                                                         *)

UndeployRejected ==
    /\ Handling("UNDEPLOY") \/ Handling("REMOVE")
    /\ ~IsKnown(msg.app)
    /\ Return(FALSE) /\ Neither

UndeployBegin ==
    /\ Handling("UNDEPLOY") \/ Handling("REMOVE")
    /\ IsKnown(msg.app)
    /\ Step(Frame("undeploy", msg.cmd, msg.app)) /\ Neither

Undeploy ==
    /\ At("undeploy")
    /\ SetStatus(op.app, "Executing")
    /\ GoTo("list") /\ RecordOnly

ListContainers ==
    /\ At("list")
    /\ Step([op EXCEPT !.pc = "removeContainers", !.failed = FALSE,
                       !.todo = Ids(ContainersOf(op.app))])
    /\ Neither

ListContainersFails ==
    /\ At("list") /\ Fault
    /\ SetStatus(op.app, "Error")
    /\ ReturnFromUndeploy(FALSE) /\ UNCHANGED dockerVars

RemoveContainer ==
    /\ At("removeContainers")
    /\ \E id \in op.todo :
        /\ IsNewest(id, op.todo)
        /\ Exists(id) /\ StopAndRemoveContainer(id)
        /\ Step([op EXCEPT !.todo = @ \ {id}])
    /\ HostOnly

\* Variant: the error is not added to the list of errors.
RemoveContainerFailsUncounted ==
    /\ At("removeContainers")
    /\ \E id \in op.todo :
        /\ IsNewest(id, op.todo)
        /\ FailsOn(id, StopAndRemoveContainer(id) \/ StopContainer(id))
        /\ Step([op EXCEPT !.todo = @ \ {id}])
    /\ SetStatus(op.app, "Error")

\* The container may be gone, stopped only, or as it was; the loop goes on.
RemoveContainerFails ==
    /\ At("removeContainers")
    /\ \E id \in op.todo :
        /\ IsNewest(id, op.todo)
        /\ FailsOn(id, StopAndRemoveContainer(id) \/ StopContainer(id))
        /\ Step([op EXCEPT !.todo = @ \ {id}, !.failed = TRUE])
    /\ SetStatus(op.app, "Error")

PruneNetworks ==
    /\ At("removeContainers") /\ op.todo = {}
    /\ NetworkPrune(op.app)
    /\ GoTo("undeployed") /\ HostOnly

\* Variant: the error is not added to the list of errors.
PruneNetworksFailsUncounted ==
    /\ At("removeContainers") /\ op.todo = {}
    /\ Fails(NetworkPrune(op.app))
    /\ SetStatus(op.app, "Error")
    /\ GoTo("undeployed")

PruneNetworksFails ==
    /\ At("removeContainers") /\ op.todo = {}
    /\ Fails(NetworkPrune(op.app))
    /\ SetStatus(op.app, "Error")
    /\ Step([op EXCEPT !.pc = "undeployed", !.failed = TRUE])

UndeployDone ==
    /\ At("undeployed") /\ ~op.failed
    /\ SetStatus(op.app, "Undeployed")
    /\ ReturnFromUndeploy(TRUE) /\ RecordOnly

UndeployIncomplete ==
    /\ At("undeployed") /\ op.failed
    /\ ReturnFromUndeploy(FALSE) /\ Neither

UndeployEdgeApp ==
    \/ UndeployRejected \/ UndeployBegin \/ Undeploy
    \/ ListContainers \/ ListContainersFails
    \/ RemoveContainer \/ RemoveContainerFails
    \/ PruneNetworks \/ PruneNetworksFails
    \/ UndeployDone \/ UndeployIncomplete

------------------------------------------------------------------------------
(* RemoveEdgeApp, after its call of UndeployEdgeApp                        *)

\* Variant: every caller passes nil.
KeepNoImages == {}

\* keepImages: the images of the new version, when there is one.
KeepImages == IF op.caller = "redeploy" THEN ModuleImages(msg.man) ELSE {}

RemoveImageNames == GetUsedImages(op.app) \ KeepImages

\* Variant: containers are not counted.
SelectAllImages ==
    /\ At("images")
    /\ Step([op EXCEPT !.pc = "removeImages", !.failed = FALSE,
                       !.imgs = RemoveImageNames \cap images])
    /\ Neither

SelectImages ==
    /\ At("images")
    /\ Step([op EXCEPT !.pc = "removeImages", !.failed = FALSE,
                !.imgs = {i \in RemoveImageNames \cap images : ~InUse(i)}])
    /\ Neither

SelectImagesFails ==
    /\ At("images") /\ RemoveImageNames # {} /\ Fault
    /\ SetStatus(op.app, "Error")
    /\ ReturnFromRemove(FALSE) /\ UNCHANGED dockerVars

RemoveImage ==
    /\ At("removeImages")
    /\ \E i \in op.imgs :
        /\ ImageRemove(i)
        /\ Step([op EXCEPT !.imgs = @ \ {i}])
    /\ HostOnly

RemoveImageFails ==
    /\ At("removeImages")
    /\ \E i \in op.imgs :
        /\ Fails(ImageRemove(i))
        /\ Step([op EXCEPT !.imgs = @ \ {i}, !.failed = TRUE])
    /\ SetStatus(op.app, "Error")

ImagesRemain ==
    /\ At("removeImages") /\ op.imgs = {} /\ op.failed
    /\ ReturnFromRemove(FALSE) /\ Neither

\* Variant: the list of errors is not looked at.
ForgetAnyway ==
    /\ At("removeImages") /\ op.imgs = {}
    /\ DeleteKnownManifest(op.app)
    /\ NoFault /\ ReturnFromRemove(TRUE)
    /\ UNCHANGED dockerVars

\* The record is gone whether or not the status can be sent.
Forget ==
    /\ At("removeImages") /\ op.imgs = {} /\ ~op.failed
    /\ DeleteKnownManifest(op.app)
    /\ \/ NoFault /\ ReturnFromRemove(TRUE)
       \/ Fault /\ ReturnFromRemove(FALSE)
    /\ UNCHANGED dockerVars

RemoveEdgeApp ==
    \/ SelectImages \/ SelectImagesFails
    \/ RemoveImage \/ RemoveImageFails
    \/ ImagesRemain \/ Forget

------------------------------------------------------------------------------
(* DeleteNode: RemoveAll stops at its first error, the node status is set  *)
(* all the same.                                                           *)

DeleteBegin ==
    /\ Handling("DELETE")
    /\ Step(Frame("deleteNext", "DELETE", None)) /\ Neither

DeleteNext ==
    /\ At("deleteNext")
    /\ \E a \in Apps : IsKnown(a) /\ Step(Frame("undeploy", "DELETE", a))
    /\ Neither

\* Variant: the node is done after any one of its apps.
DeleteFirst ==
    /\ At("deleteNext")
    /\ GoTo("deleted") /\ Neither

DeleteLast ==
    /\ At("deleteNext") /\ \A a \in Apps : ~IsKnown(a)
    /\ GoTo("deleted") /\ Neither

SetNodeDeleted ==
    /\ At("deleted")
    /\ op' = Idle /\ msg' = None
    /\ last' = [cmd |-> msg.cmd, app |-> msg.app, man |-> msg.man, ok |-> TRUE]
    /\ nodeStatus' = "Deleted"
    /\ Neither

DeleteNode == DeleteBegin \/ DeleteNext \/ DeleteLast \/ SetNodeDeleted

------------------------------------------------------------------------------
Handler ==
    /\ Deploy \/ Stop \/ Resume \/ UndeployEdgeApp \/ RemoveEdgeApp \/ DeleteNode
    /\ UNCHANGED <<commands, crashes>>

Receive ==
    /\ At("idle") /\ msg = None
    /\ commands < MaxCommands /\ commands' = commands + 1
    /\ msg' \in Message
    /\ last' = None
    /\ UNCHANGED <<dockerVars, storeVars, op, nodeStatus, faults, crashes>>

Engine ==
    /\ ContainerChanges \/ ContainerLost
    /\ UNCHANGED <<storeVars, handlerVars, counters>>

\* The bound is reached and nothing is left to do; any other stop is a deadlock.
Finished ==
    /\ At("idle") /\ msg = None /\ commands = MaxCommands
    /\ UNCHANGED vars

Next == Receive \/ Handler \/ Engine \/ Finished

Spec == Init /\ [][Next]_vars

------------------------------------------------------------------------------
(* Crashes.  The agent is restarted by systemd; the broker, whose session  *)
(* outlives the connection, delivers an unacknowledged message again.      *)

LogRead ==
    /\ \E a \in Apps : SetLastLogRead(a)
    /\ UNCHANGED <<dockerVars, handlerVars, counters>>

\* Host, file and broker keep what they have; the process has what it reads.
Restart ==
    /\ crashes' = crashes + 1
    /\ op' = Idle /\ last' = None /\ nodeStatus' = "Connected"
    /\ InitKnownManifests
    /\ UNCHANGED <<dockerVars, msg, commands, faults>>

CrashRestart == crashes < MaxCrashes /\ Restart

\* An index out of range, after the network was made and before any status is
\* saved.  It happens again whenever the message is delivered again.
UpdateManifestPanics == At("create") /\ msg.man \in Misconnected /\ Restart

CrashNext == Next \/ LogRead \/ CrashRestart \/ UpdateManifestPanics

CrashSpec == Init /\ [][CrashNext]_vars

\* A handler that runs goes on to its end: every call it makes returns.
FairSpec == CrashSpec /\ WF_vars(Handler \/ UpdateManifestPanics)
==============================================================================
