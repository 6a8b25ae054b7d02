------------------------- MODULE CompositionProofs -------------------------
(***************************************************************************)
(* Proofs for the two modules that are composed with EdgeApp.  For         *)
(* LocalDeploy: whatever an earlier process has left and wherever this one *)
(* is stopped, the record on file is true.  For StatusReport: what the     *)
(* monitor takes note of, and when a message that was put together         *)
(* undisturbed is true.                                                    *)
(***************************************************************************)
EXTENDS LocalDeploy, StatusReport, EdgeAppOutcome

------------------------------------------------------------------------------
(* What makes LocalRecordIsTrue inductive                                  *)

\* DeployEdgeApp over an app of which nothing is left: what it has made so far.
\* No container changes by itself before main connects.
MadeSoFar(a) ==
    /\ op.pc \in {"idle", "add", "image", "network"} => Empty(a)
    /\ At("idle") => Inactive(a)
    /\ op.pc \in {"image", "network", "create", "start", "deployed"} =>
            IsKnown(a) /\ known[a].man = local
    /\ At("create") => BuiltFrom(a, local, op.idx + 1, op.net)
    /\ At("start") =>
            /\ BuiltFrom(a, local, op.idx, op.net)
            /\ \E id \in op.todo : /\ op.todo = {id}
                                   /\ \A c \in ContainersOf(a) : c.id = id \/ c.state = "running"
    /\ At("deployed") => BuiltFrom(a, local, 1, op.net)
    /\ op.pc \in {"create", "deployed"} => RunningIn(a) = ContainersOf(a)

LocalVersion ==
    /\ file[local.id] = known[local.id]
    /\ HasStatus(local.id, "Running") /\ known[local.id].man = local
    /\ RunningIn(local.id) = ContainersOf(local.id)
    /\ \E net \in 0 .. MaxNetworkIndex : BuiltFrom(local.id, local, 1, net)

\* What a status on file stands for.
FileTells ==
    /\ file[local.id] = known[local.id]
    /\ Inactive(local.id) => Empty(local.id)
    /\ HasStatus(local.id, "Running") => LocalVersion

RollsBack == op.caller \in {"rollback", "lateRollback"}

\* UndeployEdgeApp has left nothing of the app when it returns no error, and
\* DeployEdgeApp, which has no older version to remove then, made the version of
\* the file when it does.  A status is on file before the panic.
LocalInv ==
    /\ stage # "serving" => local \in Manifests \ Secretive
    /\ stage = "undeploy" =>
        /\ msg # None => msg.cmd = "UNDEPLOY" /\ msg.app = local.id
        /\ ~At("idle") =>
                /\ op.caller = "UNDEPLOY" /\ op.app = local.id
                /\ op.pc \in {"undeploy", "list", "removeContainers", "undeployed"}
        /\ Returned(TRUE) => Empty(local.id) /\ Inactive(local.id)
    /\ stage = "deploy" =>
        /\ msg # None => msg.cmd = "DEPLOY" /\ msg.man = local
        /\ ~At("idle") =>
                IF RollsBack
                THEN op.pc \in {"undeploy", "list", "removeContainers", "undeployed",
                                "images", "removeImages", "lateError"}
                ELSE /\ op.caller = "DEPLOY"
                     /\ op.pc \in {"add", "image", "network", "create", "start", "deployed"}
        /\ msg # None /\ ~RollsBack => MadeSoFar(local.id)
        /\ Returned(TRUE) => LocalVersion
    /\ stage = "connect" => LocalVersion
    /\ stage = "panicked" => FileTells

------------------------------------------------------------------------------
(* What makes the promises of the status messages inductive                *)

Said == [app : Apps, status : Status]

ReaderFrame ==
    [pc : {"sleep", "app", "list", "count", "inspect", "publish"}, sending : BOOLEAN,
     todo : SUBSET Apps, app : Apps \cup {None}, held : Record \cup {None},
     status : Status \cup {None}, cons : SUBSET Container, report : Seq(Said),
     node : {"Connected", "Deleted", None}, latest : Seq(Said), moved : BOOLEAN]

\* The types of what the reporters keep: at an app there is a record to look at
\* and a status to tell.
ReportOK ==
    /\ reader \in [Team -> ReaderFrame]
    /\ \A r \in Team : reader[r].pc \in {"list", "count", "inspect"} =>
            /\ reader[r].app \in Apps /\ Rec(r) \in Record
            /\ reader[r].status \in Status
    /\ \A r \in Team : reader[r].pc = "publish" => reader[r].node \in {"Connected", "Deleted"}
    /\ seen \in Seq(Said)
    /\ retained \in [node : {"Connected", "Deleted"}, apps : SUBSET Said] \cup {None}
    /\ changes \in Nat

\* Where the containers of an app are: by number, network and module.
Places(a) == {[id |-> c.id, net |-> c.net, module |-> c.module] : c \in ContainersOf(a)}

\* The containers on one network of the app: one at most for each module of man
\* from k on.  None is missing when none gets lost by itself, and none is
\* elsewhere as long as calls succeed.
PlacedFrom(a, man, k, net) ==
    /\ \A p \in Places(a) : p.net = net => p.module \in k .. Len(man.modules)
    /\ \A p, q \in Places(a) :
            p.net = net /\ q.net = net /\ p.module = q.module => p = q
    /\ Unstable = {} => \A j \in k .. Len(man.modules) :
            \E p \in Places(a) : p.net = net /\ p.module = j
    /\ faults = 0 => \A p \in Places(a) : p.net = net

IsPlaced(a) == \E net \in 0 .. MaxNetworkIndex : PlacedFrom(a, known[a].man, 1, net)

\* An app that is called Running or Stopped has been made so.
SettledPlaced ==
    \A a \in Apps : HasStatus(a, "Running") \/ HasStatus(a, "Stopped") => IsPlaced(a)

\* So has one that is being stopped or resumed; of one that is being made the
\* modules behind the one that is next are there, and one that is removed goes
\* without trace as long as calls succeed.
WorkPlaced ==
    /\ op.pc \in {"image", "network", "create", "start", "deployed"} =>
            known[op.app].man = msg.man
    /\ At("create") => PlacedFrom(op.app, msg.man, op.idx + 1, op.net)
    /\ At("start") => PlacedFrom(op.app, msg.man, op.idx, op.net)
    /\ op.pc \in {"deployed", "stop", "resume"} => IsPlaced(op.app)
    /\ faults = 0 =>
        /\ At("removeContainers") => Ids(ContainersOf(op.app)) \subseteq op.todo
        /\ op.pc \in {"undeployed", "images", "removeImages", "add", "image", "network"} =>
                ContainersOf(op.app) = {}

PlacedInv == SettledPlaced /\ WorkPlaced

\* What a reader makes of an app on record while nothing changes.
Reading(a) ==
    IF Miscounted(known[a], ContainersOf(a)) \/ \E c \in ContainersOf(a) : Afflicted(known[a], c)
    THEN "Error" ELSE known[a].status

\* How far a reading has come that nothing disturbed: what it has told of is on
\* record and as told, and the rest is still to come.
ReadSoFar(f) ==
    /\ f.held = None
    /\ \A e \in ReportOf(f.report) : IsKnown(e.app) /\ e.status = Reading(e.app)
    /\ \A a \in Apps : IsKnown(a) => a \in f.todo \/ \E e \in ReportOf(f.report) : e.app = a
    /\ f.pc \in {"list", "count", "inspect"} => IsKnown(f.app)
    /\ f.pc \in {"list", "count"} => f.status = known[f.app].status
    /\ f.pc = "count" => f.cons = ContainersOf(f.app)
    /\ f.pc = "inspect" =>
            /\ f.cons \subseteq ContainersOf(f.app)
            /\ f.status = IF \/ Miscounted(known[f.app], ContainersOf(f.app))
                             \/ \E c \in ContainersOf(f.app) \ f.cons : Afflicted(known[f.app], c)
                          THEN "Error" ELSE known[f.app].status
    /\ f.pc = "publish" => f.todo = {} /\ f.node = nodeStatus

ReadInv ==
    \A r \in Team : reader[r].pc # "sleep" /\ ~reader[r].moved => ReadSoFar(reader[r])

------------------------------------------------------------------------------
(* What holds of every handler, in this process as in the one before       *)

LEMMA IdleFits ==
    ASSUME TypeInv, op' = Idle, msg' \in Message \cup {None}, last' = None,
           nodeStatus' = nodeStatus
    PROVE  HandlerOK'
<1>1. op' \in FrameType /\ op'.pc = "idle" /\ op'.caller = "none"
  BY MaxNetworkIndexAssumption DEF Idle, Frame, FrameType, Label, Caller
<1>2. FrameFits'
  BY <1>1 DEF FrameFits, InDeploy, Appless
<1> QED  BY <1>1, <1>2 DEF TypeInv, HandlerOK

\* Between two handlers no frame is left.
LEMMA AtRest ==
    ASSUME TypeInv, msg = None
    PROVE  op.pc = "idle" /\ op.caller = "none"
BY DEF TypeInv, HandlerOK, FrameFits

\* The steps that are none of EdgeApp: a new process, or nothing changes.
LEMMA ProcessGiven ==
    ASSUME TypeInv, OwnInv, NEW m \in Message \cup {None}, Started(m)
    PROVE  TypeInv' /\ OwnInv'
<1> USE DEF Started
<1>0. StoreOK'
  BY DEF InitKnownManifests, TypeInv, StoreOK
<1>1. TypeInv'
  BY <1>0, IdleFits, HostKept DEF TypeInv, CountersOK
<1>2. HostKeeps
  BY DEF OwnInv, HostKeeps, NetworksDistinct, IdsUnique, dockerVars
<1>3. op'.pc \in Free
  BY DEF Idle, Frame, Free
<1> QED  BY <1>1, <1>2, <1>3, ToFree DEF TypeInv, HandlerOK

LEMMA SameFits ==
    ASSUME TypeInv, OwnInv, UNCHANGED vars
    PROVE  TypeInv' /\ OwnInv'
<1>1. [CrashNext]_vars
  OBVIOUS
<1> QED  BY <1>1, TypeStep, OwnStep

\* The messages of ReadDeployManifestLocal are such as MAPI sends.
LEMMA LocalMessages ==
    ASSUME NEW m \in Manifests
    PROVE  /\ [cmd |-> "UNDEPLOY", app |-> m.id, man |-> None] \in Message
           /\ [cmd |-> "DEPLOY", app |-> m.id, man |-> m] \in Message
BY ManifestFacts DEF Message

LEMMA LocalBasics ==
    ASSUME TypeInv, OwnInv, LocalInv, [LocalNext]_localVars
    PROVE  TypeInv' /\ OwnInv'
<1>1. CASE Serve \/ Called \/ Panics
  <2>1. [CrashNext]_vars
    BY <1>1 DEF Serve, Called, Panics, CrashNext, Next
  <2> QED  BY <2>1, TypeStep, OwnStep
<1>2. CASE StartLocal \/ StartWithout
  <2>1. \E m \in Message \cup {None} : Started(m)
    BY <1>2, LocalMessages DEF StartLocal, StartWithout
  <2> QED  BY <2>1, ProcessGiven
<1>3. CASE UndeployReturned
  <2>1. msg' \in Message
    BY <1>3, LocalMessages DEF UndeployReturned, LocalInv
  <2>2. StoreOK'
    BY <1>3, StoreKept DEF UndeployReturned, TypeInv
  <2>3. op' = op /\ msg = None /\ UNCHANGED <<dockerVars, nodeStatus, counters>> /\ last' = None
    BY <1>3 DEF UndeployReturned, Returned
  <2>4. op.pc = "idle" /\ op.caller = "none"
    BY <2>3, AtRest
  <2>5. HandlerOK'
    <3>1. msg' # None
      BY <2>1, MessageFacts
    <3>2. FrameFits'
      BY <2>3, <2>4, <3>1 DEF FrameFits, InDeploy, Appless
    <3> QED  BY <2>1, <2>3, <3>2 DEF TypeInv, HandlerOK
  <2>6. TypeInv'
    BY <2>2, <2>3, <2>5, HostKept DEF TypeInv, CountersOK, counters
  <2>7. HostKeeps /\ op'.pc \in Free
    BY <2>3, <2>4 DEF OwnInv, HostKeeps, NetworksDistinct, IdsUnique, dockerVars, Free
  <2> QED  BY <2>6, <2>7, ToFree DEF TypeInv, HandlerOK
<1>4. CASE DeployReturned \/ Fatal \/ UNCHANGED localVars
  BY <1>4, SameFits DEF DeployReturned, Fatal, localVars
<1> QED  BY <1>1, <1>2, <1>3, <1>4 DEF LocalNext

------------------------------------------------------------------------------
(* The call of UndeployEdgeApp                                             *)

\* UndeployEdgeApp, called for itself, goes on or returns; without an error it
\* returns only when nothing of the app is left.
LEMMA UndeployCalled ==
    ASSUME TypeInv, OwnInv, Handler, NEW a \in Apps,
           msg # None => msg.cmd = "UNDEPLOY" /\ msg.app = a,
           op.pc # "idle" => op.caller = "UNDEPLOY" /\ op.app = a /\ op.pc \in Undeploying
    PROVE  \/ /\ msg' = msg /\ op'.pc \in Undeploying
              /\ op'.caller = "UNDEPLOY" /\ op'.app = a
           \/ /\ msg' = None /\ op'.pc = "idle"
              /\ last'.ok = TRUE => Empty(a)' /\ Inactive(a)'
<1>0. op \in FrameType /\ msg # None /\ msg.cmd = "UNDEPLOY" /\ msg.app = a
  BY HandlerNeedsMessage DEF TypeInv, HandlerOK
<1>1. UndeployEdgeApp
  <2>1. ~Deploy
    BY <1>0 DEF Deploy, DeployFresh, DeployNewVersion, DeployRejected, Add, InspectFails,
       ImagePresent, Pull, PullErrorUnseen, PullFails, CreateAppNetwork, CreateNetworkFails,
       CreateContainer, CreateContainerFails, StartModule, StartModuleFails, DeployDone,
       LateError, Handling, At, Undeploying
  <2>2. ~(Stop \/ Resume)
    BY <1>0 DEF Stop, StopRefused, StopBegin, StopNext, StopFails, StopDone, Resume, ResumeRefused,
       ResumeBegin, ResumeNext, ResumeFails, ResumeDone, Handling, At, Undeploying
  <2>3. ~(RemoveEdgeApp \/ DeleteNode)
    BY <1>0 DEF RemoveEdgeApp, SelectImages, SelectImagesFails, RemoveImage, RemoveImageFails,
       ImagesRemain, Forget, DeleteNode, DeleteBegin, DeleteNext, DeleteLast, SetNodeDeleted,
       Handling, At, Undeploying
  <2> QED  BY <2>1, <2>2, <2>3 DEF Handler
<1>2. CASE UndeployRejected
  BY <1>2 DEF UndeployRejected, Return, Idle, Frame
<1>3. CASE UndeployBegin
  BY <1>0, <1>3 DEF UndeployBegin, Step, Frame, Undeploying
<1>4. CASE Undeploy \/ ListContainers \/ RemoveContainer \/ RemoveContainerFails \/ PruneNetworks
           \/ PruneNetworksFails
  <2>1. op.caller = "UNDEPLOY" /\ op.app = a
    BY <1>4 DEF Undeploy, ListContainers, RemoveContainer, RemoveContainerFails, PruneNetworks,
       PruneNetworksFails, At
  <2> QED  BY <1>0, <1>4, <2>1 DEF Undeploy, ListContainers, RemoveContainer, RemoveContainerFails,
           PruneNetworks, PruneNetworksFails, At, GoTo, Step, FrameType, Undeploying
<1>5. CASE ListContainersFails \/ UndeployIncomplete
  <2>1. op.caller = "UNDEPLOY" /\ ReturnFromUndeploy(FALSE)
    BY <1>5 DEF ListContainersFails, UndeployIncomplete, At
  <2> QED  BY <2>1 DEF ReturnFromUndeploy, Return, Idle, Frame
<1>6. CASE UndeployDone
  <2>1. op.caller = "UNDEPLOY" /\ op.app = a /\ op.pc = "undeployed" /\ ~op.failed
    BY <1>6 DEF UndeployDone, At
  <2>2. msg' = None /\ op'.pc = "idle"
    BY <1>6, <2>1 DEF UndeployDone, ReturnFromUndeploy, Return, Idle, Frame
  <2>3. Empty(a)'
    <3>1. Empty(a) /\ UNCHANGED <<containers, networks>>
      BY <1>6, <2>1 DEF UndeployDone, RecordOnly, dockerVars, OwnInv, RemovalCovers, At
    <3> QED  BY <3>1 DEF Empty, ContainersOf, NetworksOf
  <2>4. Inactive(a)'
    <3>1. SetStatus(a, "Undeployed") /\ StoreOK
      BY <1>6, <2>1 DEF UndeployDone, TypeInv
    <3>2. CASE ~IsKnown(a)
      BY <3>1, <3>2 DEF SetStatus, storeVars, Inactive, IsKnown
    <3>3. CASE IsKnown(a)
      <4>1. known[a] \in Record /\ known'[a] = [known[a] EXCEPT !.status = "Undeployed"]
        BY <3>1, <3>3 DEF SetStatus, StoreOK, IsKnown
      <4> QED  BY <4>1 DEF Record, Inactive
    <3> QED  BY <3>2, <3>3
  <2> QED  BY <2>2, <2>3, <2>4
<1> QED  BY <1>1, <1>2, <1>3, <1>4, <1>5, <1>6 DEF UndeployEdgeApp

------------------------------------------------------------------------------
(* The call of DeployEdgeApp                                               *)

Back == {"undeploy", "list", "removeContainers", "undeployed", "images", "removeImages", "lateError"}
Forth == {"add", "image", "network", "create", "start", "deployed"}

\* A rollback goes on, or returns the error of the deployment.
LEMMA RollbackCalled ==
    ASSUME TypeInv, Handler, RollsBack, op.pc \in Back
    PROVE  \/ msg' = msg /\ op'.caller = op.caller /\ op'.pc \in Back
           \/ msg' = None /\ last'.ok = FALSE /\ op'.pc = "idle"
<1>0. op \in FrameType
  BY DEF TypeInv, HandlerOK
<1>1. UndeployEdgeApp \/ RemoveEdgeApp \/ LateError
  <2>1. Deploy => LateError
    BY DEF Deploy, DeployFresh, DeployNewVersion, DeployRejected, Add, InspectFails, ImagePresent,
       Pull, PullErrorUnseen, PullFails, CreateAppNetwork, CreateNetworkFails, CreateContainer,
       CreateContainerFails, StartModule, StartModuleFails, DeployDone, Handling, At, Back
  <2>2. ~(Stop \/ Resume)
    BY DEF Stop, StopRefused, StopBegin, StopNext, StopFails, StopDone, Resume, ResumeRefused,
       ResumeBegin, ResumeNext, ResumeFails, ResumeDone, Handling, At, Back
  <2>3. ~DeleteNode
    BY DEF DeleteNode, DeleteBegin, DeleteNext, DeleteLast, SetNodeDeleted, Handling, At, Back
  <2> QED  BY <2>1, <2>2, <2>3 DEF Handler
<1>2. ASSUME NEW ok, ReturnFromRemove(ok)
      PROVE  \/ msg' = msg /\ op'.caller = op.caller /\ op'.pc \in Back
             \/ msg' = None /\ last'.ok = FALSE /\ op'.pc = "idle"
  BY <1>0, <1>2 DEF ReturnFromRemove, RollsBack, Return, Idle, Frame, GoTo, Step, FrameType, Back
<1>3. ASSUME NEW ok, ReturnFromUndeploy(ok)
      PROVE  \/ msg' = msg /\ op'.caller = op.caller /\ op'.pc \in Back
             \/ msg' = None /\ last'.ok = FALSE /\ op'.pc = "idle"
  BY <1>0, <1>2, <1>3 DEF ReturnFromUndeploy, RollsBack, GoTo, Step, FrameType, Back
<1>4. CASE LateError
  BY <1>4 DEF LateError, Return, Idle, Frame
<1>5. CASE UndeployEdgeApp
  <2>1. ~(UndeployRejected \/ UndeployBegin)
    BY DEF UndeployRejected, UndeployBegin, Handling, At, Back
  <2>2. CASE Undeploy \/ ListContainers \/ RemoveContainer \/ RemoveContainerFails
             \/ PruneNetworks \/ PruneNetworksFails
    BY <1>0, <2>2 DEF Undeploy, ListContainers, RemoveContainer, RemoveContainerFails,
       PruneNetworks, PruneNetworksFails, At, GoTo, Step, FrameType, Back
  <2> QED  BY <1>3, <1>5, <2>1, <2>2 DEF UndeployEdgeApp, ListContainersFails, UndeployDone,
                                          UndeployIncomplete
<1>6. CASE RemoveEdgeApp
  <2>1. CASE SelectImages \/ RemoveImage \/ RemoveImageFails
    BY <1>0, <2>1 DEF SelectImages, RemoveImage, RemoveImageFails, At, Step, FrameType, Back
  <2> QED  BY <1>2, <1>6, <2>1 DEF RemoveEdgeApp, SelectImagesFails, ImagesRemain, Forget
<1> QED  BY <1>1, <1>4, <1>5, <1>6

\* What DeployEdgeApp makes over nothing: the steps that change host or record.
Deploying(a) ==
    /\ msg # None /\ msg.cmd = "DEPLOY" /\ msg.man = local /\ local.id = a
    /\ local \in Manifests \ Secretive
    /\ op.pc # "idle" => op.caller = "DEPLOY" /\ op.pc \in Forth
    /\ MadeSoFar(a)

LEMMA DeployingFacts ==
    ASSUME TypeInv, NEW a, Deploying(a)
    PROVE  /\ op \in FrameType /\ HostOK /\ StoreOK
           /\ a \in Apps /\ msg.app = a /\ Len(local.modules) \in Nat \ {0}
           /\ op.pc # "idle" => op.app = a
           /\ op.pc \in {"image", "create", "start"} => op.idx \in 1 .. Len(local.modules)
<1>1. msg.app = a /\ a \in Apps /\ Len(local.modules) \in Nat \ {0}
  BY MessageFacts, ManifestFacts DEF Deploying, TypeInv, HandlerOK
<1>2. op.pc # "idle" => op.app = a
  <2>1. op.pc # "idle" => InDeploy
    BY DEF Deploying, InDeploy, Forth
  <2> QED  BY <1>1, <2>1 DEF TypeInv, HandlerOK, FrameFits
<1> QED  BY <1>1, <1>2 DEF Deploying, TypeInv, HandlerOK, FrameFits

LEMMA DeployBegins ==
    ASSUME TypeInv, NEW a, Deploying(a), DeployFresh
    PROVE  op'.pc = "add" /\ op'.caller = "DEPLOY" /\ msg' = msg /\ MadeSoFar(a)'
<1>1. op.pc = "idle" /\ Empty(a)
  BY DEF DeployFresh, Handling, At, Deploying, MadeSoFar
<1>2. op'.pc = "add" /\ op'.caller = "DEPLOY" /\ msg' = msg /\ UNCHANGED <<containers, networks>>
  BY DEF DeployFresh, Step, Frame, Neither, dockerVars
<1>3. Empty(a)'
  BY <1>1, <1>2 DEF Empty, ContainersOf, NetworksOf
<1> QED  BY <1>2, <1>3 DEF MadeSoFar, At

LEMMA DeployRecords ==
    ASSUME TypeInv, NEW a, Deploying(a), Add, local' = local
    PROVE  op'.pc = "image" /\ op'.caller = op.caller /\ msg' = msg /\ MadeSoFar(a)'
<1>0. op \in FrameType /\ StoreOK /\ a \in Apps /\ local.id = a /\ msg.man = local
  BY DeployingFacts DEF Deploying
<1>1. op.pc = "add" /\ Empty(a)
  BY DEF Add, At, Deploying, MadeSoFar
<1>2. /\ op'.pc = "image" /\ op'.caller = op.caller /\ msg' = msg
      /\ UNCHANGED <<containers, networks>>
  BY <1>0 DEF Add, Step, RecordOnly, dockerVars, FrameType
<1>3. known'[a] = [man |-> local, status |-> "Initiated"]
  BY <1>0 DEF Add, AddKnownManifest, StoreOK
<1>4. known'[a] # None /\ known'[a].man = local
  <2>1. [man |-> local, status |-> "Initiated"] \in Record
    BY DEF Record, Status, Deploying
  <2> QED  BY <1>3, <2>1, EdgeAppAssumption
<1>5. Empty(a)'
  BY <1>1, <1>2 DEF Empty, ContainersOf, NetworksOf
<1> QED  BY <1>2, <1>4, <1>5 DEF MadeSoFar, At, IsKnown

LEMMA DeployPulls ==
    ASSUME TypeInv, NEW a, Deploying(a), ImagePresent \/ Pull \/ PullErrorUnseen, local' = local
    PROVE  op'.pc \in {"image", "network"} /\ op'.caller = op.caller /\ msg' = msg /\ MadeSoFar(a)'
<1>0. op \in FrameType
  BY DeployingFacts
<1>1. op.pc = "image" /\ Empty(a) /\ IsKnown(a) /\ known[a].man = local
  BY DEF ImagePresent, Pull, PullErrorUnseen, At, Deploying, MadeSoFar
<1>2. /\ op'.pc \in {"image", "network"} /\ op'.caller = op.caller /\ msg' = msg
      /\ UNCHANGED <<containers, networks, known>>
  BY <1>0, <1>1 DEF ImagePresent, Pull, PullErrorUnseen, PullImage, Step, NextImage, Neither,
     HostOnly, dockerVars, storeVars, FrameType
<1>3. Empty(a)' /\ IsKnown(a)' /\ known'[a].man = local
  BY <1>1, <1>2 DEF Empty, ContainersOf, NetworksOf, IsKnown
<1> QED  BY <1>2, <1>3 DEF MadeSoFar, At

LEMMA DeployConnects ==
    ASSUME TypeInv, NEW a, Deploying(a), CreateAppNetwork, local' = local
    PROVE  op'.pc = "create" /\ op'.caller = op.caller /\ msg' = msg /\ MadeSoFar(a)'
<1>0. op \in FrameType /\ msg.man = local
  BY DeployingFacts DEF Deploying
<1>1. op.pc = "network" /\ Empty(a) /\ IsKnown(a) /\ known[a].man = local /\ op.app = a
  BY DeployingFacts DEF CreateAppNetwork, At, Deploying, MadeSoFar
<1>2. /\ op'.pc = "create" /\ op'.caller = op.caller /\ op'.app = op.app /\ msg' = msg
      /\ known' = known /\ containers' = containers
  BY <1>0 DEF CreateAppNetwork, CreateNetwork, Step, HostOnly, storeVars, FrameType
<1>3. Empty(op.app)
  BY <1>1
<1>4. BuiltFrom(op.app, msg.man, op.idx + 1, op.net)'
  BY <1>3, WholeNetwork
<1>5. BuiltFrom(a, local, op.idx + 1, op.net)'
  BY <1>0, <1>1, <1>2, <1>4 DEF BuiltFrom, ContainersOf, NetworksOf
<1>6. RunningIn(a)' = ContainersOf(a)'
  BY <1>1, <1>2 DEF Empty, RunningIn, ContainersOf
<1> QED  BY <1>1, <1>2, <1>5, <1>6 DEF MadeSoFar, At, IsKnown

LEMMA DeployCreates ==
    ASSUME TypeInv, NEW a, Deploying(a), CreateContainer, local' = local
    PROVE  op'.pc = "start" /\ op'.caller = op.caller /\ msg' = msg /\ MadeSoFar(a)'
<1>0. op \in FrameType /\ HostOK /\ msg.man = local
  BY DeployingFacts DEF Deploying
<1>1. /\ op.pc = "create" /\ IsKnown(a) /\ known[a].man = local /\ op.app = a
      /\ BuiltFrom(a, local, op.idx + 1, op.net) /\ RunningIn(a) = ContainersOf(a)
  BY DeployingFacts DEF CreateContainer, At, Deploying, MadeSoFar
<1>2. /\ op'.pc = "start" /\ op'.caller = op.caller /\ op'.app = op.app /\ msg' = msg
      /\ op'.todo = {NewContainerId} /\ known' = known
  BY <1>0 DEF CreateContainer, Step, HostOnly, storeVars, FrameType
<1>3. BuiltFrom(op.app, msg.man, op.idx + 1, op.net)
  BY <1>0, <1>1
<1>4. BuiltFrom(op.app, msg.man, op.idx, op.net)'
  BY <1>3, WholeContainer
<1>5. BuiltFrom(a, local, op.idx, op.net)'
  BY <1>0, <1>1, <1>2, <1>4 DEF BuiltFrom, ContainersOf, NetworksOf
<1>6. \A c \in ContainersOf(a)' : c.id = NewContainerId \/ c.state = "running"
  <2>1. \A c \in containers' : c \in containers \/ c.id = NewContainerId
    BY DEF CreateContainer, CreateModule, createContainer
  <2> QED  BY <1>1, <2>1 DEF RunningIn, ContainersOf
<1>7. \E id \in op'.todo : /\ op'.todo = {id}
                          /\ \A c \in ContainersOf(a)' : c.id = id \/ c.state = "running"
  BY <1>2, <1>6
<1> QED  BY <1>1, <1>2, <1>5, <1>7 DEF MadeSoFar, At, IsKnown

LEMMA DeployStarts ==
    ASSUME TypeInv, NEW a, Deploying(a), StartModule, local' = local
    PROVE  op'.pc \in {"create", "deployed"} /\ op'.caller = op.caller /\ msg' = msg /\ MadeSoFar(a)'
<1>0. op \in FrameType /\ HostOK /\ op.idx \in Nat
  BY DeployingFacts DEF FrameType
<1>1. /\ op.pc = "start" /\ IsKnown(a) /\ known[a].man = local /\ op.idx \in 1 .. Len(local.modules)
      /\ BuiltFrom(a, local, op.idx, op.net)
  BY DeployingFacts DEF StartModule, At, Deploying, MadeSoFar
<1>2. PICK id \in op.todo : /\ op.todo = {id}
                            /\ \A c \in ContainersOf(a) : c.id = id \/ c.state = "running"
  BY <1>1 DEF Deploying, MadeSoFar, At
<1>3. ContainerTo(id, "running") /\ known' = known /\ msg' = msg
  BY <1>2 DEF StartModule, StartContainer, HostOnly, storeVars, Step
<1>4. \A man, k, net : BuiltFrom(a, man, k, net) => BuiltFrom(a, man, k, net)'
  BY <1>0, <1>3, BuiltMoved
<1>5. (RunningIn(a) = ContainersOf(a))'
  <2>1. \A d \in containers' : d.app = a => d.state = "running"
    BY <1>0, <1>2, <1>3, ContainerToFacts DEF ContainersOf
  <2> QED  BY <2>1 DEF RunningIn, ContainersOf
<1>6. CASE op.idx > 1
  <2>1. /\ op'.pc = "create" /\ op'.caller = op.caller /\ op'.net = op.net
        /\ op'.idx + 1 = op.idx
    BY <1>0, <1>6 DEF StartModule, Step, FrameType
  <2>2. BuiltFrom(a, local, op.idx + 1, op.net)'
    <3>1. \A man, k, net : man = local' /\ k = op'.idx + 1 /\ net = op'.net
                           => BuiltFrom(a, man, k, net)'
      BY <1>1, <1>4, <2>1
    <3> QED  BY <3>1 DEF BuiltFrom, ContainersOf, NetworksOf
  <2> QED  BY <1>1, <1>3, <1>5, <2>1, <2>2 DEF MadeSoFar, At, IsKnown
<1>7. CASE ~(op.idx > 1)
  <2>1. /\ op'.pc = "deployed" /\ op'.caller = op.caller /\ op'.net = op.net /\ op.idx = 1
    BY <1>0, <1>1, <1>7 DEF StartModule, Step, FrameType
  <2>2. BuiltFrom(a, local, 1, op.net)'
    <3>1. \A man, net : man = local' /\ net = op'.net => BuiltFrom(a, man, 1, net)'
      BY <1>1, <1>4, <2>1
    <3> QED  BY <3>1 DEF BuiltFrom, ContainersOf, NetworksOf
  <2> QED  BY <1>1, <1>3, <1>5, <2>1, <2>2 DEF MadeSoFar, At, IsKnown
<1> QED  BY <1>6, <1>7

LEMMA DeployEnds ==
    ASSUME TypeInv, NEW a, Deploying(a), DeployDone, local' = local
    PROVE  op'.pc = "idle" /\ msg' = None /\ LocalVersion'
<1>0. op \in FrameType /\ StoreOK /\ op.app = a /\ local.id = a /\ a \in Apps
  BY DeployingFacts DEF DeployDone, At, Deploying
<1>1. /\ IsKnown(a) /\ known[a].man = local /\ BuiltFrom(a, local, 1, op.net)
      /\ RunningIn(a) = ContainersOf(a)
  BY DEF DeployDone, At, Deploying, MadeSoFar
<1>2. op'.pc = "idle" /\ msg' = None /\ UNCHANGED <<containers, networks>>
  BY DEF DeployDone, Return, Idle, Frame, RecordOnly, dockerVars
<1>3. known' = [known EXCEPT ![a].status = "Running"] /\ file' = known'
  BY <1>0, <1>1 DEF DeployDone, SetStatus
<1>4. known'[a] \in Record /\ known'[a].status = "Running" /\ known'[a].man = local
  <2>1. known[a] \in Record /\ known'[a] = [known[a] EXCEPT !.status = "Running"]
    BY <1>0, <1>1, <1>3 DEF StoreOK, IsKnown
  <2> QED  BY <1>1, <2>1 DEF Record, Status
<1>5. HasStatus(a, "Running")'
  BY <1>4, EdgeAppAssumption DEF HasStatus, IsKnown
<1>6. (RunningIn(a) = ContainersOf(a))'
  BY <1>1, <1>2 DEF RunningIn, ContainersOf
<1>7. \E net \in 0 .. MaxNetworkIndex : BuiltFrom(a, local, 1, net)'
  <2>1. \E net \in 0 .. MaxNetworkIndex : BuiltFrom(a, local, 1, net)
    BY <1>0, <1>1 DEF FrameType
  <2> QED  BY <1>2, <2>1 DEF BuiltFrom, ContainersOf, NetworksOf
<1> QED  BY <1>0, <1>2, <1>3, <1>4, <1>5, <1>6, <1>7 DEF LocalVersion, HasStatus, IsKnown,
                    RunningIn,
         ContainersOf, BuiltFrom, NetworksOf

\* DeployEdgeApp makes one thing after another, or rolls back, or returns; without
\* an error it returns only when the version of the file is there.
LEMMA DeployCalled ==
    ASSUME TypeInv, NEW a, Deploying(a), Handler, local' = local
    PROVE  \/ msg' = msg /\ op'.caller = "DEPLOY" /\ op'.pc \in Forth /\ MadeSoFar(a)'
           \/ msg' = msg /\ op'.caller \in {"rollback", "lateRollback"} /\ op'.pc \in Back
           \/ msg' = None /\ op'.pc = "idle" /\ (last'.ok = TRUE => LocalVersion')
<1>0. /\ op \in FrameType /\ msg # None /\ msg.cmd = "DEPLOY" /\ msg.app = a
      /\ op.pc # "idle" => op.caller = "DEPLOY" /\ op.pc \in Forth
      /\ op.pc = "idle" => Inactive(a)
  BY DeployingFacts DEF Deploying, MadeSoFar, At
<1>1. Deploy
  <2>1. ~(Stop \/ Resume)
    BY <1>0 DEF Stop, StopRefused, StopBegin, StopNext, StopFails, StopDone, Resume, ResumeRefused,
       ResumeBegin, ResumeNext, ResumeFails, ResumeDone, Handling, At, Forth
  <2>2. ~UndeployEdgeApp
    BY <1>0 DEF UndeployEdgeApp, UndeployRejected, UndeployBegin, Undeploy, ListContainers,
       ListContainersFails, RemoveContainer, RemoveContainerFails, PruneNetworks,
       PruneNetworksFails, UndeployDone, UndeployIncomplete, Handling, At, Forth
  <2>3. ~(RemoveEdgeApp \/ DeleteNode)
    BY <1>0 DEF RemoveEdgeApp, SelectImages, SelectImagesFails, RemoveImage, RemoveImageFails,
       ImagesRemain, Forget, DeleteNode, DeleteBegin, DeleteNext, DeleteLast, SetNodeDeleted,
       Handling, At, Forth
  <2> QED  BY <2>1, <2>2, <2>3 DEF Handler
<1>2. ~(DeployNewVersion \/ DeployRejected \/ LateError)
  BY <1>0 DEF DeployNewVersion, DeployRejected, LateError, Handling, At, Forth, Deploying
<1>3. CASE PullFails \/ CreateNetworkFails \/ CreateContainerFails \/ StartModuleFails
  BY <1>0, <1>3 DEF PullFails, CreateNetworkFails, CreateContainerFails, StartModuleFails,
     Step, Rollback, FrameType, Back
<1>4. CASE InspectFails
  BY <1>4 DEF InspectFails, Return, Idle, Frame
<1>5. CASE DeployFresh
  BY <1>5, DeployBegins DEF Forth
<1>6. CASE Add
  BY <1>0, <1>6, DeployRecords DEF Add, At, Forth
<1>7. CASE ImagePresent \/ Pull \/ PullErrorUnseen
  BY <1>0, <1>7, DeployPulls DEF ImagePresent, Pull, PullErrorUnseen, At, Forth
<1>8. CASE CreateAppNetwork
  BY <1>0, <1>8, DeployConnects DEF CreateAppNetwork, At, Forth
<1>9. CASE CreateContainer
  BY <1>0, <1>9, DeployCreates DEF CreateContainer, At, Forth
<1>10. CASE StartModule
  BY <1>0, <1>10, DeployStarts DEF StartModule, At, Forth
<1>11. CASE DeployDone
  BY <1>11, DeployEnds
<1> QED  BY <1>1, <1>2, <1>3, <1>4, <1>5, <1>6, <1>7, <1>8, <1>9, <1>10, <1>11 DEF Deploy

------------------------------------------------------------------------------
(* The invariant                                                           *)

UndeployPart ==
    /\ msg # None => msg.cmd = "UNDEPLOY" /\ msg.app = local.id
    /\ op.pc # "idle" => op.caller = "UNDEPLOY" /\ op.app = local.id /\ op.pc \in Undeploying
    /\ msg = None /\ last # None /\ last.ok = TRUE => Empty(local.id) /\ Inactive(local.id)

DeployPart ==
    /\ msg # None => msg.cmd = "DEPLOY" /\ msg.man = local
    /\ op.pc # "idle" => IF RollsBack THEN op.pc \in Back ELSE op.caller = "DEPLOY" /\ op.pc \in Forth
    /\ msg # None /\ ~RollsBack => MadeSoFar(local.id)
    /\ msg = None /\ last # None /\ last.ok = TRUE => LocalVersion

LEMMA LocalParts ==
    LocalInv <=> /\ stage # "serving" => local \in Manifests \ Secretive
                 /\ stage = "undeploy" => UndeployPart
                 /\ stage = "deploy" => DeployPart
                 /\ stage = "connect" => LocalVersion
                 /\ stage = "panicked" => FileTells
BY DEF LocalInv, UndeployPart, DeployPart, Returned, Running, At, Undeploying, Back, Forth

LEMMA LocalCalled ==
    ASSUME TypeInv, OwnInv, LocalInv, Called
    PROVE  LocalInv'
<1>0. local \in Manifests \ Secretive /\ local.id \in Apps /\ UNCHANGED <<local, stage>> /\ Handler
      /\ stage \in {"undeploy", "deploy"}
  BY LocalParts, ManifestFacts DEF Called, Running
<1>1. CASE stage = "undeploy"
  <2>1. UndeployPart
    BY <1>1, LocalParts
  <2>2. PICK a \in Apps : a = local.id
    BY <1>0
  <2>3. \/ msg' = msg /\ op'.pc \in Undeploying /\ op'.caller = "UNDEPLOY" /\ op'.app = a
        \/ /\ msg' = None /\ op'.pc = "idle"
           /\ last'.ok = TRUE => Empty(a)' /\ Inactive(a)'
    BY <1>0, <2>1, <2>2, UndeployCalled DEF UndeployPart
  <2>4. msg # None
    BY <1>0, HandlerNeedsMessage
  <2>5. UndeployPart'
    BY <1>0, <2>1, <2>2, <2>3, <2>4 DEF UndeployPart, Empty, Inactive, IsKnown, ContainersOf, NetworksOf
  <2> QED  BY <1>0, <1>1, <2>5 DEF LocalInv, UndeployPart, Returned, Running, At, Undeploying
<1>2. CASE stage = "deploy"
  <2>1. DeployPart
    BY <1>2, LocalParts
  <2>2. PICK a \in Apps : a = local.id
    BY <1>0
  <2>3. msg # None
    BY <1>0, HandlerNeedsMessage
  <2>4. ASSUME RollsBack
        PROVE  DeployPart'
    <3>0. op.pc \in Back
      <4>1. op.pc = "idle" => op.caller = "none"
        BY DEF TypeInv, HandlerOK, FrameFits, InDeploy
      <4> QED  BY <2>1, <2>4, <4>1 DEF DeployPart, RollsBack
    <3>1. \/ msg' = msg /\ op'.caller = op.caller /\ op'.pc \in Back
          \/ msg' = None /\ last'.ok = FALSE /\ op'.pc = "idle"
      BY <1>0, <2>4, <3>0, RollbackCalled
    <3> QED  BY <1>0, <2>1, <2>3, <2>4, <3>1 DEF DeployPart, RollsBack
  <2>5. ASSUME ~RollsBack
        PROVE  DeployPart'
    <3>1. Deploying(a)
      BY <1>0, <2>1, <2>2, <2>3, <2>5 DEF DeployPart, Deploying
    <3>2. \/ msg' = msg /\ op'.caller = "DEPLOY" /\ op'.pc \in Forth /\ MadeSoFar(a)'
          \/ msg' = msg /\ op'.caller \in {"rollback", "lateRollback"} /\ op'.pc \in Back
          \/ msg' = None /\ op'.pc = "idle" /\ (last'.ok = TRUE => LocalVersion')
      BY <1>0, <3>1, DeployCalled
    <3>3. MadeSoFar(a)' => MadeSoFar(local.id)'
      BY <1>0, <2>2 DEF MadeSoFar, Empty, Inactive, IsKnown, ContainersOf, NetworksOf, RunningIn, BuiltFrom
    <3> QED  BY <1>0, <2>1, <2>3, <2>5, <3>2, <3>3 DEF DeployPart, RollsBack
  <2>6. DeployPart'
    BY <2>4, <2>5
  <2> QED  BY <1>0, <1>2, <2>6 DEF LocalInv, DeployPart, Returned, Running, At, Back, Forth
<1> QED  BY <1>0, <1>1, <1>2

LEMMA LocalStarts ==
    ASSUME TypeInv, LocalInv, StartLocal
    PROVE  LocalInv'
<1>1. /\ local' \in Manifests \ Secretive /\ stage' = "undeploy" /\ op' = Idle
      /\ msg' = [cmd |-> "UNDEPLOY", app |-> local'.id, man |-> None]
  BY DEF StartLocal, Started
<1>2. msg' # None
  BY <1>1, LocalMessages, MessageFacts
<1>3. op'.pc = "idle" /\ msg'.cmd = "UNDEPLOY" /\ msg'.app = local'.id
  BY <1>1 DEF Idle, Frame
<1> QED  BY <1>1, <1>2, <1>3 DEF LocalInv, Returned, At

\* The calls of ReadDeployManifestLocal are about its own app.
LEMMA LocalApp ==
    ASSUME TypeInv, LocalInv, Running, op.pc \notin Appless
    PROVE  op.app = local.id
<1>1. CASE stage = "undeploy"
  BY <1>1, LocalParts DEF UndeployPart, Appless
<1>2. CASE stage = "deploy"
  <2>1. DeployPart
    BY <1>2, LocalParts
  <2>2. InDeploy /\ op.pc # "idle"
    BY <2>1 DEF DeployPart, RollsBack, InDeploy, Forth, Appless
  <2>3. msg # None /\ op.app = msg.man.id
    BY <2>2, DeployContext, MessageFacts DEF TypeInv
  <2> QED  BY <2>1, <2>3 DEF DeployPart
<1> QED  BY <1>1, <1>2 DEF Running

\* The status that could not be published is saved, and true.
LEMMA LocalPanics ==
    ASSUME TypeInv, OwnInv, LocalInv, Panics
    PROVE  FileTells'
<1>0. /\ local' = local /\ local \in Manifests \ Secretive /\ StoreOK /\ op \in FrameType
      /\ stage \in {"undeploy", "deploy"} /\ Handler
  BY LocalParts DEF Panics, Running, TypeInv, HandlerOK
<1>1. op.app = local.id /\ local.id \in Apps
  <2>1. op.pc \notin Appless
    BY DEF Panics, SetsStatus, Undeploy, UndeployDone, DeployDone, ListContainersFails,
       RemoveContainerFails, PruneNetworksFails, SelectImagesFails, RemoveImageFails, PullFails,
       CreateNetworkFails, LateError, Forget, At, Appless
  <2> QED  BY <1>0, <2>1, LocalApp, ManifestFacts DEF Panics
<1>2. PICK a \in Apps : a = local.id
  BY <1>1
<1>3. CASE DeployDone
  <2>1. op.pc = "deployed" /\ msg # None
    BY <1>0, <1>3, HandlerNeedsMessage DEF DeployDone, At
  <2>2. stage = "deploy" /\ DeployPart
    BY <1>0, <2>1, LocalParts DEF UndeployPart, Undeploying
  <2>3. Deploying(a)
    BY <1>0, <1>2, <2>1, <2>2 DEF DeployPart, Deploying, Back
  <2>4. LocalVersion'
    BY <1>0, <1>3, <2>3, DeployEnds
  <2> QED  BY <2>4 DEF LocalVersion, FileTells, HasStatus, Inactive, IsKnown
<1>4. CASE UndeployDone /\ IsKnown(a)
  <2>1. Empty(a) /\ UNCHANGED <<containers, networks>> /\ SetStatus(a, "Undeployed")
    BY <1>1, <1>2, <1>4 DEF UndeployDone, RecordOnly, dockerVars, OwnInv, RemovalCovers, At
  <2>2. known[a] \in Record /\ known' = [known EXCEPT ![a].status = "Undeployed"] /\ file' = known'
    BY <1>0, <1>4, <2>1 DEF SetStatus, StoreOK, IsKnown
  <2>3. known'[a] = [known[a] EXCEPT !.status = "Undeployed"]
    BY <1>0, <2>2 DEF StoreOK
  <2>4. known'[a].status = "Undeployed"
    BY <2>2, <2>3 DEF Record
  <2> QED  BY <1>0, <1>2, <2>1, <2>2, <2>4 DEF FileTells, HasStatus, Empty, ContainersOf, NetworksOf
<1>5. CASE Forget
  <2>1. Empty(a) /\ UNCHANGED <<containers, networks>> /\ DeleteKnownManifest(a)
    BY <1>1, <1>2, <1>5 DEF Forget, dockerVars, OwnInv, RemovalCovers, At
  <2>2. known'[a] = None /\ file' = known'
    BY <1>0, <2>1 DEF DeleteKnownManifest, StoreOK
  <2> QED  BY <1>0, <1>2, <2>1, <2>2 DEF FileTells, HasStatus, IsKnown, Empty,
                    ContainersOf, NetworksOf
<1>6. CASE IsKnown(a) /\ \E s \in {"Executing", "Error"} : SetStatus(a, s)
  <2>1. PICK s \in {"Executing", "Error"} : SetStatus(a, s)
    BY <1>6
  <2>2. known[a] \in Record /\ known' = [known EXCEPT ![a].status = s] /\ file' = known'
    BY <1>0, <1>6, <2>1 DEF SetStatus, StoreOK, IsKnown
  <2>3. known'[a] = [known[a] EXCEPT !.status = s]
    BY <1>0, <2>2 DEF StoreOK
  <2>4. known'[a] \in Record /\ known'[a].status = s
    BY <2>2, <2>3 DEF Record, Status
  <2>5. known'[a] # None
    BY <2>4, EdgeAppAssumption
  <2> QED  BY <1>0, <1>2, <2>2, <2>4, <2>5 DEF FileTells, HasStatus, Inactive, IsKnown
<1>7. \/ DeployDone \/ (UndeployDone /\ IsKnown(a)) \/ Forget
      \/ IsKnown(a) /\ \E s \in {"Executing", "Error"} : SetStatus(a, s)
  BY <1>1, <1>2 DEF Panics, SetsStatus, Undeploy, ListContainersFails, RemoveContainerFails,
     PruneNetworksFails, SelectImagesFails, RemoveImageFails, PullFails,
     CreateNetworkFails, LateError
<1> QED  BY <1>3, <1>4, <1>5, <1>6, <1>7

LEMMA LocalGoesOn ==
    ASSUME TypeInv, LocalInv, UndeployReturned
    PROVE  LocalInv'
<1>1. /\ stage = "undeploy" /\ msg = None /\ last # None /\ last.ok = TRUE /\ stage' = "deploy"
      /\ msg' = [cmd |-> "DEPLOY", app |-> local.id, man |-> local]
      /\ UNCHANGED <<containers, networks, known, op, local>> /\ local \in Manifests
  BY DEF UndeployReturned, Returned, LocalInv, dockerVars, storeVars
<1>2. op.pc = "idle" /\ op.caller = "none"
  BY <1>1, AtRest
<1>3. Empty(local.id) /\ Inactive(local.id)
  BY <1>1, LocalParts DEF UndeployPart
<1>4. msg' # None
  BY <1>1, LocalMessages, MessageFacts
<1>5. MadeSoFar(local.id)'
  BY <1>1, <1>2, <1>3 DEF MadeSoFar, At, Empty, Inactive, IsKnown, ContainersOf, NetworksOf
<1>6. msg'.cmd = "DEPLOY" /\ msg'.man = local'
  BY <1>1
<1> QED  BY <1>1, <1>2, <1>4, <1>5, <1>6 DEF LocalInv, Returned, At

LEMMA LocalStep ==
    ASSUME TypeInv, OwnInv, LocalInv, [LocalNext]_localVars
    PROVE  LocalInv'
<1>1. CASE Serve
  BY <1>1 DEF Serve, LocalInv
<1>2. CASE StartLocal
  BY <1>2, LocalStarts
<1>3. CASE Called
  BY <1>3, LocalCalled
<1>8. CASE Panics
  BY <1>8, LocalPanics DEF Panics, Running, LocalInv
<1>9. CASE StartWithout
  BY <1>9 DEF StartWithout, LocalInv
<1>4. CASE UndeployReturned
  BY <1>4, LocalGoesOn
<1>5. CASE DeployReturned
  <2>1. LocalVersion /\ stage' = "connect" /\ UNCHANGED <<vars, local>>
              /\ local \in Manifests \ Secretive
    BY <1>5, LocalParts DEF DeployReturned, DeployPart, Returned, Running
  <2>2. LocalVersion'
    BY <2>1 DEF vars, dockerVars, storeVars, LocalVersion, HasStatus, IsKnown, RunningIn,
                ContainersOf, NetworksOf, BuiltFrom
  <2> QED  BY <2>1, <2>2 DEF LocalInv
<1>6. CASE Fatal
  BY <1>6 DEF Fatal, LocalInv, Returned, Running
<1>7. CASE UNCHANGED localVars
  <2>1. UNCHANGED <<op, msg, last, local, stage, known, file, containers, networks>>
    BY <1>7 DEF localVars, vars, dockerVars, storeVars, handlerVars
  <2>2. /\ LocalVersion => LocalVersion'
        /\ MadeSoFar(local.id) => MadeSoFar(local.id)'
        /\ FileTells => FileTells'
    BY <2>1 DEF LocalVersion, FileTells, MadeSoFar, Empty, Inactive, HasStatus, IsKnown, RunningIn,
                ContainersOf, NetworksOf, BuiltFrom, At
  <2> QED  BY <2>1, <2>2 DEF LocalInv, Returned, Running, At, RollsBack, Empty, Inactive, IsKnown,
                             ContainersOf, NetworksOf
<1> QED  BY <1>1, <1>2, <1>3, <1>4, <1>5, <1>6, <1>7, <1>8, <1>9 DEF LocalNext

\* What LocalInv says of the version is what the property asks for.
LEMMA LocalVersionServes ==
    ASSUME TypeInv, LocalVersion, local \in Manifests
    PROVE  IsServed(local)
<1>1. LocalVersion /\ local \in Manifests
  OBVIOUS
<1>2. local.id \in Apps /\ DOMAIN local.modules = 1 .. Len(local.modules)
  BY <1>1, ManifestFacts
<1>3. PICK net \in 0 .. MaxNetworkIndex : BuiltFrom(local.id, local, 1, net)
  BY <1>1 DEF LocalVersion
<1>4. Cardinality(ContainersOf(local.id)) = Len(local.modules)
  BY <1>1, <1>2, <1>3, OnePerModule DEF TypeInv
<1>5. {c.image : c \in ContainersOf(local.id)} = ModuleImages(local)
  <2>1. /\ \A c \in ContainersOf(local.id) :
                c.module \in 1 .. Len(local.modules) /\ c.image = local.modules[c.module]
        /\ \A k \in 1 .. Len(local.modules) : \E c \in ContainersOf(local.id) : c.module = k
    BY <1>3 DEF BuiltFrom
  <2> QED  BY <1>2, <2>1 DEF ModuleImages
<1>6. \A c \in ContainersOf(local.id) : c.state = "running"
  BY <1>1 DEF LocalVersion, RunningIn
<1>7. Cardinality({n \in networks : n.app = local.id}) = 1
  <2>1. {n \in networks : n.app = local.id} = {[app |-> local.id, count |-> net]}
    BY <1>3 DEF BuiltFrom, NetworksOf
  <2> QED  BY <2>1, FS_Singleton
<1> QED  BY <1>4, <1>5, <1>6, <1>7 DEF IsServed

LEMMA LocalInvTells ==
    ASSUME TypeInv, LocalInv
    PROVE  LocalRecordIsTrue
<1> SUFFICES ASSUME stage \in {"connect", "panicked"}
             PROVE  LET rec == file[local.id] IN
                    /\ stage = "connect" => rec # None /\ rec.status = "Running"
                    /\ rec = None \/ rec.status = "Undeployed" => Empty(local.id)
                    /\ rec # None /\ rec.status = "Running" =>
                            rec.man = local /\ IsServed(local)
  BY DEF LocalRecordIsTrue
<1>1. local \in Manifests /\ file[local.id] = known[local.id]
      /\ (stage = "connect" => LocalVersion) /\ (stage = "panicked" => FileTells)
  BY DEF LocalInv, LocalVersion, FileTells
<1>2. LocalVersion => IsServed(local)
  BY <1>1, LocalVersionServes
<1> QED  BY <1>1, <1>2 DEF FileTells, LocalVersion, HasStatus, Inactive, IsKnown

\* However a start with --manifest ends - at the panic over its first status, or in the
\* serving process if no status could be read - the file says of the app what is on the
\* host: Running only for the manifest of the option, whole and alone, Undeployed or no
\* record only when nothing is left.  For any manifests, any life of the processes before,
\* and any failing calls (local_deploy.go 12-31, edgeapp.go 18-280, mqtt.go 29 and 180).
THEOREM LocalStartLeavesTruth == LocalSpec => []LocalRecordIsTrue
<1>1. LocalInit => TypeInv /\ OwnInv /\ LocalInv
  <2>1. Init => OwnInv
    BY DEF Init, OwnInv, NetworksDistinct, IdsUnique, RemovalCovers, OwnWork, At, Idle, Frame
  <2>2. LocalInit => LocalInv
    BY DEF LocalInit, LocalInv
  <2> QED  BY <2>1, <2>2, TypeInit DEF LocalInit
<1>2. TypeInv /\ OwnInv /\ LocalInv /\ [LocalNext]_localVars => (TypeInv /\ OwnInv /\ LocalInv)'
  BY LocalBasics, LocalStep
<1>3. TypeInv /\ LocalInv => LocalRecordIsTrue
  BY LocalInvTells
<1> QED  BY <1>1, <1>2, <1>3, PTL DEF LocalSpec

------------------------------------------------------------------------------
(* Types                                                                   *)

\* A frame and the record its reader is at.
FrameIsFit(f, k) ==
    /\ f.pc \in {"list", "count", "inspect"} =>
            /\ f.app \in Apps /\ f.status \in Status
            /\ (IF f.held = None THEN k[f.app] ELSE f.held) \in Record
    /\ f.pc = "publish" => f.node \in {"Connected", "Deleted"}

LEMMA ReaderFacts ==
    ASSUME ReportOK, NEW r \in Team
    PROVE  reader[r] \in ReaderFrame /\ FrameIsFit(reader[r], known)
BY DEF ReportOK, Team, FrameIsFit, Rec

LEMMA ReaderStep ==
    ASSUME ReportOK, NEW r \in Team, NEW f \in ReaderFrame, ReaderTo(r, f), FrameIsFit(f, known),
           UNCHANGED <<known, changes>>, seen' \in Seq(Said),
           retained' = retained
           \/ retained' \in [node : {"Connected", "Deleted"}, apps : SUBSET Said]
    PROVE  ReportOK' /\ Team' = Team /\ reader'[r] = f
           /\ \A q \in Team : q # r => reader'[q] = reader[q]
<1>1. /\ reader' \in [Team -> ReaderFrame] /\ Team' = Team /\ reader'[r] = f
      /\ \A q \in Team : q # r => reader'[q] = reader[q]
  BY DEF ReportOK, ReaderTo, Team
<1>2. \A q \in Team : FrameIsFit(reader'[q], known)
  BY <1>1, ReaderFacts
<1> QED  BY <1>1, <1>2 DEF ReportOK, FrameIsFit, Rec

LEMMA AsleepOK ==
    /\ Asleep \in ReaderFrame /\ Asleep.pc = "sleep"
    /\ \A k : FrameIsFit(Asleep, k)
<1>1. <<>> \in Seq(Said)
  OBVIOUS
<1> QED  BY <1>1 DEF Asleep, ReaderFrame, FrameIsFit

LEMMA StartReadingOK ==
    ASSUME ReportOK, NEW r \in Team
    PROVE  StartReading(r) \in ReaderFrame /\ StartReading(r).pc = "app"
           /\ StartReading(r).report = <<>>
<1>1. <<>> \in Seq(Said)
  OBVIOUS
<1> QED  BY <1>1, ReaderFacts DEF StartReading, Asleep, ReaderFrame

LEMMA AppendedOK ==
    ASSUME ReportOK, NEW r \in Team, NEW a \in Apps, NEW s \in Status
    PROVE  Append(reader[r].report, Entry(a, s)) \in Seq(Said)
<1>1. Entry(a, s) \in Said
  BY DEF Entry, Said
<1> QED  BY <1>1, ReaderFacts DEF ReaderFrame

LEMMA ReporterOK ==
    ASSUME TypeInv, ReportOK, NEW r \in Team, Reporter(r)
    PROVE  ReportOK'
<1> DEFINE f == reader[r]
<1>0. /\ f \in ReaderFrame /\ FrameIsFit(f, known) /\ StoreOK
      /\ seen \in Seq(Said) /\ UNCHANGED <<known, changes>>
  <2>1. ReaderOnly
    BY DEF Reporter, Wake, ReadApp, ReadContainers, CountContainers, InspectContainer, AppRead,
           ReadingFails, Compose, Publish, PublishFails, MonitorCompares
  <2> QED  BY <2>1, ReaderFacts DEF ReportOK, TypeInv, ReaderOnly, storeVars
<1> DEFINE Quiet == seen' = seen /\ retained' = retained
<1>a. ASSUME NEW g \in ReaderFrame, ReaderTo(r, g), FrameIsFit(g, known), Quiet
      PROVE  ReportOK'
  BY <1>0, <1>a, ReaderStep
<1>1. CASE Wake(r)
  <2>1. [StartReading(r) EXCEPT !.sending = (r = "heartbeat")] \in ReaderFrame
    BY StartReadingOK DEF ReaderFrame
  <2>2. FrameIsFit([StartReading(r) EXCEPT !.sending = (r = "heartbeat")], known)
    BY StartReadingOK DEF ReaderFrame, FrameIsFit
  <2> QED  BY <1>1, <1>a, <2>1, <2>2 DEF Wake
<1>2. CASE ReadApp(r)
  <2>1. PICK a \in Apps \ Reported(r) :
            /\ IsKnown(a)
            /\ ReaderTo(r,
                IF known[a].status = "Undeployed"
                THEN [f EXCEPT !.todo = @ \ {a}, !.report = Append(@, Entry(a, "Undeployed"))]
                ELSE [f EXCEPT !.pc = "list", !.app = a, !.status = known[a].status])
    BY <1>2 DEF ReadApp
  <2>2. f.pc = "app" /\ Quiet
    BY <1>2 DEF ReadApp, AtReader
  <2>3. known[a] \in Record /\ known[a].status \in Status
    BY <1>0, <2>1 DEF StoreOK, IsKnown, Record
  <2>4. CASE known[a].status = "Undeployed"
    <3> DEFINE g == [f EXCEPT !.todo = @ \ {a}, !.report = Append(@, Entry(a, "Undeployed"))]
    <3>1. Append(f.report, Entry(a, "Undeployed")) \in Seq(Said)
      BY AppendedOK DEF Status
    <3>2. g \in ReaderFrame /\ FrameIsFit(g, known)
      BY <1>0, <2>2, <3>1 DEF ReaderFrame, FrameIsFit
    <3> QED  BY <1>a, <2>1, <2>2, <2>4, <3>2
  <2>5. CASE known[a].status # "Undeployed"
    <3> DEFINE g == [f EXCEPT !.pc = "list", !.app = a, !.status = known[a].status]
    <3>1. g \in ReaderFrame
      BY <1>0, <2>3 DEF ReaderFrame
    <3>2. FrameIsFit(g, known)
      BY <1>0, <2>2, <2>3 DEF ReaderFrame, FrameIsFit
    <3> QED  BY <1>a, <2>1, <2>2, <2>5, <3>1, <3>2
  <2> QED  BY <2>4, <2>5
<1>3. CASE ReadContainers(r)
  <2> DEFINE g == [f EXCEPT !.pc = "count", !.cons = ContainersOf(f.app)]
  <2>1. ContainersOf(f.app) \subseteq Container
    BY DEF TypeInv, HostOK, ContainersOf
  <2>2. g \in ReaderFrame /\ FrameIsFit(g, known)
    BY <1>0, <1>3, <2>1 DEF ReadContainers, AtReader, ReaderFrame, FrameIsFit
  <2> QED  BY <1>3, <1>a, <2>2 DEF ReadContainers
<1>4. CASE CountContainers(r)
  <2> DEFINE s == IF Miscounted(Rec(r), f.cons) THEN "Error" ELSE f.status
             g == [f EXCEPT !.pc = "inspect", !.status = s]
  <2>1. s \in Status
    BY <1>0, <1>4 DEF CountContainers, AtReader, FrameIsFit, Status
  <2> HIDE DEF s
  <2>2. g \in ReaderFrame /\ FrameIsFit(g, known)
    BY <1>0, <1>4, <2>1 DEF CountContainers, AtReader, ReaderFrame, FrameIsFit
  <2> USE DEF s
  <2>3. ReaderTo(r, g)
    BY <1>4 DEF CountContainers
  <2> HIDE DEF s, g
  <2> QED  BY <1>4, <1>a, <2>2, <2>3 DEF CountContainers
<1>5. CASE InspectContainer(r)
  <2>1. PICK c \in f.cons :
            ReaderTo(r, [f EXCEPT !.cons = @ \ {c},
                                  !.status = IF Afflicted(Rec(r), c) THEN "Error" ELSE @])
    BY <1>5 DEF InspectContainer
  <2> DEFINE s == IF Afflicted(Rec(r), c) THEN "Error" ELSE f.status
             g == [f EXCEPT !.cons = @ \ {c}, !.status = s]
  <2>2. s \in Status
    BY <1>0, <1>5 DEF InspectContainer, AtReader, FrameIsFit, Status
  <2>3. ReaderTo(r, g)
    BY <2>1
  <2> HIDE DEF s
  <2>4. g \in ReaderFrame /\ FrameIsFit(g, known)
    BY <1>0, <1>5, <2>2 DEF InspectContainer, AtReader, ReaderFrame, FrameIsFit
  <2> HIDE DEF g
  <2> QED  BY <1>5, <1>a, <2>3, <2>4 DEF InspectContainer
<1>6. CASE AppRead(r)
  <2>1. Append(f.report, Entry(f.app, f.status)) \in Seq(Said)
    BY <1>0, <1>6, AppendedOK DEF AppRead, AtReader, FrameIsFit
  <2>2. Appended(r, f.status) \in ReaderFrame /\ FrameIsFit(Appended(r, f.status), known)
    BY <1>0, <2>1 DEF Appended, ReaderFrame, FrameIsFit
  <2> QED  BY <1>6, <1>a, <2>2 DEF AppRead
<1>7. CASE ReadingFails(r)
  BY <1>7, <1>a, AsleepOK DEF ReadingFails
<1>8. CASE Compose(r)
  <2> DEFINE g == [f EXCEPT !.pc = "publish", !.node = nodeStatus]
  <2>1. g \in ReaderFrame /\ FrameIsFit(g, known)
    BY <1>0 DEF ReaderFrame, FrameIsFit, TypeInv, HandlerOK
  <2> QED  BY <1>8, <1>a, <2>1 DEF Compose
<1>9. CASE Publish(r) \/ PublishFails(r)
  <2>1. ReaderTo(r, Asleep) /\ seen' \in Seq(Said)
    BY <1>0, <1>9 DEF Publish, PublishFails, ReaderFrame
  <2>2. \/ retained' = retained
        \/ retained' \in [node : {"Connected", "Deleted"}, apps : SUBSET Said]
    <3>1. CASE PublishFails(r)
      BY <3>1 DEF PublishFails
    <3>2. CASE Publish(r)
      <4>1. retained' = [node |-> f.node, apps |-> ReportOf(f.report)] /\ f.pc = "publish"
        BY <3>2 DEF Publish, AtReader
      <4>2. ReportOf(f.report) \subseteq Said
        BY <1>0 DEF ReportOf, ReaderFrame
      <4>3. f.node \in {"Connected", "Deleted"}
        BY <1>0, <4>1 DEF FrameIsFit
      <4> QED  BY <4>1, <4>2, <4>3
    <3> QED  BY <1>9, <3>1, <3>2
  <2> QED  BY <1>0, <2>1, <2>2, AsleepOK, ReaderStep
<1>10. CASE MonitorCompares(r)
  <2> DEFINE g == [StartReading(r) EXCEPT !.sending = TRUE, !.latest = f.report]
  <2>1. g \in ReaderFrame /\ FrameIsFit(g, known)
    BY <1>0, StartReadingOK DEF ReaderFrame, FrameIsFit
  <2> QED  BY <1>10, <1>a, <2>1, AsleepOK DEF MonitorCompares
<1> QED  BY <1>1, <1>2, <1>3, <1>4, <1>5, <1>6, <1>7, <1>8, <1>9, <1>10 DEF Reporter

LEMMA SeenByOK ==
    ASSUME StoreOK, StoreOK', NEW f \in ReaderFrame, FrameIsFit(f, known)
    PROVE  /\ SeenBy(f) \in ReaderFrame /\ FrameIsFit(SeenBy(f), known')
           /\ SeenBy(f).pc = f.pc /\ SeenBy(f).report = f.report
           /\ SeenBy(f).moved = TRUE \/ f.pc = "sleep"
<1>1. CASE f.pc = "sleep"
  BY <1>1 DEF SeenBy, FrameIsFit
<1>2. CASE f.pc # "sleep"
  <2> DEFINE held == IF f.app # None /\ f.held = None /\ Replaced(f.app)
                     THEN known[f.app] ELSE f.held
             todo == {a \in f.todo : known'[a] # None}
  <2>1. SeenBy(f) = [f EXCEPT !.moved = TRUE, !.todo = todo, !.held = held]
    BY <1>2 DEF SeenBy
  <2>2. held \in Record \cup {None} /\ todo \subseteq Apps
    BY DEF ReaderFrame, StoreOK
  <2>3. ASSUME f.pc \in {"list", "count", "inspect"}
        PROVE  (IF held = None THEN known'[f.app] ELSE held) \in Record
    <3>1. f.app \in Apps /\ (IF f.held = None THEN known[f.app] ELSE f.held) \in Record
      BY <2>3 DEF FrameIsFit
    <3>2. None \notin Apps \cup Record
      BY EdgeAppAssumption
    <3>3. CASE f.held # None
      BY <3>1, <3>3
    <3>4. CASE f.held = None /\ Replaced(f.app)
      BY <3>1, <3>2, <3>4
    <3>5. CASE f.held = None /\ ~Replaced(f.app)
      <4>1. known'[f.app] # None
        BY <3>1, <3>2, <3>5 DEF Replaced, IsKnown
      <4> QED  BY <3>1, <3>5, <4>1 DEF StoreOK
    <3> QED  BY <3>3, <3>4, <3>5
  <2> HIDE DEF held, todo
  <2>4. /\ SeenBy(f) \in ReaderFrame /\ SeenBy(f).pc = f.pc /\ SeenBy(f).report = f.report
        /\ SeenBy(f).held = held /\ SeenBy(f).app = f.app /\ SeenBy(f).status = f.status
        /\ SeenBy(f).node = f.node /\ SeenBy(f).moved = TRUE
    BY <2>1, <2>2 DEF ReaderFrame
  <2>5. FrameIsFit(SeenBy(f), known')
    BY <2>3, <2>4 DEF FrameIsFit
  <2> QED  BY <2>4, <2>5
<1> QED  BY <1>1, <1>2

LEMMA HandlerReportOK ==
    ASSUME TypeInv'
    PROVE  HandlerReport' \in [node : {"Connected", "Deleted"}, apps : SUBSET Said]
<1> DEFINE Told(a) == IF \/ Miscounted(known'[a], ContainersOf(a)')
                         \/ \E c \in ContainersOf(a)' : Afflicted(known'[a], c)
                      THEN "Error" ELSE known'[a].status
<1>1. nodeStatus' \in {"Connected", "Deleted"}
  BY DEF TypeInv, HandlerOK
<1>2. \A a \in Apps : IsKnown(a)' => Told(a) \in Status
  BY DEF TypeInv, StoreOK, IsKnown, Record, Status
<1>3. HandlerReport' = [node |-> nodeStatus', apps |-> {Entry(a, Told(a)) : a \in {b \in Apps : IsKnown(b)'}}]
  BY DEF HandlerReport
<1> HIDE DEF Told
<1>4. \A a \in Apps : IsKnown(a)' => Entry(a, Told(a)) \in Said
  BY <1>2 DEF Entry, Said
<1>5. {Entry(a, Told(a)) : a \in {b \in Apps : IsKnown(b)'}} \subseteq Said
  BY <1>4
<1> QED  BY <1>1, <1>3, <1>5

LEMMA WatchedOK ==
    ASSUME ReportOK, StoreOK, StoreOK', Watched, seen' = seen, changes' \in Nat,
           retained' = retained
           \/ retained' \in [node : {"Connected", "Deleted"}, apps : SUBSET Said]
    PROVE  ReportOK' /\ Team' = Team /\ \A r \in Team : reader'[r] = SeenBy(reader[r])
<1>1. Team' = Team /\ \A r \in Team : reader'[r] = SeenBy(reader[r])
  BY DEF Watched, Team
<1>2. \A r \in Team : SeenBy(reader[r]) \in ReaderFrame /\ FrameIsFit(SeenBy(reader[r]), known')
  BY ReaderFacts, SeenByOK
<1>3. reader' \in [Team -> ReaderFrame]
  BY <1>2 DEF Watched
<1> QED  BY <1>1, <1>2, <1>3 DEF ReportOK, FrameIsFit, Rec

\* Seen from EdgeApp, a reporter only makes calls that may fail.
LEMMA ReportTypes ==
    ASSUME TypeInv, [ReportNext]_reportingVars
    PROVE  TypeInv'
<1>1. CASE ReceiveMessage \/ HandlerReports \/ EngineChanges
  <2>1. [CrashNext]_vars
    BY <1>1 DEF ReceiveMessage, HandlerReports, EngineChanges, CrashNext, Next
  <2> QED  BY <2>1, TypeStep
<1>2. CASE \E r \in Team : Reporter(r)
  <2>1. PICK r \in Team : Reporter(r)
    BY <1>2
  <2>2. UNCHANGED <<dockerVars, storeVars, handlerVars, commands, crashes>>
        /\ (NoFault \/ Fault)
    BY <2>1 DEF Reporter, Wake, ReadApp, ReadContainers, CountContainers, InspectContainer, AppRead,
       ReadingFails, Compose, Publish, PublishFails, MonitorCompares, ReaderOnly
  <2>3. faults' \in Nat
    BY <2>2 DEF TypeInv, CountersOK, NoFault, Fault
  <2>4. HandlerOK'
    BY <2>2 DEF TypeInv, HandlerOK, FrameFits, InDeploy, handlerVars
  <2> QED  BY <2>2, <2>3, <2>4, HostKept, StoreKept DEF TypeInv, CountersOK
<1>3. CASE UNCHANGED reportingVars
  BY <1>3, TypeStep DEF reportingVars
<1> QED  BY <1>1, <1>2, <1>3 DEF ReportNext

LEMMA ReportStep ==
    ASSUME TypeInv, ReportOK, [ReportNext]_reportingVars
    PROVE  ReportOK'
<1>1. StoreOK /\ TypeInv' /\ StoreOK'
  BY ReportTypes DEF TypeInv
<1>2. CASE ReceiveMessage
  BY <1>2 DEF ReceiveMessage, Receive, storeVars, reportVars, ReportOK, Team, Rec
<1>3. CASE HandlerReports
  <2>1. \/ retained' = retained
        \/ retained' \in [node : {"Connected", "Deleted"}, apps : SUBSET Said]
    BY <1>1, <1>3, HandlerReportOK DEF HandlerReports, HandlerSends
  <2> QED  BY <1>1, <1>3, <2>1, WatchedOK DEF HandlerReports, ReportOK
<1>4. CASE EngineChanges
  <2>1. changes' \in Nat
    BY <1>4 DEF EngineChanges, ReportOK
  <2> QED  BY <1>1, <1>4, <2>1, WatchedOK DEF EngineChanges
<1>5. CASE \E r \in Team : Reporter(r)
  BY <1>5, ReporterOK
<1>6. CASE UNCHANGED reportingVars
  BY <1>6 DEF reportingVars, vars, storeVars, reportVars, ReportOK, Team, Rec
<1> QED  BY <1>2, <1>3, <1>4, <1>5, <1>6 DEF ReportNext

LEMMA AlwaysReportOK == ReportSpec => [](TypeInv /\ ReportOK)
<1>1. ReportInit => TypeInv /\ ReportOK
  <2>1. ReportInit => ReportOK
    <3>1. <<>> \in Seq(Said)
      OBVIOUS
    <3>2. ASSUME ReportInit
          PROVE  reader \in [Team -> ReaderFrame] /\ \A r \in Team : reader[r] = Asleep
      BY <3>2, AsleepOK DEF ReportInit, Team
    <3> QED  BY <3>1, <3>2, AsleepOK DEF ReportInit, ReportOK
  <2> QED  BY <2>1, TypeInit DEF ReportInit
<1>2. TypeInv /\ ReportOK /\ [ReportNext]_reportingVars => (TypeInv /\ ReportOK)'
  BY ReportTypes, ReportStep
<1> QED  BY <1>1, <1>2, PTL DEF ReportSpec

------------------------------------------------------------------------------
(* The monitor                                                             *)

\* Two readings that do not differ have every status at the same positions.
LEMMA SameCounts ==
    ASSUME NEW old \in Seq(Said), NEW new \in Seq(Said), ~Differs(old, new), NEW s
    PROVE  HowMany(old, s) = HowMany(new, s)
<1>1. Len(old) = Len(new) /\ \A k \in DOMAIN old : old[k].status = new[k].status
  BY DEF Differs
<1>2. DOMAIN old = DOMAIN new
  BY <1>1
<1>3. {k \in DOMAIN old : old[k].status = s} = {k \in DOMAIN new : new[k].status = s}
  BY <1>1, <1>2
<1> QED  BY <1>3 DEF HowMany

\* A step of one reporter is none of another.
LEMMA OtherReader ==
    ASSUME ReportOK, NEW q \in Team, NEW r \in Team, q # r, Reporter(q)
    PROVE  reader'[r] = reader[r]
<1>1. \E g : ReaderTo(q, g)
  BY DEF Reporter, Wake, ReadApp, ReadContainers, CountContainers, InspectContainer, AppRead,
         ReadingFails, Compose, Publish, PublishFails, MonitorCompares
<1> QED  BY <1>1 DEF ReaderTo, ReportOK

\* When the number of apps with some status is not what it was, the monitor goes on to
\* tell so, in whatever order the apps are listed, for any apps and containers
\* (CompareEdgeAppStatus, status.go 114-122; agent.go 178-204).
THEOREM MonitorTellsChanges == ReportSpec => MonitorNotices
<1> DEFINE Notices == \A r \in Team :
                        r = "monitor" /\ ReadingDone(r) /\ ~reader[r].sending
                        /\ (\E s \in Status : HowMany(seen, s) # HowMany(reader[r].report, s))
                            => reader'[r].pc # "sleep"
<1>1. TypeInv /\ ReportOK /\ [ReportNext]_reportingVars => [Notices]_reportingVars
  <2> SUFFICES ASSUME TypeInv, ReportOK, ReportNext, NEW r \in Team, r = "monitor",
                      ReadingDone(r), ~reader[r].sending,
                      \E s \in Status : HowMany(seen, s) # HowMany(reader[r].report, s)
               PROVE  reader'[r].pc # "sleep"
    OBVIOUS
  <2>0. reader[r] \in ReaderFrame /\ reader[r].pc = "app" /\ seen \in Seq(Said)
        /\ reader[r].report \in Seq(Said) /\ FrameIsFit(reader[r], known) /\ StoreOK /\ StoreOK'
    BY ReaderFacts, ReportTypes DEF ReadingDone, AtReader, ReportOK, ReaderFrame, TypeInv
  <2>1. CASE ReceiveMessage
    BY <2>0, <2>1 DEF ReceiveMessage, reportVars
  <2>2. CASE HandlerReports \/ EngineChanges
    <3>1. reader'[r] = SeenBy(reader[r])
      BY <2>2 DEF HandlerReports, EngineChanges, Watched
    <3> QED  BY <2>0, <3>1, SeenByOK
  <2>3. CASE \E q \in Team : q # r /\ Reporter(q)
    BY <2>0, <2>3, OtherReader
  <2>4. CASE Reporter(r)
    <3>1. \A g : ReaderTo(r, g) => reader'[r] = g
      BY DEF ReaderTo, ReportOK
    <3>2. CASE ReadApp(r)
      <4>1. \/ \E a : ReaderTo(r, [reader[r] EXCEPT !.todo = @ \ {a},
                                        !.report = Append(@, Entry(a, "Undeployed"))])
            \/ \E a : ReaderTo(r, [reader[r] EXCEPT !.pc = "list", !.app = a,
                                                    !.status = known[a].status])
        BY <3>2 DEF ReadApp
      <4>2. reader'[r].pc \in {"app", "list"}
        BY <2>0, <3>1, <4>1 DEF ReaderFrame
      <4> QED  BY <4>2
    <3>3. CASE MonitorCompares(r)
      <4>1. Differs(seen, reader[r].report)
        BY <2>0, SameCounts
      <4>2. reader'[r] = [StartReading(r) EXCEPT !.sending = TRUE, !.latest = reader[r].report]
        BY <3>1, <3>3, <4>1 DEF MonitorCompares
      <4> QED  BY <4>2, StartReadingOK DEF ReaderFrame
    <3> QED  BY <2>0, <2>4, <3>2, <3>3 DEF Reporter, Wake, ReadContainers, CountContainers,
             InspectContainer, AppRead, ReadingFails, Compose, Publish, PublishFails, AtReader
  <2> QED  BY <2>1, <2>2, <2>3, <2>4 DEF ReportNext
<1>2. ReportSpec => [][Notices]_reportingVars
  BY <1>1, AlwaysReportOK, PTL DEF ReportSpec
<1> QED  BY <1>2 DEF MonitorNotices

------------------------------------------------------------------------------
(* Where containers are                                                    *)

\* What holds of every handler, whoever reports.
Base == TypeInv /\ OwnInv /\ SInv /\ EmptyInv

LEMMA BaseStep ==
    ASSUME Base, [ReportNext]_reportingVars
    PROVE  Base'
<1>1. TypeInv'
  BY ReportTypes DEF Base
<1>2. CASE ReceiveMessage \/ HandlerReports \/ EngineChanges \/ UNCHANGED reportingVars
  <2>1. [Next]_vars /\ [CrashNext]_vars
    BY <1>2 DEF ReceiveMessage, HandlerReports, EngineChanges, CrashNext, Next, reportingVars
  <2> QED  BY <1>1, <2>1, OwnStep, SInvStep, EmptyStep DEF Base
<1>3. CASE \E r \in Team : Reporter(r)
  <2>1. PICK r \in Team : Reporter(r)
    BY <1>3
  <2>2. UNCHANGED <<dockerVars, storeVars, handlerVars, commands, crashes>>
        /\ (NoFault \/ Fault)
    BY <2>1 DEF Reporter, Wake, ReadApp, ReadContainers, CountContainers, InspectContainer, AppRead,
       ReadingFails, Compose, Publish, PublishFails, MonitorCompares, ReaderOnly
  <2>3. faults' = 0 => faults = 0
    BY <2>2 DEF Base, TypeInv, CountersOK, NoFault, Fault
  <2>4. UNCHANGED <<containers, networks, known, op, msg, crashes>>
    BY <2>2 DEF dockerVars, storeVars, handlerVars
  <2>5. OwnInv'
    BY <2>4 DEF Base, OwnInv, NetworksDistinct, IdsUnique, RemovalCovers, OwnWork, At, Ids, Empty,
                ContainersOf, NetworksOf
  <2>6. EmptyInv'
    BY <2>4 DEF Base, EmptyInv, InactiveIsEmpty, NetworksDistinct, RemovalCovers, RecordFirst, At,
                Inactive, IsKnown, Ids, Empty, ContainersOf, NetworksOf
  <2>7. Statuses' = Statuses
    BY <2>4 DEF Statuses, LifeStatus, IsKnown
  <2>8. SInv'
    BY <2>3, <2>4, <2>7 DEF Base, SInv, Unsettled
  <2> QED  BY <1>1, <2>5, <2>6, <2>8 DEF Base
<1> QED  BY <1>2, <1>3 DEF ReportNext

LEMMA PlacedKept ==
    ASSUME NEW a, NEW man, NEW k, NEW net, PlacedFrom(a, man, k, net),
           Places(a)' \subseteq Places(a), Unstable = {} => Places(a)' = Places(a),
           faults' = 0 => faults = 0
    PROVE  PlacedFrom(a, man, k, net)'
BY DEF PlacedFrom

LEMMA SamePlace ==
    ASSUME NEW a, ContainersOf(a)' = ContainersOf(a)
    PROVE  Places(a)' = Places(a)
BY DEF Places

LEMMA ContainerToPlaces ==
    ASSUME HostOK, NEW id, NEW s, ContainerTo(id, s), NEW a
    PROVE  Places(a)' = Places(a)
<1> DEFINE To(c) == IF c.id = id THEN [c EXCEPT !.state = s] ELSE c
           Place(c) == [id |-> c.id, net |-> c.net, module |-> c.module]
<1>1. \A c \in containers : To(c).app = c.app /\ Place(To(c)) = Place(c)
  BY DEF HostOK, Container
<1>2. containers' = {To(c) : c \in containers}
  BY DEF ContainerTo
<1> HIDE DEF To
<1>3. ContainersOf(a)' = {To(c) : c \in ContainersOf(a)} /\ ContainersOf(a) \subseteq containers
  BY <1>1, <1>2 DEF ContainersOf
<1>4. Places(a)' = {Place(d) : d \in ContainersOf(a)'} /\ Places(a) = {Place(c) : c \in ContainersOf(a)}
  BY DEF Places
<1> HIDE DEF Place
<1> QED  BY <1>1, <1>3, <1>4

\* Only the making and the removal of a container change where containers are.
LEMMA HandlerPlaces ==
    ASSUME TypeInv, OwnInv, SInv, Handler
    PROVE  /\ \A b : b # op.app => Places(b)' = Places(b)
           /\ op.pc \notin {"create", "removeContainers"} => \A b : Places(b)' = Places(b)
<1>1. \A b : b # op.app => Places(b)' = Places(b)
  <2>1. \A b : b # op.app => ContainersOf(b)' = ContainersOf(b)
    BY HandlerHost, OwnHost DEF LifeContent
  <2> QED  BY <2>1, SamePlace
<1>2. \/ op.pc \in {"create", "removeContainers"} \/ containers' = containers
      \/ \E id, s : ContainerTo(id, s)
  <2>1. Deploy => op.pc = "create" \/ containers' = containers \/ \E id, s : ContainerTo(id, s)
    BY DEF Deploy, DeployFresh, DeployNewVersion, DeployRejected, Add, InspectFails,
       ImagePresent, Pull, PullErrorUnseen, PullFails, CreateAppNetwork, CreateNetworkFails,
       CreateNetwork, CreateContainer, CreateContainerFails, StartModule, StartModuleFails,
       DeployDone, LateError, Neither, RecordOnly, Fails, FailsOn, PullImage, StartContainer,
       dockerVars, At
  <2>2. Stop \/ Resume => containers' = containers \/ \E id, s : ContainerTo(id, s)
    BY DEF Stop, StopRefused, StopBegin, StopNext, StopFails, StopDone, Resume, ResumeRefused,
       ResumeBegin, ResumeNext, ResumeFails, ResumeDone, Neither, RecordOnly, Fails, FailsOn,
       StartContainer, StopContainer, dockerVars
  <2>3. UndeployEdgeApp => op.pc = "removeContainers" \/ containers' = containers
    BY DEF UndeployEdgeApp, UndeployRejected, UndeployBegin, Undeploy, ListContainers,
       ListContainersFails, RemoveContainer, RemoveContainerFails, PruneNetworks,
       PruneNetworksFails, UndeployDone, UndeployIncomplete, Neither, RecordOnly, dockerVars, At
  <2>4. RemoveEdgeApp \/ DeleteNode => containers' = containers
    BY DEF RemoveEdgeApp, SelectImages, SelectImagesFails, RemoveImage, RemoveImageFails,
       ImagesRemain, Forget, DeleteNode, DeleteBegin, DeleteNext, DeleteLast, SetNodeDeleted,
       Neither, Fails, ImageRemove, dockerVars
  <2> QED  BY <2>1, <2>2, <2>3, <2>4 DEF Handler
<1>3. containers' = containers => \A b : Places(b)' = Places(b)
  BY DEF Places, ContainersOf
<1> QED  BY <1>1, <1>2, <1>3, ContainerToPlaces DEF TypeInv

------------------------------------------------------------------------------
(* Apps that are called Running or Stopped have been made so               *)

\* What a handler does to the record: only the last step of a chain calls an app
\* Running or Stopped.
StatusEffect ==
    \/ UNCHANGED storeVars
    \/ \E b, s : s \in {"Error", "Executing"} /\ SetStatus(b, s)
    \/ op.pc \in {"deployed", "stop", "resume"} /\ \E s \in Status : SetStatus(op.app, s)
    \/ Add \/ UndeployDone \/ Forget

LEMMA HandlerStatus ==
    ASSUME Handler
    PROVE  StatusEffect
<1> USE DEF StatusEffect
<1>0. {"Error", "Executing", "Running", "Stopped"} \subseteq Status
  BY DEF Status
<1>1. Deploy => StatusEffect
  BY <1>0 DEF Deploy, DeployFresh, DeployNewVersion, DeployRejected, InspectFails, ImagePresent,
         Pull, PullErrorUnseen, PullFails, CreateAppNetwork, CreateNetworkFails, CreateContainer,
         CreateContainerFails, StartModule, StartModuleFails, DeployDone, LateError, Neither,
         HostOnly, RecordOnly, At
<1>2. Stop \/ Resume => StatusEffect
  BY <1>0 DEF Stop, StopRefused, StopBegin, StopNext, StopFails, StopDone, Resume, ResumeRefused,
         ResumeBegin, ResumeNext, ResumeFails, ResumeDone, Neither, HostOnly, RecordOnly, At
<1>3. UndeployEdgeApp => StatusEffect
  BY DEF UndeployEdgeApp, UndeployRejected, UndeployBegin, Undeploy, ListContainers,
         ListContainersFails, RemoveContainer, RemoveContainerFails, PruneNetworks,
         PruneNetworksFails, UndeployIncomplete, Neither, HostOnly
<1>4. RemoveEdgeApp \/ DeleteNode => StatusEffect
  BY DEF RemoveEdgeApp, SelectImages, SelectImagesFails, RemoveImage, RemoveImageFails,
         ImagesRemain, DeleteNode, DeleteBegin, DeleteNext, DeleteLast, SetNodeDeleted, Neither,
         HostOnly
<1> QED  BY <1>1, <1>2, <1>3, <1>4 DEF Handler

LEMMA SettledRecord ==
    ASSUME TypeInv, Handler, NEW b \in Apps, (HasStatus(b, "Running") \/ HasStatus(b, "Stopped"))'
    PROVE  \/ known'[b] = known[b]
           \/ /\ IsKnown(b) /\ known'[b].man = known[b].man
              /\ b = op.app /\ op.pc \in {"deployed", "stop", "resume"}
<1>1. /\ known'[b] # None /\ known'[b].status \in {"Running", "Stopped"}
      /\ known \in [Apps -> Record \cup {None}]
  BY DEF HasStatus, IsKnown, TypeInv, StoreOK
<1>2. ASSUME NEW x, NEW s, SetStatus(x, s)
      PROVE  \/ known'[b] = known[b]
             \/ b = x /\ IsKnown(b) /\ known'[b].man = known[b].man /\ known'[b].status = s
  <2>1. known'[b] = known[b] \/ (b = x /\ IsKnown(b) /\ known'[b] = [known[b] EXCEPT !.status = s])
    BY <1>1, <1>2 DEF SetStatus, storeVars, IsKnown
  <2>2. IsKnown(b) => /\ [known[b] EXCEPT !.status = s].man = known[b].man
                      /\ [known[b] EXCEPT !.status = s].status = s
    BY <1>1 DEF IsKnown, Record
  <2> QED  BY <2>1, <2>2
<1>4. CASE \E x, s : s \in {"Error", "Executing"} /\ SetStatus(x, s)
  BY <1>1, <1>2, <1>4
<1>5. CASE op.pc \in {"deployed", "stop", "resume"} /\ \E s \in Status : SetStatus(op.app, s)
  BY <1>1, <1>2, <1>5
<1>6. CASE Add
  <2>1. known'[b] = known[b] \/ known'[b] = [man |-> msg.man, status |-> "Initiated"]
    BY <1>1, <1>6 DEF Add, AddKnownManifest
  <2> QED  BY <1>1, <2>1
<1>7. CASE UndeployDone
  BY <1>1, <1>2, <1>7 DEF UndeployDone
<1>8. CASE Forget
  BY <1>1, <1>8 DEF Forget, DeleteKnownManifest
<1>9. CASE UNCHANGED storeVars
  BY <1>9 DEF storeVars
<1> QED  BY <1>4, <1>5, <1>6, <1>7, <1>8, <1>9, HandlerStatus DEF StatusEffect

LEMMA PlacedAgain ==
    ASSUME NEW a, IsPlaced(a), known'[a].man = known[a].man, Places(a)' = Places(a),
           faults' = 0 => faults = 0
    PROVE  IsPlaced(a)'
BY PlacedKept DEF IsPlaced

LEMMA SettledStay ==
    ASSUME Base, PlacedInv, Handler
    PROVE  SettledPlaced'
<1> SUFFICES ASSUME NEW b \in Apps, (HasStatus(b, "Running") \/ HasStatus(b, "Stopped"))'
             PROVE  IsPlaced(b)'
  BY DEF SettledPlaced
<1>1. \/ known'[b] = known[b]
      \/ /\ IsKnown(b) /\ known'[b].man = known[b].man
         /\ b = op.app /\ op.pc \in {"deployed", "stop", "resume"}
  BY SettledRecord DEF Base
<1>2. known'[b].man = known[b].man /\ IsPlaced(b)
  BY <1>1 DEF PlacedInv, SettledPlaced, WorkPlaced, HasStatus, IsKnown
<1>3. Places(b)' = Places(b)
  <2>1. CASE b # op.app \/ op.pc \notin {"create", "removeContainers"}
    BY <2>1, HandlerPlaces DEF Base
  <2>2. CASE b = op.app /\ op.pc \in {"create", "removeContainers"}
    <3>1. Fits(op, Statuses[op.app])
      BY <2>2 DEF Base, SInv, Appless
    <3>2. Statuses[b] \notin {"Running", "Stopped"}
      BY <2>2, <3>1 DEF Fits
    <3>3. HasStatus(b, "Running") \/ HasStatus(b, "Stopped")
      BY <1>1, <2>2 DEF HasStatus, IsKnown
    <3> QED  BY <3>2, <3>3, StatusFacts DEF Base, Status
  <2> QED  BY <2>1, <2>2
<1>4. faults' = 0 => faults = 0
  BY FaultsOK DEF Base, TypeInv
<1> QED  BY <1>2, <1>3, <1>4, PlacedAgain
Bare == {"idle", "undeploy", "list", "lateError", "deleteNext", "deleted"}
Removed == {"add", "undeployed", "images", "removeImages"}

LEMMA ToRemoved ==
    ASSUME op'.pc \in Bare \cup Removed,
           (faults = 0 /\ op.pc \in Removed => ContainersOf(op.app) = {})'
    PROVE  WorkPlaced'
BY DEF Bare, Removed, WorkPlaced, At

LEMMA RemoveReturnsBare ==
    ASSUME op \in FrameType, NEW ok, ReturnFromRemove(ok)
    PROVE  op'.pc \in Bare \/ (op'.pc = "add" /\ op'.app = op.app)
BY DEF ReturnFromRemove, Return, Idle, Frame, GoTo, Step, FrameType, Bare

LEMMA UndeployReturnsBare ==
    ASSUME op \in FrameType, NEW ok \in BOOLEAN, ReturnFromUndeploy(ok)
    PROVE  op'.pc \in Bare \/ (op'.pc \in {"add", "images"} /\ op'.app = op.app)
<1>1. ReturnFromRemove(FALSE) => op'.pc \in Bare \/ (op'.pc = "add" /\ op'.app = op.app)
  BY RemoveReturnsBare
<1>2. CASE Return(ok)
  BY <1>2 DEF Return, Idle, Frame, Bare
<1>3. CASE GoTo("images")
  BY <1>3 DEF GoTo, Step, FrameType
<1> QED  BY <1>1, <1>2, <1>3 DEF ReturnFromUndeploy

\* The steps that end a removal, and those that only begin something.
LEMMA WorkRemoved ==
    ASSUME Base, WorkPlaced, Handler, UndeployEdgeApp \/ RemoveEdgeApp \/ DeleteNode,
           ~ListContainers, ~RemoveContainer, ~RemoveContainerFails
    PROVE  WorkPlaced'
<1>1. /\ op \in FrameType /\ faults \in Nat /\ (faults' = 0 => faults = 0)
      /\ Fault => faults' # 0
  BY FaultsOK DEF Base, TypeInv, HandlerOK, CountersOK, Fault
<1>2. CASE UndeployRejected \/ UndeployBegin \/ Undeploy \/ DeleteNode
  <2>1. op'.pc \in Bare
    BY <1>1, <1>2 DEF UndeployRejected, UndeployBegin, Undeploy, DeleteNode, DeleteBegin, DeleteNext,
       DeleteLast, SetNodeDeleted, Return, Idle, Frame, GoTo, Step, FrameType, Bare
  <2> QED  BY <2>1, ToRemoved DEF Bare, Removed
<1>3. ASSUME op'.pc \in Bare \/ (op'.pc \in Removed /\ op'.app = op.app),
             faults' = 0 => op.pc \in Removed \cup {"removeContainers"} /\ containers' = containers,
             faults' = 0 /\ op.pc = "removeContainers" => op.todo = {}
      PROVE  WorkPlaced'
  <2>1. faults' = 0 => ContainersOf(op.app) = {}
    <3>1. faults' = 0 /\ op.pc \in Removed => ContainersOf(op.app) = {}
      BY <1>1 DEF WorkPlaced, Removed
    <3>2. faults' = 0 /\ op.pc = "removeContainers" => ContainersOf(op.app) = {}
      BY <1>1, <1>3 DEF WorkPlaced, At, Ids
    <3> QED  BY <1>3, <3>1, <3>2
  <2>2. (faults = 0 /\ op.pc \in Removed => ContainersOf(op.app) = {})'
    <3>1. Bare \cap Removed = {}
      BY DEF Bare, Removed
    <3> QED  BY <1>3, <2>1, <3>1 DEF ContainersOf
  <2> QED  BY <1>3, <2>2, ToRemoved
<1>4. CASE PruneNetworks \/ PruneNetworksFails
  BY <1>1, <1>3, <1>4 DEF PruneNetworks, PruneNetworksFails, NetworkPrune, Fails, GoTo, Step, FrameType,
     Removed, At
<1>5. CASE ListContainersFails \/ UndeployDone \/ UndeployIncomplete
  <2>1. op'.pc \in Bare \/ (op'.pc \in Removed /\ op'.app = op.app)
    BY <1>1, <1>5, UndeployReturnsBare DEF ListContainersFails, UndeployDone, UndeployIncomplete, Removed
  <2> QED  BY <1>1, <1>3, <1>5, <2>1 DEF ListContainersFails, UndeployDone, UndeployIncomplete, RecordOnly,
           Neither, dockerVars, Removed, At
<1>6. CASE SelectImages \/ RemoveImage \/ RemoveImageFails
  BY <1>1, <1>3, <1>6 DEF SelectImages, RemoveImage, RemoveImageFails, ImageRemove, Fails, Neither,
     HostOnly, dockerVars, Step, FrameType, Removed, At
<1>7. CASE SelectImagesFails \/ ImagesRemain \/ Forget
  <2>1. op'.pc \in Bare \/ (op'.pc \in Removed /\ op'.app = op.app)
    BY <1>1, <1>7, RemoveReturnsBare DEF SelectImagesFails, ImagesRemain, Forget, Removed
  <2> QED  BY <1>1, <1>3, <1>7, <2>1 DEF SelectImagesFails, ImagesRemain, Forget, Neither, dockerVars,
           Removed, At
<1> QED  BY <1>2, <1>4, <1>5, <1>6, <1>7 DEF UndeployEdgeApp, RemoveEdgeApp

LEMMA WorkListed ==
    ASSUME Base, WorkPlaced, Handler, ListContainers \/ RemoveContainer \/ RemoveContainerFails
    PROVE  WorkPlaced'
<1>1. /\ op \in FrameType /\ faults \in Nat /\ (faults' = 0 => faults = 0)
      /\ Fault => faults' # 0
  BY FaultsOK DEF Base, TypeInv, HandlerOK, CountersOK, Fault
<1>2. op'.pc = "removeContainers" /\ op'.app = op.app
  BY <1>1 DEF ListContainers, RemoveContainer, RemoveContainerFails, Step, FrameType, At
<1>3. faults' = 0 => Ids(ContainersOf(op.app)') \subseteq op'.todo
  <2>1. CASE ListContainers
    BY <1>1, <2>1 DEF ListContainers, Neither, dockerVars, Step, FrameType, ContainersOf, Ids
  <2>2. CASE RemoveContainer
    <3>1. PICK id \in op.todo : StopAndRemoveContainer(id) /\ op'.todo = op.todo \ {id}
      BY <1>1, <2>2 DEF RemoveContainer, Step, FrameType
    <3>2. op.pc = "removeContainers"
      BY <2>2 DEF RemoveContainer, At
    <3>3. faults' = 0 => Ids(ContainersOf(op.app)) \subseteq op.todo
      BY <1>1, <3>2 DEF WorkPlaced, At
    <3> QED  BY <1>2, <3>1, <3>3 DEF StopAndRemoveContainer, ContainersOf, Ids
  <2>3. CASE RemoveContainerFails /\ ~Fault
    <3>1. PICK id \in op.todo : ~Exists(id) /\ containers' = containers /\ op'.todo = op.todo \ {id}
      BY <1>1, <2>3 DEF RemoveContainerFails, FailsOn, Fails, dockerVars, Step, FrameType
    <3>2. op.pc = "removeContainers"
      BY <2>3 DEF RemoveContainerFails, At
    <3>3. faults' = 0 => Ids(ContainersOf(op.app)) \subseteq op.todo
      BY <1>1, <3>2 DEF WorkPlaced, At
    <3> QED  BY <1>2, <3>1, <3>3 DEF Exists, ContainersOf, Ids
  <2> QED  BY <1>1, <2>1, <2>2, <2>3
<1>4. (faults = 0 => Ids(ContainersOf(op.app)) \subseteq op.todo)'
  BY <1>2, <1>3 DEF ContainersOf, Ids
<1> QED  BY <1>2, <1>4 DEF WorkPlaced, At
LEMMA MakeNetwork ==
    ASSUME Base, WorkPlaced, CreateAppNetwork
    PROVE  PlacedFrom(op.app, msg.man, op.idx + 1, op.net)'
<1>1. /\ op \in FrameType /\ op.pc = "network" /\ HostOK
      /\ Len(msg.man.modules) \in Nat
  BY DeployContext DEF CreateAppNetwork, At, InDeploy, Base, TypeInv, HandlerOK
<1>2. /\ op'.app = op.app /\ op'.net = NewCount /\ msg' = msg /\ op'.idx = Len(msg.man.modules)
      /\ containers' = containers /\ faults' = faults
  BY <1>1 DEF CreateAppNetwork, CreateNetwork, Step, FrameType, HostOnly, NoFault
<1>3. \A c \in containers : c.net # NewCount
  BY <1>1, NewCountOK DEF CreateAppNetwork, Base, OwnInv, NetworksDistinct
<1>4. \A p \in Places(op.app) : p.net # NewCount
  BY <1>3 DEF Places, ContainersOf
<1>5. Places(op.app)' = Places(op.app)
  BY <1>2 DEF Places, ContainersOf
<1>6. faults = 0 => Places(op.app) = {}
  BY <1>1 DEF WorkPlaced, Places
<1>7. \A k, l \in Nat : k = l + 1 => k .. l = {}
  OBVIOUS
<1>8. (op'.idx + 1) .. Len(msg.man.modules) = {}
  BY <1>1, <1>2, <1>7
<1> QED  BY <1>2, <1>4, <1>5, <1>6, <1>8 DEF PlacedFrom

LEMMA MakeContainer ==
    ASSUME Base, WorkPlaced, CreateContainer
    PROVE  PlacedFrom(op.app, msg.man, op.idx, op.net)'
<1> DEFINE new == [id |-> NewContainerId, app |-> op.app, net |-> op.net, module |-> op.idx,
                   image |-> ModuleImage, state |-> "created"]
           place == [id |-> NewContainerId, net |-> op.net, module |-> op.idx]
<1>1. /\ op \in FrameType /\ op.pc = "create" /\ op.idx \in Nat
      /\ op.idx \in 1 .. Len(msg.man.modules) /\ Len(msg.man.modules) \in Nat
  BY DeployContext
     DEF CreateContainer, At, InDeploy, Base, TypeInv, HandlerOK, FrameFits, FrameType
<1>2. /\ op'.app = op.app /\ op'.net = op.net /\ msg' = msg /\ op'.idx = op.idx
      /\ faults' = faults
  BY <1>1 DEF CreateContainer, Step, FrameType, HostOnly, NoFault
<1>3. containers' = containers \cup {new}
  BY DEF CreateContainer, CreateModule, createContainer
<1>4. ContainersOf(op.app)' = ContainersOf(op.app) \cup {new}
  BY <1>2, <1>3 DEF ContainersOf
<1>5. Places(op.app)' = Places(op.app) \cup {place}
  <2> DEFINE Place(c) == [id |-> c.id, net |-> c.net, module |-> c.module]
  <2>1. Place(new) = place
    OBVIOUS
  <2>2. /\ Places(op.app)' = {Place(c) : c \in ContainersOf(op.app)'}
        /\ Places(op.app) = {Place(c) : c \in ContainersOf(op.app)}
    BY DEF Places
  <2> HIDE DEF new, place, Place
  <2> QED  BY <1>4, <2>1, <2>2
<1>6. PlacedFrom(op.app, msg.man, op.idx + 1, op.net)
  BY <1>1 DEF WorkPlaced, At
<1>7. place.net = op.net /\ place.module = op.idx
  OBVIOUS
<1> HIDE DEF new, place
<1>8. \A j \in op.idx .. Len(msg.man.modules) :
            j = op.idx \/ j \in (op.idx + 1) .. Len(msg.man.modules)
  BY <1>1
<1>9. /\ op.idx \in op.idx .. Len(msg.man.modules)
      /\ op.idx \notin (op.idx + 1) .. Len(msg.man.modules)
      /\ (op.idx + 1) .. Len(msg.man.modules) \subseteq op.idx .. Len(msg.man.modules)
  BY <1>1
<1>10. \A p \in Places(op.app)' : p.net = op.net => p.module \in op.idx .. Len(msg.man.modules)
  BY <1>5, <1>6, <1>7, <1>9 DEF PlacedFrom
<1>11. \A p, q \in Places(op.app)' : p.net = op.net /\ q.net = op.net /\ p.module = q.module => p = q
  BY <1>5, <1>6, <1>7, <1>9 DEF PlacedFrom
<1>12. Unstable = {} => \A j \in op.idx .. Len(msg.man.modules) :
            \E p \in Places(op.app)' : p.net = op.net /\ p.module = j
  BY <1>5, <1>6, <1>7, <1>8 DEF PlacedFrom
<1>13. faults = 0 => \A p \in Places(op.app)' : p.net = op.net
  BY <1>5, <1>6, <1>7 DEF PlacedFrom
<1> QED  BY <1>2, <1>10, <1>11, <1>12, <1>13 DEF PlacedFrom

\* A step that leaves where containers are and what is on record takes the work along.
LEMMA WorkMade ==
    ASSUME Base, WorkPlaced, Handler, Deploy
    PROVE  WorkPlaced'
<1>1. /\ op \in FrameType /\ HandlerOK /\ StoreOK /\ faults \in Nat /\ (faults' = 0 => faults = 0)
      /\ Fault => faults' # 0
  BY FaultsOK DEF Base, TypeInv, HandlerOK, CountersOK, Fault
<1>2. CASE DeployNewVersion \/ DeployRejected \/ InspectFails \/ PullFails \/ CreateNetworkFails
           \/ CreateContainerFails \/ StartModuleFails \/ DeployDone \/ LateError
  <2>1. op'.pc \in Bare
    <3>1. CASE DeployRejected \/ InspectFails \/ DeployDone \/ LateError
      BY <3>1 DEF DeployRejected, InspectFails, DeployDone, LateError, Return, Idle, Frame, Bare
    <3>2. CASE DeployNewVersion
      BY <3>2 DEF DeployNewVersion, Step, Frame, Bare
    <3>3. CASE PullFails \/ CreateNetworkFails \/ CreateContainerFails \/ StartModuleFails
      <4>1. \E c : op' = Rollback(c)
        BY <3>3 DEF PullFails, CreateNetworkFails, CreateContainerFails, StartModuleFails, Step
      <4> QED  BY <1>1, <4>1 DEF Rollback, FrameType, Bare
    <3> QED  BY <1>2, <3>1, <3>2, <3>3
  <2> QED  BY <2>1, ToRemoved DEF Bare, Removed
<1>3. CASE DeployFresh
  <2>1. /\ op'.pc = "add" /\ op'.app = msg.app /\ containers' = containers
        /\ Inactive(msg.app) /\ msg.app \in Apps
    BY <1>1, <1>3, DispatchOK DEF DeployFresh, Step, Frame, Neither, dockerVars
  <2>2. ContainersOf(msg.app) = {}
    BY <2>1 DEF Base, EmptyInv, InactiveIsEmpty, Empty
  <2>3. ContainersOf(op.app)' = {}
    BY <2>1, <2>2 DEF ContainersOf
  <2> QED  BY <2>1, <2>3, ToRemoved DEF Removed
<1>4. CASE Add
  <2>1. op.pc = "add" /\ op.app = msg.man.id /\ op.app \in Apps
    BY <1>1, <1>4, DeployContext DEF Add, At, InDeploy
  <2>2. /\ op'.pc = "image" /\ op'.app = op.app /\ msg' = msg /\ containers' = containers
        /\ faults' = faults
    BY <1>1, <1>4 DEF Add, Step, FrameType, RecordOnly, NoFault, dockerVars
  <2>3. known'[op.app] = [man |-> msg.man, status |-> "Initiated"]
    BY <1>1, <1>4, <2>1 DEF Add, AddKnownManifest, StoreOK
  <2>4. faults' = 0 => ContainersOf(op.app)' = {}
    BY <2>1, <2>2 DEF WorkPlaced, ContainersOf
  <2> QED  BY <2>2, <2>3, <2>4 DEF WorkPlaced, At
<1>5. CASE ImagePresent \/ Pull \/ PullErrorUnseen
  <2>1. /\ op.pc = "image" /\ op'.pc \in {"image", "network"} /\ op'.app = op.app /\ msg' = msg
        /\ containers' = containers /\ known' = known
    BY <1>1, <1>5 DEF ImagePresent, Pull, PullErrorUnseen, NextImage, Step, PullImage, Neither, HostOnly,
       dockerVars, storeVars, FrameType, At
  <2>2. faults' = 0 => ContainersOf(op.app)' = {}
    BY <1>1, <2>1 DEF WorkPlaced, ContainersOf
  <2> QED  BY <2>1, <2>2 DEF WorkPlaced, At
<1>6. CASE CreateAppNetwork
  <2>1. PlacedFrom(op.app, msg.man, op.idx + 1, op.net)'
    BY <1>6, MakeNetwork
  <2>2. /\ op.pc = "network" /\ op'.pc = "create" /\ op'.app = op.app /\ msg' = msg /\ known' = known
    BY <1>1, <1>6 DEF CreateAppNetwork, Step, HostOnly, storeVars, FrameType, At
  <2> QED  BY <2>1, <2>2 DEF WorkPlaced, At
<1>7. CASE CreateContainer
  <2>1. PlacedFrom(op.app, msg.man, op.idx, op.net)'
    BY <1>7, MakeContainer
  <2>2. /\ op.pc = "create" /\ op'.pc = "start" /\ op'.app = op.app /\ msg' = msg /\ known' = known
    BY <1>1, <1>7 DEF CreateContainer, Step, HostOnly, storeVars, FrameType, At
  <2> QED  BY <2>1, <2>2 DEF WorkPlaced, At
<1>8. CASE StartModule
  <2>1. /\ op.pc = "start" /\ op.idx \in Nat \ {0} /\ op.net \in 0 .. MaxNetworkIndex
        /\ Len(msg.man.modules) \in Nat
    BY <1>1, <1>8, DeployContext DEF StartModule, At, InDeploy, FrameFits, HandlerOK, FrameType
  <2>2. /\ op'.pc = IF op.idx > 1 THEN "create" ELSE "deployed"
        /\ op'.idx = IF op.idx > 1 THEN op.idx - 1 ELSE op.idx
        /\ op'.app = op.app /\ op'.net = op.net /\ msg' = msg /\ known' = known
    BY <1>1, <1>8, <2>1 DEF StartModule, Step, HostOnly, storeVars, FrameType
  <2>3. PlacedFrom(op.app, msg.man, op.idx, op.net)
        /\ known[op.app].man = msg.man
    BY <2>1 DEF WorkPlaced, At
  <2>4. Places(op.app)' = Places(op.app)
    <3>1. \A b : Places(b)' = Places(b)
      BY <2>1, HandlerPlaces DEF Base
    <3> QED  BY <2>2, <3>1 DEF Places, ContainersOf
  <2>5. \A k : k = op.idx => PlacedFrom(op.app, msg.man, k, op.net)'
    BY <1>1, <2>2, <2>3, <2>4 DEF PlacedFrom
  <2>6. CASE op.idx > 1
    <3>1. op'.idx + 1 = op.idx
      BY <2>1, <2>2, <2>6
    <3>2. PlacedFrom(op.app, msg.man, op.idx + 1, op.net)'
      BY <2>5, <3>1
    <3> QED  BY <2>2, <2>3, <2>6, <3>2 DEF WorkPlaced, At
  <2>7. CASE ~(op.idx > 1)
    <3>1. op.idx = 1
      BY <2>1, <2>7
    <3>2. IsPlaced(op.app)'
      BY <2>1, <2>2, <2>3, <2>5, <3>1 DEF IsPlaced, PlacedFrom
    <3> QED  BY <2>2, <2>3, <2>7, <3>2 DEF WorkPlaced, At
  <2> QED  BY <2>6, <2>7
<1> QED  BY <1>2, <1>3, <1>4, <1>5, <1>6, <1>7, <1>8 DEF Deploy
LEMMA WorkUndone ==
    ASSUME Base, PlacedInv, Handler, Stop \/ Resume
    PROVE  WorkPlaced'
<1>1. /\ op \in FrameType /\ HandlerOK /\ (faults' = 0 => faults = 0)
  BY FaultsOK DEF Base, TypeInv, HandlerOK, CountersOK
<1>2. CASE StopRefused \/ StopFails \/ StopDone \/ ResumeRefused \/ ResumeFails \/ ResumeDone
  <2>1. op'.pc = "idle"
    BY <1>2 DEF StopRefused, StopFails, StopDone, ResumeRefused, ResumeFails, ResumeDone, Return, Idle,
       Frame
  <2> QED  BY <2>1, ToRemoved DEF Bare, Removed
<1>3. CASE StopBegin \/ ResumeBegin
  <2>1. /\ op'.pc \in {"stop", "resume"} /\ op'.app = msg.app /\ msg' = msg /\ containers' = containers
        /\ HasStatus(msg.app, "Running") \/ HasStatus(msg.app, "Stopped")
        /\ SetStatus(msg.app, "Executing") /\ msg.app \in Apps
    BY <1>1, <1>3, DispatchOK DEF StopBegin, ResumeBegin, Step, Frame, RecordOnly, dockerVars
  <2>2. known'[msg.app].man = known[msg.app].man
    BY <2>1, SetStatusKnows DEF Base, TypeInv, HasStatus, Status
  <2>3. IsPlaced(msg.app) /\ Places(msg.app)' = Places(msg.app)
    BY <2>1 DEF PlacedInv, SettledPlaced, Places, ContainersOf
  <2>4. \A a : a = msg.app => IsPlaced(a)'
    BY <1>1, <2>1, <2>2, <2>3, PlacedAgain DEF Places, ContainersOf
  <2>5. IsPlaced(op.app)'
    BY <2>1, <2>4 DEF IsPlaced, PlacedFrom, Places, ContainersOf
  <2> QED  BY <2>1, <2>5 DEF WorkPlaced, At
<1>4. CASE StopNext \/ ResumeNext
  <2>1. /\ op.pc \in {"stop", "resume"} /\ op'.pc = op.pc /\ op'.app = op.app /\ known' = known
    BY <1>1, <1>4 DEF StopNext, ResumeNext, Step, FrameType, HostOnly, storeVars, At
  <2>2. IsPlaced(op.app) /\ \A b : Places(b)' = Places(b)
    BY <2>1, HandlerPlaces DEF PlacedInv, WorkPlaced, Base
  <2>3. \A a : a = op.app => IsPlaced(a)'
    BY <1>1, <2>1, <2>2, PlacedAgain
  <2>4. IsPlaced(op.app)'
    BY <2>1, <2>3 DEF IsPlaced, PlacedFrom, Places, ContainersOf
  <2> QED  BY <2>1, <2>4 DEF WorkPlaced, At
<1> QED  BY <1>2, <1>3, <1>4 DEF Stop, Resume

\* What is done around the handlers takes at most containers away.
LEMMA PlacedAround ==
    ASSUME PlacedInv, UNCHANGED <<known, op>>, msg' = msg \/ op.pc = "idle",
           \A a : Places(a)' \subseteq Places(a),
           \A a : Ids(ContainersOf(a))' \subseteq Ids(ContainersOf(a)),
           Unstable = {} => \A a : Places(a)' = Places(a), faults' = 0 => faults = 0
    PROVE  PlacedInv'
<1>0. \A a, man, k, net : PlacedFrom(a, man, k, net) => PlacedFrom(a, man, k, net)'
  BY PlacedKept
<1>1. \A a : IsPlaced(a) => IsPlaced(a)'
  BY <1>0 DEF IsPlaced
<1>2. SettledPlaced'
  BY <1>1 DEF PlacedInv, SettledPlaced, HasStatus, IsKnown
<1>3. \A a : ContainersOf(a) = {} => ContainersOf(a)' = {}
  BY DEF Ids
<1>4. CASE op.pc = "idle"
  BY <1>2, <1>4 DEF PlacedInv, WorkPlaced, At
<1>5. CASE msg' = msg
  <2>1. At("create") => PlacedFrom(op.app, msg.man, op.idx + 1, op.net)'
    <3> SUFFICES ASSUME At("create")  PROVE PlacedFrom(op.app, msg.man, op.idx + 1, op.net)'
      OBVIOUS
    <3>1. PICK a, man, k, net : a = op.app /\ man = msg.man /\ k = op.idx + 1 /\ net = op.net
      OBVIOUS
    <3>2. PlacedFrom(a, man, k, net)
      BY <3>1 DEF PlacedInv, WorkPlaced
    <3>3. PlacedFrom(a, man, k, net)'
      BY <1>0, <3>2
    <3> QED  BY <1>5, <3>1, <3>3 DEF PlacedFrom, Places, ContainersOf
  <2>2. At("start") => PlacedFrom(op.app, msg.man, op.idx, op.net)'
    <3> SUFFICES ASSUME At("start")  PROVE PlacedFrom(op.app, msg.man, op.idx, op.net)'
      OBVIOUS
    <3>1. PICK a, man, k, net : a = op.app /\ man = msg.man /\ k = op.idx /\ net = op.net
      OBVIOUS
    <3>2. PlacedFrom(a, man, k, net)
      BY <3>1 DEF PlacedInv, WorkPlaced
    <3>3. PlacedFrom(a, man, k, net)'
      BY <1>0, <3>2
    <3> QED  BY <1>5, <3>1, <3>3 DEF PlacedFrom, Places, ContainersOf
  <2>3. op.pc \in {"deployed", "stop", "resume"} => IsPlaced(op.app)'
    BY <1>1 DEF PlacedInv, WorkPlaced
  <2>4. faults' = 0 /\ At("removeContainers") => Ids(ContainersOf(op.app)') \subseteq op.todo
    <3>1. Ids(ContainersOf(op.app)') \subseteq Ids(ContainersOf(op.app))
      BY DEF Ids, ContainersOf
    <3> QED  BY <3>1 DEF PlacedInv, WorkPlaced
  <2>5. faults' = 0 /\ op.pc \in {"undeployed", "images", "removeImages", "add", "image", "network"} =>
            ContainersOf(op.app)' = {}
    BY <1>3 DEF PlacedInv, WorkPlaced
  <2> QED  BY <1>2, <1>5, <2>1, <2>2, <2>3, <2>4, <2>5 DEF PlacedInv, WorkPlaced, At
<1> QED  BY <1>2, <1>4, <1>5 DEF PlacedInv
LEMMA PlacedStep ==
    ASSUME Base, PlacedInv, [ReportNext]_reportingVars
    PROVE  PlacedInv'
<1>1. CASE HandlerReports
  <2>1. Handler
    BY <1>1 DEF HandlerReports
  <2>2. SettledPlaced'
    BY <2>1, SettledStay
  <2>3. WorkPlaced'
    <3>1. WorkPlaced
      BY DEF PlacedInv
    <3> QED  BY <2>1, <3>1, WorkMade, WorkUndone, WorkListed, WorkRemoved DEF Handler
  <2> QED  BY <2>2, <2>3 DEF PlacedInv
<1>2. CASE EngineChanges
  <2>1. Engine /\ HostOK
    BY <1>2 DEF EngineChanges, Base, TypeInv
  <2>2. UNCHANGED <<known, op, msg, faults>>
    BY <2>1 DEF Engine, storeVars, handlerVars, counters
  <2>3. CASE ContainerChanges
    <3>1. PICK id, s : ContainerTo(id, s)
      BY <2>3 DEF ContainerChanges
    <3>2. \A a : Places(a)' = Places(a)
      BY <2>1, <3>1, ContainerToPlaces
    <3>3. \A a : Ids(ContainersOf(a))' = {p.id : p \in Places(a)'}
                 /\ Ids(ContainersOf(a)) = {p.id : p \in Places(a)}
      <4> DEFINE Place(c) == [id |-> c.id, net |-> c.net, module |-> c.module]
      <4>1. \A c : Place(c).id = c.id
        OBVIOUS
      <4>2. \A a : Places(a) = {Place(c) : c \in ContainersOf(a)}
                   /\ Places(a)' = {Place(c) : c \in ContainersOf(a)'}
        BY DEF Places
      <4> HIDE DEF Place
      <4> QED  BY <4>1, <4>2 DEF Ids
    <3> QED  BY <2>2, <3>2, <3>3, PlacedAround
  <2>4. CASE ContainerLost
    <3>1. PICK c \in containers : c.image \in Unstable /\ StopAndRemoveContainer(c.id)
      BY <2>4 DEF ContainerLost
    <3>2. \A a : ContainersOf(a)' \subseteq ContainersOf(a)
      BY <3>1 DEF StopAndRemoveContainer, ContainersOf
    <3>3. \A a : Places(a)' \subseteq Places(a) /\ Ids(ContainersOf(a))' \subseteq Ids(ContainersOf(a))
      BY <3>2 DEF Places, Ids
    <3> QED  BY <2>2, <3>1, <3>3, PlacedAround
  <2> QED  BY <2>1, <2>3, <2>4 DEF Engine
<1>3. CASE ReceiveMessage \/ (\E r \in Team : Reporter(r)) \/ UNCHANGED reportingVars
  <2>1. UNCHANGED <<containers, known, op>> /\ (msg' = msg \/ op.pc = "idle")
        /\ (faults' = 0 => faults = 0)
    <3>1. CASE ReceiveMessage \/ UNCHANGED reportingVars
      BY <3>1 DEF ReceiveMessage, Receive, reportingVars, vars, dockerVars, storeVars, handlerVars,
         counters, At
    <3>2. CASE \E r \in Team : Reporter(r)
      <4>1. PICK r \in Team : Reporter(r)
        BY <3>2
      <4>2. ReaderOnly /\ (NoFault \/ Fault)
        BY <4>1 DEF Reporter, Wake, ReadApp, ReadContainers, CountContainers, InspectContainer, AppRead,
           ReadingFails, Compose, Publish, PublishFails, MonitorCompares
      <4> QED  BY <4>2 DEF ReaderOnly, dockerVars, storeVars, handlerVars, NoFault, Fault, Base,
               TypeInv, CountersOK
    <3> QED  BY <1>3, <3>1, <3>2
  <2>2. \A a : ContainersOf(a)' = ContainersOf(a)
    BY <2>1 DEF ContainersOf
  <2>3. \A a : Places(a)' = Places(a) /\ Ids(ContainersOf(a))' = Ids(ContainersOf(a))
    BY <2>2 DEF Places, Ids
  <2> QED  BY <2>1, <2>3, PlacedAround
<1> QED  BY <1>1, <1>2, <1>3 DEF ReportNext

LEMMA AlwaysPlaced == ReportSpec => [](Base /\ ReportOK /\ PlacedInv)
<1>1. ReportInit => Base /\ PlacedInv
  <2>1. ReportInit => op.pc = "idle" /\ \A a \in Apps : known[a] = None
    BY DEF ReportInit, Init, Idle, Frame
  <2>2. ReportInit => Base
    <3>1. Init => OwnInv /\ EmptyInv
      BY DEF Init, OwnInv, EmptyInv, NetworksDistinct, IdsUnique, RemovalCovers, OwnWork,
         InactiveIsEmpty, RecordFirst, At, Idle, Frame, Empty, ContainersOf, NetworksOf
    <3>2. Init => SInv
      BY DEF Init, SInv, Unsettled, Statuses, LifeStatus, IsKnown, Idle, Frame, Appless
    <3> QED  BY <3>1, <3>2, TypeInit DEF ReportInit, Base
  <2>3. ReportInit => PlacedInv
    BY <2>1 DEF PlacedInv, SettledPlaced, WorkPlaced, HasStatus, IsKnown, At
  <2> QED  BY <2>2, <2>3
<1>2. Base /\ PlacedInv /\ [ReportNext]_reportingVars => Base' /\ PlacedInv'
  BY BaseStep, PlacedStep
<1> QED  BY <1>1, <1>2, AlwaysReportOK, PTL DEF ReportSpec
------------------------------------------------------------------------------
(* What an undisturbed reading tells                                       *)

LEMMA OneMore ==
    ASSUME NEW seq \in Seq(Said), NEW e \in Said
    PROVE  ReportOf(Append(seq, e)) = ReportOf(seq) \cup {e}
<1> DEFINE new == Append(seq, e)
<1>1. /\ Len(seq) \in Nat /\ DOMAIN seq = 1 .. Len(seq) /\ DOMAIN new = 1 .. Len(seq) + 1
      /\ \A k \in 1 .. Len(seq) : new[k] = seq[k]
      /\ new[Len(seq) + 1] = e
  OBVIOUS
<1> HIDE DEF new
<1>2. \A k : k \in 1 .. Len(seq) + 1 <=> k \in 1 .. Len(seq) \/ k = Len(seq) + 1
  BY <1>1
<1> QED  BY <1>1, <1>2 DEF ReportOf, new

\* A step of a reporter takes its reading on, or begins another.
LEMMA ReadOn ==
    ASSUME TypeInv, ReportOK, NEW r \in Team, Reporter(r),
           reader[r].pc # "sleep" /\ ~reader[r].moved => ReadSoFar(reader[r])
    PROVE  reader'[r].pc # "sleep" /\ ~reader'[r].moved => ReadSoFar(reader'[r])
<1> DEFINE f == reader[r]
           g == reader'[r]
<1> SUFFICES ASSUME g.pc # "sleep", ~g.moved  PROVE ReadSoFar(g)
  OBVIOUS
<1>1. f \in ReaderFrame /\ FrameIsFit(f, known) /\ \A h : ReaderTo(r, h) => g = h
  BY ReaderFacts DEF ReaderTo, ReportOK
<1>2. CASE Wake(r) \/ MonitorCompares(r)
  <2>1. /\ StartReading(r).pc = "app" /\ StartReading(r).held = None
        /\ StartReading(r).report = <<>> /\ StartReading(r).todo = {a \in Apps : IsKnown(a)}
        /\ StartReading(r) \in ReaderFrame
    BY StartReadingOK DEF StartReading, Asleep
  <2>2. /\ g.pc = "app" /\ g.held = None /\ g.report = <<>>
        /\ g.todo = {a \in Apps : IsKnown(a)}
    <3>1. CASE Wake(r)
      <4>1. g = [StartReading(r) EXCEPT !.sending = (r = "heartbeat")]
        BY <1>1, <3>1 DEF Wake
      <4> QED  BY <2>1, <4>1 DEF ReaderFrame
    <3>2. CASE MonitorCompares(r)
      <4>1. g = Asleep \/ g = [StartReading(r) EXCEPT !.sending = TRUE, !.latest = f.report]
        BY <1>1, <3>2 DEF MonitorCompares
      <4> QED  BY <2>1, <4>1, AsleepOK DEF ReaderFrame
    <3> QED  BY <1>2, <3>1, <3>2
  <2>3. ReportOf(<<>>) = {}
    BY DEF ReportOf
  <2> QED  BY <2>2, <2>3 DEF ReadSoFar
<1>3. CASE ReadingFails(r) \/ Publish(r) \/ PublishFails(r)
  BY <1>1, <1>3, AsleepOK DEF ReadingFails, Publish, PublishFails
<1>4. ASSUME g.pc # "sleep", f.pc # "sleep", g.moved = f.moved
      PROVE  ReadSoFar(f)
  BY <1>4
<1>5. CASE ReadApp(r)
  <2>1. f.pc = "app"
    BY <1>5 DEF ReadApp, AtReader
  <2>2. PICK a \in Apps : /\ IsKnown(a)
            /\ ReaderTo(r, IF known[a].status = "Undeployed"
                           THEN [f EXCEPT !.todo = @ \ {a}, !.report = Append(@, Entry(a, "Undeployed"))]
                           ELSE [f EXCEPT !.pc = "list", !.app = a, !.status = known[a].status])
    BY <1>5 DEF ReadApp
  <2>3. CASE known[a].status = "Undeployed"
    <3>1. g = [f EXCEPT !.todo = @ \ {a}, !.report = Append(@, Entry(a, "Undeployed"))]
      BY <1>1, <2>2, <2>3
    <3>2. /\ g.pc = "app" /\ g.moved = f.moved /\ g.held = f.held /\ g.todo = f.todo \ {a}
          /\ g.report = Append(f.report, Entry(a, "Undeployed"))
      BY <1>1, <2>1, <3>1 DEF ReaderFrame
    <3>3. ReadSoFar(f)
      BY <1>4, <2>1, <3>2
    <3>4. Entry(a, "Undeployed") \in Said /\ f.report \in Seq(Said)
      BY <1>1 DEF Entry, Said, Status, ReaderFrame
    <3>5. ReportOf(g.report) = ReportOf(f.report) \cup {Entry(a, "Undeployed")}
      BY <3>2, <3>4, OneMore
    <3>6. Reading(a) = "Undeployed"
      BY <2>3 DEF Reading, Miscounted, Afflicted
    <3> QED  BY <2>2, <3>2, <3>3, <3>5, <3>6 DEF ReadSoFar, Entry
  <2>4. CASE known[a].status # "Undeployed"
    <3>1. g = [f EXCEPT !.pc = "list", !.app = a, !.status = known[a].status]
      BY <1>1, <2>2, <2>4
    <3>2. /\ g.pc = "list" /\ g.moved = f.moved /\ g.held = f.held /\ g.todo = f.todo
          /\ g.report = f.report /\ g.app = a /\ g.status = known[a].status
      BY <1>1, <3>1 DEF ReaderFrame
    <3>3. ReadSoFar(f)
      BY <1>4, <2>1, <3>2
    <3> QED  BY <2>2, <3>2, <3>3 DEF ReadSoFar
  <2> QED  BY <2>3, <2>4
<1>6. CASE ReadContainers(r)
  <2>1. f.pc = "list" /\ g = [f EXCEPT !.pc = "count", !.cons = ContainersOf(f.app)]
    BY <1>1, <1>6 DEF ReadContainers, AtReader
  <2>2. /\ g.pc = "count" /\ g.moved = f.moved /\ g.held = f.held /\ g.todo = f.todo
        /\ g.report = f.report /\ g.app = f.app /\ g.status = f.status /\ g.cons = ContainersOf(f.app)
    BY <1>1, <2>1 DEF ReaderFrame
  <2>3. ReadSoFar(f)
    BY <1>4, <2>1, <2>2
  <2> QED  BY <2>1, <2>2, <2>3 DEF ReadSoFar
<1>7. CASE CountContainers(r)
  <2>1. f.pc = "count" /\ g = [f EXCEPT !.pc = "inspect",
                !.status = IF Miscounted(Rec(r), f.cons) THEN "Error" ELSE @]
    BY <1>1, <1>7 DEF CountContainers, AtReader
  <2>2. /\ g.pc = "inspect" /\ g.moved = f.moved /\ g.held = f.held /\ g.todo = f.todo
        /\ g.report = f.report /\ g.app = f.app /\ g.cons = f.cons
        /\ g.status = IF Miscounted(Rec(r), f.cons) THEN "Error" ELSE f.status
    BY <1>1, <2>1 DEF ReaderFrame
  <2>3. ReadSoFar(f)
    BY <1>4, <2>1, <2>2
  <2>4. Rec(r) = known[f.app] /\ f.cons = ContainersOf(f.app) /\ ContainersOf(f.app) \ g.cons = {}
    BY <2>1, <2>2, <2>3 DEF ReadSoFar, Rec
  <2> QED  BY <2>1, <2>2, <2>3, <2>4 DEF ReadSoFar
<1>8. CASE InspectContainer(r)
  <2>1. f.pc = "inspect"
    BY <1>8 DEF InspectContainer, AtReader
  <2>2. PICK c \in f.cons : g = [f EXCEPT !.cons = @ \ {c},
                !.status = IF Afflicted(Rec(r), c) THEN "Error" ELSE @]
    BY <1>1, <1>8 DEF InspectContainer
  <2>3. /\ g.pc = "inspect" /\ g.moved = f.moved /\ g.held = f.held /\ g.todo = f.todo
        /\ g.report = f.report /\ g.app = f.app /\ g.cons = f.cons \ {c}
        /\ g.status = IF Afflicted(Rec(r), c) THEN "Error" ELSE f.status
    BY <1>1, <2>1, <2>2 DEF ReaderFrame
  <2>4. ReadSoFar(f)
    BY <1>4, <2>1, <2>3
  <2>5. Rec(r) = known[f.app] /\ f.cons \subseteq ContainersOf(f.app)
    BY <2>1, <2>4 DEF ReadSoFar, Rec
  <2>6. ContainersOf(f.app) \ g.cons = (ContainersOf(f.app) \ f.cons) \cup {c}
    BY <2>3, <2>5
  <2>7. g.status = IF \/ Miscounted(known[f.app], ContainersOf(f.app))
                      \/ \E d \in ContainersOf(f.app) \ g.cons : Afflicted(known[f.app], d)
                   THEN "Error" ELSE known[f.app].status
    BY <2>1, <2>3, <2>4, <2>5, <2>6 DEF ReadSoFar
  <2> QED  BY <2>1, <2>3, <2>4, <2>5, <2>7 DEF ReadSoFar
<1>9. CASE AppRead(r)
  <2>1. f.pc = "inspect" /\ f.cons = {} /\ g = Appended(r, f.status)
    BY <1>1, <1>9 DEF AppRead, AtReader
  <2>2. /\ g.pc = "app" /\ g.moved = f.moved /\ g.held = None /\ g.todo = f.todo \ {f.app}
        /\ g.report = Append(f.report, Entry(f.app, f.status))
    BY <1>1, <2>1 DEF Appended, ReaderFrame
  <2>3. ReadSoFar(f)
    BY <1>4, <2>1, <2>2
  <2>4. Entry(f.app, f.status) \in Said /\ f.report \in Seq(Said)
    BY <1>1, <2>1 DEF Entry, Said, FrameIsFit, ReaderFrame
  <2>5. ReportOf(g.report) = ReportOf(f.report) \cup {Entry(f.app, f.status)}
    BY <2>2, <2>4, OneMore
  <2>6. IsKnown(f.app) /\ f.status = Reading(f.app)
    <3>1. ContainersOf(f.app) \ f.cons = ContainersOf(f.app)
      BY <2>1
    <3> QED  BY <2>1, <2>3, <3>1 DEF ReadSoFar, Reading
  <2> QED  BY <2>2, <2>3, <2>5, <2>6 DEF ReadSoFar, Entry
<1>10. CASE Compose(r)
  <2>1. f.pc = "app" /\ f.todo = {} /\ g = [f EXCEPT !.pc = "publish", !.node = nodeStatus]
    BY <1>1, <1>10 DEF Compose, ReadingDone, AtReader
  <2>2. /\ g.pc = "publish" /\ g.moved = f.moved /\ g.held = f.held /\ g.todo = f.todo
        /\ g.report = f.report /\ g.node = nodeStatus
    BY <1>1, <2>1 DEF ReaderFrame
  <2>3. ReadSoFar(f)
    BY <1>4, <2>1, <2>2
  <2> QED  BY <2>1, <2>2, <2>3 DEF ReadSoFar
<1> QED  BY <1>2, <1>3, <1>5, <1>6, <1>7, <1>8, <1>9, <1>10 DEF Reporter
LEMMA ReadStep ==
    ASSUME TypeInv, ReportOK, ReadInv, [ReportNext]_reportingVars
    PROVE  ReadInv'
<1>1. StoreOK /\ StoreOK'
  BY ReportTypes DEF TypeInv
<1>2. ASSUME UNCHANGED <<containers, known, nodeStatus>>, NEW g, ReadSoFar(g)
      PROVE  ReadSoFar(g)'
  <2>1. \A a : ContainersOf(a)' = ContainersOf(a) /\ Reading(a)' = Reading(a)
               /\ IsKnown(a)' = IsKnown(a)
    BY <1>2 DEF ContainersOf, Reading, Miscounted, Afflicted, IsKnown
  <2> QED  BY <1>2, <2>1 DEF ReadSoFar
<1>3. CASE HandlerReports \/ EngineChanges
  <2>1. Team' = Team /\ \A r \in Team : reader'[r] = SeenBy(reader[r])
    BY <1>3 DEF HandlerReports, EngineChanges, Watched, Team
  <2>2. \A r \in Team : reader'[r].moved = TRUE \/ reader'[r].pc = "sleep"
    BY <1>1, <2>1, ReaderFacts, SeenByOK
  <2> QED  BY <2>1, <2>2 DEF ReadInv
<1>4. CASE ReceiveMessage \/ UNCHANGED reportingVars
  <2>1. UNCHANGED <<containers, known, nodeStatus, reader>>
    BY <1>4 DEF ReceiveMessage, Receive, reportingVars, vars, dockerVars, storeVars, handlerVars,
       reportVars
  <2>2. \A g : ReadSoFar(g) => ReadSoFar(g)'
    BY <1>2, <2>1
  <2> QED  BY <2>1, <2>2 DEF ReadInv, Team
<1>5. CASE \E q \in Team : Reporter(q)
  <2>1. PICK q \in Team : Reporter(q)
    BY <1>5
  <2>2. UNCHANGED <<containers, known, nodeStatus>>
    BY <2>1 DEF Reporter, Wake, ReadApp, ReadContainers, CountContainers, InspectContainer, AppRead,
       ReadingFails, Compose, Publish, PublishFails, MonitorCompares, ReaderOnly, dockerVars, storeVars,
       handlerVars
  <2>3. Team' = Team
    <3>1. \E g : ReaderTo(q, g)
      BY <2>1 DEF Reporter, Wake, ReadApp, ReadContainers, CountContainers, InspectContainer, AppRead,
         ReadingFails, Compose, Publish, PublishFails, MonitorCompares
    <3> QED  BY <3>1 DEF ReaderTo, Team, ReportOK
  <2>4. ASSUME NEW r \in Team, reader'[r].pc # "sleep", ~reader'[r].moved
        PROVE  ReadSoFar(reader'[r])
    <3>1. CASE r = q
      BY <2>1, <2>4, <3>1, ReadOn DEF ReadInv
    <3>2. CASE r # q
      BY <2>1, <2>4, <3>2, OtherReader DEF ReadInv
    <3> QED  BY <3>1, <3>2
  <2>5. \A g : ReadSoFar(g) => ReadSoFar(g)'
    BY <1>2, <2>2
  <2>6. ASSUME NEW r \in Team, reader'[r].pc # "sleep", ~reader'[r].moved
        PROVE  ReadSoFar(reader[r])'
    <3>1. PICK g : g = reader'[r]
      OBVIOUS
    <3>2. ReadSoFar(g)'
      BY <2>4, <2>5, <2>6, <3>1
    <3> QED  BY <3>1, <3>2 DEF ReadSoFar
  <2> QED  BY <2>3, <2>6 DEF ReadInv
<1> QED  BY <1>3, <1>4, <1>5 DEF ReportNext

LEMMA AlwaysRead == ReportSpec => []ReadInv
<1>1. ReportInit => ReadInv
  <2>1. ReportInit => \A r \in Team : reader[r] = Asleep
    BY DEF ReportInit, Team
  <2> QED  BY <2>1, AsleepOK DEF ReadInv
<1>2. TypeInv /\ ReportOK /\ ReadInv /\ [ReportNext]_reportingVars => ReadInv'
  BY ReadStep
<1> QED  BY <1>1, <1>2, AlwaysReportOK, PTL DEF ReportSpec

\* On one network there is one container for each module that is there.
LEMMA ModulesTell ==
    ASSUME HostOK, IdsUnique, NEW a \in Apps, IsPlaced(a), known[a].man \in Manifests, ~Mixed(a),
           Unstable = {} \/ faults = 0
    PROVE  LET cons == ContainersOf(a)
               n == Len(known[a].man.modules)
           IN /\ \A c \in cons : c.module \in 1 .. n
              /\ \A c, d \in cons : c.module = d.module => c = d
              /\ Cardinality(cons) = n => \A j \in 1 .. n : \E c \in cons : c.module = j
<1> DEFINE cons == ContainersOf(a)
           n == Len(known[a].man.modules)
<1>1. n \in Nat \ {0}
  BY ManifestFacts
<1>2. PICK net : PlacedFrom(a, known[a].man, 1, net)
  BY DEF IsPlaced
<1>3. \A c \in cons : \E p \in Places(a) : p.id = c.id /\ p.net = c.net /\ p.module = c.module
  <2> SUFFICES ASSUME NEW c \in cons
               PROVE  \E p \in Places(a) : p.id = c.id /\ p.net = c.net /\ p.module = c.module
    OBVIOUS
  <2> DEFINE p == [id |-> c.id, net |-> c.net, module |-> c.module]
  <2>1. p \in Places(a)
    BY DEF Places
  <2>2. p.id = c.id /\ p.net = c.net /\ p.module = c.module
    OBVIOUS
  <2> QED  BY <2>1, <2>2
<1>4. \A p \in Places(a) : \E c \in cons : p.id = c.id /\ p.net = c.net /\ p.module = c.module
  <2> SUFFICES ASSUME NEW p \in Places(a)
               PROVE  \E c \in cons : p.id = c.id /\ p.net = c.net /\ p.module = c.module
    OBVIOUS
  <2>1. PICK c \in cons : p = [id |-> c.id, net |-> c.net, module |-> c.module]
    BY DEF Places
  <2> QED  BY <2>1
<1>5. \A c \in cons : c.net = net
  <2>1. CASE faults = 0
    BY <1>2, <1>3, <2>1 DEF PlacedFrom
  <2>2. CASE Unstable = {}
    <3>1. 1 \in 1 .. n
      BY <1>1
    <3>2. \E c \in cons : c.net = net
      BY <1>2, <1>4, <2>2, <3>1 DEF PlacedFrom
    <3> QED  BY <3>2 DEF Mixed
  <2> QED  BY <2>1, <2>2
<1>6. \A c \in cons : c.module \in 1 .. n
  BY <1>2, <1>3, <1>5 DEF PlacedFrom
<1>7. \A c, d \in cons : c.module = d.module => c = d
  <2> SUFFICES ASSUME NEW c \in cons, NEW d \in cons, c.module = d.module  PROVE c = d
    OBVIOUS
  <2>1. c.id = d.id
    BY <1>2, <1>3, <1>5 DEF PlacedFrom
  <2> QED  BY <2>1 DEF IdsUnique, ContainersOf
<1>8. ASSUME Cardinality(cons) = n, NEW j \in 1 .. n
      PROVE  \E c \in cons : c.module = j
  <2> DEFINE T == 1 .. n
             f == [c \in cons |-> c.module]
  <2>1. IsFiniteSet(T) /\ Cardinality(T) = n
    <3> HIDE DEF n
    <3>1. n \in Nat /\ ~(1 > n) /\ n - 1 + 1 = n
      BY <1>1
    <3> QED  BY <3>1, FS_Interval
  <2> HIDE DEF cons, T
  <2>2. f \in [cons -> T]
    BY <1>6 DEF T
  <2>3. f \in Injection(cons, T)
    BY <1>7, <2>2 DEF Injection, IsInjective
  <2>4. f \in Surjection(cons, T)
    BY <1>8, <2>1, <2>3, FS_Injection
  <2>5. \E c \in cons : f[c] = j
    BY <1>8, <2>4 DEF Surjection, T
  <2> QED  BY <2>5
<1> QED  BY <1>6, <1>7, <1>8
\* Counting the containers and looking at the state of each comes to the same as
\* comparing them with the manifest.
LEMMA CountingIsEnough ==
    ASSUME HostOK, IdsUnique, NEW a \in Apps, IsPlaced(a), known[a].man \in Manifests, ~Mixed(a),
           Unstable = {} \/ faults = 0, NEW s
    PROVE  ModulesAre(a, s) <=> /\ Cardinality(ContainersOf(a)) = Len(known[a].man.modules)
                                /\ \A c \in ContainersOf(a) : c.state = s
<1> DEFINE cons == ContainersOf(a)
           n == Len(known[a].man.modules)
<1>1. n \in Nat /\ DOMAIN known[a].man.modules = 1 .. n
  BY ManifestFacts
<1>2. IsFiniteSet(1 .. n) /\ Cardinality(1 .. n) = n
  <2> HIDE DEF n
  <2>1. n \in Nat /\ (1 > n => n = 0) /\ n - 1 + 1 = n
    BY <1>1
  <2> QED  BY <2>1, FS_Interval
<1>3. /\ \A c \in cons : c.module \in 1 .. n
      /\ \A c, d \in cons : c.module = d.module => c = d
      /\ Cardinality(cons) = n => \A j \in 1 .. n : \E c \in cons : c.module = j
  BY ModulesTell
<1>4. ModulesAre(a, s) <=> /\ {c.module : c \in {d \in cons : d.state = s}} = 1 .. n
                           /\ Cardinality(cons) = n
  BY <1>1, <1>2 DEF ModulesAre
<1> HIDE DEF cons, n
<1>5. ASSUME {c.module : c \in {d \in cons : d.state = s}} = 1 .. n, NEW c \in cons
      PROVE  c.state = s
  <2>1. PICK d \in cons : d.state = s /\ d.module = c.module
    BY <1>3, <1>5
  <2> QED  BY <1>3, <2>1
<1>6. ASSUME Cardinality(cons) = n, \A c \in cons : c.state = s
      PROVE  {c.module : c \in {d \in cons : d.state = s}} = 1 .. n
  BY <1>3, <1>6
<1> QED  BY <1>4, <1>5, <1>6 DEF cons, n

LEMMA ReadingIsTrue ==
    ASSUME TypeInv, IdsUnique, PlacedInv, NEW a \in Apps, IsKnown(a), ~Mixed(a),
           Unstable = {} \/ faults = 0
    PROVE  Reading(a) = TrueStatus(a)
<1> DEFINE cons == ContainersOf(a)
           n == Len(known[a].man.modules)
<1>1. /\ known[a] \in Record /\ known[a].man \in Manifests /\ HostOK
  BY DEF TypeInv, StoreOK, IsKnown, Record
<1>2. CASE known[a].status \in {"Running", "Stopped"}
  <2>1. IsPlaced(a)
    BY <1>2 DEF PlacedInv, SettledPlaced, HasStatus
  <2>2. \A s : ModulesAre(a, s) <=> Cardinality(cons) = n /\ \A c \in cons : c.state = s
    BY <1>1, <2>1, CountingIsEnough
  <2>3. CASE known[a].status = "Running"
    BY <2>2, <2>3 DEF Reading, TrueStatus, Miscounted, Afflicted
  <2>4. CASE known[a].status = "Stopped"
    BY <2>2, <2>4 DEF Reading, TrueStatus, Miscounted, Afflicted
  <2> QED  BY <1>2, <2>3, <2>4
<1>3. CASE known[a].status \notin {"Running", "Stopped"}
  BY <1>3 DEF Reading, TrueStatus, Miscounted, Afflicted
<1> QED  BY <1>2, <1>3

\* As long as calls succeed, or containers do not change by themselves, a message that
\* nothing disturbed says of every app on record, and of no other, what comparing its
\* containers with its manifest would say, for any apps, manifests and sequence of
\* commands (GetEdgeAppStatus, status.go 60-105: it counts containers and never looks
\* which modules they are).
THEOREM UndisturbedReportsAreTrue ==
    ReportSpec => [](Unstable = {} \/ faults = 0 => UndisturbedIsTrue)
<1>1. ASSUME Base, ReportOK, PlacedInv, ReadInv, Unstable = {} \/ faults = 0
      PROVE  UndisturbedIsTrue
  <2> SUFFICES ASSUME NEW r \in Team, reader[r].pc = "publish", ~reader[r].moved
               PROVE  /\ AgreesWith(ReportOf(reader[r].report), TrueReport)
                      /\ reader[r].node = nodeStatus
    BY DEF UndisturbedIsTrue, AtReader
  <2> DEFINE told == ReportOf(reader[r].report)
  <2>1. ReadSoFar(reader[r])
    BY <1>1 DEF ReadInv
  <2>2. told \subseteq Said
    <3>1. reader[r].report \in Seq(Said)
      BY <1>1, ReaderFacts DEF ReaderFrame
    <3> QED  BY <3>1 DEF ReportOf
  <2>3. /\ \A e \in told : IsKnown(e.app) /\ e.status = Reading(e.app)
        /\ \A a \in Apps : IsKnown(a) => \E e \in told : e.app = a
        /\ reader[r].node = nodeStatus
    BY <2>1 DEF ReadSoFar
  <2> HIDE DEF told
  <2>4. \A a \in Apps : IsKnown(a) /\ ~Mixed(a) => Reading(a) = TrueStatus(a)
    BY <1>1, ReadingIsTrue DEF Base, OwnInv
  <2>5. \A e \in told : e \in Said /\ e = Entry(e.app, e.status)
    BY <2>2 DEF Said, Entry
  <2>6. \A e : e \in TrueReport <=>
            \E a \in Apps : IsKnown(a) /\ e = Entry(a, TrueStatus(a))
    BY DEF TrueReport
  <2>7. \A a, s : Entry(a, s).app = a
    BY DEF Entry
  <2>8. ASSUME NEW e \in told, ~Mixed(e.app)
        PROVE  e \in TrueReport
    BY <2>2, <2>3, <2>4, <2>5, <2>6, <2>8 DEF Said
  <2>9. ASSUME NEW e \in TrueReport, ~Mixed(e.app)
        PROVE  e \in told
    <3>1. PICK a \in Apps : IsKnown(a) /\ e = Entry(a, TrueStatus(a))
      BY <2>6
    <3>2. PICK d \in told : d.app = a
      BY <2>3, <3>1
    <3>3. d.status = TrueStatus(a)
      BY <2>3, <2>4, <2>7, <2>9, <3>1, <3>2
    <3> QED  BY <2>5, <3>1, <3>2, <3>3
  <2>10. AgreesWith(told, TrueReport)
    BY <2>8, <2>9 DEF AgreesWith
  <2> QED  BY <2>3, <2>10 DEF told
<1>2. Base /\ ReportOK /\ PlacedInv /\ ReadInv => (Unstable = {} \/ faults = 0 => UndisturbedIsTrue)
  BY <1>1
<1> QED  BY <1>2, AlwaysPlaced, AlwaysRead, PTL
============================================================================
