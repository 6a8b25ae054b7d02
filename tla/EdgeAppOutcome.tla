--------------------------- MODULE EdgeAppOutcome ---------------------------
(***************************************************************************)
(* Proofs of what commands come to while every call succeeds and           *)
(* containers do not change by themselves: no handler gets in the way of   *)
(* another, a Running app is its manifest, and a deleted node is empty;    *)
(* and, whatever fails, that every step takes a handler nearer to its end. *)
(***************************************************************************)
EXTENDS LifecycleProofs, EdgeAppHost, FiniteSetTheorems

------------------------------------------------------------------------------
(* The steps that are left                                                 *)

NetworkLimit == CreateNetworkFails /\ NewCount < 0 /\ UNCHANGED dockerVars

\* The steps of a handler when no call has failed yet and none fails now.
SmoothStep ==
    \/ DeployFresh \/ DeployNewVersion \/ DeployRejected \/ Add \/ ImagePresent \/ Pull
    \/ CreateAppNetwork \/ NetworkLimit \/ CreateContainer \/ StartModule \/ DeployDone
    \/ StopRefused \/ StopBegin \/ StopNext \/ StopDone
    \/ ResumeRefused \/ ResumeBegin \/ ResumeNext \/ ResumeDone
    \/ UndeployRejected \/ UndeployBegin \/ Undeploy \/ ListContainers \/ RemoveContainer
    \/ PruneNetworks \/ UndeployDone
    \/ SelectImages \/ RemoveImage \/ (Forget /\ ReturnFromRemove(TRUE))
    \/ DeleteNode

LEMMA HandlersRunSmoothly ==
    ASSUME TypeInv, Callers, Smooth, Handler, faults' = 0
    PROVE  faults = 0 /\ SmoothStep
<1>1. faults = 0 /\ faults \in Nat
  BY FaultsOK DEF TypeInv, CountersOK, Handler
<1>2. ~Fault
  BY <1>1 DEF Fault
<1>4. Smooth /\ faults = 0
  BY <1>1
<1>5. CASE Deploy
  <2>1. ~(InspectFails \/ PullErrorUnseen)
    BY <1>2 DEF InspectFails, PullErrorUnseen
  <2>2. ~PullFails
    BY <1>2 DEF PullFails, Fails
  <2>3. CreateNetworkFails => NetworkLimit
    BY <1>2 DEF CreateNetworkFails, NetworkLimit, Fails
  <2>4. ~CreateContainerFails
    <3> SUFFICES ASSUME CreateContainerFails PROVE FALSE
      OBVIOUS
    <3>1. op.pc = "create" /\ ModuleImage \notin images
      BY <1>2 DEF CreateContainerFails, Fails, At
    <3>2. op.idx \in 1 .. Len(msg.man.modules) /\ msg.man \in Manifests
      BY <3>1, DeployContext DEF TypeInv, HandlerOK, FrameFits, InDeploy
    <3>3. ModuleImage \in ModuleImages(msg.man)
      BY <3>2, ManifestFacts DEF ModuleImage, ModuleImages
    <3> QED  BY <1>4, <3>1, <3>3 DEF Smooth
  <2>5. ~StartModuleFails
    BY <1>2, <1>4 DEF StartModuleFails, FailsOn, Fails, Exists, Smooth, At
  <2>6. ~LateError
    BY <1>4 DEF LateError, Callers, Smooth
  <2> QED  BY <1>1, <1>5, <2>1, <2>2, <2>3, <2>4, <2>5, <2>6 DEF Deploy, SmoothStep
<1>6. CASE Stop \/ Resume
  <2>1. ~(StopFails \/ ResumeFails)
    BY <1>2, <1>4 DEF StopFails, ResumeFails, FailsOn, Fails, Exists, Smooth, At
  <2> QED  BY <1>1, <1>6, <2>1 DEF Stop, Resume, SmoothStep
<1>7. CASE UndeployEdgeApp
  <2>1. ~(ListContainersFails \/ PruneNetworksFails \/ UndeployIncomplete)
    BY <1>2, <1>4 DEF ListContainersFails, PruneNetworksFails, UndeployIncomplete, Fails, Smooth
  <2>2. ~RemoveContainerFails
    BY <1>2, <1>4 DEF RemoveContainerFails, FailsOn, Fails, Exists, Smooth, At
  <2> QED  BY <1>1, <1>7, <2>1, <2>2 DEF UndeployEdgeApp, SmoothStep
<1>8. CASE RemoveEdgeApp
  <2>1. ~(SelectImagesFails \/ RemoveImageFails \/ ImagesRemain)
    BY <1>2, <1>4 DEF SelectImagesFails, RemoveImageFails, ImagesRemain, Fails, Smooth
  <2>2. Forget => ReturnFromRemove(TRUE)
    BY <1>2 DEF Forget
  <2>3. SelectImages \/ RemoveImage \/ (Forget /\ ReturnFromRemove(TRUE))
    BY <1>8, <2>1, <2>2 DEF RemoveEdgeApp
  <2> QED  BY <1>1, <2>3 DEF SmoothStep
<1> QED  BY <1>1, <1>5, <1>6, <1>7, <1>8 DEF Handler, SmoothStep

------------------------------------------------------------------------------
(* No call finds what it works on missing                                  *)

\* The calls at which Smooth asks for nothing but that nothing has failed.
Plain == {"idle", "add", "deployed", "undeploy", "list", "undeployed", "images", "removeImages",
          "deleteNext", "deleted"}

LEMMA ToPlain ==
    ASSUME op'.pc \in Plain, ~op'.failed, op'.caller # "lateRollback"
    PROVE  Smooth'
BY DEF Smooth, Plain, At

\* A container that is given another state is still there.
LEMMA StillThere ==
    ASSUME HostOK, NEW id, NEW s, ContainerTo(id, s)
    PROVE  Ids(containers)' = Ids(containers)
<1>1. \A c \in containers : [c EXCEPT !.state = s].id = c.id
  BY DEF HostOK, Container
<1> QED  BY <1>1 DEF ContainerTo, Ids

LEMMA SmoothKept ==
    ASSUME TypeInv, Smooth, faults = 0, SmoothStep
    PROVE  Smooth'
<1>0. /\ op \in FrameType /\ HostOK /\ ~op.failed /\ op.caller # "lateRollback"
      /\ op.pc \in {"start", "stop", "resume", "removeContainers"} =>
            op.todo \subseteq Ids(containers)
  BY DEF TypeInv, HandlerOK, Smooth
<1>1. CASE DeployFresh \/ DeployNewVersion \/ DeployRejected \/ DeployDone
  BY <1>1, ToPlain DEF DeployFresh, DeployNewVersion, DeployRejected, DeployDone, Step, Return,
     Idle, Frame, Plain
<1>2. CASE Add
  BY <1>0, <1>2 DEF Add, Step, FrameType, Smooth, At
<1>3. CASE ImagePresent \/ Pull
  <2>1. /\ op.pc = "image" /\ msg' = msg /\ op' = NextImage
        /\ images \subseteq images' /\ ModuleImage \in images'
    BY <1>3 DEF ImagePresent, Pull, PullImage, Step, At, Neither, dockerVars
  <2>2. /\ op.idx \in Nat \ {0} /\ Len(msg.man.modules) \in Nat /\ DOMAIN msg.man.modules =
            1 .. Len(msg.man.modules)
    <3>1. msg.man \in Manifests /\ op.idx \in 1 .. Len(msg.man.modules)
      BY <2>1, DeployContext DEF TypeInv, HandlerOK, FrameFits, InDeploy
    <3> QED  BY <3>1, ManifestFacts
  <2>3. \A k \in 1 .. op.idx : msg.man.modules[k] \in images'
    <3>1. \A k \in 1 .. op.idx - 1 : msg.man.modules[k] \in images'
      BY <2>1 DEF Smooth, At
    <3>2. \A k \in 1 .. op.idx : k \in 1 .. op.idx - 1 \/ k = op.idx
      BY <2>2
    <3> QED  BY <2>1, <3>1, <3>2 DEF ModuleImage
  <2>4. CASE op.idx < Len(msg.man.modules)
    <3>1. op' = [op EXCEPT !.idx = op.idx + 1]
      BY <2>1, <2>4 DEF NextImage
    <3>2. op'.pc = "image" /\ op'.idx = op.idx + 1 /\ ~op'.failed /\ op'.caller # "lateRollback"
      BY <1>0, <2>1, <3>1 DEF FrameType
    <3>3. op'.idx - 1 = op.idx
      BY <2>2, <3>2
    <3> QED  BY <2>1, <2>3, <3>2, <3>3 DEF Smooth, At
  <2>5. CASE ~(op.idx < Len(msg.man.modules))
    <3>1. op' = [op EXCEPT !.pc = "network"]
      BY <2>1, <2>5 DEF NextImage
    <3>2. op'.pc = "network" /\ ~op'.failed /\ op'.caller # "lateRollback"
      BY <1>0, <3>1 DEF FrameType
    <3>3. \A k \in DOMAIN msg.man.modules : k \in 1 .. op.idx
      BY <2>2, <2>5
    <3>4. ModuleImages(msg.man)' \subseteq images'
      BY <2>1, <2>3, <3>3 DEF ModuleImages
    <3> QED  BY <3>2, <3>4 DEF Smooth, At
  <2> QED  BY <2>4, <2>5
<1>4. CASE CreateAppNetwork
  <2>1. /\ op.pc = "network" /\ op'.pc = "create" /\ msg' = msg /\ images' = images
        /\ ~op'.failed /\ op'.caller # "lateRollback"
    BY <1>0, <1>4 DEF CreateAppNetwork, CreateNetwork, At, Step, FrameType
  <2> QED  BY <2>1 DEF Smooth, At, ModuleImages
<1>5. CASE NetworkLimit
  BY <1>0, <1>5, ToPlain DEF NetworkLimit, CreateNetworkFails, Rollback, Step, FrameType, Plain
<1>6. CASE CreateContainer
  <2>1. /\ op.pc = "create" /\ op'.pc = "start" /\ msg' = msg /\ images' = images
        /\ ~op'.failed /\ op'.caller # "lateRollback" /\ op'.todo = {NewContainerId}
    BY <1>0, <1>6 DEF CreateContainer, CreateModule, createContainer, At, Step, FrameType
  <2>2. NewContainerId \in Ids(containers)'
    <3> DEFINE new == [id |-> NewContainerId, app |-> op.app, net |-> op.net,
                       module |-> op.idx, image |-> ModuleImage, state |-> "created"]
    <3>1. new \in containers' /\ new.id = NewContainerId
      BY <1>6 DEF CreateContainer, CreateModule, createContainer
    <3> HIDE DEF new
    <3> QED  BY <3>1 DEF Ids
  <2> QED  BY <2>1, <2>2 DEF Smooth, At, ModuleImages
<1>7. CASE StartModule
  <2>1. /\ op.pc = "start" /\ op'.pc \in {"create", "deployed"} /\ msg' = msg /\ images' = images
        /\ ~op'.failed /\ op'.caller # "lateRollback"
    BY <1>0, <1>7 DEF StartModule, StartContainer, ContainerTo, At, Step, FrameType
  <2> QED  BY <2>1 DEF Smooth, At, ModuleImages
<1>8. CASE StopRefused \/ StopDone \/ ResumeRefused \/ ResumeDone \/ UndeployRejected
  BY <1>8, ToPlain DEF StopRefused, StopDone, ResumeRefused, ResumeDone, UndeployRejected, Return,
     Idle, Frame, Plain
<1>9. CASE StopBegin \/ ResumeBegin
  <2>1. /\ op'.pc \in {"stop", "resume"} /\ ~op'.failed /\ op'.caller # "lateRollback"
        /\ containers' = containers
        /\ \E S \in SUBSET containers : op'.todo = Ids(S)
    BY <1>9 DEF StopBegin, ResumeBegin, Step, Frame, RecordOnly, dockerVars, RunningIn, ContainersOf
  <2>2. op'.todo \subseteq Ids(containers)'
    BY <2>1 DEF Ids
  <2> QED  BY <2>1, <2>2 DEF Smooth, At
<1>10. CASE StopNext \/ ResumeNext
  <2>1. /\ op.pc \in {"stop", "resume"} /\ op'.pc = op.pc /\ op'.todo \subseteq op.todo
        /\ ~op'.failed /\ op'.caller # "lateRollback"
        /\ \E id, s : ContainerTo(id, s)
    BY <1>0, <1>10 DEF StopNext, ResumeNext, StopContainer, StartContainer, At, Step, FrameType
  <2>2. Ids(containers)' = Ids(containers)
    BY <1>0, <2>1, StillThere
  <2> QED  BY <1>0, <2>1, <2>2 DEF Smooth, At
<1>11. CASE UndeployBegin \/ Undeploy \/ PruneNetworks
  <2>1. CASE UndeployBegin
    <3>1. msg.cmd \in {"UNDEPLOY", "REMOVE"}
      BY <2>1 DEF UndeployBegin, Handling
    <3>2. op'.pc \in Plain /\ ~op'.failed /\ op'.caller = msg.cmd
      BY <2>1 DEF UndeployBegin, Step, Frame, Plain
    <3> QED  BY <3>1, <3>2, ToPlain
  <2>2. CASE Undeploy \/ PruneNetworks
    BY <1>0, <2>2, ToPlain DEF Undeploy, PruneNetworks, GoTo, Step, FrameType, Plain
  <2> QED  BY <1>11, <2>1, <2>2
<1>12. CASE ListContainers
  <2>1. /\ op'.pc = "removeContainers" /\ ~op'.failed /\ op'.caller # "lateRollback"
        /\ containers' = containers /\ op'.todo = Ids(ContainersOf(op.app))
    BY <1>0, <1>12 DEF ListContainers, Step, Neither, dockerVars, FrameType
  <2> QED  BY <2>1 DEF Smooth, At, Ids, ContainersOf
<1>13. CASE RemoveContainer
  <2>1. PICK id \in op.todo : StopAndRemoveContainer(id) /\ Step([op EXCEPT !.todo = @ \ {id}])
    BY <1>13 DEF RemoveContainer
  <2>2. /\ op'.pc = "removeContainers" /\ ~op'.failed /\ op'.caller # "lateRollback"
        /\ op'.todo = op.todo \ {id} /\ op.pc = "removeContainers"
    BY <1>0, <1>13, <2>1 DEF RemoveContainer, At, Step, FrameType
  <2>3. Ids(containers)' = Ids(containers) \ {id}
    BY <2>1 DEF StopAndRemoveContainer, Ids
  <2> QED  BY <1>0, <2>2, <2>3 DEF Smooth, At
<1>14. CASE UndeployDone \/ (Forget /\ ReturnFromRemove(TRUE))
  <2>1. op'.pc \in Plain /\ ~op'.failed /\ op'.caller # "lateRollback"
    BY <1>0, <1>14 DEF UndeployDone, ReturnFromUndeploy, ReturnFromRemove, Return, GoTo, Step,
       Idle, Frame, FrameType, Plain
  <2> QED  BY <2>1, ToPlain
<1>15. CASE SelectImages \/ RemoveImage
  <2>1. op'.pc \in Plain /\ ~op'.failed /\ op'.caller # "lateRollback"
    BY <1>0, <1>15 DEF SelectImages, RemoveImage, At, Step, FrameType, Plain
  <2> QED  BY <2>1, ToPlain
<1>16. CASE DeleteNode
  <2>1. op'.pc \in Plain /\ ~op'.failed /\ op'.caller # "lateRollback"
    BY <1>0, <1>16 DEF DeleteNode, DeleteBegin, DeleteNext, DeleteLast, SetNodeDeleted, GoTo, Step,
       Idle, Frame, FrameType, Plain
  <2> QED  BY <2>1, ToPlain
<1> QED  BY <1>1, <1>2, <1>3, <1>4, <1>5, <1>6, <1>7, <1>8, <1>9, <1>10, <1>11, <1>12, <1>13,
            <1>14, <1>15, <1>16 DEF SmoothStep

LEMMA SmoothInvariant ==
    ASSUME Unstable = {}
    PROVE  CrashSpec => []Smooth
<1>1. Init => Smooth
  BY DEF Init, Smooth, Idle, Frame, At
<1>2. ASSUME TypeInv, Callers, Smooth, [CrashNext]_vars
      PROVE  Smooth'
  <2>1. CASE Handler
    <3>1. CASE faults' = 0
      BY <1>2, <2>1, <3>1, HandlersRunSmoothly, SmoothKept
    <3> QED  BY <3>1 DEF Smooth
  <2>2. ~Engine
    BY DEF Engine, ContainerChanges, ContainerLost
  <2>3. CASE Restart
    BY <2>3, ToPlain DEF Restart, Idle, Frame, Plain
  <2>4. CASE Receive
    <3>1. op.pc = "idle" /\ op' = op /\ faults' = faults
      BY <2>4 DEF Receive, At
    <3> QED  BY <1>2, <3>1 DEF Smooth, At
  <2>5. CASE Finished \/ LogRead \/ UNCHANGED vars
    BY <1>2, <2>5 DEF Finished, LogRead, vars, handlerVars, dockerVars, counters, Smooth, At
  <2> QED  BY <1>2, <2>1, <2>2, <2>3, <2>4, <2>5
           DEF CrashNext, Next, CrashRestart, UpdateManifestPanics
<1> QED  BY <1>1, <1>2, TypeInvariant, AlwaysCalled, PTL DEF CrashSpec

------------------------------------------------------------------------------
(* What an app that is settled consists of                                 *)

SettledApp(a) ==
    /\ HasStatus(a, "Running") \/ HasStatus(a, "Stopped") => IsWhole(a)
    /\ HasStatus(a, "Running") => RunningIn(a) = ContainersOf(a)

AllSettled == \A a \in Apps : SettledApp(a)

\* The other conjuncts of WholeInv: what a handler has made of its app so far.
WorkDone ==
    /\ At("add") => Inactive(op.app)
    /\ op.pc \in {"image", "network", "create", "start", "deployed"} =>
            known[op.app].man = msg.man
    /\ op.pc \in {"image", "network"} => Empty(op.app)
    /\ At("create") => BuiltFrom(op.app, msg.man, op.idx + 1, op.net)
    /\ At("start") => BuiltFrom(op.app, msg.man, op.idx, op.net)
    /\ op.pc \in {"deployed", "stop", "resume"} => IsWhole(op.app)
    /\ At("deployed") => RunningIn(op.app) = ContainersOf(op.app)

LEMMA WholeParts == WholeInv <=> (faults = 0 => AllSettled /\ WorkDone)
BY DEF WholeInv, AllSettled, SettledApp, WorkDone

LEMMA BuiltSame ==
    ASSUME NEW a, LifeContent(a)' = LifeContent(a), NEW man, NEW k, NEW net,
           BuiltFrom(a, man, k, net)
    PROVE  BuiltFrom(a, man, k, net)'
BY DEF LifeContent, BuiltFrom

\* A container keeps its place when its state changes.
LEMMA BuiltMoved ==
    ASSUME HostOK, NEW id, NEW s, ContainerTo(id, s), NEW a, NEW man, NEW k, NEW net,
           BuiltFrom(a, man, k, net)
    PROVE  BuiltFrom(a, man, k, net)'
<1> DEFINE To(c) == IF c.id = id THEN [c EXCEPT !.state = s] ELSE c
<1>1. \A c \in containers : /\ To(c).app = c.app /\ To(c).net = c.net /\ To(c).module = c.module
                            /\ To(c).image = c.image
  BY DEF HostOK, Container
<1>2. containers' = {To(c) : c \in containers} /\ networks' = networks
  BY DEF ContainerTo
<1> HIDE DEF To
<1>3. ContainersOf(a)' = {To(c) : c \in ContainersOf(a)}
  BY <1>1, <1>2 DEF ContainersOf
<1>4. NetworksOf(a)' = NetworksOf(a)
  BY <1>2 DEF NetworksOf
<1>5. \A c \in ContainersOf(a) : c \in containers
  BY DEF ContainersOf
<1>6. \A d \in ContainersOf(a)' : d.net = net /\ d.module \in k .. Len(man.modules)
                                /\ d.image = man.modules[d.module]
  BY <1>1, <1>3, <1>5 DEF BuiltFrom
<1>7. \A j \in k .. Len(man.modules) : \E d \in ContainersOf(a)' : d.module = j
  <2> SUFFICES ASSUME NEW j \in k .. Len(man.modules)
               PROVE  \E d \in ContainersOf(a)' : d.module = j
    OBVIOUS
  <2>1. PICK c \in ContainersOf(a) : c.module = j
    BY DEF BuiltFrom
  <2> QED  BY <1>1, <1>3, <1>5, <2>1
<1>8. \A c, d \in ContainersOf(a)' : c.module = d.module => c = d
  BY <1>1, <1>3, <1>5 DEF BuiltFrom
<1> QED  BY <1>4, <1>6, <1>7, <1>8 DEF BuiltFrom

LEMMA SettledKept ==
    ASSUME NEW a, known'[a] = known[a], LifeContent(a)' = LifeContent(a), SettledApp(a)
    PROVE  SettledApp(a)'
<1>1. IsWhole(a) => IsWhole(a)'
  BY BuiltSame DEF IsWhole
<1> QED  BY <1>1 DEF SettledApp, HasStatus, IsKnown, RunningIn, LifeContent

LEMMA StillSettled ==
    ASSUME AllSettled, UNCHANGED <<containers, networks, known>>
    PROVE  AllSettled'
BY SettledKept DEF AllSettled, LifeContent, ContainersOf, NetworksOf

\* The status of one app is set; the host stays as it is.
LEMMA SetSettles ==
    ASSUME TypeInv, AllSettled, UNCHANGED <<containers, networks>>, NEW a \in Apps,
           NEW s \in Status, SetStatus(a, s),
           s \in {"Running", "Stopped"} => IsWhole(a),
           s = "Running" => RunningIn(a) = ContainersOf(a)
    PROVE  /\ AllSettled'
           /\ IsWhole(a) /\ IsKnown(a) => IsWhole(a)'
<1>1. \A b : LifeContent(b)' = LifeContent(b)
  BY DEF LifeContent, ContainersOf, NetworksOf
<1>2. \A b \in Apps \ {a} : known'[b] = known[b]
  BY DEF SetStatus, storeVars, TypeInv, StoreOK
<1>3. CASE ~IsKnown(a)
  <2>1. known' = known
    BY <1>3 DEF SetStatus, storeVars, IsKnown
  <2> QED  BY <1>3, <2>1, StillSettled
<1>4. CASE IsKnown(a)
  <2>1. known'[a].man = known[a].man
    BY <1>4, SetStatusKnows DEF TypeInv
  <2>2. IsWhole(a) => IsWhole(a)'
    BY <1>1, <2>1, BuiltSame DEF IsWhole
  <2>3. \A t \in Status : HasStatus(a, t)' <=> t = s
    <3>1. Statuses' = [Statuses EXCEPT ![a] = s]
      BY <1>4, SetStatusMoves, StatusFacts
    <3>2. LifeStatus(a)' = s
      BY <3>1 DEF Statuses
    <3>3. IsKnown(a)'
      BY <1>4, SetStatusKnows DEF TypeInv, IsKnown
    <3> QED  BY <3>2, <3>3 DEF LifeStatus, HasStatus
  <2>4. SettledApp(a)'
    BY <1>1, <2>2, <2>3 DEF SettledApp, Status, RunningIn, LifeContent
  <2>5. \A b \in Apps : SettledApp(b)'
    BY <1>1, <1>2, <2>4, SettledKept DEF AllSettled
  <2> QED  BY <2>2, <2>5 DEF AllSettled
<1> QED  BY <1>3, <1>4

\* A handler changes the host for an app that is not settled.
LEMMA HostSettles ==
    ASSUME TypeInv, OwnInv, SInv, AllSettled, Handler, known' = known, op.app \in Apps,
           Statuses[op.app] \notin {"Running", "Stopped"}
    PROVE  AllSettled'
<1>1. \A b : b # op.app => LifeContent(b)' = LifeContent(b)
  BY HandlerHost, OwnHost
<1>2. \A b \in Apps \ {op.app} : SettledApp(b)'
  BY <1>1, SettledKept DEF AllSettled
<1>3. ASSUME NEW b \in Apps, b = op.app
      PROVE  SettledApp(b)'
  <2>1. ~HasStatus(b, "Running") /\ ~HasStatus(b, "Stopped")
    BY <1>3, StatusFacts DEF Status
  <2> QED  BY <2>1 DEF SettledApp, HasStatus, IsKnown
<1> QED  BY <1>2, <1>3 DEF AllSettled

------------------------------------------------------------------------------
(* What a handler makes of its app                                         *)

\* The calls at which WorkDone asks for nothing.
Unbuilt == {"idle", "undeploy", "list", "removeContainers", "undeployed", "images",
            "removeImages", "lateError", "deleteNext", "deleted"}

LEMMA ToUnbuilt ==
    ASSUME op'.pc \in Unbuilt
    PROVE  WorkDone'
BY DEF WorkDone, Unbuilt, At

LEMMA WholeBegin ==
    ASSUME TypeInv, AllSettled,
           DeployFresh \/ DeployNewVersion \/ DeployRejected \/ UndeployRejected \/ UndeployBegin
           \/ StopRefused \/ ResumeRefused \/ StopBegin \/ ResumeBegin \/ DeleteNode
    PROVE  AllSettled' /\ WorkDone'
<1>0. op \in FrameType
  BY DEF TypeInv, HandlerOK
<1>1. CASE DeployFresh
  <2>1. /\ UNCHANGED <<containers, networks, known>> /\ Inactive(msg.app)
        /\ op'.pc = "add" /\ op'.app = msg.app
    BY <1>1 DEF DeployFresh, Neither, dockerVars, storeVars, Step, Frame
  <2>2. Inactive(op.app)'
    BY <2>1 DEF Inactive, IsKnown
  <2> QED  BY <2>1, <2>2, StillSettled DEF WorkDone, At
<1>2. CASE DeployNewVersion \/ DeployRejected \/ UndeployRejected \/ UndeployBegin
  <2>1. UNCHANGED <<containers, networks, known>> /\ op'.pc \in Unbuilt
    BY <1>2 DEF DeployNewVersion, DeployRejected, UndeployRejected, UndeployBegin, Neither,
       dockerVars, storeVars, Step, Return, Idle, Frame, Unbuilt
  <2> QED  BY <2>1, StillSettled, ToUnbuilt
<1>3. CASE DeleteNode
  <2>1. UNCHANGED <<containers, networks, known>> /\ op'.pc \in Unbuilt
    BY <1>0, <1>3 DEF DeleteNode, DeleteBegin, DeleteNext, DeleteLast, SetNodeDeleted, Neither,
       dockerVars, storeVars, GoTo, Step, Idle, Frame, FrameType, Unbuilt
  <2> QED  BY <2>1, StillSettled, ToUnbuilt
<1>4. CASE StopRefused \/ ResumeRefused
  <2>1. /\ op'.pc \in Unbuilt /\ UNCHANGED <<containers, networks>> /\ msg.app \in Apps
        /\ UNCHANGED storeVars \/ SetStatus(msg.app, "Error")
    BY <1>4, DispatchOK DEF StopRefused, ResumeRefused, Return, Idle, Frame, Unbuilt, Neither,
       RecordOnly, dockerVars, TypeInv
  <2> QED  BY <2>1, StillSettled, SetSettles, ToUnbuilt DEF storeVars, Status
<1>5. CASE StopBegin \/ ResumeBegin
  <2>1. /\ op'.pc \in {"stop", "resume"} /\ op'.app = msg.app /\ msg.app \in Apps
        /\ UNCHANGED <<containers, networks>> /\ SetStatus(msg.app, "Executing")
        /\ HasStatus(msg.app, "Running") \/ HasStatus(msg.app, "Stopped")
    BY <1>5, DispatchOK DEF StopBegin, ResumeBegin, Step, Frame, RecordOnly, dockerVars, TypeInv
  <2>2. IsWhole(msg.app) /\ IsKnown(msg.app)
    BY <2>1 DEF AllSettled, SettledApp, HasStatus
  <2>3. AllSettled' /\ \A a : a = msg.app => IsWhole(a)'
    BY <2>1, <2>2, SetSettles DEF Status
  <2>4. IsWhole(op.app)'
    BY <2>1, <2>3 DEF IsWhole, BuiltFrom, ContainersOf, NetworksOf
  <2> QED  BY <2>1, <2>3, <2>4 DEF WorkDone, At
<1> QED  BY <1>1, <1>2, <1>3, <1>4, <1>5

\* What is known where DeployEdgeApp makes something.
LEMMA MakingFacts ==
    ASSUME TypeInv, SInv, op.pc \in {"image", "network", "create", "start", "deployed"}
    PROVE  /\ op.app \in Apps /\ Statuses[op.app] = "Initiated" /\ IsKnown(op.app)
           /\ msg.man \in Manifests /\ op.app = msg.man.id /\ Len(msg.man.modules) \in Nat \ {0}
<1>1. op.pc \notin Appless /\ InDeploy /\ op.pc # "idle"
  BY DEF Appless, InDeploy
<1>2. Statuses[op.app] = "Initiated"
  BY <1>1 DEF SInv, Fits
<1> QED  BY <1>1, <1>2, DeployContext, StatusFacts DEF TypeInv

LEMMA WholeNetwork ==
    ASSUME TypeInv, CreateAppNetwork, Empty(op.app)
    PROVE  BuiltFrom(op.app, msg.man, op.idx + 1, op.net)'
<1>1. /\ op \in FrameType /\ op.pc = "network" /\ HostOK
      /\ Len(msg.man.modules) \in Nat
  BY DeployContext DEF CreateAppNetwork, At, InDeploy, TypeInv, HandlerOK
<1>2. /\ op'.pc = "create" /\ op'.app = op.app /\ op'.net = NewCount /\ msg' = msg
      /\ op'.idx = Len(msg.man.modules)
  BY <1>1 DEF CreateAppNetwork, Step, FrameType
<1>3. /\ containers' = containers
      /\ networks' = networks \cup {[app |-> op.app, count |-> NewCount]}
  BY DEF CreateAppNetwork, CreateNetwork
<1>4. \A a : a = op.app => /\ ContainersOf(a)' = {}
                         /\ NetworksOf(a)' = {[app |-> a, count |-> NewCount]}
  BY <1>1, <1>3 DEF Empty, ContainersOf, NetworksOf
<1>5. \A k, l \in Nat : k = l + 1 => k .. l = {}
  OBVIOUS
<1>6. (op'.idx + 1) .. Len(msg.man.modules) = {}
  BY <1>1, <1>2, <1>5
<1> QED  BY <1>2, <1>4, <1>6 DEF BuiltFrom, ContainersOf, NetworksOf

LEMMA WholeContainer ==
    ASSUME TypeInv, CreateContainer, BuiltFrom(op.app, msg.man, op.idx + 1, op.net)
    PROVE  BuiltFrom(op.app, msg.man, op.idx, op.net)'
<1> DEFINE new == [id |-> NewContainerId, app |-> op.app, net |-> op.net, module |-> op.idx,
                   image |-> ModuleImage, state |-> "created"]
<1>1. /\ op \in FrameType /\ op.pc = "create" /\ HostOK /\ op.idx \in Nat
      /\ op.idx \in 1 .. Len(msg.man.modules) /\ Len(msg.man.modules) \in Nat
  BY DeployContext DEF CreateContainer, At, InDeploy, TypeInv, HandlerOK, FrameFits, FrameType
<1>2. /\ op'.app = op.app /\ op'.net = op.net /\ msg' = msg /\ op'.idx = op.idx
  BY <1>1 DEF CreateContainer, Step, FrameType
<1>3. containers' = containers \cup {new} /\ networks' = networks
  BY DEF CreateContainer, CreateModule, createContainer
<1>4. /\ new.app = op.app /\ new.net = op.net /\ new.module = op.idx
      /\ new.image = msg.man.modules[op.idx]
  BY DEF ModuleImage
<1> HIDE DEF new
<1>5. ContainersOf(op.app)' = ContainersOf(op.app) \cup {new}
  BY <1>2, <1>3, <1>4 DEF ContainersOf
<1>6. NetworksOf(op.app)' = NetworksOf(op.app)
  BY <1>2, <1>3 DEF NetworksOf
<1>7. \A j \in op.idx .. Len(msg.man.modules) :
            j = op.idx \/ j \in (op.idx + 1) .. Len(msg.man.modules)
  BY <1>1
<1>8. /\ op.idx \in op.idx .. Len(msg.man.modules)
      /\ op.idx \notin (op.idx + 1) .. Len(msg.man.modules)
      /\ (op.idx + 1) .. Len(msg.man.modules) \subseteq op.idx .. Len(msg.man.modules)
  BY <1>1
<1>9. \A c \in ContainersOf(op.app) :
            /\ c.net = op.net /\ c.module \in (op.idx + 1) .. Len(msg.man.modules)
            /\ c.image = msg.man.modules[c.module]
  BY <1>1 DEF BuiltFrom
<1>10. \A c, d \in ContainersOf(op.app) \cup {new} : c.module = d.module => c = d
  BY <1>1, <1>4, <1>8, <1>9 DEF BuiltFrom
<1>11. \A j \in op.idx .. Len(msg.man.modules) :
            \E c \in ContainersOf(op.app) \cup {new} : c.module = j
  BY <1>1, <1>4, <1>7 DEF BuiltFrom
<1>12. \A c \in ContainersOf(op.app) \cup {new} :
            /\ c.net = op.net /\ c.module \in op.idx .. Len(msg.man.modules)
            /\ c.image = msg.man.modules[c.module]
  BY <1>4, <1>8, <1>9
<1> QED  BY <1>1, <1>2, <1>5, <1>6, <1>10, <1>11, <1>12 DEF BuiltFrom

LEMMA WholeStart ==
    ASSUME TypeInv, OwnInv, OrderInv, WorkDone, SInv, StartModule
    PROVE  WorkDone'
<1>1. /\ op \in FrameType /\ op.pc = "start" /\ HostOK /\ op.idx \in Nat \ {0}
      /\ BuiltFrom(op.app, msg.man, op.idx, op.net) /\ IsKnown(op.app) /\ op.app \in Apps
      /\ known[op.app].man = msg.man /\ op.net \in 0 .. MaxNetworkIndex
  BY MakingFacts DEF StartModule, At, WorkDone, TypeInv, HandlerOK, FrameFits, FrameType
<1>2. PICK id \in op.todo : ContainerTo(id, "running")
  BY DEF StartModule, StartContainer
<1>3. known' = known /\ msg' = msg
  BY DEF StartModule, HostOnly, storeVars, Step
<1>4. \A a, man, k, net : BuiltFrom(a, man, k, net) => BuiltFrom(a, man, k, net)'
  BY <1>1, <1>2, BuiltMoved
<1>5. CASE op.idx > 1
  <2>1. /\ op'.pc = "create" /\ op'.app = op.app /\ op'.net = op.net
        /\ op'.idx = op.idx - 1 /\ op'.idx + 1 = op.idx
    BY <1>1, <1>5 DEF StartModule, Step, FrameType
  <2>2. known'[op'.app].man = msg'.man
    BY <1>1, <1>3, <2>1
  <2>3. BuiltFrom(op.app, msg.man, op.idx + 1, op.net)'
    <3>1. \A a, man, k, net :
            a = op'.app /\ man = msg'.man /\ k = op'.idx + 1 /\ net = op'.net
            => BuiltFrom(a, man, k, net)'
      BY <1>1, <1>3, <1>4, <2>1
    <3> QED  BY <3>1 DEF BuiltFrom, ContainersOf, NetworksOf
  <2> QED  BY <2>1, <2>2, <2>3 DEF WorkDone, At
<1>6. CASE ~(op.idx > 1)
  <2>1. op'.pc = "deployed" /\ op'.app = op.app /\ op.idx = 1
    BY <1>1, <1>6 DEF StartModule, Step, FrameType
  <2>2. known'[op'.app].man = msg'.man
    BY <1>1, <1>3, <2>1
  <2>3. IsWhole(op.app)'
    <3>1. \A a : a = op.app => BuiltFrom(a, known[a].man, 1, op.net)
      BY <1>1, <2>1
    <3>2. \A a : a = op.app => IsWhole(a)'
      BY <1>1, <1>3, <1>4, <3>1 DEF IsWhole
    <3> QED  BY <2>1, <3>2 DEF IsWhole, BuiltFrom, ContainersOf, NetworksOf
  <2>4. (RunningIn(op.app) = ContainersOf(op.app))'
    <3>1. op.todo = {id}
      BY <1>1, <1>2 DEF OrderInv, StartWork, At
    <3>2. \A c \in containers : c.app = op.app => c.id = id \/ c.state = "running"
      BY <1>1, <3>1 DEF BuiltFrom, ContainersOf, OrderInv, StartWork, At
    <3>3. \A d \in containers' : d.app = op.app => d.state = "running"
      BY <1>1, <1>2, <3>2, ContainerToFacts
    <3> QED  BY <2>1, <3>3 DEF RunningIn, ContainersOf
  <2> QED  BY <2>1, <2>2, <2>3, <2>4 DEF WorkDone, At
<1> QED  BY <1>5, <1>6

LEMMA WholeDeploy ==
    ASSUME TypeInv, EmptyInv, OwnInv, OrderInv, SInv, Smooth, AllSettled, WorkDone, Handler,
           Add \/ ImagePresent \/ Pull \/ CreateAppNetwork \/ NetworkLimit \/ CreateContainer
           \/ StartModule \/ DeployDone
    PROVE  AllSettled' /\ WorkDone'
<1>0. op \in FrameType /\ StoreOK
  BY DEF TypeInv, HandlerOK
<1>a. ASSUME op.pc \in {"network", "create", "start"}, known' = known
      PROVE  AllSettled'
  BY <1>a, MakingFacts, HostSettles
<1>1. CASE Add
  <2>1. /\ op.pc = "add" /\ op'.pc = "image" /\ op'.app = op.app /\ msg' = msg
        /\ UNCHANGED <<containers, networks>>
    BY <1>0, <1>1 DEF Add, At, Step, RecordOnly, dockerVars, FrameType
  <2>2. msg.man \in Manifests /\ msg.man.id = op.app /\ op.app \in Apps
    BY <2>1, DeployContext DEF TypeInv, InDeploy
  <2>3. AddKnownManifest(msg.man)
    BY <1>1 DEF Add
  <2>4. known' = [known EXCEPT ![op.app] = [man |-> msg.man, status |-> "Initiated"]]
    BY <2>2, <2>3 DEF AddKnownManifest
  <2>5. known'[op.app] = [man |-> msg.man, status |-> "Initiated"]
    BY <1>0, <2>2, <2>4 DEF StoreOK
  <2>6. \A b \in Apps : b # op.app => known'[b] = known[b]
    BY <1>0, <2>4 DEF StoreOK
  <2>7. \A b \in Apps : SettledApp(b)'
    <3>1. \A b \in Apps : b # op.app => SettledApp(b)'
      BY <2>1, <2>6, SettledKept DEF AllSettled, LifeContent, ContainersOf, NetworksOf
    <3>2. \A b \in Apps : b = op.app => SettledApp(b)'
      BY <2>5 DEF SettledApp, HasStatus
    <3> QED  BY <3>1, <3>2
  <2>8. Empty(op.app)
    BY <2>1, <2>2 DEF WorkDone, At, EmptyInv, InactiveIsEmpty
  <2>9. Empty(op.app)' /\ known'[op'.app].man = msg'.man
    BY <2>1, <2>5, <2>8 DEF Empty, ContainersOf, NetworksOf
  <2> QED  BY <2>1, <2>7, <2>9 DEF AllSettled, WorkDone, At
<1>2. CASE ImagePresent \/ Pull
  <2>1. /\ op.pc = "image" /\ op'.pc \in {"image", "network"} /\ op'.app = op.app /\ msg' = msg
        /\ UNCHANGED <<containers, networks, known>>
    BY <1>0, <1>2 DEF ImagePresent, Pull, PullImage, At, Step, NextImage, Neither, HostOnly,
                      dockerVars, storeVars, FrameType
  <2>2. Empty(op.app) /\ known[op.app].man = msg.man
    BY <2>1 DEF WorkDone
  <2>3. Empty(op.app)' /\ known'[op'.app].man = msg'.man
    BY <2>1, <2>2 DEF Empty, ContainersOf, NetworksOf
  <2> QED  BY <2>1, <2>3, StillSettled DEF WorkDone, At
<1>3. CASE CreateAppNetwork
  <2>1. /\ op.pc = "network" /\ op'.pc = "create" /\ op'.app = op.app /\ msg' = msg
        /\ known' = known
    BY <1>0, <1>3 DEF CreateAppNetwork, At, Step, HostOnly, storeVars, FrameType
  <2>2. known'[op'.app].man = msg'.man
    BY <2>1 DEF WorkDone
  <2>3. Empty(op.app)
    BY <2>1 DEF WorkDone
  <2> QED  BY <1>3, <1>a, <2>1, <2>2, <2>3, WholeNetwork DEF WorkDone, At
<1>4. CASE NetworkLimit
  <2>1. /\ op.pc = "network" /\ op'.pc = "undeploy" /\ UNCHANGED <<containers, networks>>
        /\ SetStatus(op.app, "Error")
    BY <1>0, <1>4 DEF NetworkLimit, CreateNetworkFails, At, Step, Rollback, dockerVars, FrameType
  <2> QED  BY <2>1, MakingFacts, SetSettles, ToUnbuilt DEF Status, Unbuilt
<1>5. CASE CreateContainer
  <2>1. /\ op.pc = "create" /\ op'.pc = "start" /\ op'.app = op.app /\ msg' = msg
        /\ known' = known
    BY <1>0, <1>5 DEF CreateContainer, At, Step, HostOnly, storeVars, FrameType
  <2>2. known'[op'.app].man = msg'.man
    BY <2>1 DEF WorkDone
  <2>3. BuiltFrom(op.app, msg.man, op.idx + 1, op.net)
    BY <2>1 DEF WorkDone, At
  <2> QED  BY <1>5, <1>a, <2>1, <2>2, <2>3, WholeContainer DEF WorkDone, At
<1>6. CASE StartModule
  <2>1. op.pc = "start" /\ known' = known
    BY <1>6 DEF StartModule, At, HostOnly, storeVars
  <2> QED  BY <1>6, <1>a, <2>1, WholeStart
<1>7. CASE DeployDone
  <2>1. /\ op.pc = "deployed" /\ op'.pc = "idle" /\ UNCHANGED <<containers, networks>>
        /\ SetStatus(op.app, "Running")
    BY <1>7 DEF DeployDone, At, Return, Idle, Frame, RecordOnly, dockerVars
  <2>2. IsWhole(op.app) /\ RunningIn(op.app) = ContainersOf(op.app)
    BY <2>1 DEF WorkDone, At
  <2> QED  BY <2>1, <2>2, MakingFacts, SetSettles, ToUnbuilt DEF Status, Unbuilt
<1> QED  BY <1>1, <1>2, <1>3, <1>4, <1>5, <1>6, <1>7

------------------------------------------------------------------------------
LEMMA WholeStopResume ==
    ASSUME TypeInv, OwnInv, OrderInv, SInv, AllSettled, WorkDone, Handler,
           StopNext \/ StopDone \/ ResumeNext \/ ResumeDone
    PROVE  AllSettled' /\ WorkDone'
<1>0. /\ op \in FrameType /\ HostOK /\ op.pc \in {"stop", "resume"} /\ op.app \in Apps
      /\ IsWhole(op.app) /\ Statuses[op.app] = "Executing"
  BY DEF TypeInv, HandlerOK, FrameFits, StopNext, StopDone, ResumeNext, ResumeDone, At, WorkDone,
         SInv, Fits, Appless
<1>1. CASE StopNext \/ ResumeNext
  <2>1. /\ op'.pc \in {"stop", "resume"} /\ op'.app = op.app /\ known' = known
        /\ \E id, s : ContainerTo(id, s)
    BY <1>0, <1>1 DEF StopNext, ResumeNext, StopContainer, StartContainer, At, Step, HostOnly,
                      storeVars, FrameType
  <2>2. AllSettled'
    BY <1>0, <2>1, HostSettles
  <2>3. \A a : IsWhole(a) => IsWhole(a)'
    BY <1>0, <2>1, BuiltMoved DEF IsWhole
  <2>4. \A a : a = op.app => IsWhole(a)'
    BY <1>0, <2>3
  <2>5. IsWhole(op.app)'
    BY <2>1, <2>4 DEF IsWhole, BuiltFrom, ContainersOf, NetworksOf
  <2> QED  BY <2>1, <2>2, <2>5 DEF WorkDone, At
<1>2. CASE StopDone
  <2>1. op'.pc = "idle" /\ UNCHANGED <<containers, networks>> /\ SetStatus(op.app, "Stopped")
    BY <1>2 DEF StopDone, Return, Idle, Frame, RecordOnly, dockerVars
  <2> QED  BY <1>0, <2>1, SetSettles, ToUnbuilt DEF Status, Unbuilt
<1>3. CASE ResumeDone
  <2>1. /\ op'.pc = "idle" /\ UNCHANGED <<containers, networks>> /\ SetStatus(op.app, "Running")
        /\ op.pc = "resume" /\ op.todo = {}
    BY <1>3 DEF ResumeDone, Return, Idle, Frame, RecordOnly, dockerVars, At
  <2>2. RunningIn(op.app) = ContainersOf(op.app)
    BY <2>1 DEF OrderInv, StartWork, At, RunningIn
  <2> QED  BY <1>0, <2>1, <2>2, SetSettles, ToUnbuilt DEF Status, Unbuilt
<1> QED  BY <1>1, <1>2, <1>3

LEMMA WholeRemoval ==
    ASSUME TypeInv, OwnInv, SInv, Callers, Smooth, faults = 0, AllSettled, WorkDone, Handler,
           \/ Undeploy \/ ListContainers \/ RemoveContainer \/ PruneNetworks \/ UndeployDone
           \/ SelectImages \/ RemoveImage \/ (Forget /\ ReturnFromRemove(TRUE))
    PROVE  AllSettled' /\ WorkDone'
<1>0. op \in FrameType /\ StoreOK
  BY DEF TypeInv, HandlerOK
<1>a. op.app \in Apps /\ op.pc \in {"undeploy", "list", "removeContainers", "undeployed",
                                    "images", "removeImages"}
  BY DEF TypeInv, HandlerOK, FrameFits, Appless, Undeploy, ListContainers, RemoveContainer,
         PruneNetworks, UndeployDone, SelectImages, RemoveImage, Forget, At
<1>1. CASE ListContainers \/ SelectImages \/ RemoveImage
  <2>1. UNCHANGED <<containers, networks, known>> /\ op'.pc \in Unbuilt
    BY <1>0, <1>1 DEF ListContainers, SelectImages, RemoveImage, ImageRemove, At, Step, Neither,
       HostOnly, dockerVars, storeVars, FrameType, Unbuilt
  <2> QED  BY <2>1, StillSettled, ToUnbuilt
<1>2. CASE RemoveContainer \/ PruneNetworks
  <2>1. op.pc = "removeContainers" /\ known' = known /\ op'.pc \in Unbuilt
    BY <1>0, <1>2 DEF RemoveContainer, PruneNetworks, At, GoTo, Step, HostOnly, storeVars,
       FrameType, Unbuilt
  <2>2. Statuses[op.app] \in {"Executing", "Error"}
    BY <2>1 DEF SInv, Fits, Appless
  <2> QED  BY <1>a, <2>1, <2>2, HostSettles, ToUnbuilt
<1>3. CASE Undeploy
  <2>1. /\ op'.pc \in Unbuilt /\ UNCHANGED <<containers, networks>>
        /\ SetStatus(op.app, "Executing")
    BY <1>0, <1>3 DEF Undeploy, GoTo, Step, RecordOnly, dockerVars, FrameType, Unbuilt
  <2> QED  BY <1>a, <2>1, SetSettles, ToUnbuilt DEF Status
<1>4. CASE UndeployDone
  <2>1. /\ op'.pc \in Unbuilt /\ UNCHANGED <<containers, networks>>
        /\ SetStatus(op.app, "Undeployed")
    BY <1>0, <1>4 DEF UndeployDone, ReturnFromUndeploy, Return, GoTo, Step, Idle, Frame,
       RecordOnly, dockerVars, FrameType, Unbuilt
  <2> QED  BY <1>a, <2>1, SetSettles, ToUnbuilt DEF Status
<1>5. CASE Forget /\ ReturnFromRemove(TRUE)
  <2>1. UNCHANGED <<containers, networks>> /\ DeleteKnownManifest(op.app)
    BY <1>5 DEF Forget, dockerVars
  <2>2. known'[op.app] = None /\ \A b \in Apps : b # op.app => known'[b] = known[b]
    BY <1>0, <1>a, <2>1 DEF DeleteKnownManifest, StoreOK
  <2>3. AllSettled'
    <3>1. \A b \in Apps : b # op.app => SettledApp(b)'
      BY <2>1, <2>2, SettledKept DEF AllSettled, LifeContent, ContainersOf, NetworksOf
    <3>2. \A b \in Apps : b = op.app => SettledApp(b)'
      BY <2>2 DEF SettledApp, HasStatus, IsKnown
    <3> QED  BY <3>1, <3>2 DEF AllSettled
  <2>4. CASE op'.pc \in Unbuilt
    BY <2>3, <2>4, ToUnbuilt
  <2>5. CASE op'.pc = "add" /\ op'.app = op.app
    BY <2>2, <2>3, <2>5 DEF WorkDone, At, Inactive, IsKnown
  <2>6. op'.pc \in Unbuilt \/ (op'.pc = "add" /\ op'.app = op.app)
    BY <1>0, <1>5 DEF ReturnFromRemove, Return, GoTo, Step, Idle, Frame, FrameType, Unbuilt
  <2> QED  BY <2>4, <2>5, <2>6
<1> QED  BY <1>1, <1>2, <1>3, <1>4, <1>5

LEMMA WholeStep ==
    ASSUME Unstable = {}, TypeInv, EmptyInv, OwnInv, OrderInv, SInv, Callers, Smooth, WholeInv,
           [Next]_vars
    PROVE  WholeInv'
<1>1. CASE Handler
  <2> SUFFICES ASSUME faults' = 0
               PROVE  AllSettled' /\ WorkDone'
    BY WholeParts DEF WholeInv, AllSettled, SettledApp, WorkDone
  <2>1. faults = 0 /\ SmoothStep
    BY <1>1, HandlersRunSmoothly
  <2>2. AllSettled /\ WorkDone
    BY <2>1, WholeParts
  <2> QED  BY <1>1, <2>1, <2>2, WholeBegin, WholeDeploy, WholeStopResume, WholeRemoval DEF SmoothStep
<1>2. ~Engine
  BY DEF Engine, ContainerChanges, ContainerLost
<1>3. CASE Receive \/ Finished \/ UNCHANGED vars
  <2>1. /\ UNCHANGED <<containers, networks, known, faults, op>>
        /\ op.pc = "idle" \/ msg' = msg
    BY <1>3 DEF Receive, Finished, vars, handlerVars, dockerVars, storeVars, counters, At
  <2> SUFFICES ASSUME faults = 0
               PROVE  AllSettled' /\ WorkDone'
    BY <2>1 DEF WholeInv, AllSettled, SettledApp, WorkDone
  <2>2. AllSettled /\ WorkDone
    BY WholeParts
  <2>3. AllSettled'
    BY <2>1, <2>2, StillSettled
  <2>4. CASE op.pc = "idle"
    BY <2>1, <2>3, <2>4, ToUnbuilt DEF Unbuilt
  <2>5. CASE msg' = msg
    BY <2>1, <2>2, <2>3, <2>5 DEF WorkDone, At, Inactive, IsKnown, Empty, ContainersOf, NetworksOf,
       BuiltFrom, IsWhole, RunningIn
  <2> QED  BY <2>1, <2>3, <2>4, <2>5
<1> QED  BY <1>1, <1>2, <1>3 DEF Next

LEMMA AlwaysWhole ==
    ASSUME Unstable = {}
    PROVE  Spec => []WholeInv
<1>1. Init => WholeInv
  BY DEF Init, WholeInv, HasStatus, IsKnown, Idle, Frame, At
<1>2. (TypeInv /\ EmptyInv /\ OwnInv /\ OrderInv /\ SInv /\ Callers /\ Smooth /\ WholeInv
          /\ [Next]_vars) => WholeInv'
  BY WholeStep
<1> QED  BY <1>1, <1>2, TypeInvariant, EmptyAlways, AlwaysOwn, AlwaysOrder, AlwaysSInv, AlwaysCalled,
            SmoothInvariant, SpecImpliesCrashSpec, PTL DEF Spec

------------------------------------------------------------------------------
(* A Running app is its manifest                                           *)

LEMMA AlwaysKeyed == Spec => []KeyedById
<1>1. Init => KeyedById
  BY DEF Init, KeyedById, IsKnown
<1>2. ASSUME TypeInv, KeyedById, [Next]_vars
      PROVE  KeyedById'
  <2>1. CASE known' = known
    BY <1>2, <2>1 DEF KeyedById, IsKnown
  <2>2. CASE Handler
    <3> SUFFICES ASSUME NEW a \in Apps, known'[a] # None
                 PROVE  known'[a].man.id = a
      BY DEF KeyedById, IsKnown
    <3>1. CASE \E b \in {op.app, msg.app} : \E s \in Status : SetStatus(b, s)
      <4>1. PICK b \in {op.app, msg.app}, s \in Status : SetStatus(b, s)
        BY <3>1
      <4>2. CASE IsKnown(a)
        <5>1. known'[a].man = known[a].man
          BY <1>2, <4>1, <4>2, SetStatusKnows DEF TypeInv
        <5> QED  BY <1>2, <4>2, <5>1 DEF KeyedById
      <4>3. CASE ~IsKnown(a)
        <5>1. known'[a] = known[a]
          BY <1>2, <4>1, <4>3 DEF SetStatus, storeVars, IsKnown, TypeInv, StoreOK
        <5> QED  BY <4>3, <5>1 DEF IsKnown
      <4> QED  BY <4>2, <4>3
    <3>2. CASE Add
      <4>1. msg.man \in Manifests /\ AddKnownManifest(msg.man)
        BY <1>2, <3>2, DeployContext DEF Add, At, InDeploy, TypeInv
      <4>2. known'[a] = IF a = msg.man.id THEN [man |-> msg.man, status |-> "Initiated"]
                                         ELSE known[a]
        BY <1>2, <4>1 DEF AddKnownManifest, TypeInv, StoreOK
      <4> QED  BY <1>2, <4>2 DEF KeyedById, IsKnown
    <3>3. CASE Forget
      <4>1. a = op.app => known'[a] = None
        BY <1>2, <3>3 DEF Forget, DeleteKnownManifest, TypeInv, StoreOK
      <4>2. a # op.app => known'[a] = known[a]
        BY <1>2, <3>3 DEF Forget, DeleteKnownManifest, TypeInv, StoreOK
      <4> QED  BY <1>2, <4>1, <4>2 DEF KeyedById, IsKnown
    <3>4. UndeployDone => SetStatus(op.app, "Undeployed") /\ "Undeployed" \in Status
      BY DEF UndeployDone, Status
    <3> QED  BY <2>1, <2>2, <3>1, <3>2, <3>3, <3>4, HandlerRecord
             DEF RecordEffect, storeVars, KeyedById, IsKnown
  <2>3. CASE Receive \/ Engine \/ Finished \/ UNCHANGED vars
    BY <2>1, <2>3 DEF Receive, Engine, Finished, vars, storeVars
  <2> QED  BY <1>2, <2>2, <2>3 DEF Next
<1> QED  BY <1>1, <1>2, TypeInvariant, SpecImpliesCrashSpec, PTL DEF Spec

\* As many containers as modules.
LEMMA OnePerModule ==
    ASSUME HostOK, NEW a \in Apps, NEW man \in Manifests, NEW net, BuiltFrom(a, man, 1, net)
    PROVE  Cardinality(ContainersOf(a)) = Len(man.modules)
<1> DEFINE S == ContainersOf(a)
           T == 1 .. Len(man.modules)
           f == [c \in S |-> c.module]
<1>1. Len(man.modules) \in Nat
  BY ManifestFacts
<1>2. f \in Injection(S, T) /\ f \in Surjection(S, T)
  <2>1. \A c \in S : c.module \in T
    BY DEF BuiltFrom
  <2>2. \A c, d \in S : c.module = d.module => c = d
    BY DEF BuiltFrom
  <2>3. \A j \in T : \E c \in S : c.module = j
    BY DEF BuiltFrom
  <2> HIDE DEF S, T
  <2>4. f \in [S -> T]
    BY <2>1
  <2>5. f \in Injection(S, T)
    BY <2>2, <2>4 DEF Injection, IsInjective
  <2>6. f \in Surjection(S, T)
    BY <2>3, <2>4 DEF Surjection
  <2> QED  BY <2>5, <2>6
<1>3. IsFiniteSet(T) /\ Cardinality(T) = Len(man.modules)
  BY <1>1, FS_Interval
<1> HIDE DEF S, T, f
<1>4. Cardinality(S) = Cardinality(T)
  BY <1>2, <1>3, FS_Injection
<1> QED  BY <1>3, <1>4 DEF S

\* As long as calls succeed and containers do not change by themselves, an app that is
\* called Running is exactly its manifest: one network, and on it one running container
\* for each module, from the module's image, with nothing of an older version, for any
\* apps, manifests and sequence of commands (edgeapp.go 18-343).
THEOREM RunningIsTheManifest ==
    ASSUME Unstable = {}
    PROVE  Spec => []RunningMatchesManifest
<1>1. ASSUME TypeInv, KeyedById, WholeInv
      PROVE  RunningMatchesManifest
  <2> SUFFICES ASSUME faults = 0, NEW a \in Apps, HasStatus(a, "Running")
               PROVE  \E n \in networks :
                        /\ NetworksOf(a) = {n}
                        /\ {Shape(c) : c \in ContainersOf(a)} = Deployed(known[a].man, n.count)
                        /\ Cardinality(ContainersOf(a)) = Len(known[a].man.modules)
    BY DEF RunningMatchesManifest
  <2> DEFINE man == known[a].man
  <2>1. IsWhole(a) /\ RunningIn(a) = ContainersOf(a)
    BY <1>1 DEF WholeInv
  <2>2. man \in Manifests /\ HostOK
    BY <1>1 DEF TypeInv, StoreOK, HasStatus, IsKnown, Record
  <2>3. PICK net : BuiltFrom(a, man, 1, net)
    BY <2>1 DEF IsWhole
  <2> DEFINE n == [app |-> a, count |-> net]
  <2>4. n \in networks /\ NetworksOf(a) = {n} /\ n.count = net
    BY <2>3 DEF BuiltFrom, NetworksOf
  <2>5. {Shape(c) : c \in ContainersOf(a)} = Deployed(man, net)
    <3>1. DOMAIN man.modules = 1 .. Len(man.modules)
      BY <2>2, ManifestFacts
    <3> DEFINE Place(k) == [app |-> man.id, net |-> net, module |-> k, image |-> man.modules[k],
                            state |-> "running"]
    <3>2. \A c \in ContainersOf(a) : c.module \in 1 .. Len(man.modules) /\ Shape(c) = Place(c.module)
      <4>1. a = man.id
        BY <1>1 DEF KeyedById, HasStatus
      <4>2. \A c \in ContainersOf(a) : c.app = a /\ c.state = "running"
        BY <2>1 DEF ContainersOf, RunningIn
      <4> QED  BY <2>3, <4>1, <4>2 DEF BuiltFrom, Shape
    <3>3. \A k \in 1 .. Len(man.modules) : \E c \in ContainersOf(a) : c.module = k
      BY <2>3 DEF BuiltFrom
    <3>4. Deployed(man, net) = {Place(k) : k \in 1 .. Len(man.modules)}
      BY <3>1 DEF Deployed
    <3> HIDE DEF Place, man
    <3> QED  BY <3>2, <3>3, <3>4
  <2>6. Cardinality(ContainersOf(a)) = Len(man.modules)
    BY <2>2, <2>3, OnePerModule
  <2> HIDE DEF n
  <2> QED  BY <2>4, <2>5, <2>6
<1> QED  BY <1>1, TypeInvariant, AlwaysKeyed, AlwaysWhole, SpecImpliesCrashSpec, PTL

------------------------------------------------------------------------------
(* A deleted node                                                          *)

\* A step within a handler, and the end of one that is not DeleteNode.
Goes ==
    /\ op'.pc # "idle" /\ UNCHANGED <<msg, last, nodeStatus>>
    /\ op'.caller = "DELETE" <=> msg.cmd = "DELETE"
    /\ op'.pc \in {"deleteNext", "deleted"} => op'.caller = "DELETE"

Ends == msg.cmd # "DELETE" /\ \E ok : Return(ok)

LEMMA RemoveEnds ==
    ASSUME op \in FrameType, DeleteInv, op.pc # "idle", NEW ok, ReturnFromRemove(ok)
    PROVE  Goes \/ Ends
<1>1. op.caller = "DELETE" <=> msg.cmd = "DELETE"
  BY DEF DeleteInv, At
<1>2. CASE op.caller \in {"REMOVE", "rollback"}
  BY <1>1, <1>2 DEF ReturnFromRemove, Ends
<1>3. CASE op.caller \in {"redeploy", "lateRollback"}
  BY <1>1, <1>3 DEF ReturnFromRemove, GoTo, Step, FrameType, Goes
<1>4. CASE op.caller = "DELETE"
  BY <1>1, <1>4 DEF ReturnFromRemove, GoTo, Step, FrameType, Goes
<1> QED  BY <1>2, <1>3, <1>4 DEF ReturnFromRemove

LEMMA UndeployEnds ==
    ASSUME op \in FrameType, DeleteInv, op.pc # "idle", NEW ok, ReturnFromUndeploy(ok)
    PROVE  Goes \/ Ends
<1>1. op.caller = "DELETE" <=> msg.cmd = "DELETE"
  BY DEF DeleteInv, At
<1>2. CASE op.caller = "UNDEPLOY" /\ Return(ok)
  BY <1>1, <1>2 DEF Ends
<1>3. CASE GoTo("images")
  BY <1>1, <1>3 DEF GoTo, Step, FrameType, Goes
<1> QED  BY <1>2, <1>3, RemoveEnds DEF ReturnFromUndeploy

LEMMA HandlerEnds ==
    ASSUME TypeInv, DeleteInv, Callers, Handler
    PROVE  Goes \/ Ends \/ SetNodeDeleted
<1>0. op \in FrameType /\ FrameFits
  BY DEF TypeInv, HandlerOK
<1>1. op.pc # "idle" => (op.caller = "DELETE" <=> msg.cmd = "DELETE")
  BY DEF DeleteInv, At
<1>2. CASE Deploy
  <2>1. CASE DeployFresh \/ DeployNewVersion
    BY <2>1 DEF DeployFresh, DeployNewVersion, Handling, Step, Frame, Goes
  <2>2. CASE DeployRejected
    BY <2>2 DEF DeployRejected, Handling, Ends
  <2>3. CASE InspectFails \/ DeployDone \/ LateError
    <3>1. InDeploy /\ op.pc # "idle"
      BY <2>3 DEF InspectFails, DeployDone, LateError, At, InDeploy
    <3>2. msg.cmd = "DEPLOY"
      BY <1>0, <3>1 DEF FrameFits
    <3> QED  BY <2>3, <3>2 DEF InspectFails, DeployDone, LateError, Ends
  <2>4. CASE Add \/ ImagePresent \/ Pull \/ PullErrorUnseen \/ PullFails \/ CreateAppNetwork
             \/ CreateNetworkFails \/ CreateContainer \/ CreateContainerFails \/ StartModule
             \/ StartModuleFails
    <3>1. InDeploy /\ op.pc # "idle"
      BY <2>4 DEF Add, ImagePresent, Pull, PullErrorUnseen, PullFails, CreateAppNetwork,
         CreateNetworkFails, CreateContainer, CreateContainerFails, StartModule, StartModuleFails,
         At, InDeploy
    <3>2. msg.cmd = "DEPLOY" /\ op.caller # "DELETE"
      BY <1>0, <1>1, <3>1 DEF FrameFits
    <3>3. /\ op'.pc \in {"image", "network", "create", "start", "deployed", "undeploy"}
          /\ op'.caller \in {op.caller, "rollback", "lateRollback"}
          /\ UNCHANGED <<msg, last, nodeStatus>>
      <4>1. CASE Add \/ CreateAppNetwork \/ CreateContainer \/ StartModule
        BY <1>0, <4>1 DEF Add, CreateAppNetwork, CreateContainer, StartModule, Step, FrameType
      <4>2. CASE ImagePresent \/ Pull \/ PullErrorUnseen
        BY <1>0, <4>2 DEF ImagePresent, Pull, PullErrorUnseen, At, NextImage, Step, FrameType
      <4>3. CASE PullFails \/ CreateNetworkFails \/ CreateContainerFails \/ StartModuleFails
        BY <1>0, <4>3 DEF PullFails, CreateNetworkFails, CreateContainerFails, StartModuleFails,
                          Rollback, Step, FrameType
      <4> QED  BY <2>4, <4>1, <4>2, <4>3
    <3> QED  BY <3>2, <3>3 DEF Goes
  <2> QED  BY <1>2, <2>1, <2>2, <2>3, <2>4 DEF Deploy
<1>3. CASE Stop \/ Resume
  <2>1. CASE StopRefused \/ ResumeRefused
    BY <2>1 DEF StopRefused, ResumeRefused, Handling, Ends
  <2>2. CASE StopBegin \/ ResumeBegin
    BY <2>2 DEF StopBegin, ResumeBegin, Handling, Step, Frame, Goes
  <2>3. CASE StopNext \/ ResumeNext
    BY <1>0, <1>1, <2>3 DEF StopNext, ResumeNext, At, Step, FrameType, Goes
  <2>4. CASE StopFails \/ StopDone \/ ResumeFails \/ ResumeDone
    <3>1. op.pc \in {"stop", "resume"}
      BY <2>4 DEF StopFails, StopDone, ResumeFails, ResumeDone, At
    <3>2. msg.cmd # "DELETE"
      BY <1>1, <3>1 DEF Callers, At
    <3> QED  BY <2>4, <3>2 DEF StopFails, StopDone, ResumeFails, ResumeDone, Ends
  <2> QED  BY <1>3, <2>1, <2>2, <2>3, <2>4 DEF Stop, Resume
<1>4. CASE UndeployEdgeApp
  <2>1. CASE UndeployRejected
    BY <2>1 DEF UndeployRejected, Handling, Ends
  <2>2. CASE UndeployBegin
    BY <2>2 DEF UndeployBegin, Handling, Step, Frame, Goes
  <2>3. CASE Undeploy \/ ListContainers \/ RemoveContainer \/ RemoveContainerFails
             \/ PruneNetworks \/ PruneNetworksFails
    BY <1>0, <1>1, <2>3 DEF Undeploy, ListContainers, RemoveContainer, RemoveContainerFails,
       PruneNetworks, PruneNetworksFails, At, GoTo, Step, FrameType, Goes
  <2>4. CASE ListContainersFails \/ UndeployDone \/ UndeployIncomplete
    BY <1>0, <2>4, UndeployEnds DEF ListContainersFails, UndeployDone, UndeployIncomplete, At
  <2> QED  BY <1>4, <2>1, <2>2, <2>3, <2>4 DEF UndeployEdgeApp
<1>5. CASE RemoveEdgeApp
  <2>1. CASE SelectImages \/ RemoveImage \/ RemoveImageFails
    BY <1>0, <1>1, <2>1 DEF SelectImages, RemoveImage, RemoveImageFails, At, Step, FrameType, Goes
  <2>2. CASE SelectImagesFails \/ ImagesRemain \/ Forget
    BY <1>0, <2>2, RemoveEnds DEF SelectImagesFails, ImagesRemain, Forget, At
  <2> QED  BY <1>5, <2>1, <2>2 DEF RemoveEdgeApp
<1>6. CASE DeleteNode
  <2>1. CASE DeleteBegin
    BY <2>1 DEF DeleteBegin, Handling, Step, Frame, Goes
  <2>2. CASE DeleteNext \/ DeleteLast
    <3>1. op.caller = "DELETE" /\ msg.cmd = "DELETE"
      BY <1>1, <2>2 DEF DeleteNext, DeleteLast, At, DeleteInv
    <3> QED  BY <1>0, <2>2, <3>1 DEF DeleteNext, DeleteLast, GoTo, Step, Frame, FrameType, Goes
  <2> QED  BY <1>6, <2>1, <2>2 DEF DeleteNode
<1> QED  BY <1>2, <1>3, <1>4, <1>5, <1>6 DEF Handler

\* A handler runs for a message.
LEMMA HandlerNeedsMessage ==
    ASSUME TypeInv, Handler
    PROVE  msg # None
<1>1. op.pc # "idle" \/ msg # None
  <2>1. ASSUME Deploy
        PROVE  op.pc # "idle" \/ msg # None
    BY <2>1 DEF Deploy, DeployFresh, DeployNewVersion, DeployRejected, Add, InspectFails,
       ImagePresent, Pull, PullErrorUnseen, PullFails, CreateAppNetwork, CreateNetworkFails,
       CreateContainer, CreateContainerFails, StartModule, StartModuleFails, DeployDone,
       LateError, Handling, At
  <2>2. ASSUME Stop \/ Resume
        PROVE  op.pc # "idle" \/ msg # None
    BY <2>2 DEF Stop, StopRefused, StopBegin, StopNext, StopFails, StopDone, Resume,
       ResumeRefused, ResumeBegin, ResumeNext, ResumeFails, ResumeDone, Handling, At
  <2>3. ASSUME UndeployEdgeApp \/ RemoveEdgeApp \/ DeleteNode
        PROVE  op.pc # "idle" \/ msg # None
    BY <2>3 DEF UndeployEdgeApp, UndeployRejected, UndeployBegin, Undeploy, ListContainers,
       ListContainersFails, RemoveContainer, RemoveContainerFails, PruneNetworks,
       PruneNetworksFails, UndeployDone, UndeployIncomplete, RemoveEdgeApp, SelectImages,
       SelectImagesFails, RemoveImage, RemoveImageFails, ImagesRemain, Forget, DeleteNode,
       DeleteBegin, DeleteNext, DeleteLast, SetNodeDeleted, Handling, At
  <2> QED  BY <2>1, <2>2, <2>3 DEF Handler
<1> QED  BY <1>1 DEF TypeInv, HandlerOK, FrameFits

\* DeleteNode comes to its end when it has found no app left.
LEMMA DeletedIsLast ==
    ASSUME TypeInv, SmoothStep, op'.pc = "deleted"
    PROVE  DeleteLast
<1>0. op \in FrameType
  BY DEF TypeInv, HandlerOK
<1>1. ~(DeployFresh \/ DeployNewVersion \/ DeployRejected \/ DeployDone \/ StopRefused \/ StopDone
        \/ ResumeRefused \/ ResumeDone \/ UndeployRejected \/ UndeployBegin \/ StopBegin
        \/ ResumeBegin)
  BY DEF DeployFresh, DeployNewVersion, DeployRejected, DeployDone, StopRefused, StopDone,
     ResumeRefused, ResumeDone, UndeployRejected, UndeployBegin, StopBegin, ResumeBegin, Return,
     Idle, Step, Frame
<1>2. ~(Add \/ CreateAppNetwork \/ CreateContainer \/ StartModule \/ NetworkLimit)
  BY <1>0 DEF Add, CreateAppNetwork, CreateContainer, StartModule, NetworkLimit,
     CreateNetworkFails, Rollback, Step, FrameType
<1>3. ~(ImagePresent \/ Pull \/ StopNext \/ ResumeNext)
  BY <1>0 DEF ImagePresent, Pull, NextImage, StopNext, ResumeNext, At, Step, FrameType
<1>4. ~(Undeploy \/ ListContainers \/ RemoveContainer \/ PruneNetworks \/ UndeployDone)
  <2>1. ~(Undeploy \/ ListContainers \/ RemoveContainer \/ PruneNetworks)
    BY <1>0 DEF Undeploy, ListContainers, RemoveContainer, PruneNetworks, At, GoTo, Step, FrameType
  <2>2. ~ReturnFromUndeploy(TRUE)
    BY <1>0 DEF ReturnFromUndeploy, Return, Idle, Frame, GoTo, Step, FrameType
  <2> QED  BY <2>1, <2>2 DEF UndeployDone
<1>5. ~(SelectImages \/ RemoveImage \/ (Forget /\ ReturnFromRemove(TRUE)))
  <2>1. ~(SelectImages \/ RemoveImage)
    BY <1>0 DEF SelectImages, RemoveImage, At, Step, FrameType
  <2>2. ~ReturnFromRemove(TRUE)
    BY <1>0 DEF ReturnFromRemove, Return, Idle, Frame, GoTo, Step, FrameType
  <2> QED  BY <2>1, <2>2
<1>6. ~(DeleteBegin \/ DeleteNext \/ SetNodeDeleted)
  BY DEF DeleteBegin, DeleteNext, SetNodeDeleted, Idle, Step, Frame
<1> QED  BY <1>1, <1>2, <1>3, <1>4, <1>5, <1>6 DEF SmoothStep, DeleteNode

LEMMA DeleteKept ==
    ASSUME TypeInv, DeleteInv, Callers, Smooth, [Next]_vars, Unstable = {}
    PROVE  DeleteInv'
<1>1. CASE Handler
  <2>1. msg # None /\ last = None
    <3>1. msg # None
      BY <1>1, HandlerNeedsMessage
    <3> QED  BY <3>1 DEF DeleteInv
  <2>2. faults' = 0 => faults = 0
    BY <1>1, FaultsOK DEF TypeInv, Handler
  <2>3. CASE Goes
    <3>1. op'.pc = "deleted" /\ faults' = 0 => \A a \in Apps : known'[a] = None
      <4> SUFFICES ASSUME op'.pc = "deleted", faults' = 0
                   PROVE  \A a \in Apps : known'[a] = None
        OBVIOUS
      <4>1. DeleteLast
        BY <1>1, HandlersRunSmoothly, DeletedIsLast
      <4> QED  BY <4>1 DEF DeleteLast, Neither, storeVars, IsKnown
    <3> QED  BY <2>1, <2>3, <3>1 DEF Goes, DeleteInv, At, IsKnown
  <2>4. CASE Ends
    <3>1. op'.pc = "idle" /\ msg' = None /\ last'.cmd # "DELETE"
      BY <2>4 DEF Ends, Return, Idle, Frame
    <3> QED  BY <3>1 DEF DeleteInv, At
  <2>5. CASE SetNodeDeleted
    <3>1. /\ op.pc = "deleted" /\ op'.pc = "idle" /\ msg' = None /\ nodeStatus' = "Deleted"
          /\ known' = known
      BY <2>5 DEF SetNodeDeleted, At, Idle, Frame, Neither, storeVars
    <3> QED  BY <2>2, <3>1 DEF DeleteInv, At, IsKnown
  <2> QED  BY <1>1, <2>3, <2>4, <2>5, HandlerEnds
<1>2. CASE Receive
  <2>1. op.pc = "idle" /\ op' = op /\ last' = None
    BY <1>2 DEF Receive, At
  <2> QED  BY <2>1 DEF DeleteInv, At
<1>3. ~Engine
  BY DEF Engine, ContainerChanges, ContainerLost
<1>4. CASE Finished \/ UNCHANGED vars
  BY <1>4 DEF Finished, vars, handlerVars, storeVars, counters, DeleteInv, At, IsKnown
<1> QED  BY <1>1, <1>2, <1>3, <1>4 DEF Next

LEMMA AlwaysDelete ==
    ASSUME Unstable = {}
    PROVE  Spec => []DeleteInv
<1>1. Init => DeleteInv
  BY DEF Init, DeleteInv, Idle, Frame, At
<1>2. TypeInv /\ Callers /\ Smooth /\ DeleteInv /\ [Next]_vars => DeleteInv'
  BY DeleteKept
<1> QED  BY <1>1, <1>2, TypeInvariant, AlwaysCalled, SmoothInvariant, SpecImpliesCrashSpec, PTL
         DEF Spec

\* As long as calls succeed and containers do not change by themselves, a node that is
\* reported Deleted has no edge app on record and nothing of one on the host, for any
\* apps and whatever was done before (node_msg.go 16-26).
THEOREM DeletedNodeIsEmpty ==
    ASSUME Unstable = {}
    PROVE  Spec => []DeleteIsComplete
<1>1. DeleteInv /\ EmptyInv => DeleteIsComplete
  BY DEF DeleteInv, EmptyInv, InactiveIsEmpty, DeleteIsComplete, Inactive
<1> QED  BY <1>1, AlwaysDelete, EmptyAlways, PTL

------------------------------------------------------------------------------
(* No command of its own accord ends in Error                              *)

LEMMA LastIsOne ==
    ASSUME NEW counts \in SUBSET (-MaxNetworkIndex .. MaxNetworkIndex)
    PROVE  getLastCreatedNetworkCount(counts) \in {0} \cup counts
<1> DEFINE S == {0} \cup counts
<1>1. S \in SUBSET Int /\ S # {} /\ \E b \in Int : \A x \in S : x <= b
  BY MaxNetworkIndexAssumption
<1>2. getLastCreatedNetworkCount(counts) = Max(S)
  BY DEF getLastCreatedNetworkCount
<1>3. Max(S) \in S
  <2> HIDE DEF S
  <2> QED  BY <1>1, MaxOfBounded
<1> QED  BY <1>2, <1>3

\* An app whose network is to be made leaves a number for it.
LEMMA RoomForOne ==
    ASSUME HostOK, Room, NEW a \in Apps, NetworksOf(a) = {},
           \A m, n \in networks : m.app = n.app => m = n
    PROVE  NewCount >= 0
<1> DEFINE own == {n.count : n \in networks}
           counts == ForeignCounts \cup own
           F == ForeignCounts \cap (0 .. MaxNetworkIndex)
           Others == Apps \ {a}
<1>1. MaxNetworkIndex \in Nat \ {0}
  BY MaxNetworkIndexAssumption
<1>2. counts \in SUBSET (-MaxNetworkIndex .. MaxNetworkIndex) /\ own \subseteq 0 .. MaxNetworkIndex
  <2>1. \A n \in networks : n.count \in 0 .. MaxNetworkIndex
    BY DEF HostOK, Network
  <2>2. \A c \in 0 .. MaxNetworkIndex : c \in -MaxNetworkIndex .. MaxNetworkIndex
    BY <1>1
  <2> QED  BY <2>1, <2>2, DockerAssumption
<1>3. IsFiniteSet(Others) /\ Cardinality(Others) = Cardinality(Apps) - 1
  BY FS_RemoveElement DEF Room
<1>4. IsFiniteSet(networks) /\ Cardinality(networks) <= Cardinality(Others)
  <2> DEFINE f == [n \in networks |-> n.app]
  <2>1. \A n \in networks : n.app \in Others
    BY DEF HostOK, Network, NetworksOf
  <2>2. f \in [networks -> Others]
    BY <2>1
  <2>3. f \in Injection(networks, Others)
    BY <2>2 DEF Injection, IsInjective
  <2> HIDE DEF f, Others
  <2> QED  BY <1>3, <2>3, FS_Injection
<1>5. IsFiniteSet(own) /\ Cardinality(own) <= Cardinality(networks)
  <2> DEFINE g == [n \in networks |-> n.count]
  <2>1. g \in Surjection(networks, own)
    BY DEF Surjection
  <2> HIDE DEF g, own
  <2> QED  BY <1>4, <2>1, FS_Surjection
<1>6. IsFiniteSet(0 .. MaxNetworkIndex) /\ Cardinality(0 .. MaxNetworkIndex) = MaxNetworkIndex + 1
  <2>1. 0 \in Int /\ MaxNetworkIndex \in Int /\ ~(0 > MaxNetworkIndex)
    BY <1>1
  <2>2. MaxNetworkIndex - 0 + 1 = MaxNetworkIndex + 1
    BY <1>1
  <2> QED  BY <2>1, <2>2, FS_Interval
<1>7. IsFiniteSet(F)
  BY <1>6, FS_Subset
<1>8. ~(0 .. MaxNetworkIndex \subseteq F \cup own)
  <2> SUFFICES ASSUME 0 .. MaxNetworkIndex \subseteq F \cup own
               PROVE  FALSE
    OBVIOUS
  <2>1. /\ Cardinality(F) \in Nat /\ Cardinality(own) \in Nat /\ Cardinality(Apps) \in Nat
        /\ Cardinality(networks) \in Nat /\ Cardinality(F \cap own) \in Nat
    <3> HIDE DEF F, own
    <3>1. IsFiniteSet(F \cap own)
      BY <1>7, FS_Subset
    <3> QED  BY <1>4, <1>5, <1>7, <3>1, FS_CardinalityType DEF Room
  <2>2. IsFiniteSet(F \cup own) /\ Cardinality(F \cup own) <= Cardinality(F) + Cardinality(own)
    <3> HIDE DEF F, own
    <3>1. /\ IsFiniteSet(F \cup own)
          /\ Cardinality(F \cup own) = Cardinality(F) + Cardinality(own) - Cardinality(F \cap own)
      BY <1>5, <1>7, FS_Union
    <3> QED  BY <2>1, <3>1
  <2>3. MaxNetworkIndex + 1 <= Cardinality(F \cup own) /\ Cardinality(F \cup own) \in Nat
    <3> HIDE DEF F, own
    <3>1. Cardinality(0 .. MaxNetworkIndex) <= Cardinality(F \cup own)
      BY <2>2, FS_Subset
    <3> QED  BY <1>6, <2>2, <3>1, FS_CardinalityType
  <2>4. Cardinality(Apps) + Cardinality(F) <= MaxNetworkIndex + 1
    BY DEF Room
  <2> HIDE DEF F, own, Others
  <2> QED  BY <1>1, <1>3, <1>4, <1>5, <2>1, <2>2, <2>3, <2>4
<1>9. \E c \in 0 .. MaxNetworkIndex : c \notin counts
  BY <1>8
<1>10. NewCount = NewNetworkCount(counts)
  BY DEF NewCount
<1> HIDE DEF own, F, Others, counts
<1>11. /\ getLastCreatedNetworkCount(counts) \in 0 .. MaxNetworkIndex
       /\ getLastCreatedNetworkCount(counts) \in {0} \cup counts
  BY <1>2, CountRange, LastIsOne
<1>12. CASE getLastCreatedNetworkCount(counts) < MaxNetworkIndex
  BY <1>1, <1>10, <1>11, <1>12 DEF NewNetworkCount
<1>13. CASE ~(getLastCreatedNetworkCount(counts) < MaxNetworkIndex)
  <2>1. MaxNetworkIndex \in counts
    BY <1>1, <1>11, <1>13
  <2>2. Candidates(counts) # {} /\ Candidates(counts) \in SUBSET Nat
    BY <1>1, <1>9, <2>1 DEF Candidates
  <2>3. NewCount = Min(Candidates(counts))
    BY <1>10, <1>13, <2>2 DEF NewNetworkCount, getLowestAvailableNetworkCount
  <2>4. Min(Candidates(counts)) \in Nat
    BY <2>2, MinOfBounded
  <2> QED  BY <2>3, <2>4
<1> QED  BY <1>12, <1>13

\* A whole app has a container: STOP and RESUME find one.
LEMMA WholeHasContainers ==
    ASSUME TypeInv, NEW a \in Apps, HasStatus(a, "Running") \/ HasStatus(a, "Stopped"),
           AllSettled
    PROVE  ContainersOf(a) # {}
<1>1. known[a].man \in Manifests
  BY DEF TypeInv, StoreOK, HasStatus, IsKnown, Record
<1>2. PICK net \in 0 .. MaxNetworkIndex : BuiltFrom(a, known[a].man, 1, net)
  BY DEF AllSettled, SettledApp, IsWhole
<1>3. 1 \in 1 .. Len(known[a].man.modules)
  BY <1>1, ManifestFacts
<1> QED  BY <1>2, <1>3 DEF BuiltFrom

LEMMA NoLimit ==
    ASSUME TypeInv, Room, SInv, ErrorInv, WorkDone, faults = 0
    PROVE  ~NetworkLimit
<1> SUFFICES ASSUME NetworkLimit PROVE FALSE
  OBVIOUS
<1>1. op.pc = "network" /\ NewCount < 0
  BY DEF NetworkLimit, CreateNetworkFails, At
<1>2. op.app \in Apps /\ NetworksOf(op.app) = {}
  BY <1>1, MakingFacts DEF WorkDone, Empty
<1>3. NewCount >= 0
  BY <1>2, RoomForOne DEF TypeInv, ErrorInv
<1>4. NewCount \in Int
  BY <1>3, NewCountOK DEF TypeInv
<1> QED  BY <1>1, <1>3, <1>4

\* What is left to set in the record.
SmoothRecord ==
    \/ UNCHANGED storeVars \/ Add \/ Forget
    \/ \E b \in {op.app, msg.app} : \E s \in Status \ {"Error"} : SetStatus(b, s)

LEMMA NoStatusError ==
    ASSUME TypeInv, AllSettled, SmoothStep, ~NetworkLimit, faults' = faults, faults \in Nat
    PROVE  SmoothRecord
<1>0. {"Initiated", "Running", "Stopped", "Executing", "Undeployed"} \subseteq Status \ {"Error"}
  BY DEF Status
<1>1. ~Fault
  BY DEF Fault
<1>2. CASE \/ DeployFresh \/ DeployNewVersion \/ DeployRejected \/ ImagePresent \/ Pull
           \/ CreateAppNetwork \/ CreateContainer \/ StartModule \/ StopNext \/ ResumeNext
           \/ UndeployRejected \/ UndeployBegin \/ ListContainers \/ RemoveContainer
           \/ PruneNetworks \/ SelectImages \/ RemoveImage \/ DeleteNode
  BY <1>2 DEF SmoothRecord, DeployFresh, DeployNewVersion, DeployRejected, ImagePresent, Pull,
     CreateAppNetwork, CreateContainer, StartModule, StopNext, ResumeNext, UndeployRejected,
     UndeployBegin, ListContainers, RemoveContainer, PruneNetworks, SelectImages, RemoveImage,
     DeleteNode, DeleteBegin, DeleteNext, DeleteLast, SetNodeDeleted, Neither, HostOnly
<1>3. CASE Add \/ Forget
  BY <1>3 DEF SmoothRecord
<1>4. CASE \/ DeployDone \/ StopBegin \/ StopDone \/ ResumeBegin \/ ResumeDone \/ Undeploy
           \/ UndeployDone
  BY <1>0, <1>4 DEF SmoothRecord, DeployDone, StopBegin, StopDone, ResumeBegin, ResumeDone,
     Undeploy, UndeployDone
<1>5. CASE StopRefused
  <2>1. msg.app \in Apps
    BY <1>5, DispatchOK DEF StopRefused, TypeInv
  <2>2. HasStatus(msg.app, "Running") => ContainersOf(msg.app) # {}
    BY <2>1, WholeHasContainers
  <2> QED  BY <1>1, <1>5, <2>2 DEF StopRefused, Neither, SmoothRecord
<1>6. CASE ResumeRefused
  <2>1. msg.app \in Apps
    BY <1>6, DispatchOK DEF ResumeRefused, TypeInv
  <2>2. HasStatus(msg.app, "Stopped") => ContainersOf(msg.app) # {}
    BY <2>1, WholeHasContainers
  <2> QED  BY <1>1, <1>6, <2>2 DEF ResumeRefused, Neither, SmoothRecord
<1> QED  BY <1>2, <1>3, <1>4, <1>5, <1>6 DEF SmoothStep

LEMMA NoRollback ==
    ASSUME TypeInv, SmoothStep, ~NetworkLimit, op.caller \notin {"rollback", "lateRollback"}
    PROVE  op'.caller \notin {"rollback", "lateRollback"}
<1>0. op \in FrameType
  BY DEF TypeInv, HandlerOK
<1>1. CASE \/ DeployFresh \/ DeployNewVersion \/ DeployRejected \/ DeployDone \/ StopRefused
           \/ StopDone \/ StopBegin \/ ResumeRefused \/ ResumeDone \/ ResumeBegin
           \/ UndeployRejected
  BY <1>1 DEF DeployFresh, DeployNewVersion, DeployRejected, DeployDone, StopRefused, StopDone,
     StopBegin, ResumeRefused, ResumeDone, ResumeBegin, UndeployRejected, Return, Idle, Step, Frame
<1>2. CASE UndeployBegin
  BY <1>2 DEF UndeployBegin, Handling, Step, Frame
<1>3. CASE Add \/ CreateAppNetwork \/ CreateContainer \/ StartModule \/ StopNext \/ ResumeNext
  BY <1>0, <1>3 DEF Add, CreateAppNetwork, CreateContainer, StartModule, StopNext, ResumeNext,
     Step, FrameType
<1>4. CASE ImagePresent \/ Pull
  BY <1>0, <1>4 DEF ImagePresent, Pull, NextImage, Step, FrameType
<1>5. CASE Undeploy \/ ListContainers \/ RemoveContainer \/ PruneNetworks \/ UndeployDone
  <2>1. CASE Undeploy \/ ListContainers \/ RemoveContainer \/ PruneNetworks
    BY <1>0, <2>1 DEF Undeploy, ListContainers, RemoveContainer, PruneNetworks, GoTo, Step, FrameType
  <2>2. CASE ReturnFromUndeploy(TRUE)
    BY <1>0, <2>2 DEF ReturnFromUndeploy, Return, Idle, Frame, GoTo, Step, FrameType
  <2> QED  BY <1>5, <2>1, <2>2 DEF UndeployDone
<1>6. CASE SelectImages \/ RemoveImage \/ (Forget /\ ReturnFromRemove(TRUE))
  <2>1. CASE SelectImages \/ RemoveImage
    BY <1>0, <2>1 DEF SelectImages, RemoveImage, Step, FrameType
  <2>2. CASE ReturnFromRemove(TRUE)
    BY <1>0, <2>2 DEF ReturnFromRemove, Return, Idle, Frame, GoTo, Step, FrameType
  <2> QED  BY <1>6, <2>1, <2>2
<1>7. CASE DeleteNode
  BY <1>0, <1>7 DEF DeleteNode, DeleteBegin, DeleteNext, DeleteLast, SetNodeDeleted, Idle, Frame,
     GoTo, Step, FrameType
<1> QED  BY <1>1, <1>2, <1>3, <1>4, <1>5, <1>6, <1>7 DEF SmoothStep

LEMMA NetworksShrink ==
    ASSUME SmoothStep, ~NetworkLimit, faults' = faults, faults \in Nat
    PROVE  networks' \subseteq networks \/ CreateAppNetwork
<1>0. ~Fault
  BY DEF Fault
<1>1. CASE \/ DeployFresh \/ DeployNewVersion \/ DeployRejected \/ Add \/ ImagePresent \/ Pull
           \/ CreateContainer \/ StartModule \/ DeployDone
  BY <1>1 DEF DeployFresh, DeployNewVersion, DeployRejected, Add, ImagePresent, Pull,
     CreateContainer, StartModule, DeployDone, Neither, RecordOnly, dockerVars, PullImage,
     CreateModule, createContainer, StartContainer, ContainerTo
<1>2. CASE \/ StopRefused \/ StopBegin \/ StopNext \/ StopDone
           \/ ResumeRefused \/ ResumeBegin \/ ResumeNext \/ ResumeDone
  BY <1>0, <1>2 DEF StopRefused, StopBegin, StopNext, StopDone, ResumeRefused, ResumeBegin,
     ResumeNext, ResumeDone, Neither, RecordOnly, dockerVars, StartContainer, StopContainer,
     ContainerTo
<1>3. CASE \/ UndeployRejected \/ UndeployBegin \/ Undeploy \/ ListContainers
           \/ RemoveContainer \/ PruneNetworks \/ UndeployDone
  BY <1>3 DEF UndeployRejected, UndeployBegin, Undeploy, ListContainers, RemoveContainer,
     PruneNetworks, UndeployDone, Neither, RecordOnly, dockerVars, StopAndRemoveContainer,
     NetworkPrune
<1>4. CASE SelectImages \/ RemoveImage \/ Forget \/ DeleteNode
  BY <1>4 DEF SelectImages, RemoveImage, Forget, DeleteNode, DeleteBegin, DeleteNext, DeleteLast,
     SetNodeDeleted, Neither, dockerVars, ImageRemove
<1> QED  BY <1>1, <1>2, <1>3, <1>4 DEF SmoothStep

LEMMA ErrorKept ==
    ASSUME TypeInv, Room, SInv, Callers, Smooth, WholeInv, ErrorInv, [Next]_vars, Unstable = {}
    PROVE  ErrorInv'
<1> SUFFICES ASSUME faults' = 0
             PROVE  /\ \A a \in Apps : ~HasStatus(a, "Error")'
                    /\ op'.caller \notin {"rollback", "lateRollback"}
                    /\ \A m, n \in networks' : m.app = n.app => m = n
  BY DEF ErrorInv, NoErrorWithoutFault
<1>1. CASE Handler
  <2>1. faults = 0 /\ SmoothStep
    BY <1>1, HandlersRunSmoothly
  <2>2. AllSettled /\ WorkDone
    BY <2>1, WholeParts
  <2>3. ~NetworkLimit
    BY <2>1, <2>2, NoLimit
  <2>4. SmoothRecord
    BY <2>1, <2>2, <2>3, NoStatusError
  <2>5. ASSUME NEW a \in Apps
        PROVE  ~HasStatus(a, "Error")'
    <3>0. ~HasStatus(a, "Error") /\ StoreOK
      BY <2>1 DEF ErrorInv, NoErrorWithoutFault, TypeInv
    <3>1. CASE UNCHANGED storeVars
      BY <3>0, <3>1 DEF storeVars, HasStatus, IsKnown
    <3>2. CASE \E b \in {op.app, msg.app} : \E s \in Status \ {"Error"} : SetStatus(b, s)
      <4>1. PICK b \in {op.app, msg.app}, s \in Status \ {"Error"} : SetStatus(b, s)
        BY <3>2
      <4>2. known'[a] = known[a] \/ (known[a] # None /\ known'[a] = [known[a] EXCEPT !.status = s])
        BY <3>0, <4>1 DEF SetStatus, storeVars, IsKnown, StoreOK
      <4>3. known[a] # None => known[a] \in Record
        BY <3>0 DEF StoreOK
      <4> QED  BY <3>0, <4>2, <4>3 DEF HasStatus, IsKnown, Record
    <3>3. CASE Add
      <4>1. msg.man \in Manifests /\ AddKnownManifest(msg.man)
        BY <1>1, <3>3, DeployContext DEF Add, At, InDeploy, TypeInv
      <4>2. known'[a] = known[a] \/ known'[a] = [man |-> msg.man, status |-> "Initiated"]
        BY <3>0, <4>1 DEF AddKnownManifest, StoreOK
      <4> QED  BY <3>0, <4>2 DEF HasStatus, IsKnown
    <3>4. CASE Forget
      <4>1. known'[a] = known[a] \/ known'[a] = None
        BY <3>0, <3>4 DEF Forget, DeleteKnownManifest, StoreOK
      <4> QED  BY <3>0, <4>1 DEF HasStatus, IsKnown
    <3> QED  BY <2>4, <3>1, <3>2, <3>3, <3>4 DEF SmoothRecord
  <2>6. op'.caller \notin {"rollback", "lateRollback"}
    BY <2>1, <2>3, NoRollback DEF ErrorInv, NoErrorWithoutFault
  <2>7. \A m, n \in networks' : m.app = n.app => m = n
    <3>1. \A m, n \in networks : m.app = n.app => m = n
      BY <2>1 DEF ErrorInv
    <3>2. CASE networks' \subseteq networks
      BY <3>1, <3>2
    <3>3. CASE CreateAppNetwork
      <4>1. NetworksOf(op.app) = {}
        BY <2>2, <3>3 DEF CreateAppNetwork, At, WorkDone, Empty
      <4>2. networks' = networks \cup {[app |-> op.app, count |-> NewCount]}
        BY <3>3 DEF CreateAppNetwork, CreateNetwork
      <4> QED  BY <3>1, <4>1, <4>2 DEF NetworksOf
    <3> QED  BY <2>1, <2>3, <3>2, <3>3, NetworksShrink
  <2> QED  BY <2>5, <2>6, <2>7
<1>2. CASE Receive
  BY <1>2 DEF Receive, storeVars, dockerVars, ErrorInv, NoErrorWithoutFault, HasStatus, IsKnown
<1>3. ~Engine
  BY DEF Engine, ContainerChanges, ContainerLost
<1>4. CASE Finished \/ UNCHANGED vars
  BY <1>4 DEF Finished, vars, handlerVars, storeVars, dockerVars, counters, ErrorInv,
     NoErrorWithoutFault, HasStatus, IsKnown
<1> QED  BY <1>1, <1>2, <1>3, <1>4 DEF Next

LEMMA AlwaysNoError ==
    ASSUME Unstable = {}, Room
    PROVE  Spec => []ErrorInv
<1>1. Init => ErrorInv
  BY DEF Init, ErrorInv, NoErrorWithoutFault, HasStatus, IsKnown, Idle, Frame
<1>2. TypeInv /\ SInv /\ Callers /\ Smooth /\ WholeInv /\ ErrorInv /\ [Next]_vars => ErrorInv'
  BY ErrorKept
<1> QED  BY <1>1, <1>2, TypeInvariant, AlwaysSInv, AlwaysCalled, SmoothInvariant, AlwaysWhole,
            SpecImpliesCrashSpec, PTL DEF Spec

\* As long as calls succeed, containers do not change by themselves and the numbers of
\* networks suffice for the apps there are, no sequence of commands leaves an app in
\* Error or rolls a deployment back: no handler gets in the way of another
\* (edgeapp.go 18-343).
THEOREM CommandsMeetNoError ==
    ASSUME Unstable = {}, Room
    PROVE  Spec => []NoErrorWithoutFault
<1>1. ErrorInv => NoErrorWithoutFault
  BY DEF ErrorInv
<1> QED  BY <1>1, AlwaysNoError, PTL

------------------------------------------------------------------------------
(* What a crash leaves behind                                              *)

DeployCallers == {"DEPLOY", "redeploy", "rollback", "lateRollback"}

\* A step within a handler, seen from its message.
StaysTaken ==
    /\ op'.pc # "idle" /\ msg' = msg
    /\ msg.cmd = "DEPLOY" <=> op'.caller \in DeployCallers
    /\ op'.pc \in {"deleteNext", "deleted"} => op'.caller = "DELETE"

\* The ways a handler ends, by which of them a DEPLOY does.
Acknowledges ==
    /\ op'.pc = "idle"
    /\ msg.cmd = "DEPLOY" =>
        \/ DeployRejected \/ InspectFails \/ op.pc \in {"deployed", "lateError"}
        \/ op.caller = "rollback" /\ op.pc \in {"list", "undeployed", "images", "removeImages"}

LEMMA RemoveTaken ==
    ASSUME op \in FrameType, Taken, op.pc \in {"list", "undeployed", "images", "removeImages"},
           NEW ok, ReturnFromRemove(ok)
    PROVE  StaysTaken \/ Acknowledges
<1>1. msg.cmd = "DEPLOY" <=> op.caller \in DeployCallers
  BY DEF Taken, At, DeployCallers
<1>2. CASE op.caller \in {"REMOVE", "rollback"}
  BY <1>1, <1>2 DEF ReturnFromRemove, Return, Idle, Frame, Acknowledges, DeployCallers
<1>3. CASE op.caller \in {"redeploy", "lateRollback", "DELETE"}
  BY <1>1, <1>3 DEF ReturnFromRemove, GoTo, Step, FrameType, StaysTaken, DeployCallers
<1> QED  BY <1>2, <1>3 DEF ReturnFromRemove

LEMMA UndeployTaken ==
    ASSUME op \in FrameType, Taken, op.pc \in {"list", "undeployed"},
           NEW ok, ReturnFromUndeploy(ok)
    PROVE  StaysTaken \/ Acknowledges
<1>1. msg.cmd = "DEPLOY" <=> op.caller \in DeployCallers
  BY DEF Taken, At, DeployCallers
<1>2. CASE op.caller = "UNDEPLOY"
  BY <1>1, <1>2 DEF ReturnFromUndeploy, Return, Idle, Frame, Acknowledges, DeployCallers
<1>3. CASE GoTo("images")
  BY <1>1, <1>3 DEF GoTo, Step, FrameType, StaysTaken
<1> QED  BY <1>2, <1>3, RemoveTaken DEF ReturnFromUndeploy

LEMMA HandlerTaken ==
    ASSUME TypeInv, Taken, Callers, Handler
    PROVE  StaysTaken \/ Acknowledges
<1>0. op \in FrameType /\ FrameFits
  BY DEF TypeInv, HandlerOK
<1>1. op.pc # "idle" => (msg.cmd = "DEPLOY" <=> op.caller \in DeployCallers)
  BY DEF Taken, At, DeployCallers
<1>2. CASE Deploy
  <2>1. CASE DeployFresh \/ DeployNewVersion
    BY <2>1 DEF DeployFresh, DeployNewVersion, Handling, Step, Frame, StaysTaken, DeployCallers
  <2>2. CASE DeployRejected \/ InspectFails \/ DeployDone \/ LateError
    BY <2>2 DEF DeployRejected, InspectFails, DeployDone, LateError, At, Return, Idle, Frame,
       Acknowledges
  <2>3. CASE Add \/ ImagePresent \/ Pull \/ PullErrorUnseen \/ PullFails \/ CreateAppNetwork
             \/ CreateNetworkFails \/ CreateContainer \/ CreateContainerFails \/ StartModule
             \/ StartModuleFails
    <3>1. InDeploy /\ op.pc # "idle"
      BY <2>3 DEF Add, ImagePresent, Pull, PullErrorUnseen, PullFails, CreateAppNetwork,
         CreateNetworkFails, CreateContainer, CreateContainerFails, StartModule, StartModuleFails,
         At, InDeploy
    <3>2. msg.cmd = "DEPLOY" /\ op.caller \in DeployCallers
      BY <1>0, <1>1, <3>1 DEF FrameFits
    <3>3. /\ op'.pc \in {"image", "network", "create", "start", "deployed", "undeploy"}
          /\ op'.caller \in {op.caller, "rollback", "lateRollback"}
          /\ msg' = msg
      <4>1. CASE Add \/ CreateAppNetwork \/ CreateContainer \/ StartModule
        BY <1>0, <4>1 DEF Add, CreateAppNetwork, CreateContainer, StartModule, Step, FrameType
      <4>2. CASE ImagePresent \/ Pull \/ PullErrorUnseen
        BY <1>0, <4>2 DEF ImagePresent, Pull, PullErrorUnseen, At, NextImage, Step, FrameType
      <4>3. CASE PullFails \/ CreateNetworkFails \/ CreateContainerFails \/ StartModuleFails
        BY <1>0, <4>3 DEF PullFails, CreateNetworkFails, CreateContainerFails, StartModuleFails,
                          Rollback, Step, FrameType
      <4> QED  BY <2>3, <4>1, <4>2, <4>3
    <3> QED  BY <3>2, <3>3 DEF StaysTaken, DeployCallers
  <2> QED  BY <1>2, <2>1, <2>2, <2>3 DEF Deploy
<1>3. CASE Stop \/ Resume
  <2>1. CASE StopRefused \/ ResumeRefused
    BY <2>1 DEF StopRefused, ResumeRefused, Handling, Return, Idle, Frame, Acknowledges
  <2>2. CASE StopBegin \/ ResumeBegin
    BY <2>2 DEF StopBegin, ResumeBegin, Handling, Step, Frame, StaysTaken, DeployCallers
  <2>3. CASE StopNext \/ ResumeNext
    BY <1>0, <1>1, <2>3 DEF StopNext, ResumeNext, At, Step, FrameType, StaysTaken
  <2>4. CASE StopFails \/ StopDone \/ ResumeFails \/ ResumeDone
    <3>1. op.pc \in {"stop", "resume"}
      BY <2>4 DEF StopFails, StopDone, ResumeFails, ResumeDone, At
    <3>2. msg.cmd # "DEPLOY"
      BY <1>1, <3>1 DEF Callers, At, DeployCallers
    <3> QED  BY <2>4, <3>2 DEF StopFails, StopDone, ResumeFails, ResumeDone, Return, Idle, Frame,
                               Acknowledges
  <2> QED  BY <1>3, <2>1, <2>2, <2>3, <2>4 DEF Stop, Resume
<1>4. CASE UndeployEdgeApp
  <2>1. CASE UndeployRejected
    BY <2>1 DEF UndeployRejected, Handling, Return, Idle, Frame, Acknowledges
  <2>2. CASE UndeployBegin
    BY <2>2 DEF UndeployBegin, Handling, Step, Frame, StaysTaken, DeployCallers
  <2>3. CASE Undeploy \/ ListContainers \/ RemoveContainer \/ RemoveContainerFails
             \/ PruneNetworks \/ PruneNetworksFails
    BY <1>0, <1>1, <2>3 DEF Undeploy, ListContainers, RemoveContainer, RemoveContainerFails,
       PruneNetworks, PruneNetworksFails, At, GoTo, Step, FrameType, StaysTaken
  <2>4. CASE ListContainersFails \/ UndeployDone \/ UndeployIncomplete
    BY <1>0, <2>4, UndeployTaken DEF ListContainersFails, UndeployDone, UndeployIncomplete, At
  <2> QED  BY <1>4, <2>1, <2>2, <2>3, <2>4 DEF UndeployEdgeApp
<1>5. CASE RemoveEdgeApp
  <2>1. CASE SelectImages \/ RemoveImage \/ RemoveImageFails
    BY <1>0, <1>1, <2>1 DEF SelectImages, RemoveImage, RemoveImageFails, At, Step, FrameType,
       StaysTaken
  <2>2. CASE SelectImagesFails \/ ImagesRemain \/ Forget
    BY <1>0, <2>2, RemoveTaken DEF SelectImagesFails, ImagesRemain, Forget, At
  <2> QED  BY <1>5, <2>1, <2>2 DEF RemoveEdgeApp
<1>6. CASE DeleteNode
  <2>1. CASE DeleteBegin
    BY <2>1 DEF DeleteBegin, Handling, Step, Frame, StaysTaken, DeployCallers
  <2>2. CASE DeleteNext \/ DeleteLast
    <3>1. op.caller = "DELETE" /\ msg.cmd # "DEPLOY"
      BY <1>1, <2>2 DEF DeleteNext, DeleteLast, At, Taken, DeployCallers
    <3> QED  BY <1>0, <2>2, <3>1 DEF DeleteNext, DeleteLast, GoTo, Step, Frame, FrameType,
                                     StaysTaken, DeployCallers
  <2>3. CASE SetNodeDeleted
    <3>1. msg.cmd # "DEPLOY"
      BY <1>1, <2>3 DEF SetNodeDeleted, At, Taken, DeployCallers
    <3> QED  BY <2>3, <3>1 DEF SetNodeDeleted, Idle, Frame, Acknowledges
  <2> QED  BY <1>6, <2>1, <2>2, <2>3 DEF DeleteNode
<1> QED  BY <1>2, <1>3, <1>4, <1>5, <1>6 DEF Handler

LEMMA AlwaysTaken == CrashSpec => []Taken
<1>1. Init => Taken
  BY DEF Init, Taken, At, Idle, Frame
<1>2. ASSUME TypeInv, Taken, Callers, [CrashNext]_vars
      PROVE  Taken'
  <2>1. CASE Handler
    BY <1>2, <2>1, HandlerTaken DEF StaysTaken, Acknowledges, Taken, At, DeployCallers
  <2>2. CASE Restart
    BY <2>2 DEF Restart, Idle, Frame, Taken, At
  <2>3. CASE Receive
    BY <2>3 DEF Receive, Taken, At
  <2>4. CASE Engine \/ Finished \/ LogRead \/ UNCHANGED vars
    BY <1>2, <2>4 DEF Engine, Finished, LogRead, vars, handlerVars, Taken, At
  <2> QED  BY <1>2, <2>1, <2>2, <2>3, <2>4 DEF CrashNext, Next, CrashRestart, UpdateManifestPanics
<1> QED  BY <1>1, <1>2, TypeInvariant, AlwaysCalled, PTL DEF CrashSpec

\* A handler makes an app inactive only when nothing of it is left.
LEMMA LapsesEmpty ==
    ASSUME TypeInv, OwnInv, Handler
    PROVE  \A a \in Apps : Inactive(a)' => Inactive(a) \/ Empty(a)'
<1>0. StoreOK
  BY DEF TypeInv
<1>1. CASE UNCHANGED storeVars
  BY <1>1, SameStore DEF NoneLapses
<1>2. CASE \E b \in {op.app, msg.app} : \E s \in Status \ {"Undeployed"} : SetStatus(b, s)
  BY <1>0, <1>2, SetStatusKeeps DEF NoneLapses
<1>3. CASE Add
  <2>1. msg.man \in Manifests /\ AddKnownManifest(msg.man)
    BY <1>3, DeployContext DEF Add, At, InDeploy, TypeInv
  <2>2. \A a \in Apps : a # msg.man.id => (Inactive(a)' <=> Inactive(a))
    BY <1>0, <2>1, AddEffect DEF Inactive, IsKnown
  <2>3. \A a \in Apps : a = msg.man.id => ~Inactive(a)'
    BY <1>0, <2>1, AddEffect DEF Inactive, HasStatus, IsKnown
  <2> QED  BY <2>2, <2>3
<1>4. CASE UndeployDone \/ Forget
  <2>1. Empty(op.app) /\ UNCHANGED <<containers, networks>>
    BY <1>4 DEF UndeployDone, Forget, At, OwnInv, RemovalCovers, RecordOnly, dockerVars
  <2>2. \A a \in Apps : a # op.app => known'[a] = known[a]
    BY <1>0, <1>4 DEF UndeployDone, SetStatus, storeVars, Forget, DeleteKnownManifest, StoreOK
  <2>3. \A a \in Apps : a = op.app => Empty(a)'
    BY <2>1 DEF Empty, ContainersOf, NetworksOf
  <2> QED  BY <2>2, <2>3 DEF Inactive, IsKnown
<1> QED  BY <1>1, <1>2, <1>3, <1>4, HandlerRecord DEF RecordEffect

\* It leaves alone what there is of an inactive app.
LEMMA InactiveLeftAlone ==
    ASSUME TypeInv, OwnInv, SInv, Handler, NEW a \in Apps, Inactive(a)
    PROVE  Empty(a)' <=> Empty(a)
<1>1. LifeContent(a)' = LifeContent(a)
  <2>1. CASE UNCHANGED <<containers, networks>>
    BY <2>1 DEF LifeContent, ContainersOf, NetworksOf
  <2>2. CASE op.pc \notin Appless /\ Statuses[op.app] \in {"Initiated", "Executing", "Error"}
    <3>1. a # op.app
      BY <2>2, StatusFacts
    <3> QED  BY <3>1, HandlerHost, OwnHost
  <2> QED  BY <2>1, <2>2, HandlerHost, OwnHost
<1> QED  BY <1>1 DEF LifeContent, Empty

\* A DEPLOY that ends without having made the app active leaves nothing of it.
LEMMA EndsEmpty ==
    ASSUME TypeInv, SInv, OwnInv, Callers, Taken, OwedInv, Handler, faults' = 0, faults = 0,
           NEW a \in Apps, Redelivered(a), Inactive(a), ~HasSecrets(a), msg' # msg
    PROVE  Empty(a)
<1>1. Acknowledges /\ msg.cmd = "DEPLOY" /\ msg.app = a
  BY HandlerTaken DEF StaysTaken, Redelivered
<1>2. ~DeployRejected /\ ~InspectFails
  <2>1. msg \in Message /\ msg # None
    BY <1>1 DEF TypeInv, HandlerOK, Redelivered
  <2>2. msg.man \in Manifests /\ msg.man.id = a
    BY <1>1, <2>1, MessageFacts
  <2>3. msg.man \notin Secretive
    BY <2>2 DEF HasSecrets
  <2>4. Inactive(msg.app)
    BY <1>1
  <2>5. ~DeployRejected
    BY <2>3, <2>4 DEF DeployRejected
  <2>6. ~InspectFails
    BY DEF InspectFails, Fault
  <2> QED  BY <2>5, <2>6
<1>3. InDeploy /\ op.pc \notin Appless
  BY <1>1, <1>2 DEF Acknowledges, InDeploy, Appless
<1>4. op.app = a /\ Statuses[a] \in {"Unknown", "Undeployed"}
  BY <1>1, <1>3, StatusFacts DEF TypeInv, HandlerOK, FrameFits
<1>5. op.pc \notin {"deployed", "list", "undeployed"}
  BY <1>3, <1>4 DEF SInv, Fits
<1>6. op.pc \in {"lateError", "images", "removeImages"}
  BY <1>1, <1>2, <1>5 DEF Acknowledges
<1> QED  BY <1>4, <1>6 DEF OwnInv, RemovalCovers, OwedInv, At

LEMMA OwedStays ==
    ASSUME TypeInv, SInv, OwnInv, Callers, Taken, OwedInv, Handler
    PROVE  InactiveIsEmptyAfterCrash'
<1> SUFFICES ASSUME faults' = 0, NEW a \in Apps, Inactive(a)', ~Empty(a)', ~HasSecrets(a)
             PROVE  Redelivered(a)'
  BY DEF InactiveIsEmptyAfterCrash, HasSecrets
<1>1. faults = 0
  BY FaultsOK DEF TypeInv
<1>2. Inactive(a)
  BY LapsesEmpty
<1>3. ~Empty(a)
  BY <1>2, InactiveLeftAlone
<1>4. Redelivered(a)
  BY <1>1, <1>2, <1>3 DEF OwedInv, InactiveIsEmptyAfterCrash
<1>5. msg' = msg
  BY <1>1, <1>2, <1>3, <1>4, EndsEmpty
<1> QED  BY <1>4, <1>5 DEF Redelivered

\* A late rollback comes to its end from where the removal did.
LEMMA ToLateError ==
    ASSUME TypeInv, Handler, ~Fault, op'.pc = "lateError"
    PROVE  op'.app = op.app /\ op.pc \in {"undeployed", "removeImages"}
<1>0. op \in FrameType
  BY DEF TypeInv, HandlerOK
<1>1. ~Deploy
  <2>1. ~(DeployFresh \/ DeployNewVersion \/ DeployRejected \/ InspectFails \/ DeployDone
          \/ LateError)
    BY DEF DeployFresh, DeployNewVersion, DeployRejected, InspectFails, DeployDone, LateError,
       Return, Idle, Step, Frame
  <2>2. ~(Add \/ CreateAppNetwork \/ CreateContainer \/ StartModule)
    BY <1>0 DEF Add, CreateAppNetwork, CreateContainer, StartModule, Step, FrameType
  <2>3. ~(ImagePresent \/ Pull \/ PullErrorUnseen)
    BY <1>0 DEF ImagePresent, Pull, PullErrorUnseen, At, NextImage, Step, FrameType
  <2>4. ~(PullFails \/ CreateNetworkFails \/ CreateContainerFails \/ StartModuleFails)
    BY <1>0 DEF PullFails, CreateNetworkFails, CreateContainerFails, StartModuleFails, Rollback,
       Step, FrameType
  <2> QED  BY <2>1, <2>2, <2>3, <2>4 DEF Deploy
<1>2. ~(Stop \/ Resume)
  <2>1. ~(StopRefused \/ StopBegin \/ StopFails \/ StopDone \/ ResumeRefused \/ ResumeBegin
          \/ ResumeFails \/ ResumeDone)
    BY DEF StopRefused, StopBegin, StopFails, StopDone, ResumeRefused, ResumeBegin, ResumeFails,
       ResumeDone, Return, Idle, Step, Frame
  <2>2. ~(StopNext \/ ResumeNext)
    BY <1>0 DEF StopNext, ResumeNext, At, Step, FrameType
  <2> QED  BY <2>1, <2>2 DEF Stop, Resume
<1>3. ~DeleteNode
  BY <1>0 DEF DeleteNode, DeleteBegin, DeleteNext, DeleteLast, SetNodeDeleted, GoTo, Step, Idle,
     Frame, FrameType
<1>4. CASE UndeployEdgeApp
  <2>1. ~(UndeployRejected \/ UndeployBegin)
    BY DEF UndeployRejected, UndeployBegin, Return, Idle, Step, Frame
  <2>2. ~(Undeploy \/ ListContainers \/ RemoveContainer \/ RemoveContainerFails \/ PruneNetworks
          \/ PruneNetworksFails)
    BY <1>0 DEF Undeploy, ListContainers, RemoveContainer, RemoveContainerFails, PruneNetworks,
       PruneNetworksFails, At, GoTo, Step, FrameType
  <2>3. ~ListContainersFails
    BY DEF ListContainersFails
  <2>4. CASE UndeployDone \/ UndeployIncomplete
    <3>1. op.pc = "undeployed" /\ \E ok : ReturnFromUndeploy(ok)
      BY <2>4 DEF UndeployDone, UndeployIncomplete, At
    <3> QED  BY <1>0, <3>1 DEF ReturnFromUndeploy, ReturnFromRemove, Return, Idle, Frame, GoTo,
                               Step, FrameType
  <2> QED  BY <1>4, <2>1, <2>2, <2>3, <2>4 DEF UndeployEdgeApp
<1>5. CASE RemoveEdgeApp
  <2>1. ~(SelectImages \/ RemoveImage \/ RemoveImageFails)
    BY <1>0 DEF SelectImages, RemoveImage, RemoveImageFails, At, Step, FrameType
  <2>2. ~SelectImagesFails
    BY DEF SelectImagesFails
  <2>3. CASE ImagesRemain \/ Forget
    <3>1. op.pc = "removeImages" /\ \E ok : ReturnFromRemove(ok)
      BY <2>3 DEF ImagesRemain, Forget, At
    <3> QED  BY <1>0, <3>1 DEF ReturnFromRemove, Return, Idle, Frame, GoTo, Step, FrameType
  <2> QED  BY <1>5, <2>1, <2>2, <2>3 DEF RemoveEdgeApp
<1> QED  BY <1>1, <1>2, <1>3, <1>4, <1>5 DEF Handler

LEMMA LateErrorIsLast ==
    ASSUME TypeInv, SInv, OwnInv, Handler, ~Fault, op'.pc = "lateError", Inactive(op.app)'
    PROVE  Empty(op.app)'
<1>1. op'.app = op.app /\ op.pc \in {"undeployed", "removeImages"}
  BY ToLateError
<1>2. op.pc \notin Appless /\ op.app \in Apps
  BY <1>1 DEF TypeInv, HandlerOK, FrameFits, Appless
<1>3. PICK a \in Apps : a = op.app
  BY <1>2
<1>4. Inactive(a)' => Inactive(a) \/ Empty(a)'
  BY LapsesEmpty
<1>5. Inactive(a) => op.pc = "removeImages"
  BY <1>1, <1>2, <1>3, StatusFacts DEF SInv, Fits
<1>6. Inactive(a) => Empty(a)
  BY <1>3, <1>5 DEF OwnInv, RemovalCovers
<1>7. Inactive(a) => Empty(a)'
  BY <1>6, InactiveLeftAlone
<1>8. a = op'.app
  BY <1>1, <1>3
<1>9. Inactive(a)' /\ (Empty(a)' => Empty(op.app)')
  BY <1>8 DEF Inactive, IsKnown, Empty, ContainersOf, NetworksOf
<1> QED  BY <1>4, <1>7, <1>9

\* As long as a record is not saved the handler that made it goes on, or saves it.
LEMMA UnsavedGoesOn ==
    ASSUME TypeInv, Handler, ~Fault, op.pc \in Making, IsKnown(op.app)
    PROVE  file' = known' \/ (op'.pc \in Making /\ op'.app = op.app /\ msg' = msg)
<1>0. op \in FrameType
  BY DEF TypeInv, HandlerOK
<1>1. CASE Deploy
  <2>1. ~(DeployFresh \/ DeployNewVersion \/ DeployRejected \/ Add \/ InspectFails \/ LateError)
    BY DEF DeployFresh, DeployNewVersion, DeployRejected, Add, InspectFails, LateError, Handling,
       At, Making
  <2>2. CASE PullFails \/ CreateNetworkFails \/ DeployDone
    BY <2>2 DEF PullFails, CreateNetworkFails, DeployDone, SetStatus
  <2>3. CASE CreateAppNetwork \/ CreateContainer \/ StartModule
    BY <1>0, <2>3 DEF CreateAppNetwork, CreateContainer, StartModule, Step, FrameType, Making
  <2>4. CASE ImagePresent \/ Pull \/ PullErrorUnseen
    BY <1>0, <2>4 DEF ImagePresent, Pull, PullErrorUnseen, At, NextImage, Step, FrameType, Making
  <2>5. CASE CreateContainerFails \/ StartModuleFails
    BY <1>0, <2>5 DEF CreateContainerFails, StartModuleFails, Rollback, Step, FrameType, Making
  <2> QED  BY <1>1, <2>1, <2>2, <2>3, <2>4, <2>5 DEF Deploy
<1>2. ~(Stop \/ Resume)
  BY DEF Stop, StopRefused, StopBegin, StopNext, StopFails, StopDone, Resume, ResumeRefused,
     ResumeBegin, ResumeNext, ResumeFails, ResumeDone, Handling, At, Making
<1>3. CASE UndeployEdgeApp
  <2>1. Undeploy
    BY <1>3 DEF UndeployEdgeApp, UndeployRejected, UndeployBegin, ListContainers,
       ListContainersFails, RemoveContainer, RemoveContainerFails, PruneNetworks,
       PruneNetworksFails, UndeployDone, UndeployIncomplete, Handling, At, Making
  <2> QED  BY <2>1 DEF Undeploy, SetStatus
<1>4. ~(RemoveEdgeApp \/ DeleteNode)
  BY DEF RemoveEdgeApp, SelectImages, SelectImagesFails, RemoveImage, RemoveImageFails,
     ImagesRemain, Forget, DeleteNode, DeleteBegin, DeleteNext, DeleteLast, SetNodeDeleted,
     Handling, At, Making
<1> QED  BY <1>1, <1>2, <1>3, <1>4 DEF Handler

LEMMA AtAdd ==
    ASSUME Handler, op.pc = "add"
    PROVE  Add
<1>1. Deploy => Add
  BY DEF Deploy, DeployFresh, DeployNewVersion, DeployRejected, InspectFails, ImagePresent, Pull,
     PullErrorUnseen, PullFails, CreateAppNetwork, CreateNetworkFails, CreateContainer,
     CreateContainerFails, StartModule, StartModuleFails, DeployDone, LateError, Handling, At
<1>2. ~(Stop \/ Resume)
  BY DEF Stop, StopRefused, StopBegin, StopNext, StopFails, StopDone, Resume, ResumeRefused,
     ResumeBegin, ResumeNext, ResumeFails, ResumeDone, Handling, At
<1>3. ~UndeployEdgeApp
  BY DEF UndeployEdgeApp, UndeployRejected, UndeployBegin, Undeploy, ListContainers,
     ListContainersFails, RemoveContainer, RemoveContainerFails, PruneNetworks,
     PruneNetworksFails, UndeployDone, UndeployIncomplete, Handling, At
<1>4. ~(RemoveEdgeApp \/ DeleteNode)
  BY DEF RemoveEdgeApp, SelectImages, SelectImagesFails, RemoveImage, RemoveImageFails,
     ImagesRemain, Forget, DeleteNode, DeleteBegin, DeleteNext, DeleteLast, SetNodeDeleted,
     Handling, At
<1> QED  BY <1>1, <1>2, <1>3, <1>4 DEF Handler

LEMMA UnsavedStays ==
    ASSUME TypeInv, SInv, OwedInv, UnsavedOnlyInitiated, Handler, faults' = 0, ~Fault,
           NEW a \in Apps, file'[a] # known'[a]
    PROVE  op'.pc \in Making /\ op'.app = a /\ Redelivered(a)'
<1>0. faults = 0 /\ StoreOK
  BY FaultsOK DEF TypeInv
<1>1. CASE UNCHANGED storeVars
  <2>1. op.pc \in Making /\ op.app = a /\ Redelivered(a)
    BY <1>0, <1>1 DEF storeVars, OwedInv, Making
  <2>2. IsKnown(op.app) /\ ~(file' = known')
    BY <1>1, <2>1 DEF storeVars, UnsavedOnlyInitiated, HasStatus
  <2> QED  BY <2>1, <2>2, UnsavedGoesOn DEF Redelivered
<1>2. CASE At("add") /\ AddKnownManifest(msg.man)
  <2>1. msg.man \in Manifests /\ op.app = msg.man.id /\ msg.cmd = "DEPLOY" /\ msg.app = op.app
        /\ msg # None
    BY <1>2, DeployContext DEF At, InDeploy, TypeInv, HandlerOK, FrameFits
  <2>2. a # op.app => file'[a] = file[a] /\ known'[a] = known[a]
    BY <1>0, <1>2, <2>1, AddEffect
  <2>3. a = op.app
    BY <1>0, <1>2, <2>2 DEF OwedInv, At
  <2>4. Add
    BY <1>2, AtAdd DEF At
  <2>5. op'.pc = "image" /\ op'.app = op.app /\ msg' = msg
    BY <2>4 DEF Add, Step, TypeInv, HandlerOK, FrameType
  <2> QED  BY <2>1, <2>3, <2>5 DEF Making, Redelivered
<1> QED  BY <1>1, <1>2, HandlerStore DEF StoreEffect

LEMMA OwedKept ==
    ASSUME TypeInv, SInv, OwnInv, Callers, Taken, UnsavedOnlyInitiated, OwedInv,
           [CrashNext]_vars
    PROVE  OwedInv'
<1>1. CASE Handler
  <2>1. InactiveIsEmptyAfterCrash'
    BY <1>1, OwedStays
  <2>2. faults' = 0 => ~Fault
    BY DEF Fault, TypeInv, CountersOK
  <2>3. (faults = 0 /\ At("lateError") /\ Inactive(op.app) => Empty(op.app))'
    BY <1>1, <2>2, LateErrorIsLast DEF At
  <2>4. faults' = 0 => \A a \in Apps : file'[a] # known'[a] =>
            op'.pc \in Making /\ op'.app = a /\ Redelivered(a)'
    BY <1>1, <2>2, UnsavedStays
  <2> QED  BY <2>1, <2>3, <2>4 DEF OwedInv, Making
<1>2. CASE Receive
  <2>1. /\ op.pc = "idle" /\ op' = op /\ faults' = faults /\ msg = None
        /\ known' = known /\ file' = file /\ containers' = containers /\ networks' = networks
    BY <1>2 DEF Receive, At, dockerVars, storeVars
  <2>2. faults = 0 => \A a \in Apps : Inactive(a) => Empty(a) \/ HasSecrets(a)
    BY <2>1 DEF OwedInv, InactiveIsEmptyAfterCrash, Redelivered
  <2>3. InactiveIsEmptyAfterCrash'
    BY <2>1, <2>2 DEF InactiveIsEmptyAfterCrash, HasSecrets, Inactive, IsKnown, Empty,
                      ContainersOf, NetworksOf
  <2>4. faults = 0 => \A a \in Apps : file[a] = known[a]
    BY <2>1 DEF OwedInv
  <2> QED  BY <2>1, <2>3, <2>4 DEF OwedInv, At
<1>3. CASE Engine
  <2>1. NetworksDistinct /\ HostOK
    BY DEF OwnInv, TypeInv
  <2>2. HostShrinks
    BY <1>3, <2>1, ContainerToShrinks, RemoveContainerShrinks
       DEF Engine, ContainerChanges, ContainerLost
  <2>3. \A a : Empty(a) => Empty(a)'
    BY <2>1, <2>2, ShrinkKeeps
  <2>4. op' = op /\ msg' = msg /\ known' = known /\ file' = file /\ faults' = faults
    BY <1>3 DEF Engine, storeVars, handlerVars, counters
  <2>5. PICK a : a = op.app
    OBVIOUS
  <2>6. Empty(op.app) => Empty(op.app)'
    BY <2>3, <2>4, <2>5 DEF Empty, ContainersOf, NetworksOf
  <2> QED  BY <2>3, <2>4, <2>6 DEF OwedInv, InactiveIsEmptyAfterCrash, Redelivered, Inactive,
                                   IsKnown, At
<1>4. CASE LogRead
  <2>1. /\ op' = op /\ msg' = msg /\ known' = known /\ file' = known /\ faults' = faults
        /\ containers' = containers /\ networks' = networks
    BY <1>4 DEF LogRead, SetLastLogRead, dockerVars, handlerVars, counters
  <2> QED  BY <2>1 DEF OwedInv, InactiveIsEmptyAfterCrash, Redelivered, Inactive, IsKnown, At,
                       Empty, ContainersOf, NetworksOf
<1>5. CASE Restart
  <2>1. /\ op'.pc = "idle" /\ msg' = msg /\ known' = file /\ file' = file /\ faults' = faults
        /\ containers' = containers /\ networks' = networks
    BY <1>5 DEF Restart, Idle, Frame, InitKnownManifests, dockerVars
  <2>2. ASSUME faults = 0, NEW a \in Apps, Inactive(a)'
        PROVE  Empty(a) \/ Redelivered(a) \/ HasSecrets(a)
    <3>1. CASE file[a] = known[a]
      <4>1. Inactive(a)
        BY <2>1, <2>2, <3>1 DEF Inactive, IsKnown
      <4> QED  BY <2>2, <4>1 DEF OwedInv, InactiveIsEmptyAfterCrash
    <3>2. CASE file[a] # known[a]
      BY <2>2, <3>2 DEF OwedInv
    <3> QED  BY <3>1, <3>2
  <2> QED  BY <2>1, <2>2 DEF OwedInv, InactiveIsEmptyAfterCrash, HasSecrets, Redelivered, At,
                             Empty, ContainersOf, NetworksOf
<1>6. CASE Finished \/ UNCHANGED vars
  BY <1>6 DEF Finished, vars, dockerVars, storeVars, handlerVars, counters, OwedInv,
     InactiveIsEmptyAfterCrash, Redelivered, Inactive, IsKnown, At, Empty, ContainersOf,
     NetworksOf
<1> QED  BY <1>1, <1>2, <1>3, <1>4, <1>5, <1>6
         DEF CrashNext, Next, CrashRestart, UpdateManifestPanics

\* As long as calls succeed, but however often the agent crashes, whoever else writes
\* the file and whatever containers do by themselves: what is on the host belongs to an
\* app on record, or the DEPLOY that made it is still to be delivered again (edgeapp.go
\* 18-129, status.go 46-77).
THEOREM CrashesLeaveNothingUnowed == CrashSpec => []InactiveIsEmptyAfterCrash
<1>1. Init => OwedInv
  BY DEF Init, OwedInv, InactiveIsEmptyAfterCrash, Empty, ContainersOf, NetworksOf, Idle, Frame,
     At
<1>2. TypeInv /\ SInv /\ OwnInv /\ Callers /\ Taken /\ UnsavedOnlyInitiated /\ OwedInv
          /\ [CrashNext]_vars => OwedInv'
  BY OwedKept
<1>3. OwedInv => InactiveIsEmptyAfterCrash
  BY DEF OwedInv
<1> QED  BY <1>1, <1>2, <1>3, TypeInvariant, AlwaysSInv, AlwaysOwn, AlwaysCalled, AlwaysTaken,
            FileLagsOnlyWhenInitiated, PTL DEF CrashSpec

------------------------------------------------------------------------------
(* Handlers get on                                                         *)

KnownOf(f) == {a \in Apps : f[a] # None}

\* The lists that loops go over are finite, and so is the record in memory and on file.
FiniteWork ==
    /\ IsFiniteSet(op.todo) /\ IsFiniteSet(op.imgs)
    /\ IsFiniteSet(KnownOf(known)) /\ IsFiniteSet(KnownOf(file))

LEMMA IdsFinite ==
    ASSUME HostOK
    PROVE  IsFiniteSet(Ids(containers))
<1>1. PICK n \in Nat : \A c \in containers : c.id <= n
  BY DEF HostOK, IdsBounded
<1>2. Ids(containers) \in SUBSET Nat /\ \A i \in Ids(containers) : i <= n
  BY <1>1 DEF HostOK, Container, Ids
<1> QED  BY <1>2, FS_BoundedSetOfNaturals

LEMMA ModuleImagesFinite ==
    ASSUME NEW m \in Manifests
    PROVE  IsFiniteSet(ModuleImages(m))
<1>1. m.modules \in Seq(Images) /\ DOMAIN m.modules = 1 .. Len(m.modules) /\ Len(m.modules) \in Nat
  BY ManifestFacts
<1>2. m.modules \in Surjection(1 .. Len(m.modules), ModuleImages(m))
  BY <1>1 DEF Surjection, ModuleImages
<1>3. IsFiniteSet(1 .. Len(m.modules))
  <2>1. 1 \in Int /\ Len(m.modules) \in Int
    BY <1>1
  <2> QED  BY <2>1, FS_Interval
<1> QED  BY <1>2, <1>3, FS_Surjection

\* What a handler puts on its lists are containers there are and images of the app.
ListsGrow ==
    /\ op'.todo \subseteq op.todo \cup Ids(containers) \cup {NewContainerId}
    /\ \/ op'.imgs \subseteq op.imgs
       \/ op.pc = "images" /\ op'.imgs \subseteq GetUsedImages(op.app)

LEMMA ListsAlike ==
    ASSUME op \in FrameType,
           \/ op' = Idle
           \/ \E l, c, a : op' = Frame(l, c, a)
           \/ \E l : op' = [op EXCEPT !.pc = l]
           \/ op'.todo \subseteq op.todo /\ op'.imgs \subseteq op.imgs
    PROVE  ListsGrow
BY DEF Idle, Frame, FrameType, ListsGrow

LEMMA ReturnsAlike ==
    ASSUME op \in FrameType,
           \E ok : Return(ok) \/ ReturnFromRemove(ok) \/ ReturnFromUndeploy(ok)
    PROVE  ListsGrow
<1>1. ASSUME NEW ok, Return(ok)
      PROVE  ListsGrow
  BY <1>1, ListsAlike DEF Return
<1>2. ASSUME NEW l, GoTo(l)
      PROVE  ListsGrow
  BY <1>2, ListsAlike DEF GoTo, Step
<1>3. ASSUME NEW ok, ReturnFromRemove(ok)
      PROVE  ListsGrow
  BY <1>1, <1>2, <1>3 DEF ReturnFromRemove
<1> QED  BY <1>1, <1>2, <1>3 DEF ReturnFromUndeploy

LEMMA HandlerLists ==
    ASSUME TypeInv, Handler
    PROVE  ListsGrow
<1>0. op \in FrameType
  BY DEF TypeInv, HandlerOK
<1>1. CASE Deploy
  <2>1. CASE DeployFresh \/ DeployNewVersion
    BY <1>0, <2>1, ListsAlike DEF DeployFresh, DeployNewVersion, Step
  <2>2. CASE DeployRejected \/ InspectFails \/ DeployDone \/ LateError
    BY <1>0, <2>2, ReturnsAlike DEF DeployRejected, InspectFails, DeployDone, LateError
  <2>3. CASE Add \/ ImagePresent \/ Pull \/ PullErrorUnseen \/ CreateAppNetwork \/ StartModule
    BY <1>0, <2>3 DEF Add, ImagePresent, Pull, PullErrorUnseen, CreateAppNetwork, StartModule,
                      Step, NextImage, FrameType, ListsGrow
  <2>4. CASE PullFails \/ CreateNetworkFails \/ CreateContainerFails \/ StartModuleFails
    BY <1>0, <2>4 DEF PullFails, CreateNetworkFails, CreateContainerFails, StartModuleFails, Step,
                      Rollback, FrameType, ListsGrow
  <2>5. CASE CreateContainer
    BY <1>0, <2>5 DEF CreateContainer, Step, FrameType, ListsGrow
  <2> QED  BY <1>1, <2>1, <2>2, <2>3, <2>4, <2>5 DEF Deploy
<1>2. CASE Stop \/ Resume
  <2>1. CASE StopRefused \/ ResumeRefused \/ StopFails \/ StopDone \/ ResumeFails \/ ResumeDone
    BY <1>0, <2>1, ReturnsAlike DEF StopRefused, ResumeRefused, StopFails, StopDone, ResumeFails,
                                    ResumeDone
  <2>2. CASE StopBegin \/ ResumeBegin
    BY <2>2 DEF StopBegin, ResumeBegin, Step, Frame, ListsGrow, RunningIn, ContainersOf, Ids
  <2>3. CASE StopNext \/ ResumeNext
    BY <1>0, <2>3 DEF StopNext, ResumeNext, Step, FrameType, ListsGrow
  <2> QED  BY <1>2, <2>1, <2>2, <2>3 DEF Stop, Resume
<1>3. CASE UndeployEdgeApp
  <2>1. CASE UndeployRejected \/ ListContainersFails \/ UndeployDone \/ UndeployIncomplete
    BY <1>0, <2>1, ReturnsAlike DEF UndeployRejected, ListContainersFails, UndeployDone,
                                    UndeployIncomplete
  <2>2. CASE UndeployBegin \/ Undeploy \/ PruneNetworks
    BY <1>0, <2>2, ListsAlike DEF UndeployBegin, Undeploy, PruneNetworks, GoTo, Step
  <2>3. CASE ListContainers
    BY <1>0, <2>3 DEF ListContainers, Step, FrameType, ListsGrow, ContainersOf, Ids
  <2>4. CASE RemoveContainer \/ RemoveContainerFails \/ PruneNetworksFails
    BY <1>0, <2>4 DEF RemoveContainer, RemoveContainerFails, PruneNetworksFails, Step, FrameType,
                      ListsGrow
  <2> QED  BY <1>3, <2>1, <2>2, <2>3, <2>4 DEF UndeployEdgeApp
<1>4. CASE RemoveEdgeApp
  <2>1. CASE SelectImagesFails \/ ImagesRemain \/ Forget
    BY <1>0, <2>1, ReturnsAlike DEF SelectImagesFails, ImagesRemain, Forget
  <2>2. CASE SelectImages
    BY <1>0, <2>2 DEF SelectImages, At, Step, FrameType, ListsGrow, RemoveImageNames
  <2>3. CASE RemoveImage \/ RemoveImageFails
    BY <1>0, <2>3 DEF RemoveImage, RemoveImageFails, Step, FrameType, ListsGrow
  <2> QED  BY <1>4, <2>1, <2>2, <2>3 DEF RemoveEdgeApp
<1>5. CASE DeleteNode
  BY <1>0, <1>5, ListsAlike DEF DeleteNode, DeleteBegin, DeleteNext, DeleteLast, SetNodeDeleted,
                                GoTo, Step
<1> QED  BY <1>1, <1>2, <1>3, <1>4, <1>5 DEF Handler

LEMMA SetStatusKnown ==
    ASSUME StoreOK, NEW b, NEW s \in Status, SetStatus(b, s)
    PROVE  KnownOf(known') = KnownOf(known)
<1>1. \A a \in Apps : known[a] # None => known'[a] # None
  BY SetStatusKnows DEF IsKnown
<1>2. \A a \in Apps : known[a] = None => known'[a] = None
  BY DEF SetStatus, storeVars, StoreOK, IsKnown
<1> QED  BY <1>1, <1>2 DEF KnownOf

LEMMA HandlerKnown ==
    ASSUME TypeInv, Handler
    PROVE  /\ \E a : KnownOf(known') \subseteq KnownOf(known) \cup {a}
           /\ KnownOf(file') \in {KnownOf(file), KnownOf(known')}
<1>1. StoreOK
  BY DEF TypeInv
<1>2. KnownOf(file') \in {KnownOf(file), KnownOf(known')}
  BY HandlerStore DEF StoreEffect, storeVars, AddKnownManifest
<1>3. CASE UNCHANGED storeVars
  BY <1>2, <1>3 DEF storeVars
<1>4. CASE \E b : \E s \in Status : SetStatus(b, s)
  BY <1>1, <1>2, <1>4, SetStatusKnown
<1>5. CASE Add
  <2>1. known' = [known EXCEPT ![msg.man.id] = [man |-> msg.man, status |-> "Initiated"]]
    BY <1>5 DEF Add, AddKnownManifest
  <2>2. KnownOf(known') \subseteq KnownOf(known) \cup {msg.man.id}
    BY <1>1, <2>1 DEF KnownOf, StoreOK
  <2> QED  BY <1>2, <2>2
<1>6. CASE Forget
  <2>1. KnownOf(known') \subseteq KnownOf(known)
    BY <1>1, <1>6 DEF Forget, DeleteKnownManifest, KnownOf, StoreOK
  <2> QED  BY <1>2, <2>1
<1>7. "Undeployed" \in Status
  BY DEF Status
<1> QED  BY <1>3, <1>4, <1>5, <1>6, <1>7, HandlerRecord DEF RecordEffect, UndeployDone

LEMMA FiniteStep ==
    ASSUME TypeInv, SInv, FiniteWork, [CrashNext]_vars
    PROVE  FiniteWork'
<1>1. CASE Handler
  <2>1. IsFiniteSet(op.todo \cup Ids(containers) \cup {NewContainerId})
    BY IdsFinite, FS_Union, FS_AddElement DEF TypeInv, FiniteWork
  <2>2. op'.todo \subseteq op.todo \cup Ids(containers) \cup {NewContainerId}
    BY <1>1, HandlerLists DEF ListsGrow
  <2>3. IsFiniteSet(op'.todo)
    BY <2>1, <2>2, FS_Subset
  <2>4. IsFiniteSet(op'.imgs)
    <3>1. CASE op'.imgs \subseteq op.imgs
      BY <3>1, FS_Subset DEF FiniteWork
    <3>2. CASE op.pc = "images" /\ op'.imgs \subseteq GetUsedImages(op.app)
      <4>1. op.app \in Apps /\ Statuses[op.app] = "Undeployed"
        BY <3>2 DEF TypeInv, HandlerOK, FrameFits, Appless, SInv, Fits
      <4>2. known[op.app] \in Record
        BY <4>1, StatusFacts DEF TypeInv, StoreOK, IsKnown
      <4>3. IsFiniteSet(GetUsedImages(op.app))
        BY <4>2, ModuleImagesFinite DEF Record, GetUsedImages
      <4> QED  BY <3>2, <4>3, FS_Subset
    <3> QED  BY <1>1, <3>1, <3>2, HandlerLists DEF ListsGrow
  <2>5. IsFiniteSet(KnownOf(known'))
    <3>1. PICK a : KnownOf(known') \subseteq KnownOf(known) \cup {a}
      BY <1>1, HandlerKnown
    <3>2. IsFiniteSet(KnownOf(known) \cup {a})
      BY FS_AddElement DEF FiniteWork
    <3> QED  BY <3>1, <3>2, FS_Subset
  <2>6. IsFiniteSet(KnownOf(file'))
    BY <1>1, <2>5, HandlerKnown DEF FiniteWork
  <2> QED  BY <2>3, <2>4, <2>5, <2>6 DEF FiniteWork, KnownOf
<1>2. CASE Restart
  <2>1. op'.todo = {} /\ op'.imgs = {} /\ known' = file /\ file' = file
    BY <1>2 DEF Restart, Idle, Frame, InitKnownManifests
  <2> QED  BY <2>1, FS_EmptySet DEF FiniteWork, KnownOf
<1>3. CASE LogRead
  <2>1. op' = op /\ known' = known /\ file' = known
    BY <1>3 DEF LogRead, SetLastLogRead, handlerVars
  <2> QED  BY <2>1 DEF FiniteWork, KnownOf
<1>4. CASE Receive \/ Engine \/ Finished \/ UNCHANGED vars
  <2>1. UNCHANGED <<op, known, file>>
    BY <1>4 DEF Receive, Engine, Finished, vars, storeVars, handlerVars
  <2> QED  BY <2>1 DEF FiniteWork, KnownOf
<1> QED  BY <1>1, <1>2, <1>3, <1>4 DEF CrashNext, Next, CrashRestart, UpdateManifestPanics

LEMMA AlwaysFinite == CrashSpec => []FiniteWork
<1>1. Init => FiniteWork
  <2> SUFFICES ASSUME Init
               PROVE  FiniteWork
    OBVIOUS
  <2>1. op.todo = {} /\ op.imgs = {} /\ KnownOf(known) = {} /\ KnownOf(file) = {}
    BY DEF Init, Idle, Frame, KnownOf
  <2> QED  BY <2>1, FS_EmptySet DEF FiniteWork
<1>2. TypeInv /\ SInv /\ FiniteWork /\ [CrashNext]_vars => FiniteWork'
  BY FiniteStep
<1> QED  BY <1>1, <1>2, TypeInvariant, AlwaysSInv, PTL DEF CrashSpec

\* What the proofs about a handler's steps start from.
AtWork ==
    /\ TypeInv /\ SInv /\ Callers /\ Taken /\ FiniteWork
    /\ op \in FrameType /\ msg # None

LEMMA CallsLeftIs ==
    /\ CallsLeft \in [Label -> 0 .. 6]
    /\ CallsLeft["add"] = 4 /\ CallsLeft["image"] = 3 /\ CallsLeft["network"] = 2
    /\ CallsLeft["create"] = 1 /\ CallsLeft["start"] = 1 /\ CallsLeft["deployed"] = 0
    /\ CallsLeft["deleteNext"] = 6 /\ CallsLeft["undeploy"] = 5 /\ CallsLeft["list"] = 4
    /\ CallsLeft["removeContainers"] = 3 /\ CallsLeft["undeployed"] = 2
    /\ CallsLeft["images"] = 1 /\ CallsLeft["removeImages"] = 0
    /\ CallsLeft["stop"] = 0 /\ CallsLeft["resume"] = 0
<1>1. DOMAIN CallsLeft = Label
  BY DEF CallsLeft, Label
<1>2. \A l \in Label : CallsLeft[l] \in 0 .. 6
  BY DEF CallsLeft, Label
<1>3. CallsLeft = [l \in Label |-> CallsLeft[l]]
  BY DEF CallsLeft, Label
<1> QED  BY <1>1, <1>2, <1>3 DEF CallsLeft

LEMMA DistanceParts ==
    ASSUME TypeInv, FiniteWork
    PROVE  /\ Stage \in Nat /\ AppsLeft \in Nat /\ CallsLeft[op.pc] \in Nat /\ Rounds \in Nat
           /\ Distance \in [1 .. 4 -> Nat]
<1>0. op \in FrameType /\ FrameFits /\ op.pc \in Label
  BY DEF TypeInv, HandlerOK, FrameType
<1>1. Stage \in Nat
  BY DEF Stage
<1>2. AppsLeft \in Nat
  BY FS_CardinalityType DEF AppsLeft, FiniteWork, KnownOf, IsKnown
<1>3. CallsLeft[op.pc] \in Nat
  BY <1>0, CallsLeftIs
<1>4. Rounds \in Nat
  <2>1. Cardinality(op.todo) \in Nat /\ Cardinality(op.imgs) \in Nat
    BY FS_CardinalityType DEF FiniteWork
  <2>2. op.pc \in {"image", "create", "start"} =>
            op.idx \in 1 .. Len(msg.man.modules) /\ Len(msg.man.modules) \in Nat
    BY <1>0, DeployContext DEF TypeInv, FrameFits, InDeploy
  <2> QED  BY <2>1, <2>2 DEF Rounds, At
<1>5. Distance \in [1 .. 4 -> Nat]
  BY <1>1, <1>2, <1>3, <1>4 DEF Distance
<1> QED  BY <1>1, <1>2, <1>3, <1>4, <1>5

\* A step goes to a later part, takes an app off the record, gets to a later call, or
\* goes on in a loop.
LaterStage == Stage' < Stage
FewerApps == Stage' = Stage /\ AppsLeft' < AppsLeft
LaterCall == Stage' = Stage /\ AppsLeft' = AppsLeft /\ CallsLeft[op'.pc] < CallsLeft[op.pc]
NextRound ==
    Stage' = Stage /\ AppsLeft' = AppsLeft /\ op'.pc = op.pc /\ Rounds' < Rounds
NextModule ==
    /\ Stage' = Stage /\ AppsLeft' = AppsLeft /\ CallsLeft[op'.pc] = CallsLeft[op.pc]
    /\ Rounds' < Rounds

Nearer == LaterStage \/ FewerApps \/ LaterCall \/ NextRound \/ NextModule

LEMMA NearerIsBelow ==
    ASSUME Nearer, Distance \in [1 .. 4 -> Nat], Distance' \in [1 .. 4 -> Nat]
    PROVE  Below(Distance', Distance)
<1> DEFINE s == Distance'
           t == Distance
<1>1. /\ s[1] = Stage' /\ s[2] = AppsLeft' /\ s[3] = CallsLeft[op'.pc] /\ s[4] = Rounds'
      /\ t[1] = Stage /\ t[2] = AppsLeft /\ t[3] = CallsLeft[op.pc] /\ t[4] = Rounds
  BY DEF Distance, CallsLeft
<1>2. {s, t} \subseteq [1 .. 4 -> Nat]
  OBVIOUS
<1>3. ASSUME NEW k \in 1 .. 4, s[k] < t[k], \A j \in 1 .. 4 : j < k => s[j] = t[j]
      PROVE  Below(s, t)
  <2>1. \A j \in 1 .. k - 1 : s[j] = t[j]
    BY <1>3
  <2> QED  BY <1>2, <1>3, <2>1 DEF Below
<1>4. CASE LaterStage
  <2>1. s[1] < t[1]
    BY <1>1, <1>4 DEF LaterStage
  <2>2. \A j \in 1 .. 4 : j < 1 => s[j] = t[j]
    OBVIOUS
  <2> QED  BY <1>3, <2>1, <2>2
<1>5. CASE FewerApps
  <2>1. s[2] < t[2] /\ s[1] = t[1]
    BY <1>1, <1>5 DEF FewerApps
  <2>2. \A j \in 1 .. 4 : j < 2 => j = 1
    OBVIOUS
  <2> QED  BY <1>3, <2>1, <2>2
<1>6. CASE LaterCall
  <2>1. s[3] < t[3] /\ s[1] = t[1] /\ s[2] = t[2]
    BY <1>1, <1>6 DEF LaterCall
  <2>2. \A j \in 1 .. 4 : j < 3 => j \in {1, 2}
    OBVIOUS
  <2> QED  BY <1>3, <2>1, <2>2
<1>7. CASE NextRound \/ NextModule
  <2>1. s[4] < t[4] /\ s[1] = t[1] /\ s[2] = t[2] /\ s[3] = t[3]
    BY <1>1, <1>7 DEF NextRound, NextModule
  <2>2. \A j \in 1 .. 4 : j < 4 => j \in {1, 2, 3}
    OBVIOUS
  <2> QED  BY <1>3, <2>1, <2>2
<1> QED  BY <1>4, <1>5, <1>6, <1>7 DEF Nearer

\* A handler that returns is at its end.
LEMMA ReturnIsEnd ==
    ASSUME AtWork, op' = Idle, msg' = None
    PROVE  Nearer
<1>1. op'.pc = "idle" /\ msg' = None
  BY DEF Idle, Frame
<1>2. Stage' = 0
  <2>1. Stage' = IF msg' = None THEN 0 ELSE 5
    BY <1>1 DEF Stage, At, Building
  <2> QED  BY <1>1, <2>1
<1>3. Stage \in Nat \ {0}
  BY DEF Stage, AtWork
<1> QED  BY <1>2, <1>3 DEF Nearer, LaterStage

\* A handler that begins leaves the first stage.
LEMMA BeginIsLater ==
    ASSUME AtWork, op.pc = "idle", op'.pc # "idle"
    PROVE  Nearer
<1>1. op.pc = "idle" /\ msg # None
  BY DEF AtWork
<1>2. Stage = 5
  <2>1. Stage = IF msg = None THEN 0 ELSE 5
    BY <1>1 DEF Stage, At, Building
  <2> QED  BY <1>1, <2>1
<1>3. Stage' < 5
  BY DEF Stage, At
<1> QED  BY <1>2, <1>3 DEF Nearer, LaterStage

LEMMA AppsLeftSame ==
    ASSUME op'.caller = op.caller, op.caller # "DELETE" \/ KnownOf(known') = KnownOf(known)
    PROVE  AppsLeft' = AppsLeft
BY DEF AppsLeft, KnownOf, IsKnown

\* The calls of a removal are in one stage, whatever the caller.
Removing == {"undeploy", "list", "removeContainers", "undeployed", "images", "removeImages"}

LEMMA RemovalStage ==
    ASSUME op.pc \in Removing
    PROVE  Stage = IF op.caller = "redeploy" THEN 4 ELSE 2
BY DEF Stage, At, Removing, Building

LEMMA WithinRemoval ==
    ASSUME AtWork, op.pc \in Removing, op'.pc \in Removing, op'.caller = op.caller,
           KnownOf(known') = KnownOf(known),
           \/ CallsLeft[op'.pc] < CallsLeft[op.pc]
           \/ op'.pc = op.pc /\ Rounds' < Rounds
    PROVE  Nearer
<1>1. Stage' = Stage
  BY RemovalStage DEF Stage, At, Removing, Building
<1> QED  BY <1>1, AppsLeftSame DEF Nearer, LaterCall, NextRound

LEMMA RemoveGetsOn ==
    ASSUME AtWork, op.pc \in Removing, NEW ok \in BOOLEAN, ReturnFromRemove(ok),
           op.caller = "DELETE" /\ ok => AppsLeft' < AppsLeft
    PROVE  Nearer
<1>0. op \in FrameType
  BY DEF AtWork
<1>1. CASE Return(ok) \/ Return(FALSE)
  BY <1>1, ReturnIsEnd DEF Return
<1>2. CASE op.caller = "redeploy" /\ GoTo("add")
  <2>1. op'.pc = "add"
    BY <1>0, <1>2 DEF GoTo, Step, FrameType
  <2>2. Stage' = 3
    BY <2>1 DEF Stage, At, Building
  <2> QED  BY <1>2, <2>2, RemovalStage DEF Nearer, LaterStage
<1>3. CASE op.caller = "lateRollback" /\ GoTo("lateError")
  <2>1. op'.pc = "lateError"
    BY <1>0, <1>3 DEF GoTo, Step, FrameType
  <2>2. Stage' = 1
    BY <2>1 DEF Stage, At, Building
  <2> QED  BY <1>3, <2>2, RemovalStage DEF Nearer, LaterStage
<1>4. CASE op.caller = "DELETE" /\ ~ok /\ GoTo("deleted")
  <2>1. op'.pc = "deleted"
    BY <1>0, <1>4 DEF GoTo, Step, FrameType
  <2>2. Stage' = 1
    BY <2>1 DEF Stage, At, Building
  <2> QED  BY <1>4, <2>2, RemovalStage DEF Nearer, LaterStage
<1>5. CASE op.caller = "DELETE" /\ ok /\ GoTo("deleteNext")
  <2>1. op'.pc = "deleteNext" /\ op'.caller = op.caller
    BY <1>0, <1>5 DEF GoTo, Step, FrameType
  <2>2. Stage' = 2
    BY <1>5, <2>1 DEF Stage, At, Building
  <2> QED  BY <1>5, <2>2, RemovalStage DEF Nearer, FewerApps
<1> QED  BY <1>1, <1>2, <1>3, <1>4, <1>5 DEF ReturnFromRemove

LEMMA UndeployGetsOn ==
    ASSUME AtWork, op.pc \in {"list", "undeployed"}, NEW ok \in BOOLEAN, ReturnFromUndeploy(ok),
           KnownOf(known') = KnownOf(known), ok => op.pc = "undeployed"
    PROVE  Nearer
<1>0. op \in FrameType /\ op.pc \in Removing
  BY DEF AtWork, Removing
<1>1. CASE Return(ok)
  BY <1>1, ReturnIsEnd DEF Return
<1>2. CASE ok /\ GoTo("images")
  <2>1. op'.pc = "images" /\ op'.caller = op.caller
    BY <1>0, <1>2 DEF GoTo, Step, FrameType
  <2>2. op'.pc \in Removing /\ CallsLeft[op'.pc] < CallsLeft[op.pc]
    BY <1>2, <2>1, CallsLeftIs DEF Removing
  <2> QED  BY <1>0, <2>1, <2>2, WithinRemoval
<1>3. CASE ~ok /\ ReturnFromRemove(FALSE)
  BY <1>0, <1>3, RemoveGetsOn
<1> QED  BY <1>1, <1>2, <1>3 DEF ReturnFromUndeploy

LEMMA SameRecordKnown ==
    ASSUME UNCHANGED storeVars
    PROVE  KnownOf(known') = KnownOf(known)
BY DEF storeVars

\* The deployment is called by DEPLOY, and so is a rollback of it.
LEMMA BuilderIs ==
    ASSUME AtWork, op.pc \in Building
    PROVE  /\ op.caller \in {"DEPLOY", "redeploy"} /\ Stage = 3 /\ InDeploy
           /\ Len(msg.man.modules) \in Nat \ {0}
           /\ op.pc \in {"image", "create", "start"} => op.idx \in 1 .. Len(msg.man.modules)
<1>1. op.pc \notin Appless /\ op.pc # "idle" /\ InDeploy
  BY DEF Building, Appless, InDeploy
<1>2. op.caller \in {"DEPLOY", "redeploy"}
  BY <1>1 DEF AtWork, SInv, Fits, Building
<1>3. Stage = 3
  BY <1>1 DEF Stage, At, Building
<1>4. HandlerOK
  BY DEF AtWork, TypeInv
<1> QED  BY <1>1, <1>2, <1>3, <1>4, DeployContext DEF HandlerOK, FrameFits

LEMMA WithinBuilding ==
    ASSUME AtWork, op.pc \in Building, op'.pc \in Building, op'.caller = op.caller,
           \/ CallsLeft[op'.pc] < CallsLeft[op.pc]
           \/ CallsLeft[op'.pc] = CallsLeft[op.pc] /\ Rounds' < Rounds
    PROVE  Nearer
<1>1. op.caller # "DELETE"
  BY BuilderIs
<1>2. Stage' = Stage
  BY DEF Stage, At, Building
<1> QED  BY <1>1, <1>2, AppsLeftSame DEF Nearer, LaterCall, NextModule

LEMMA RollbackIsLater ==
    ASSUME AtWork, op.pc \in Building,
           NEW c \in {"rollback", "lateRollback"}, Step(Rollback(c))
    PROVE  Nearer
<1>1. op'.pc = "undeploy" /\ op'.caller # "redeploy"
  BY DEF Step, Rollback, AtWork, FrameType
<1>2. Stage' = 2
  BY <1>1 DEF Stage, At, Building
<1>3. Stage = 3
  BY BuilderIs
<1> QED  BY <1>2, <1>3 DEF Nearer, LaterStage

LEMMA DeployGetsOn ==
    ASSUME AtWork, Deploy
    PROVE  Nearer
<1>0. op \in FrameType
  BY DEF AtWork
<1>1. CASE DeployFresh \/ DeployNewVersion
  <2>1. op.pc = "idle" /\ op'.pc \in {"add", "undeploy"}
    BY <1>1 DEF DeployFresh, DeployNewVersion, Handling, At, Step, Frame
  <2> QED  BY <2>1, BeginIsLater
<1>2. CASE DeployRejected \/ InspectFails \/ DeployDone \/ LateError
  <2>1. op' = Idle /\ msg' = None
    BY <1>2 DEF DeployRejected, InspectFails, DeployDone, LateError, Return
  <2> QED  BY <2>1, ReturnIsEnd
<1>3. CASE Add
  <2>1. op.pc = "add" /\ op'.pc = "image" /\ op'.caller = op.caller
    BY <1>0, <1>3 DEF Add, At, Step, FrameType
  <2> QED  BY <2>1, WithinBuilding, CallsLeftIs DEF Building
<1>4. CASE ImagePresent \/ Pull \/ PullErrorUnseen
  <2>1. op.pc = "image" /\ op' = NextImage /\ msg' = msg
    BY <1>4 DEF ImagePresent, Pull, PullErrorUnseen, At, Step
  <2>2. op.idx \in 1 .. Len(msg.man.modules) /\ Len(msg.man.modules) \in Nat
    BY <2>1, BuilderIs DEF Building
  <2>3. CASE op.idx < Len(msg.man.modules)
    <3>1. op'.pc = "image" /\ op'.caller = op.caller /\ op'.idx = op.idx + 1
      BY <1>0, <2>1, <2>3 DEF NextImage, FrameType
    <3>2. Rounds = Len(msg.man.modules) - op.idx
      BY <2>1 DEF Rounds, At
    <3>3. Rounds' = Len(msg.man.modules) - (op.idx + 1)
      BY <2>1, <3>1 DEF Rounds, At
    <3>4. Rounds' < Rounds
      BY <2>2, <3>2, <3>3
    <3> QED  BY <2>1, <3>1, <3>4, WithinBuilding DEF Building
  <2>4. CASE ~(op.idx < Len(msg.man.modules))
    <3>1. op'.pc = "network" /\ op'.caller = op.caller
      BY <1>0, <2>1, <2>4 DEF NextImage, FrameType
    <3> QED  BY <2>1, <3>1, WithinBuilding, CallsLeftIs DEF Building
  <2> QED  BY <2>3, <2>4
<1>5. CASE CreateAppNetwork
  <2>1. op.pc = "network" /\ op'.pc = "create" /\ op'.caller = op.caller
    BY <1>0, <1>5 DEF CreateAppNetwork, At, Step, FrameType
  <2> QED  BY <2>1, WithinBuilding, CallsLeftIs DEF Building
<1>6. CASE CreateContainer
  <2>1. op.pc = "create" /\ op'.pc = "start" /\ op'.caller = op.caller /\ op'.idx = op.idx
    BY <1>0, <1>6 DEF CreateContainer, At, Step, FrameType
  <2>2. op.idx \in Nat
    BY <1>0 DEF FrameType
  <2>3. Rounds = 2 * op.idx /\ Rounds' = 2 * op.idx - 1
    BY <2>1 DEF Rounds, At
  <2>4. Rounds' < Rounds
    BY <2>2, <2>3
  <2> QED  BY <2>1, <2>4, WithinBuilding, CallsLeftIs DEF Building
<1>7. CASE StartModule
  <2>1. op.pc = "start" /\ op.idx \in Nat
    BY <1>0, <1>7 DEF StartModule, At, FrameType
  <2>2. CASE op.idx > 1
    <3>1. op'.pc = "create" /\ op'.caller = op.caller /\ op'.idx = op.idx - 1
      BY <1>0, <1>7, <2>2 DEF StartModule, Step, FrameType
    <3>2. Rounds = 2 * op.idx - 1 /\ Rounds' = 2 * (op.idx - 1)
      BY <2>1, <3>1 DEF Rounds, At
    <3>3. Rounds' < Rounds
      BY <2>1, <3>2
    <3> QED  BY <2>1, <3>1, <3>3, WithinBuilding, CallsLeftIs DEF Building
  <2>3. CASE ~(op.idx > 1)
    <3>1. op'.pc = "deployed" /\ op'.caller = op.caller
      BY <1>0, <1>7, <2>3 DEF StartModule, Step, FrameType
    <3> QED  BY <2>1, <3>1, WithinBuilding, CallsLeftIs DEF Building
  <2> QED  BY <2>2, <2>3
<1>8. CASE PullFails \/ CreateNetworkFails \/ CreateContainerFails \/ StartModuleFails
  <2>1. op.pc \in Building
    BY <1>8 DEF PullFails, CreateNetworkFails, CreateContainerFails, StartModuleFails, At, Building
  <2>2. Step(Rollback("rollback")) \/ Step(Rollback("lateRollback"))
    BY <1>8 DEF PullFails, CreateNetworkFails, CreateContainerFails, StartModuleFails
  <2> QED  BY <2>1, <2>2, RollbackIsLater
<1> QED  BY <1>1, <1>2, <1>3, <1>4, <1>5, <1>6, <1>7, <1>8 DEF Deploy

\* A round takes an element off a finite list.
LEMMA ShorterTodo ==
    ASSUME FiniteWork, NEW id \in op.todo, op'.todo = op.todo \ {id}, op'.imgs = op.imgs,
           op.pc \in {"stop", "resume", "removeContainers"}, op'.pc = op.pc
    PROVE  Rounds' < Rounds
<1>1. Rounds = Cardinality(op.todo) + Cardinality(op.imgs)
  BY DEF Rounds, At
<1>2. Rounds' = Cardinality(op'.todo) + Cardinality(op'.imgs)
  BY DEF Rounds, At
<1>3. Cardinality(op'.todo) = Cardinality(op.todo) - 1
  BY FS_RemoveElement DEF FiniteWork
<1>4. Cardinality(op.todo) \in Nat /\ Cardinality(op.imgs) \in Nat
  BY FS_CardinalityType DEF FiniteWork
<1> QED  BY <1>1, <1>2, <1>3, <1>4

LEMMA ShorterImgs ==
    ASSUME FiniteWork, NEW i \in op.imgs, op'.imgs = op.imgs \ {i}, op'.todo = op.todo,
           op.pc = "removeImages", op'.pc = op.pc
    PROVE  Rounds' < Rounds
<1>1. Rounds = Cardinality(op.todo) + Cardinality(op.imgs)
  BY DEF Rounds, At
<1>2. Rounds' = Cardinality(op'.todo) + Cardinality(op'.imgs)
  BY DEF Rounds, At
<1>3. Cardinality(op'.imgs) = Cardinality(op.imgs) - 1
  BY FS_RemoveElement DEF FiniteWork
<1>4. Cardinality(op.todo) \in Nat /\ Cardinality(op.imgs) \in Nat
  BY FS_CardinalityType DEF FiniteWork
<1> QED  BY <1>1, <1>2, <1>3, <1>4

LEMMA StopsGetOn ==
    ASSUME AtWork, Stop \/ Resume
    PROVE  Nearer
<1>0. op \in FrameType
  BY DEF AtWork
<1>1. CASE StopBegin \/ ResumeBegin
  <2>1. op.pc = "idle" /\ op'.pc \in {"stop", "resume"}
    BY <1>1 DEF StopBegin, ResumeBegin, Handling, At, Step, Frame
  <2> QED  BY <2>1, BeginIsLater
<1>2. CASE StopRefused \/ StopFails \/ StopDone \/ ResumeRefused \/ ResumeFails \/ ResumeDone
  <2>1. op' = Idle /\ msg' = None
    BY <1>2 DEF StopRefused, StopFails, StopDone, ResumeRefused, ResumeFails, ResumeDone, Return
  <2> QED  BY <2>1, ReturnIsEnd
<1>3. CASE StopNext \/ ResumeNext
  <2>1. op.pc \in {"stop", "resume"}
    BY <1>3 DEF StopNext, ResumeNext, At
  <2>2. PICK id \in op.todo : op' = [op EXCEPT !.todo = @ \ {id}]
    BY <1>3 DEF StopNext, ResumeNext, Step
  <2>3. /\ op'.pc = op.pc /\ op'.caller = op.caller /\ op'.imgs = op.imgs
        /\ op'.todo = op.todo \ {id}
    BY <1>0, <2>2 DEF FrameType
  <2>4. Rounds' < Rounds
    BY <2>1, <2>3, ShorterTodo DEF AtWork
  <2>5. op.caller # "DELETE"
    BY <2>1 DEF AtWork, Callers, At
  <2>6. Stage' = Stage
    <3>1. Stage = IF op.caller = "redeploy" THEN 4 ELSE 2
      BY <2>1 DEF Stage, At, Building
    <3>2. Stage' = IF op.caller = "redeploy" THEN 4 ELSE 2
      BY <2>1, <2>3 DEF Stage, At, Building
    <3> QED  BY <3>1, <3>2
  <2> QED  BY <2>3, <2>4, <2>5, <2>6, AppsLeftSame DEF Nearer, NextRound
<1> QED  BY <1>1, <1>2, <1>3 DEF Stop, Resume

LEMMA UndeploysGetOn ==
    ASSUME AtWork, UndeployEdgeApp
    PROVE  Nearer
<1>0. op \in FrameType /\ StoreOK
  BY DEF AtWork, TypeInv
<1>1. CASE UndeployRejected
  BY <1>1, ReturnIsEnd DEF UndeployRejected, Return
<1>2. CASE UndeployBegin
  <2>1. op.pc = "idle" /\ op'.pc = "undeploy"
    BY <1>2 DEF UndeployBegin, Handling, At, Step, Frame
  <2> QED  BY <2>1, BeginIsLater
<1>3. CASE Undeploy \/ ListContainers
  <2>1. /\ \/ op.pc = "undeploy" /\ op'.pc = "list"
           \/ op.pc = "list" /\ op'.pc = "removeContainers"
        /\ op'.caller = op.caller
    BY <1>0, <1>3 DEF Undeploy, ListContainers, At, GoTo, Step, FrameType
  <2>2. KnownOf(known') = KnownOf(known)
    <3>1. CASE Undeploy
      BY <1>0, <3>1, SetStatusKnown DEF Undeploy, Status
    <3>2. CASE ListContainers
      BY <3>2, SameRecordKnown DEF ListContainers, Neither, storeVars
    <3> QED  BY <1>3, <3>1, <3>2
  <2>3. CallsLeft[op'.pc] < CallsLeft[op.pc] /\ {op.pc, op'.pc} \subseteq Removing
    BY <2>1, CallsLeftIs DEF Removing
  <2> QED  BY <2>1, <2>2, <2>3, WithinRemoval
<1>4. CASE ListContainersFails
  <2>1. KnownOf(known') = KnownOf(known)
    BY <1>0, <1>4, SetStatusKnown DEF ListContainersFails, Status
  <2> QED  BY <1>4, <2>1, UndeployGetsOn DEF ListContainersFails, At
<1>5. CASE RemoveContainer \/ RemoveContainerFails
  <2>1. op.pc = "removeContainers"
    BY <1>5 DEF RemoveContainer, RemoveContainerFails, At
  <2>2. KnownOf(known') = KnownOf(known)
    <3>1. CASE RemoveContainer
      BY <3>1, SameRecordKnown DEF RemoveContainer, HostOnly, storeVars
    <3>2. CASE RemoveContainerFails
      BY <1>0, <3>2, SetStatusKnown DEF RemoveContainerFails, Status
    <3> QED  BY <1>5, <3>1, <3>2
  <2>3. PICK id \in op.todo : \/ op' = [op EXCEPT !.todo = @ \ {id}]
                              \/ op' = [op EXCEPT !.todo = @ \ {id}, !.failed = TRUE]
    BY <1>5 DEF RemoveContainer, RemoveContainerFails, Step
  <2>4. /\ op'.pc = op.pc /\ op'.caller = op.caller /\ op'.imgs = op.imgs
        /\ op'.todo = op.todo \ {id}
    BY <1>0, <2>3 DEF FrameType
  <2>5. Rounds' < Rounds
    BY <2>1, <2>4, ShorterTodo DEF AtWork
  <2> QED  BY <2>1, <2>2, <2>4, <2>5, WithinRemoval DEF Removing
<1>6. CASE PruneNetworks \/ PruneNetworksFails
  <2>1. op.pc = "removeContainers" /\ op'.pc = "undeployed" /\ op'.caller = op.caller
    BY <1>0, <1>6 DEF PruneNetworks, PruneNetworksFails, At, GoTo, Step, FrameType
  <2>2. KnownOf(known') = KnownOf(known)
    <3>1. CASE PruneNetworks
      BY <3>1, SameRecordKnown DEF PruneNetworks, HostOnly, storeVars
    <3>2. CASE PruneNetworksFails
      BY <1>0, <3>2, SetStatusKnown DEF PruneNetworksFails, Status
    <3> QED  BY <1>6, <3>1, <3>2
  <2>3. CallsLeft[op'.pc] < CallsLeft[op.pc] /\ {op.pc, op'.pc} \subseteq Removing
    BY <2>1, CallsLeftIs DEF Removing
  <2> QED  BY <2>1, <2>2, <2>3, WithinRemoval
<1>7. CASE UndeployDone
  <2>1. KnownOf(known') = KnownOf(known)
    BY <1>0, <1>7, SetStatusKnown DEF UndeployDone, Status
  <2> QED  BY <1>7, <2>1, UndeployGetsOn DEF UndeployDone, At
<1>8. CASE UndeployIncomplete
  <2>1. KnownOf(known') = KnownOf(known)
    BY <1>8, SameRecordKnown DEF UndeployIncomplete, Neither, storeVars
  <2> QED  BY <1>8, <2>1, UndeployGetsOn DEF UndeployIncomplete, At
<1> QED  BY <1>1, <1>2, <1>3, <1>4, <1>5, <1>6, <1>7, <1>8 DEF UndeployEdgeApp

\* RemoveAll has one app less to remove once RemoveEdgeApp has forgotten one.
LEMMA ForgettingIsLess ==
    ASSUME AtWork, Forget, op.caller = "DELETE", op'.caller = "DELETE"
    PROVE  AppsLeft' < AppsLeft
<1>1. op.pc = "removeImages" /\ ~op.failed /\ known' = [known EXCEPT ![op.app] = None]
  BY DEF Forget, At, DeleteKnownManifest
<1>2. op.app \in Apps /\ Statuses[op.app] = "Undeployed"
  BY <1>1 DEF AtWork, TypeInv, HandlerOK, FrameFits, Appless, SInv, Fits
<1>3. op.app \in KnownOf(known)
  BY <1>2, StatusFacts DEF AtWork, KnownOf, IsKnown
<1>4. KnownOf(known') = KnownOf(known) \ {op.app}
  BY <1>1, <1>2 DEF KnownOf, AtWork, TypeInv, StoreOK
<1>5. Cardinality(KnownOf(known')) = Cardinality(KnownOf(known)) - 1
  BY <1>3, <1>4, FS_RemoveElement DEF AtWork, FiniteWork
<1>6. AppsLeft = Cardinality(KnownOf(known)) /\ AppsLeft' = Cardinality(KnownOf(known'))
  BY DEF AppsLeft, KnownOf, IsKnown
<1>7. Cardinality(KnownOf(known)) \in Nat
  BY FS_CardinalityType DEF AtWork, FiniteWork
<1> QED  BY <1>5, <1>6, <1>7

LEMMA RemovesGetOn ==
    ASSUME AtWork, RemoveEdgeApp
    PROVE  Nearer
<1>0. op \in FrameType /\ StoreOK
  BY DEF AtWork, TypeInv
<1>1. CASE SelectImages
  <2>1. op.pc = "images" /\ op'.pc = "removeImages" /\ op'.caller = op.caller
    BY <1>0, <1>1 DEF SelectImages, At, Step, FrameType
  <2>2. KnownOf(known') = KnownOf(known)
    BY <1>1, SameRecordKnown DEF SelectImages, Neither, storeVars
  <2>3. CallsLeft[op'.pc] < CallsLeft[op.pc] /\ {op.pc, op'.pc} \subseteq Removing
    BY <2>1, CallsLeftIs DEF Removing
  <2> QED  BY <2>1, <2>2, <2>3, WithinRemoval
<1>2. CASE SelectImagesFails \/ ImagesRemain
  BY <1>2, RemoveGetsOn DEF SelectImagesFails, ImagesRemain, At, Removing
<1>3. CASE RemoveImage \/ RemoveImageFails
  <2>1. op.pc = "removeImages"
    BY <1>3 DEF RemoveImage, RemoveImageFails, At
  <2>2. KnownOf(known') = KnownOf(known)
    <3>1. CASE RemoveImage
      BY <3>1, SameRecordKnown DEF RemoveImage, HostOnly, storeVars
    <3>2. CASE RemoveImageFails
      BY <1>0, <3>2, SetStatusKnown DEF RemoveImageFails, Status
    <3> QED  BY <1>3, <3>1, <3>2
  <2>3. PICK i \in op.imgs : \/ op' = [op EXCEPT !.imgs = @ \ {i}]
                             \/ op' = [op EXCEPT !.imgs = @ \ {i}, !.failed = TRUE]
    BY <1>3 DEF RemoveImage, RemoveImageFails, Step
  <2>4. /\ op'.pc = op.pc /\ op'.caller = op.caller /\ op'.todo = op.todo
        /\ op'.imgs = op.imgs \ {i}
    BY <1>0, <2>3 DEF FrameType
  <2>5. Rounds' < Rounds
    BY <2>1, <2>4, ShorterImgs DEF AtWork
  <2> QED  BY <2>1, <2>2, <2>4, <2>5, WithinRemoval DEF Removing
<1>4. CASE Forget
  <2>1. PICK ok \in BOOLEAN : ReturnFromRemove(ok)
    BY <1>4 DEF Forget
  <2>2. op.pc \in Removing
    BY <1>4 DEF Forget, At, Removing
  <2>3. ASSUME op.caller = "DELETE", ok
        PROVE  AppsLeft' < AppsLeft
    <3>1. op'.caller = "DELETE"
      BY <1>0, <2>1, <2>3 DEF ReturnFromRemove, GoTo, Step, FrameType
    <3> QED  BY <1>4, <2>3, <3>1, ForgettingIsLess
  <2> QED  BY <2>1, <2>2, <2>3, RemoveGetsOn
<1> QED  BY <1>1, <1>2, <1>3, <1>4 DEF RemoveEdgeApp

LEMMA DeletesGetOn ==
    ASSUME AtWork, DeleteNode
    PROVE  Nearer
<1>0. op \in FrameType
  BY DEF AtWork
<1>1. CASE DeleteBegin
  <2>1. op.pc = "idle" /\ op'.pc = "deleteNext"
    BY <1>1 DEF DeleteBegin, Handling, At, Step, Frame
  <2> QED  BY <2>1, BeginIsLater
<1>2. CASE DeleteNext
  <2>1. op.pc = "deleteNext" /\ op'.pc = "undeploy" /\ op'.caller = "DELETE"
    BY <1>2 DEF DeleteNext, At, Step, Frame
  <2>2. op.caller = "DELETE"
    BY <2>1 DEF AtWork, Taken
  <2>3. Stage = 2 /\ Stage' = 2
    BY <2>1, <2>2 DEF Stage, At, Building
  <2>4. KnownOf(known') = KnownOf(known)
    BY <1>2, SameRecordKnown DEF DeleteNext, Neither, storeVars
  <2>5. CallsLeft[op'.pc] < CallsLeft[op.pc]
    BY <2>1, CallsLeftIs
  <2> QED  BY <2>1, <2>2, <2>3, <2>4, <2>5, AppsLeftSame DEF Nearer, LaterCall
<1>3. CASE DeleteLast
  <2>1. op.pc = "deleteNext" /\ op'.pc = "deleted"
    BY <1>0, <1>3 DEF DeleteLast, At, GoTo, Step, FrameType
  <2>2. op.caller = "DELETE"
    BY <2>1 DEF AtWork, Taken
  <2>3. Stage = 2
    BY <2>1, <2>2 DEF Stage, At, Building
  <2>4. Stage' = 1
    BY <2>1 DEF Stage, At, Building
  <2> QED  BY <2>3, <2>4 DEF Nearer, LaterStage
<1>4. CASE SetNodeDeleted
  BY <1>4, ReturnIsEnd DEF SetNodeDeleted
<1> QED  BY <1>1, <1>2, <1>3, <1>4 DEF DeleteNode

\* Whatever calls fail, each call of a handler takes it nearer to its end, for any apps,
\* manifests, numbers of failing calls and crashes: no path through the handlers returns
\* to a call it has made, and none of their loops goes over a list that does not shrink
\* (edgeapp.go 18-343, node_msg.go 16-26).
THEOREM HandlersGetOn == CrashSpec => HandlerGetsOn
<1> DEFINE Fourfold == Distance \in [1 .. 4 -> Nat]
<1>1. TypeInv /\ FiniteWork => Fourfold
  BY DistanceParts
<1>2. ASSUME TypeInv, SInv, Callers, Taken, FiniteWork, Fourfold, Fourfold'
      PROVE  [Handler => Below(Distance', Distance)]_vars
  <2> SUFFICES ASSUME Handler
               PROVE  Below(Distance', Distance)
    OBVIOUS
  <2>1. AtWork
    BY <1>2, HandlerNeedsMessage DEF AtWork, TypeInv, HandlerOK
  <2>2. Nearer
    BY <2>1, DeployGetsOn, StopsGetOn, UndeploysGetOn, RemovesGetOn, DeletesGetOn DEF Handler
  <2> QED  BY <1>2, <2>2, NearerIsBelow
<1> QED  BY <1>1, <1>2, TypeInvariant, AlwaysSInv, AlwaysCalled, AlwaysTaken, AlwaysFinite, PTL
         DEF HandlerGetsOn
==============================================================================
