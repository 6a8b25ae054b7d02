--------------------------- MODULE LifecycleProofs ---------------------------
(***************************************************************************)
(* Proofs for EdgeAppLifecycle: what the status of the app is at each call *)
(* of its handler, that every path through a handler settles it, and that  *)
(* every step of EdgeApp is a step of AppLifecycle or none.                *)
(***************************************************************************)
EXTENDS EdgeAppLifecycle, EdgeAppSafety

Statuses == [a \in Apps |-> LifeStatus(a)]

\* StatusFits for a frame and a status; only a deployment adds a record.
Fits(frame, s) ==
    /\ frame.pc = "add" => frame.caller \in {"DEPLOY", "redeploy"}
    /\ frame.pc = "add" =>
            \/ s = "Error"
            \/ frame.caller = "redeploy" /\ s = "Unknown"
            \/ frame.caller = "DEPLOY" /\ s \in {"Unknown", "Undeployed"}
    /\ frame.pc \in {"image", "network", "create", "start", "deployed"} =>
            s = "Initiated" /\ frame.caller \in {"DEPLOY", "redeploy"}
    /\ frame.pc = "lateError" => s \in {"Unknown", "Error"}
    /\ frame.pc \in {"stop", "resume", "list"} => s = "Executing"
    /\ frame.pc = "undeploy" => s # "Unknown"
    /\ frame.pc \in {"removeContainers", "undeployed"} =>
            s = IF frame.failed THEN "Error" ELSE "Executing"
    /\ frame.pc = "images" => s = "Undeployed"
    /\ frame.pc = "removeImages" => s = IF frame.failed THEN "Error" ELSE "Undeployed"

\* The calls at which an app may be Executing, and Initiated.
Working == {"stop", "resume", "list", "removeContainers", "undeployed"}
Making == {"image", "network", "create", "start", "deployed", "undeploy"}

\* Without a crash a status that must not stay is that of the app being worked on.
Unsettled ==
    crashes = 0 => \A a \in Apps :
        /\ Statuses[a] = "Executing" => op.app = a /\ op.pc \in Working
        /\ faults = 0 /\ Statuses[a] = "Initiated" => op.app = a /\ op.pc \in Making

SInv == (op.pc \notin Appless => Fits(op, Statuses[op.app])) /\ Unsettled

------------------------------------------------------------------------------
(* The record                                                              *)

LEMMA StatusFacts ==
    ASSUME TypeInv, NEW a \in Apps
    PROVE  /\ Statuses[a] = LifeStatus(a)
           /\ \A s \in Status : HasStatus(a, s) <=> Statuses[a] = s
           /\ IsKnown(a) <=> Statuses[a] # "Unknown"
           /\ Inactive(a) <=> Statuses[a] \in {"Unknown", "Undeployed"}
<1>1. known[a] = None \/ known[a].status \in Status
  BY DEF TypeInv, StoreOK, Record
<1> QED  BY <1>1 DEF Statuses, LifeStatus, HasStatus, IsKnown, Inactive, Status

LEMMA SetStatusMoves ==
    ASSUME TypeInv, NEW a \in Apps, NEW s \in Status, SetStatus(a, s)
    PROVE  Statuses' = [Statuses EXCEPT ![a] = IF Statuses[a] = "Unknown" THEN "Unknown" ELSE s]
<1>1. CASE ~IsKnown(a)
  BY <1>1, StatusFacts DEF SetStatus, storeVars, Statuses, LifeStatus, IsKnown
<1>2. CASE IsKnown(a)
  <2>1. Statuses[a] # "Unknown" /\ known[a] \in Record /\ known \in [Apps -> Record \cup {None}]
    BY <1>2, StatusFacts DEF TypeInv, StoreOK, IsKnown
  <2>2. known' = [known EXCEPT ![a].status = s]
    BY <1>2 DEF SetStatus
  <2>3. [known[a] EXCEPT !.status = s] \in Record
    BY <2>1 DEF Record
  <2>4. known'[a] # None /\ known'[a].status = s
    BY <2>1, <2>2, <2>3, EdgeAppAssumption DEF Record
  <2>5. \A b \in Apps \ {a} : known'[b] = known[b]
    BY <2>1, <2>2
  <2> QED  BY <2>1, <2>4, <2>5 DEF Statuses, LifeStatus, IsKnown
<1> QED  BY <1>1, <1>2

LEMMA AddMoves ==
    ASSUME TypeInv, NEW m \in Manifests, AddKnownManifest(m)
    PROVE  Statuses' = [Statuses EXCEPT ![m.id] = "Initiated"]
<1>1. m.id \in Apps /\ StoreOK
  BY ManifestFacts DEF TypeInv
<1>2. \A b \in Apps \ {m.id} : known'[b] = known[b]
  BY AddEffect, <1>1
<1>3. known'[m.id] # None /\ known'[m.id].status = "Initiated"
  BY AddEffect, <1>1 DEF HasStatus, IsKnown
<1> QED  BY <1>2, <1>3 DEF Statuses, LifeStatus, IsKnown

LEMMA DeleteMoves ==
    ASSUME TypeInv, NEW a \in Apps, DeleteKnownManifest(a)
    PROVE  Statuses' = [Statuses EXCEPT ![a] = "Unknown"]
BY DEF TypeInv, StoreOK, DeleteKnownManifest, Statuses, LifeStatus, IsKnown

LEMMA SameMoves ==
    ASSUME UNCHANGED storeVars, NEW a \in Apps
    PROVE  Statuses' = [Statuses EXCEPT ![a] = Statuses[a]]
BY DEF storeVars, Statuses, LifeStatus, IsKnown

------------------------------------------------------------------------------
(* A step of a handler moves one status                                    *)

\* What the new status of an app must be like when its handler goes on at pc.
Fine(pc, s) ==
    crashes = 0 => /\ s = "Executing" => pc \in Working
                   /\ s = "Initiated" => pc \in Making \/ faults' # 0

Counted == UNCHANGED crashes /\ (faults' = 0 => faults = 0)

LEMMA Moves ==
    ASSUME SInv, NEW a \in Apps, op.pc \in Appless \/ op.app = a,
           NEW s, Statuses' = [Statuses EXCEPT ![a] = s], Counted, Fine(op'.pc, s),
           op'.pc \in Appless \/ (op'.app = a /\ Fits(op', s))
    PROVE  SInv'
<1>1. Statuses'[a] = s /\ \A b \in Apps \ {a} : Statuses'[b] = Statuses[b]
  BY DEF Statuses
<1>2. (op.pc \notin Appless => Fits(op, Statuses[op.app]))'
  BY <1>1 DEF Fits
<1>3. Unsettled'
  <2> SUFFICES ASSUME crashes = 0, NEW b \in Apps
               PROVE  /\ Statuses'[b] = "Executing" => op'.app = b /\ op'.pc \in Working
                      /\ faults' = 0 /\ Statuses'[b] = "Initiated" =>
                            op'.app = b /\ op'.pc \in Making
    BY DEF Unsettled, Counted
  <2>1. CASE b = a
    BY <1>1, <2>1 DEF Fine, Appless, Working, Making
  <2>2. CASE b # a
    BY <1>1, <2>2 DEF SInv, Unsettled, Counted, Appless, Working, Making
  <2> QED  BY <2>1, <2>2
<1> QED  BY <1>2, <1>3 DEF SInv

\* RemoveEdgeApp returns: to its caller's end, to the new version, or to the
\* status after a late rollback.
LEMMA RemoveReturns ==
    ASSUME TypeInv, SInv, op.pc \notin Appless, NEW ok \in BOOLEAN, ReturnFromRemove(ok),
           Counted, NEW s \in {"Error", "Unknown"}, Statuses' = [Statuses EXCEPT ![op.app] = s]
    PROVE  SInv'
<1>1. op.app \in Apps
  BY DEF TypeInv, HandlerOK, FrameFits
<1>2. op \in FrameType
  BY DEF TypeInv, HandlerOK
<1>3. \/ op'.pc \in Appless
      \/ op'.pc = "add" /\ op'.caller = "redeploy" /\ op'.app = op.app
      \/ op'.pc = "lateError" /\ op'.app = op.app
  BY <1>2 DEF ReturnFromRemove, Return, GoTo, Step, Idle, Frame, Appless, FrameType
<1>4. op'.pc \in Appless \/ (op'.app = op.app /\ Fits(op', s))
  BY <1>3 DEF Fits
<1>5. Fine(op'.pc, s)
  BY DEF Fine
<1> QED  BY <1>1, <1>4, <1>5, Moves

LEMMA UndeployReturns ==
    ASSUME TypeInv, SInv, op.pc \notin Appless, NEW ok \in BOOLEAN, ReturnFromUndeploy(ok),
           Counted, NEW s, s = IF ok THEN "Undeployed" ELSE "Error",
           Statuses' = [Statuses EXCEPT ![op.app] = s]
    PROVE  SInv'
<1>1. op.app \in Apps /\ op \in FrameType
  BY DEF TypeInv, HandlerOK, FrameFits
<1>2. Fine(op'.pc, s)
  BY DEF Fine
<1>3. CASE Return(ok)
  <2>1. op'.pc \in Appless
    BY <1>3 DEF Return, Idle, Frame, Appless
  <2> QED  BY <1>1, <1>2, <2>1, Moves
<1>4. CASE ok /\ GoTo("images")
  <2>1. op'.app = op.app /\ op'.pc = "images"
    BY <1>1, <1>4 DEF GoTo, Step, FrameType
  <2>2. Fits(op', s)
    BY <1>4, <2>1 DEF Fits
  <2> QED  BY <1>1, <1>2, <2>1, <2>2, Moves
<1>5. CASE ~ok /\ ReturnFromRemove(FALSE)
  BY <1>5, RemoveReturns
<1> QED  BY <1>3, <1>4, <1>5 DEF ReturnFromUndeploy

\* A step within a handler, without a change of the status or with one.
LEMMA OnStays ==
    ASSUME TypeInv, SInv, op.pc \notin Appless, Counted, UNCHANGED storeVars,
           op'.app = op.app, Fits(op', Statuses[op.app]), op'.pc \notin Appless,
           Fine(op'.pc, Statuses[op.app])
    PROVE  SInv'
<1>1. op.app \in Apps
  BY DEF TypeInv, HandlerOK, FrameFits
<1> QED  BY <1>1, SameMoves, Moves

LEMMA OnSets ==
    ASSUME TypeInv, SInv, op.pc \notin Appless, Counted, NEW s \in Status, SetStatus(op.app, s),
           Statuses[op.app] # "Unknown",
           op'.pc \in Appless \/ (op'.app = op.app /\ Fits(op', s)), Fine(op'.pc, s)
    PROVE  SInv'
<1>1. op.app \in Apps
  BY DEF TypeInv, HandlerOK, FrameFits
<1>2. Statuses' = [Statuses EXCEPT ![op.app] = s]
  BY <1>1, SetStatusMoves
<1> QED  BY <1>1, <1>2, Moves

\* A step that takes up a message, or refuses it.
LEMMA AtMessage ==
    ASSUME TypeInv, SInv, NEW cmd, Handling(cmd), cmd # "DELETE", Counted, UNCHANGED storeVars,
           op'.pc \in Appless \/ (op'.app = msg.app /\ Fits(op', Statuses[msg.app]))
    PROVE  SInv'
<1>1. msg.app \in Apps /\ op.pc = "idle"
  BY DispatchOK DEF TypeInv, Handling, Message
<1>2. Fine(op'.pc, Statuses[msg.app])
  BY <1>1 DEF Fine, SInv, Unsettled, Counted, Working, Making
<1>3. Statuses' = [Statuses EXCEPT ![msg.app] = Statuses[msg.app]]
  BY <1>1, SameMoves
<1>4. op.pc \in Appless
  BY <1>1 DEF Appless
<1> QED  BY <1>1, <1>2, <1>3, <1>4, Moves

------------------------------------------------------------------------------
(* DeployEdgeApp                                                           *)

LEMMA FitsDeploy ==
    ASSUME TypeInv, SInv, Deploy, Counted
    PROVE  SInv'
<1>0. op \in FrameType
  BY DEF TypeInv, HandlerOK
<1>1. CASE DeployFresh
  <2>1. op'.app = msg.app /\ op'.pc = "add" /\ op'.caller = "DEPLOY"
    BY <1>1 DEF DeployFresh, Step, Frame
  <2>2. Statuses[msg.app] \in {"Unknown", "Undeployed"}
    BY <1>1, StatusFacts, DispatchOK DEF DeployFresh, TypeInv
  <2>3. UNCHANGED storeVars /\ Handling("DEPLOY")
    BY <1>1 DEF DeployFresh, Neither
  <2> QED  BY <2>1, <2>2, <2>3, AtMessage DEF Fits
<1>2. CASE DeployNewVersion
  <2>1. op'.app = msg.app /\ op'.pc = "undeploy"
    BY <1>2 DEF DeployNewVersion, Step, Frame
  <2>2. Statuses[msg.app] # "Unknown"
    BY <1>2, StatusFacts, DispatchOK DEF DeployNewVersion, TypeInv
  <2>3. UNCHANGED storeVars /\ Handling("DEPLOY")
    BY <1>2 DEF DeployNewVersion, Neither
  <2> QED  BY <2>1, <2>2, <2>3, AtMessage DEF Fits
<1>3. CASE DeployRejected
  BY <1>3, AtMessage DEF DeployRejected, Return, Idle, Frame, Neither, Appless
<1>4. CASE Add
  <2>1. InDeploy /\ op.pc \notin Appless /\ op'.app = op.app /\ op'.pc = "image"
        /\ op'.caller = op.caller
    BY <1>0, <1>4 DEF Add, At, Step, InDeploy, Appless, FrameType
  <2>2. msg.man \in Manifests /\ msg.man.id = op.app /\ op.app \in Apps
    BY <2>1, DeployContext DEF TypeInv, Appless
  <2>3. Statuses' = [Statuses EXCEPT ![op.app] = "Initiated"]
    BY <1>4, <2>2, AddMoves DEF Add
  <2>4. op.caller \in {"DEPLOY", "redeploy"}
    BY <1>4, <2>1 DEF Add, At, SInv, Fits
  <2> QED  BY <2>1, <2>2, <2>3, <2>4, Moves DEF Fits, Fine, Making
<1>5. CASE InspectFails
  <2>1. op.pc = "image" /\ op.app \in Apps
    BY <1>5 DEF InspectFails, At, TypeInv, HandlerOK, FrameFits, Appless
  <2>2. UNCHANGED storeVars /\ op'.pc = "idle" /\ faults' = faults + 1 /\ faults \in Nat
    BY <1>5 DEF InspectFails, Return, Idle, Frame, Fault, TypeInv, CountersOK
  <2>3. Statuses[op.app] = "Initiated"
    BY <2>1 DEF SInv, Fits, Appless
  <2>4. Fine(op'.pc, Statuses[op.app])
    BY <2>2, <2>3 DEF Fine
  <2> QED  BY <2>1, <2>2, <2>4, SameMoves, Moves DEF Appless
<1>6. CASE ImagePresent \/ Pull \/ PullErrorUnseen \/ CreateAppNetwork \/ CreateContainer
           \/ CreateContainerFails \/ StartModule \/ StartModuleFails
  <2>1. /\ op.pc \in {"image", "network", "create", "start"} /\ UNCHANGED storeVars
        /\ op'.app = op.app
        /\ \/ /\ op'.pc \in {"image", "network", "create", "start", "deployed"}
              /\ op'.caller = op.caller
           \/ op'.pc = "undeploy"
    BY <1>0, <1>6
       DEF ImagePresent, Pull, PullErrorUnseen, CreateAppNetwork, CreateContainer,
           CreateContainerFails, StartModule, StartModuleFails, Step, At, NextImage, Rollback,
           Neither, HostOnly, FrameType
  <2>2. op.pc \notin Appless /\ Statuses[op.app] = "Initiated"
        /\ op.caller \in {"DEPLOY", "redeploy"}
    BY <2>1 DEF SInv, Fits, Appless
  <2> QED  BY <2>1, <2>2, OnStays DEF Fits, Fine, Appless, Making
<1>7. CASE PullFails \/ CreateNetworkFails
  <2>1. /\ op.pc \in {"image", "network"} /\ op'.app = op.app /\ op'.pc = "undeploy"
        /\ SetStatus(op.app, "Error")
    BY <1>0, <1>7 DEF PullFails, CreateNetworkFails, Step, At, Rollback, FrameType
  <2>2. op.pc \notin Appless /\ Statuses[op.app] = "Initiated"
    BY <2>1 DEF SInv, Fits, Appless
  <2>3. Fits(op', "Error") /\ Fine(op'.pc, "Error") /\ "Error" \in Status
    BY <2>1 DEF Fits, Fine, Status
  <2> QED  BY <2>1, <2>2, <2>3, OnSets
<1>8. CASE DeployDone
  <2>1. op.pc = "deployed" /\ op'.pc \in Appless /\ SetStatus(op.app, "Running")
    BY <1>8 DEF DeployDone, Return, At, Idle, Frame, Appless
  <2>2. op.pc \notin Appless /\ Statuses[op.app] = "Initiated"
    BY <2>1 DEF SInv, Fits, Appless
  <2> QED  BY <2>1, <2>2, OnSets DEF Fine, Status
<1>9. CASE LateError
  <2>1. op.pc = "lateError" /\ op'.pc \in Appless /\ SetStatus(op.app, "Error")
    BY <1>9 DEF LateError, Return, At, Idle, Frame, Appless
  <2>2. op.pc \notin Appless /\ Statuses[op.app] \in {"Unknown", "Error"} /\ op.app \in Apps
    BY <2>1 DEF SInv, Fits, Appless, TypeInv, HandlerOK, FrameFits
  <2>3. PICK s \in {"Unknown", "Error"} : Statuses' = [Statuses EXCEPT ![op.app] = s]
    BY <2>1, <2>2, SetStatusMoves DEF Status
  <2> QED  BY <2>1, <2>2, <2>3, Moves DEF Fine
<1> QED  BY <1>1, <1>2, <1>3, <1>4, <1>5, <1>6, <1>7, <1>8, <1>9 DEF Deploy

------------------------------------------------------------------------------
(* StopEdgeApp and ResumeEdgeApp                                           *)

\* A command that is refused may find that the app must be called Error.
LEMMA RefusedFits ==
    ASSUME TypeInv, SInv, Counted, NEW cmd \in {"STOP", "RESUME"}, Handling(cmd), Return(FALSE),
           UNCHANGED storeVars \/ SetStatus(msg.app, "Error")
    PROVE  SInv'
<1>1. msg.app \in Apps /\ op.pc \in Appless
  BY DispatchOK DEF TypeInv, Appless
<1>2. op'.pc \in Appless
  BY DEF Return, Idle, Frame, Appless
<1>3. CASE UNCHANGED storeVars
  BY <1>2, <1>3, AtMessage
<1>4. CASE SetStatus(msg.app, "Error")
  <2>1. PICK s \in {"Unknown", "Error"} : Statuses' = [Statuses EXCEPT ![msg.app] = s]
    BY <1>1, <1>4, SetStatusMoves DEF Status
  <2> QED  BY <1>1, <1>2, <2>1, Moves DEF Fine
<1> QED  BY <1>3, <1>4

LEMMA BeginFits ==
    ASSUME TypeInv, SInv, Counted, NEW cmd \in {"STOP", "RESUME"}, Handling(cmd),
           IsKnown(msg.app), SetStatus(msg.app, "Executing"), op'.app = msg.app,
           op'.pc \in {"stop", "resume"}
    PROVE  SInv'
<1>1. msg.app \in Apps /\ op.pc \in Appless
  BY DispatchOK DEF TypeInv, Appless
<1>2. Statuses' = [Statuses EXCEPT ![msg.app] = "Executing"]
  BY <1>1, SetStatusMoves, StatusFacts DEF Status
<1> QED  BY <1>1, <1>2, Moves DEF Fits, Fine, Working

LEMMA FitsStopResume ==
    ASSUME TypeInv, SInv, Stop \/ Resume, Counted
    PROVE  SInv'
<1>0. op \in FrameType
  BY DEF TypeInv, HandlerOK
<1>1. CASE StopRefused
  BY <1>1, RefusedFits DEF StopRefused, Neither
<1>2. CASE ResumeRefused
  BY <1>2, RefusedFits DEF ResumeRefused, Neither
<1>3. CASE StopBegin
  <2>1. op'.app = msg.app /\ op'.pc = "stop"
    BY <1>3 DEF StopBegin, Step, Frame
  <2> QED  BY <1>3, <2>1, BeginFits DEF StopBegin, HasStatus
<1>4. CASE ResumeBegin
  <2>1. op'.app = msg.app /\ op'.pc = "resume"
    BY <1>4 DEF ResumeBegin, Step, Frame
  <2> QED  BY <1>4, <2>1, BeginFits DEF ResumeBegin, HasStatus
<1>5. CASE StopNext \/ ResumeNext
  <2>1. /\ op.pc \in {"stop", "resume"} /\ op'.pc = op.pc /\ op'.app = op.app
        /\ UNCHANGED storeVars
    BY <1>0, <1>5 DEF StopNext, ResumeNext, At, Step, HostOnly, FrameType
  <2>2. op.pc \notin Appless /\ Statuses[op.app] = "Executing"
    BY <2>1 DEF SInv, Fits, Appless
  <2> QED  BY <2>1, <2>2, OnStays DEF Fits, Fine, Working
<1>6. CASE StopFails \/ StopDone \/ ResumeFails \/ ResumeDone
  <2>1. op.pc \in {"stop", "resume"} /\ op'.pc \in Appless
    BY <1>6 DEF StopFails, StopDone, ResumeFails, ResumeDone, At, Return, Idle, Frame, Appless
  <2>2. op.pc \notin Appless /\ Statuses[op.app] = "Executing"
    BY <2>1 DEF SInv, Fits, Appless
  <2>3. PICK s \in {"Error", "Stopped", "Running"} : SetStatus(op.app, s)
    BY <1>6 DEF StopFails, StopDone, ResumeFails, ResumeDone
  <2> QED  BY <2>1, <2>2, <2>3, OnSets DEF Fine, Status
<1> QED  BY <1>1, <1>2, <1>3, <1>4, <1>5, <1>6 DEF Stop, Resume

------------------------------------------------------------------------------
(* UndeployEdgeApp and RemoveEdgeApp                                       *)

LEMMA FitsUndeploy ==
    ASSUME TypeInv, SInv, UndeployEdgeApp, Counted
    PROVE  SInv'
<1>0. op \in FrameType
  BY DEF TypeInv, HandlerOK
<1>1. CASE UndeployRejected
  BY <1>1, AtMessage DEF UndeployRejected, Return, Idle, Frame, Neither, Appless
<1>2. CASE UndeployBegin
  <2>1. PICK cmd \in {"UNDEPLOY", "REMOVE"} : Handling(cmd)
    BY <1>2 DEF UndeployBegin
  <2>2. op'.app = msg.app /\ op'.pc = "undeploy" /\ UNCHANGED storeVars
    BY <1>2 DEF UndeployBegin, Step, Frame, Neither
  <2>3. Statuses[msg.app] # "Unknown"
    BY <1>2, <2>1, StatusFacts, DispatchOK DEF UndeployBegin, TypeInv
  <2> QED  BY <2>1, <2>2, <2>3, AtMessage DEF Fits
<1>3. CASE Undeploy
  <2>1. op.pc = "undeploy" /\ op'.pc = "list" /\ op'.app = op.app /\ SetStatus(op.app, "Executing")
    BY <1>0, <1>3 DEF Undeploy, At, GoTo, Step, FrameType
  <2>2. op.pc \notin Appless /\ Statuses[op.app] # "Unknown"
    BY <2>1 DEF SInv, Fits, Appless
  <2> QED  BY <2>1, <2>2, OnSets DEF Fits, Fine, Status, Working
<1>4. CASE ListContainers
  <2>1. /\ op.pc = "list" /\ op'.pc = "removeContainers" /\ op'.app = op.app /\ ~op'.failed
        /\ UNCHANGED storeVars
    BY <1>0, <1>4 DEF ListContainers, At, Step, Neither, FrameType
  <2>2. op.pc \notin Appless /\ Statuses[op.app] = "Executing"
    BY <2>1 DEF SInv, Fits, Appless
  <2> QED  BY <2>1, <2>2, OnStays DEF Fits, Fine, Working, Appless
<1>5. CASE ListContainersFails
  <2>1. op.pc = "list" /\ op.pc \notin Appless
    BY <1>5 DEF ListContainersFails, At, Appless
  <2>2. Statuses[op.app] = "Executing" /\ op.app \in Apps
    BY <2>1 DEF SInv, Fits, TypeInv, HandlerOK, FrameFits
  <2>3. Statuses' = [Statuses EXCEPT ![op.app] = "Error"]
    BY <1>5, <2>2, SetStatusMoves DEF ListContainersFails, Status
  <2> QED  BY <1>5, <2>1, <2>3, UndeployReturns DEF ListContainersFails
<1>6. CASE RemoveContainer \/ PruneNetworks
  <2>1. /\ op.pc = "removeContainers" /\ op'.pc \in {"removeContainers", "undeployed"}
        /\ op'.app = op.app /\ op'.failed = op.failed /\ UNCHANGED storeVars
    BY <1>0, <1>6 DEF RemoveContainer, PruneNetworks, At, Step, GoTo, HostOnly, FrameType
  <2>2. op.pc \notin Appless /\ Statuses[op.app] = IF op.failed THEN "Error" ELSE "Executing"
    BY <2>1 DEF SInv, Fits, Appless
  <2> QED  BY <2>1, <2>2, OnStays DEF Fits, Fine, Working, Appless
<1>7. CASE RemoveContainerFails \/ PruneNetworksFails
  <2>1. /\ op.pc = "removeContainers" /\ op'.pc \in {"removeContainers", "undeployed"}
        /\ op'.app = op.app /\ op'.failed /\ SetStatus(op.app, "Error")
    BY <1>0, <1>7 DEF RemoveContainerFails, PruneNetworksFails, At, Step, FrameType
  <2>2. op.pc \notin Appless /\ Statuses[op.app] # "Unknown"
    BY <2>1 DEF SInv, Fits, Appless
  <2>3. Fits(op', "Error") /\ Fine(op'.pc, "Error") /\ "Error" \in Status
    BY <2>1 DEF Fits, Fine, Status
  <2> QED  BY <2>1, <2>2, <2>3, OnSets
<1>8. CASE UndeployDone
  <2>1. op.pc = "undeployed" /\ ~op.failed /\ op.pc \notin Appless
    BY <1>8 DEF UndeployDone, At, Appless
  <2>2. Statuses[op.app] = "Executing" /\ op.app \in Apps
    BY <2>1 DEF SInv, Fits, TypeInv, HandlerOK, FrameFits
  <2>3. Statuses' = [Statuses EXCEPT ![op.app] = "Undeployed"]
    BY <1>8, <2>2, SetStatusMoves DEF UndeployDone, Status
  <2> QED  BY <1>8, <2>1, <2>3, UndeployReturns DEF UndeployDone
<1>9. CASE UndeployIncomplete
  <2>1. op.pc = "undeployed" /\ op.failed /\ op.pc \notin Appless /\ UNCHANGED storeVars
    BY <1>9 DEF UndeployIncomplete, At, Appless, Neither
  <2>2. Statuses[op.app] = "Error" /\ op.app \in Apps
    BY <2>1 DEF SInv, Fits, TypeInv, HandlerOK, FrameFits
  <2>3. Statuses' = [Statuses EXCEPT ![op.app] = "Error"]
    BY <2>1, <2>2, SameMoves
  <2> QED  BY <1>9, <2>1, <2>3, UndeployReturns DEF UndeployIncomplete
<1> QED  BY <1>1, <1>2, <1>3, <1>4, <1>5, <1>6, <1>7, <1>8, <1>9 DEF UndeployEdgeApp

LEMMA FitsRemove ==
    ASSUME TypeInv, SInv, RemoveEdgeApp, Counted
    PROVE  SInv'
<1>0. op \in FrameType
  BY DEF TypeInv, HandlerOK
<1>1. op.pc \in {"images", "removeImages"} /\ op.pc \notin Appless /\ op.app \in Apps
  BY DEF RemoveEdgeApp, SelectImages, SelectImagesFails, RemoveImage, RemoveImageFails,
         ImagesRemain, Forget, At, Appless, TypeInv, HandlerOK, FrameFits
<1>2. /\ op.pc = "images" => Statuses[op.app] = "Undeployed"
      /\ op.pc = "removeImages" => Statuses[op.app] = IF op.failed THEN "Error" ELSE "Undeployed"
  BY <1>1 DEF SInv, Fits
<1>3. CASE SelectImages
  <2>1. /\ op.pc = "images" /\ op'.pc = "removeImages" /\ op'.app = op.app /\ ~op'.failed
        /\ UNCHANGED storeVars
    BY <1>0, <1>3 DEF SelectImages, At, Step, Neither, FrameType
  <2> QED  BY <1>1, <1>2, <2>1, OnStays DEF Fits, Fine, Appless
<1>4. CASE SelectImagesFails
  <2>1. Statuses' = [Statuses EXCEPT ![op.app] = "Error"]
    BY <1>1, <1>2, <1>4, SetStatusMoves DEF SelectImagesFails, Status, At
  <2> QED  BY <1>1, <1>4, <2>1, RemoveReturns DEF SelectImagesFails
<1>5. CASE RemoveImage
  <2>1. /\ op.pc = "removeImages" /\ op'.pc = "removeImages" /\ op'.app = op.app
        /\ op'.failed = op.failed /\ UNCHANGED storeVars
    BY <1>0, <1>5 DEF RemoveImage, At, Step, HostOnly, FrameType
  <2> QED  BY <1>1, <1>2, <2>1, OnStays DEF Fits, Fine, Appless
<1>6. CASE RemoveImageFails
  <2>1. /\ op.pc = "removeImages" /\ op'.pc = "removeImages" /\ op'.app = op.app
        /\ op'.failed /\ SetStatus(op.app, "Error")
    BY <1>0, <1>6 DEF RemoveImageFails, At, Step, FrameType
  <2>2. Fits(op', "Error") /\ Fine(op'.pc, "Error") /\ "Error" \in Status
    BY <2>1 DEF Fits, Fine, Status
  <2>3. Statuses[op.app] # "Unknown"
    BY <1>2, <2>1
  <2> QED  BY <1>1, <2>1, <2>2, <2>3, OnSets
<1>7. CASE ImagesRemain
  <2>1. Statuses' = [Statuses EXCEPT ![op.app] = "Error"]
    BY <1>1, <1>2, <1>7, SameMoves DEF ImagesRemain, At, Neither
  <2> QED  BY <1>1, <1>7, <2>1, RemoveReturns DEF ImagesRemain
<1>8. CASE Forget
  <2>1. Statuses' = [Statuses EXCEPT ![op.app] = "Unknown"]
    BY <1>1, <1>8, DeleteMoves DEF Forget
  <2> QED  BY <1>1, <1>8, <2>1, RemoveReturns DEF Forget
<1> QED  BY <1>3, <1>4, <1>5, <1>6, <1>7, <1>8 DEF RemoveEdgeApp

LEMMA FitsDelete ==
    ASSUME TypeInv, SInv, DeleteNode, Counted
    PROVE  SInv'
<1>0. op \in FrameType
  BY DEF TypeInv, HandlerOK
<1>1. op.pc \in Appless /\ UNCHANGED storeVars
  BY DEF DeleteNode, DeleteBegin, DeleteNext, DeleteLast, SetNodeDeleted, Handling, At, Neither,
         Appless
<1>2. \A a \in Apps : Statuses' = [Statuses EXCEPT ![a] = Statuses[a]]
  BY <1>1, SameMoves
<1>3. \A a \in Apps : Fine(op'.pc, Statuses[a])
  BY <1>1 DEF Fine, SInv, Unsettled, Counted, Appless, Working, Making
<1>4. CASE DeleteNext
  <2>1. PICK a \in Apps : IsKnown(a) /\ op'.pc = "undeploy" /\ op'.app = a
    BY <1>4 DEF DeleteNext, Step, Frame
  <2>2. Fits(op', Statuses[a])
    BY <2>1, StatusFacts DEF Fits
  <2> QED  BY <1>1, <1>2, <1>3, <2>1, <2>2, Moves
<1>5. CASE ~DeleteNext
  <2>1. op'.pc \in Appless
    BY <1>0, <1>5 DEF DeleteNode, DeleteBegin, DeleteLast, SetNodeDeleted, Step, GoTo, Idle,
                      Frame, Appless, FrameType
  <2>2. Statuses' = Statuses
    BY <1>1 DEF Statuses, LifeStatus, IsKnown, storeVars
  <2> QED  BY <1>1, <2>1, <2>2 DEF SInv, Unsettled, Counted, Appless, Working, Making
<1> QED  BY <1>4, <1>5

------------------------------------------------------------------------------
LEMMA SInvStep ==
    ASSUME TypeInv, SInv, [CrashNext]_vars
    PROVE  SInv'
<1>1. CASE Handler
  <2>1. Counted
    BY <1>1, FaultsOK DEF Handler, Counted, TypeInv
  <2> QED  BY <1>1, <2>1, FitsDeploy, FitsStopResume, FitsUndeploy, FitsRemove, FitsDelete
           DEF Handler
<1>2. CASE known' = known /\ UNCHANGED <<op, faults, crashes>>
  BY <1>2 DEF SInv, Unsettled, Statuses, LifeStatus, IsKnown
<1>3. CASE Restart
  <2>1. op'.pc \in Appless /\ crashes' = crashes + 1 /\ crashes \in Nat
    BY <1>3 DEF Restart, Idle, Frame, Appless, TypeInv, CountersOK
  <2> QED  BY <2>1 DEF SInv, Unsettled
<1>4. CASE Receive \/ Engine \/ Finished \/ LogRead \/ UNCHANGED vars
  BY <1>2, <1>4 DEF Receive, Engine, Finished, LogRead, SetLastLogRead, vars, storeVars,
                    handlerVars, counters
<1> QED  BY <1>1, <1>3, <1>4 DEF CrashNext, Next, CrashRestart, UpdateManifestPanics

LEMMA AlwaysSInv == CrashSpec => []SInv
<1>1. Init => SInv
  BY DEF Init, SInv, Unsettled, Statuses, LifeStatus, IsKnown, Idle, Frame, Appless
<1>2. TypeInv /\ SInv /\ [CrashNext]_vars => SInv'
  BY SInvStep
<1> QED  BY <1>1, <1>2, TypeInvariant, PTL DEF CrashSpec

\* At each call of a handler the app has the status that every path to the call has
\* set last, for any apps, manifests, failing calls and crashes (edgeapp.go 18-343).
THEOREM EveryCallFitsTheStatus == CrashSpec => []StatusFits
<1>1. TypeInv /\ SInv => StatusFits
  <2> SUFFICES ASSUME TypeInv, SInv  PROVE StatusFits
    OBVIOUS
  <2>1. CASE op.pc \in Appless
    BY <2>1 DEF StatusFits, At, Appless
  <2>2. CASE op.pc \notin Appless
    <3>1. op.app \in Apps /\ Statuses[op.app] = LifeStatus(op.app)
      BY <2>2, StatusFacts DEF TypeInv, HandlerOK, FrameFits
    <3>2. Fits(op, LifeStatus(op.app))
      BY <2>2, <3>1 DEF SInv
    <3> QED  BY <3>2 DEF StatusFits, Fits, At
  <2> QED  BY <2>1, <2>2
<1> QED  BY <1>1, TypeInvariant, AlwaysSInv, PTL

\* Every path through a handler ends by saying what became of the app: between two
\* commands none is Executing, and without a failing call none is Initiated, for any
\* sequence of commands (edgeapp.go 18-343).
THEOREM CommandsSettle == CrashSpec => []Settled
<1>1. TypeInv /\ SInv => Settled
  <2> SUFFICES ASSUME TypeInv, SInv, crashes = 0, op.pc = "idle", NEW a \in Apps
               PROVE  /\ ~HasStatus(a, "Executing")
                      /\ faults = 0 => ~HasStatus(a, "Initiated")
    BY DEF Settled, At
  <2>1. Statuses[a] # "Executing" /\ (faults = 0 => Statuses[a] # "Initiated")
    BY DEF SInv, Unsettled, Working, Making
  <2> QED  BY <2>1, StatusFacts DEF Status
<1> QED  BY <1>1, TypeInvariant, AlwaysSInv, PTL

------------------------------------------------------------------------------
(* The path a handler is on                                                *)

\* The ways by which each of the calls is reached (edgeapp.go 18-343).
Callers ==
    /\ At("stop") => op.caller = "STOP"
    /\ At("resume") => op.caller = "RESUME"
    /\ At("lateError") => op.caller = "lateRollback"
    /\ op.pc \in {"undeploy", "list", "removeContainers", "undeployed"} =>
            op.caller \in {"redeploy", "rollback", "lateRollback", "UNDEPLOY", "REMOVE", "DELETE"}
    /\ op.pc \in {"images", "removeImages"} =>
            op.caller \in {"redeploy", "rollback", "lateRollback", "REMOVE", "DELETE"}

Undeploying == {"undeploy", "list", "removeContainers", "undeployed"}

LEMMA RemoveReturnsCalled ==
    ASSUME op \in FrameType, NEW ok, ReturnFromRemove(ok)
    PROVE  Callers'
<1>1. CASE op.caller \in {"REMOVE", "rollback"}
  BY <1>1 DEF ReturnFromRemove, Return, Idle, Frame, Callers, At
<1>2. CASE op.caller \in {"redeploy", "lateRollback", "DELETE"}
  BY <1>2 DEF ReturnFromRemove, GoTo, Step, FrameType, Callers, At
<1> QED  BY <1>1, <1>2 DEF ReturnFromRemove

LEMMA UndeployReturnsCalled ==
    ASSUME op \in FrameType, Callers, op.pc \in Undeploying, NEW ok, ReturnFromUndeploy(ok)
    PROVE  Callers'
<1>1. CASE op.caller = "UNDEPLOY"
  BY <1>1 DEF ReturnFromUndeploy, Return, Idle, Frame, Callers, At
<1>2. CASE op.caller # "UNDEPLOY" /\ ok
  BY <1>2 DEF ReturnFromUndeploy, GoTo, Step, FrameType, Callers, At, Undeploying
<1> QED  BY <1>1, <1>2, RemoveReturnsCalled DEF ReturnFromUndeploy

LEMMA CalledDeploy ==
    ASSUME op \in FrameType, Callers, Deploy
    PROVE  Callers'
<1>1. CASE DeployFresh \/ DeployNewVersion
  BY <1>1 DEF DeployFresh, DeployNewVersion, Step, Frame, Callers, At
<1>2. CASE DeployRejected \/ InspectFails \/ DeployDone \/ LateError
  BY <1>2 DEF DeployRejected, InspectFails, DeployDone, LateError, Return, Idle, Frame, Callers, At
<1>3. CASE Add \/ CreateAppNetwork \/ CreateContainer
  BY <1>3 DEF Add, CreateAppNetwork, CreateContainer, Step, FrameType, Callers, At
<1>4. CASE ImagePresent \/ Pull \/ PullErrorUnseen
  BY <1>4 DEF ImagePresent, Pull, PullErrorUnseen, Step, NextImage, FrameType, Callers, At
<1>5. CASE StartModule
  BY <1>5 DEF StartModule, Step, FrameType, Callers, At
<1>6. CASE PullFails \/ CreateNetworkFails \/ CreateContainerFails \/ StartModuleFails
  BY <1>6 DEF PullFails, CreateNetworkFails, CreateContainerFails, StartModuleFails, Step,
              Rollback, FrameType, Callers, At
<1> QED  BY <1>1, <1>2, <1>3, <1>4, <1>5, <1>6 DEF Deploy

LEMMA CalledRest ==
    ASSUME op \in FrameType, msg \in Message \cup {None}, Callers,
           Stop \/ Resume \/ UndeployEdgeApp \/ RemoveEdgeApp \/ DeleteNode
    PROVE  Callers'
<1>1. CASE Stop
  BY <1>1 DEF Stop, StopRefused, StopBegin, StopNext, StopFails, StopDone, Return, Idle, Frame,
              Step, FrameType, Callers, At
<1>2. CASE Resume
  BY <1>2 DEF Resume, ResumeRefused, ResumeBegin, ResumeNext, ResumeFails, ResumeDone, Return,
              Idle, Frame, Step, FrameType, Callers, At
<1>3. CASE UndeployEdgeApp
  <2>1. CASE UndeployRejected \/ UndeployBegin
    BY <2>1 DEF UndeployRejected, UndeployBegin, Handling, Return, Idle, Frame, Step, Callers, At
  <2>2. CASE Undeploy \/ ListContainers \/ RemoveContainer \/ RemoveContainerFails
             \/ PruneNetworks \/ PruneNetworksFails
    BY <2>2 DEF Undeploy, ListContainers, RemoveContainer, RemoveContainerFails, PruneNetworks,
                PruneNetworksFails, GoTo, Step, FrameType, Callers, At
  <2>3. CASE ListContainersFails \/ UndeployDone \/ UndeployIncomplete
    BY <2>3, UndeployReturnsCalled DEF ListContainersFails, UndeployDone, UndeployIncomplete, At,
                                       Undeploying
  <2> QED  BY <1>3, <2>1, <2>2, <2>3 DEF UndeployEdgeApp
<1>4. CASE RemoveEdgeApp
  <2>1. CASE SelectImages \/ RemoveImage \/ RemoveImageFails
    BY <2>1 DEF SelectImages, RemoveImage, RemoveImageFails, Step, FrameType, Callers, At
  <2>2. CASE SelectImagesFails \/ ImagesRemain \/ Forget
    BY <2>2, RemoveReturnsCalled DEF SelectImagesFails, ImagesRemain, Forget
  <2> QED  BY <1>4, <2>1, <2>2 DEF RemoveEdgeApp
<1>5. CASE DeleteNode
  BY <1>5 DEF DeleteNode, DeleteBegin, DeleteNext, DeleteLast, SetNodeDeleted, GoTo, Step, Idle,
              Frame, FrameType, Callers, At
<1> QED  BY <1>1, <1>2, <1>3, <1>4, <1>5

LEMMA AlwaysCalled == CrashSpec => []Callers
<1>1. Init => Callers
  BY DEF Init, Callers, At, Idle, Frame
<1>2. ASSUME TypeInv, Callers, [CrashNext]_vars
      PROVE  Callers'
  <2>1. CASE Handler
    BY <1>2, <2>1, CalledDeploy, CalledRest DEF Handler, TypeInv, HandlerOK
  <2>2. CASE Restart
    BY <2>2 DEF Restart, Idle, Frame, Callers, At
  <2>3. CASE Receive \/ Engine \/ Finished \/ LogRead \/ UNCHANGED vars
    BY <1>2, <2>3 DEF Receive, Engine, Finished, LogRead, vars, handlerVars, Callers, At
  <2> QED  BY <1>2, <2>1, <2>2, <2>3 DEF CrashNext, Next, CrashRestart, UpdateManifestPanics
<1> QED  BY <1>1, <1>2, TypeInvariant, PTL DEF CrashSpec

------------------------------------------------------------------------------
(* The file, seen as statuses                                              *)

FileStatus(a) == IF file[a] # None THEN file[a].status ELSE "Unknown"

\* What a crash may bring back: for an Initiated app what it was before.
FileBehind ==
    \A a \in Apps : FileStatus(a) # Statuses[a] =>
        /\ Statuses[a] = "Initiated"
        /\ FileStatus(a) \in {"Unknown", "Undeployed", "Error"}

LEMMA AlwaysBehind == CrashSpec => []FileBehind
<1>1. Init => FileBehind
  BY DEF Init, FileBehind, FileStatus, Statuses, LifeStatus, IsKnown
<1>2. ASSUME TypeInv, SInv, UnsavedOnlyInitiated, FileBehind, [CrashNext]_vars
      PROVE  FileBehind'
  <2>1. CASE UNCHANGED storeVars
    BY <1>2, <2>1 DEF storeVars, FileBehind, FileStatus, Statuses, LifeStatus, IsKnown
  <2>2. CASE file' = known'
    BY <2>2 DEF FileBehind, FileStatus, Statuses, LifeStatus, IsKnown
  <2>3. CASE At("add") /\ AddKnownManifest(msg.man)
    <3>1. msg.man \in Manifests /\ op.app = msg.man.id /\ op.app \in Apps
      BY <1>2, <2>3, DeployContext DEF TypeInv, At, InDeploy
    <3>2. Statuses' = [Statuses EXCEPT ![op.app] = "Initiated"] /\ file' = file
      BY <1>2, <2>3, <3>1, AddMoves DEF AddKnownManifest
    <3>3. Statuses[op.app] \in {"Unknown", "Undeployed", "Error"}
      BY <1>2, <2>3 DEF SInv, Fits, At, Appless
    <3>4. FileStatus(op.app) = Statuses[op.app]
      BY <1>2, <3>1, <3>3 DEF FileBehind
    <3>5. \A a \in Apps : FileStatus(a)' = FileStatus(a)
      BY <3>2 DEF FileStatus
    <3>6. \A a \in Apps : Statuses'[a] = IF a = op.app THEN "Initiated" ELSE Statuses[a]
      BY <3>2 DEF Statuses
    <3> QED  BY <1>2, <3>3, <3>4, <3>5, <3>6 DEF FileBehind
  <2>4. CASE Handler
    BY <2>1, <2>2, <2>3, <2>4, HandlerStore DEF StoreEffect
  <2>5. CASE Receive \/ Engine \/ Finished \/ UNCHANGED vars
    BY <2>1, <2>5 DEF Receive, Engine, Finished, vars
  <2>6. CASE LogRead \/ Restart
    BY <2>2, <2>6 DEF LogRead, SetLastLogRead, Restart, InitKnownManifests
  <2> QED  BY <1>2, <2>4, <2>5, <2>6 DEF CrashNext, Next, CrashRestart, UpdateManifestPanics
<1> QED  BY <1>1, <1>2, TypeInvariant, AlwaysSInv, FileLagsOnlyWhenInitiated, PTL DEF CrashSpec

------------------------------------------------------------------------------
(* Handlers leave the host of other apps alone                             *)

LEMMA ContainerToOwn ==
    ASSUME HostOK, NEW id, NEW s, ContainerTo(id, s), NEW a,
           \A c \in containers : c.id = id => c.app = a
    PROVE  \A b : b # a => LifeContent(b)' = LifeContent(b)
<1>1. \A c \in containers : [c EXCEPT !.state = s].app = c.app
  BY DEF HostOK, Container
<1>2. \A b : b # a => ContainersOf(b)' = ContainersOf(b)
  BY <1>1 DEF ContainerTo, ContainersOf
<1> QED  BY <1>2 DEF ContainerTo, LifeContent, NetworksOf

LEMMA RemoveContainerOwn ==
    ASSUME NEW id, StopAndRemoveContainer(id), NEW a,
           \A c \in containers : c.id = id => c.app = a
    PROVE  \A b : b # a => LifeContent(b)' = LifeContent(b)
<1>1. \A b : b # a => ContainersOf(b)' = ContainersOf(b)
  BY DEF StopAndRemoveContainer, ContainersOf
<1> QED  BY <1>1 DEF StopAndRemoveContainer, LifeContent, NetworksOf

\* A handler changes the host for its own app only, and only while the status
\* says that it is being worked on.
LEMMA OwnHost ==
    ASSUME TypeInv, OwnInv, SInv, HostEffect
    PROVE  /\ \A b : b # op.app => LifeContent(b)' = LifeContent(b)
           /\ UNCHANGED <<containers, networks>>
              \/ (op.pc \notin Appless /\ Statuses[op.app] \in {"Initiated", "Executing", "Error"})
<1>1. op.pc \in {"network", "create", "start", "stop", "resume", "removeContainers"} =>
          op.pc \notin Appless /\ Statuses[op.app] \in {"Initiated", "Executing", "Error"}
  BY DEF SInv, Fits, Appless
<1>2. CASE UNCHANGED <<containers, networks>>
  BY <1>2 DEF LifeContent, ContainersOf, NetworksOf
<1>3. CASE LoopEffect
  <2>1. HostOK /\ \A c \in containers : c.id \in op.todo => c.app = op.app
    BY <1>3 DEF LoopEffect, OwnInv, OwnWork, TypeInv
  <2>2. PICK id \in op.todo :
            \/ \E s \in ContainerState : ContainerTo(id, s)
            \/ StopAndRemoveContainer(id)
    BY <1>3 DEF LoopEffect
  <2>3. \A c \in containers : c.id = id => c.app = op.app
    BY <2>1
  <2>4. CASE StopAndRemoveContainer(id)
    BY <1>1, <1>3, <2>3, <2>4, RemoveContainerOwn DEF LoopEffect
  <2>5. CASE \E s \in ContainerState : ContainerTo(id, s)
    <3>1. PICK s \in ContainerState : ContainerTo(id, s)
      BY <2>5
    <3> QED  BY <1>1, <1>3, <2>1, <2>3, <3>1, ContainerToOwn DEF LoopEffect
  <2> QED  BY <2>2, <2>4, <2>5
<1>4. CASE PruneEffect
  <2>1. \A b : b # op.app => LifeContent(b)' = LifeContent(b)
    BY <1>4 DEF PruneEffect, NetworkPrune, LifeContent, ContainersOf, NetworksOf
  <2> QED  BY <1>1, <1>4, <2>1 DEF PruneEffect
<1>5. CASE NetworkEffect
  <2>1. \A b : b # op.app => LifeContent(b)' = LifeContent(b)
    BY <1>5 DEF NetworkEffect, CreateNetwork, LifeContent, ContainersOf, NetworksOf
  <2> QED  BY <1>1, <1>5, <2>1 DEF NetworkEffect
<1>6. CASE ContainerEffect
  <2>1. \A b : b # op.app => LifeContent(b)' = LifeContent(b)
    BY <1>6 DEF ContainerEffect, CreateModule, createContainer, LifeContent, ContainersOf,
                NetworksOf
  <2> QED  BY <1>1, <1>6, <2>1 DEF ContainerEffect
<1> QED  BY <1>2, <1>3, <1>4, <1>5, <1>6 DEF HostEffect

------------------------------------------------------------------------------
(* One step of the life cycle                                              *)

\* What a handler does at an app, as AppLifecycle sees it.
LEMMA LifeProgress ==
    ASSUME NEW a \in Apps, NEW cmd, NEW s \in Life!Status,
           Statuses' = [Statuses EXCEPT ![a] = s],
           s = Statuses[a] \/ <<Statuses[a], s>> \in Life!Edges(cmd),
           s = "Undeployed" => s = Statuses[a] \/ Empty(a)',
           \A b : b # a => LifeContent(b)' = LifeContent(b),
           LifeContent(a)' # LifeContent(a) => Statuses[a] \in {"Initiated", "Executing", "Error"}
    PROVE  Life!Progress(cmd, a)
BY DEF Life!Progress, Life!OthersKeepContent, Statuses, LifeContent, Empty

LEMMA EdgeFacts ==
    /\ \A cmd \in {"DEPLOY", "UNDEPLOY", "REMOVE"} : \A s \in Status :
            <<s, "Executing">> \in Life!Edges(cmd)
    /\ \A cmd \in {"DEPLOY", "UNDEPLOY", "REMOVE"} :
            /\ <<"Executing", "Error">> \in Life!Edges(cmd)
            /\ <<"Executing", "Undeployed">> \in Life!Edges(cmd)
            /\ "Error" \in Life!Outcomes(cmd)
    /\ \A cmd \in {"DEPLOY", "REMOVE"} :
            /\ <<"Undeployed", "Error">> \in Life!Edges(cmd)
            /\ <<"Undeployed", "Unknown">> \in Life!Edges(cmd)
            /\ "Unknown" \in Life!Outcomes(cmd)
    /\ \A s \in {"Unknown", "Undeployed", "Error"} : <<s, "Initiated">> \in Life!Edges("DEPLOY")
    /\ \A s \in {"Running", "Error"} : <<"Initiated", s>> \in Life!Edges("DEPLOY")
    /\ {"Running", "Initiated"} \subseteq Life!Outcomes("DEPLOY")
    /\ <<"Running", "Executing">> \in Life!Edges("STOP")
    /\ \A s \in {"Stopped", "Error"} :
            <<"Executing", s>> \in Life!Edges("STOP") /\ s \in Life!Outcomes("STOP")
    /\ <<"Stopped", "Executing">> \in Life!Edges("RESUME")
    /\ \A s \in {"Running", "Error"} :
            <<"Executing", s>> \in Life!Edges("RESUME") /\ s \in Life!Outcomes("RESUME")
    /\ "Undeployed" \in Life!Outcomes("UNDEPLOY")
<1> DEFINE clearing == {<<s, "Executing">> : s \in Status} \cup {"Executing"} \X {"Error", "Undeployed"}
          removing == clearing \cup {"Undeployed"} \X {"Error", "Unknown"}
<1>1. Life!Clearing = clearing /\ Life!Removing = removing
  BY DEF Life!Clearing, Life!Removing, Life!Recorded, Status
<1>2. /\ Life!Edges("DEPLOY") = {"Unknown", "Undeployed", "Error"} \X {"Initiated"}
                                \cup {"Initiated"} \X {"Running", "Error"} \cup removing
      /\ Life!Outcomes("DEPLOY") = {"Running", "Error", "Unknown", "Initiated"}
  BY <1>1 DEF Life!Edges, Life!Outcomes
<1>3. /\ Life!Edges("UNDEPLOY") = clearing /\ Life!Outcomes("UNDEPLOY") = {"Undeployed", "Error"}
      /\ Life!Edges("REMOVE") = removing /\ Life!Outcomes("REMOVE") = {"Unknown", "Error"}
  BY <1>1 DEF Life!Edges, Life!Outcomes
<1>4. /\ Life!Edges("STOP") = {<<"Running", "Executing">>} \cup {"Executing"} \X {"Stopped", "Error"}
      /\ Life!Outcomes("STOP") = {"Stopped", "Error"}
      /\ Life!Edges("RESUME") = {<<"Stopped", "Executing">>} \cup {"Executing"} \X {"Running", "Error"}
      /\ Life!Outcomes("RESUME") = {"Running", "Error"}
  BY DEF Life!Edges, Life!Outcomes
<1>5. /\ \A s \in Status : <<s, "Executing">> \in clearing /\ <<s, "Executing">> \in removing
      /\ <<"Executing", "Error">> \in clearing /\ <<"Executing", "Undeployed">> \in clearing
      /\ <<"Executing", "Error">> \in removing /\ <<"Executing", "Undeployed">> \in removing
      /\ <<"Undeployed", "Error">> \in removing /\ <<"Undeployed", "Unknown">> \in removing
  OBVIOUS
<1> HIDE DEF clearing, removing
<1> QED  BY <1>2, <1>3, <1>4, <1>5


\* A step of the handler within its command, or the last one.
LEMMA LifeWorks ==
    ASSUME TypeInv, OwnInv, SInv, HostEffect, op.pc \notin Appless,
           NEW cmd \in Life!Command, cmd = JobCommand(op.caller),
           NEW s \in Life!Status, Statuses' = [Statuses EXCEPT ![op.app] = s],
           s = Statuses[op.app] \/ <<Statuses[op.app], s>> \in Life!Edges(cmd),
           s = "Undeployed" => s = Statuses[op.app]
                               \/ (Empty(op.app) /\ UNCHANGED <<containers, networks>>),
           \/ op'.pc \notin Appless /\ op'.app = op.app /\ JobCommand(op'.caller) = cmd
           \/ op'.pc \in Appless /\ s \in Life!Outcomes(cmd)
    PROVE  Life!Next
<1>1. PICK a \in Apps : a = op.app
  BY DEF TypeInv, HandlerOK, FrameFits
<1>2. /\ \A b : b # a => LifeContent(b)' = LifeContent(b)
      /\ UNCHANGED <<containers, networks>> \/ Statuses[a] \in {"Initiated", "Executing", "Error"}
  BY <1>1, OwnHost
<1>3. UNCHANGED <<containers, networks>> =>
            LifeContent(a)' = LifeContent(a) /\ (Empty(a) => Empty(a)')
  BY DEF LifeContent, ContainersOf, NetworksOf, Empty
<1>4. Life!Progress(cmd, a)
  BY <1>1, <1>2, <1>3, LifeProgress
<1>5. LifeJob = [cmd |-> cmd, app |-> a]
  BY <1>1 DEF LifeJob, BetweenJobs, Appless
<1>6. CASE op'.pc \notin Appless /\ op'.app = op.app /\ JobCommand(op'.caller) = cmd
  <2>1. LifeJob' = LifeJob
    BY <1>1, <1>5, <1>6 DEF LifeJob, BetweenJobs, Appless, JobCommand
  <2>2. Life!Work(cmd, a)
    BY <1>4, <1>5, <2>1 DEF Life!Work
  <2> QED  BY <2>2 DEF Life!Next
<1>7. CASE op'.pc \in Appless /\ s \in Life!Outcomes(cmd)
  <2>1. LifeJob' = None
    BY <1>7 DEF LifeJob, BetweenJobs, Appless
  <2>2. Statuses'[a] = s
    BY <1>1 DEF Statuses
  <2>3. Life!End(cmd, a)
    BY <1>4, <1>5, <1>7, <2>1, <2>2 DEF Life!End, Statuses
  <2> QED  BY <2>3 DEF Life!Next
<1> QED  BY <1>6, <1>7

\* A message is taken up, or RemoveAll goes on to the next app.
LEMMA LifeBegins ==
    ASSUME TypeInv, op.pc \in Appless, op'.pc \notin Appless, NEW a \in Apps, op'.app = a,
           UNCHANGED <<containers, networks>>,
           NEW cmd \in Life!Command, cmd = JobCommand(op'.caller),
           Statuses[a] \in Life!Permitted(cmd),
           NEW s \in Life!Status, Statuses' = [Statuses EXCEPT ![a] = s],
           s = Statuses[a] \/ (s # "Undeployed" /\ <<Statuses[a], s>> \in Life!Edges(cmd))
    PROVE  Life!Next
<1>1. \A b : LifeContent(b)' = LifeContent(b)
  BY DEF LifeContent, ContainersOf, NetworksOf
<1>2. Life!Progress(cmd, a)
  BY <1>1, LifeProgress
<1>3. LifeJob = None /\ LifeJob' = [cmd |-> cmd, app |-> a]
  BY DEF LifeJob, BetweenJobs, Appless, JobCommand
<1>4. Life!Begin(cmd, a)
  BY <1>2, <1>3 DEF Life!Begin, Statuses
<1> QED  BY <1>4 DEF Life!Next

LEMMA LifeStutters ==
    ASSUME UNCHANGED <<containers, networks, known>>, LifeJob' = LifeJob
    PROVE  UNCHANGED Life!vars
BY DEF Life!vars, LifeStatus, LifeContent, ContainersOf, NetworksOf, IsKnown

LEMMA StatusesOK ==
    ASSUME TypeInv
    PROVE  \A a \in Apps : Statuses[a] \in Life!Status
BY StatusFacts DEF Statuses, LifeStatus, TypeInv, StoreOK, IsKnown, Record, Status, Life!Status, Life!Recorded

\* RemoveEdgeApp returns: the command ends, or the deployment goes on.
LEMMA LifeRemoveReturns ==
    ASSUME TypeInv, OwnInv, SInv, HostEffect, op.pc \notin Appless,
           op.caller \in {"redeploy", "rollback", "lateRollback", "REMOVE", "DELETE"},
           NEW ok, ReturnFromRemove(ok), NEW s \in {"Error", "Unknown"},
           Statuses' = [Statuses EXCEPT ![op.app] = s],
           s = Statuses[op.app] \/ <<Statuses[op.app], s>> \in {"Executing", "Undeployed"} \X {"Error"}
                                \/ <<Statuses[op.app], s>> = <<"Undeployed", "Unknown">>
    PROVE  Life!Next
<1>1. PICK cmd \in {"DEPLOY", "REMOVE"} : cmd = JobCommand(op.caller)
  BY DEF JobCommand
<1>2. op \in FrameType
  BY DEF TypeInv, HandlerOK
<1>3. \/ op'.pc \notin Appless /\ op'.app = op.app /\ JobCommand(op'.caller) = cmd
      \/ op'.pc \in Appless
  BY <1>1, <1>2 DEF ReturnFromRemove, Return, GoTo, Step, Idle, Frame, Appless, FrameType
<1>4. s \in Life!Outcomes(cmd) /\ cmd \in Life!Command /\ s \in Life!Status
  BY EdgeFacts DEF Life!Command, Life!Status, Life!Recorded
<1>5. s = Statuses[op.app] \/ <<Statuses[op.app], s>> \in Life!Edges(cmd)
  BY EdgeFacts
<1> QED  BY <1>1, <1>3, <1>4, <1>5, LifeWorks

LEMMA LifeUndeployReturns ==
    ASSUME TypeInv, OwnInv, SInv, Callers, HostEffect, op.pc \in Undeploying,
           NEW ok \in BOOLEAN, ReturnFromUndeploy(ok),
           NEW s, s = (IF ok THEN "Undeployed" ELSE "Error"),
           Statuses' = [Statuses EXCEPT ![op.app] = s],
           s = Statuses[op.app] \/ Statuses[op.app] = "Executing",
           ok => Empty(op.app) /\ UNCHANGED <<containers, networks>>
    PROVE  Life!Next
<1>1. /\ op.caller \in {"redeploy", "rollback", "lateRollback", "UNDEPLOY", "REMOVE", "DELETE"}
      /\ op.pc \notin Appless /\ op \in FrameType
  BY DEF Callers, Undeploying, Appless, TypeInv, HandlerOK
<1>2. PICK cmd \in {"DEPLOY", "UNDEPLOY", "REMOVE"} : cmd = JobCommand(op.caller)
  BY <1>1 DEF JobCommand
<1>3. s = Statuses[op.app] \/ <<Statuses[op.app], s>> \in Life!Edges(cmd)
  BY EdgeFacts
<1>4. cmd \in Life!Command /\ s \in Life!Status
  BY DEF Life!Command, Life!Status, Life!Recorded
<1>5. CASE op.caller = "UNDEPLOY"
  <2>1. op'.pc \in Appless /\ cmd = "UNDEPLOY"
    BY <1>2, <1>5 DEF ReturnFromUndeploy, Return, Idle, Frame, Appless, JobCommand
  <2> QED  BY <1>1, <1>2, <1>3, <1>4, <2>1, EdgeFacts, LifeWorks
<1>6. CASE op.caller # "UNDEPLOY" /\ ok
  <2>1. op'.pc \notin Appless /\ op'.app = op.app /\ op'.caller = op.caller
    BY <1>1, <1>6 DEF ReturnFromUndeploy, GoTo, Step, Appless, FrameType
  <2> QED  BY <1>1, <1>2, <1>3, <1>4, <1>6, <2>1, LifeWorks
<1>7. CASE op.caller # "UNDEPLOY" /\ ~ok
  BY <1>1, <1>7, LifeRemoveReturns DEF ReturnFromUndeploy
<1> QED  BY <1>5, <1>6, <1>7

LEMMA LifeDeploy ==
    ASSUME TypeInv, OwnInv, SInv, Callers, HostEffect, Deploy
    PROVE  Life!Next \/ UNCHANGED Life!vars
<1>0. op \in FrameType /\ "DEPLOY" \in Life!Command /\ Status \subseteq Life!Status
  BY DEF TypeInv, HandlerOK, Life!Command, Status, Life!Status, Life!Recorded
<1>1. CASE DeployFresh \/ DeployNewVersion
  <2>1. /\ op.pc \in Appless /\ op'.pc \notin Appless /\ op'.app = msg.app /\ msg.app \in Apps
        /\ JobCommand(op'.caller) = "DEPLOY" /\ UNCHANGED <<containers, networks>>
        /\ UNCHANGED storeVars
    BY <1>1, DispatchOK DEF DeployFresh, DeployNewVersion, Handling, At, Step, Frame, Neither,
       dockerVars, Appless, JobCommand, TypeInv
  <2>2. PICK a \in Apps : a = msg.app
    BY <2>1
  <2>3. Statuses[a] \in Life!Permitted("DEPLOY") /\ Statuses[a] \in Life!Status
    BY StatusesOK DEF Life!Permitted
  <2>4. Statuses' = [Statuses EXCEPT ![a] = Statuses[a]]
    BY <2>1, SameMoves
  <2> QED  BY <1>0, <2>1, <2>2, <2>3, <2>4, LifeBegins
<1>2. CASE DeployRejected
  <2>1. UNCHANGED <<containers, networks, known>> /\ LifeJob' = LifeJob
    BY <1>2 DEF DeployRejected, Handling, At, Return, Idle, Frame, Neither, dockerVars, storeVars,
                LifeJob, BetweenJobs
  <2> QED  BY <2>1, LifeStutters
<1>3. CASE Add
  <2>1. InDeploy /\ op.pc \notin Appless /\ op'.app = op.app /\ op'.pc = "image"
        /\ op'.caller = op.caller
    BY <1>0, <1>3 DEF Add, At, Step, InDeploy, Appless, FrameType
  <2>2. msg.man \in Manifests /\ msg.man.id = op.app /\ op.app \in Apps
    BY <2>1, DeployContext DEF TypeInv, Appless
  <2>3. Statuses' = [Statuses EXCEPT ![op.app] = "Initiated"]
    BY <1>3, <2>2, AddMoves DEF Add
  <2>4. op.caller \in {"DEPLOY", "redeploy"}
        /\ Statuses[op.app] \in {"Unknown", "Undeployed", "Error"}
    BY <1>3, <2>1 DEF Add, At, SInv, Fits
  <2>5. JobCommand(op.caller) = "DEPLOY" /\ "Initiated" \in Life!Status /\ op'.pc \notin Appless
    BY <2>1, <2>4 DEF JobCommand, Life!Status, Life!Recorded, Appless
  <2> QED  BY <1>0, <2>1, <2>3, <2>4, <2>5, EdgeFacts, LifeWorks
<1>4. CASE InspectFails
  <2>1. op.pc = "image" /\ op'.pc \in Appless /\ UNCHANGED storeVars
    BY <1>4 DEF InspectFails, At, Return, Idle, Frame, Appless
  <2>2. Statuses[op.app] = "Initiated" /\ JobCommand(op.caller) = "DEPLOY" /\ op.pc \notin Appless
    BY <2>1 DEF SInv, Fits, Appless, JobCommand
  <2>3. Statuses' = [Statuses EXCEPT ![op.app] = "Initiated"]
    BY <2>1, <2>2, SameMoves DEF TypeInv, HandlerOK, FrameFits
  <2> QED  BY <1>0, <2>1, <2>2, <2>3, EdgeFacts, LifeWorks DEF Status
<1>5. CASE ImagePresent \/ Pull \/ PullErrorUnseen \/ CreateAppNetwork \/ CreateContainer
           \/ CreateContainerFails \/ StartModule \/ StartModuleFails
  <2>1. /\ op.pc \in {"image", "network", "create", "start"} /\ UNCHANGED storeVars
        /\ op'.app = op.app
        /\ \/ /\ op'.pc \in {"image", "network", "create", "start", "deployed"}
              /\ op'.caller = op.caller
           \/ op'.pc = "undeploy" /\ op'.caller = "lateRollback"
    BY <1>0, <1>5
       DEF ImagePresent, Pull, PullErrorUnseen, CreateAppNetwork, CreateContainer,
           CreateContainerFails, StartModule, StartModuleFails, Step, At, NextImage, Rollback,
           Neither, HostOnly, FrameType
  <2>2. op.pc \notin Appless /\ op'.pc \notin Appless /\ Statuses[op.app] = "Initiated"
        /\ JobCommand(op.caller) = "DEPLOY" /\ JobCommand(op'.caller) = "DEPLOY"
    BY <2>1 DEF SInv, Fits, Appless, JobCommand
  <2>3. Statuses' = [Statuses EXCEPT ![op.app] = Statuses[op.app]]
    BY <2>1, <2>2, SameMoves DEF TypeInv, HandlerOK, FrameFits
  <2> QED  BY <1>0, <2>1, <2>2, <2>3, LifeWorks DEF Status
<1>6. CASE PullFails \/ CreateNetworkFails
  <2>1. /\ op.pc \in {"image", "network"} /\ op'.app = op.app /\ op'.pc = "undeploy"
        /\ op'.caller = "rollback" /\ SetStatus(op.app, "Error")
    BY <1>0, <1>6 DEF PullFails, CreateNetworkFails, Step, At, Rollback, FrameType
  <2>2. op.pc \notin Appless /\ op'.pc \notin Appless /\ Statuses[op.app] = "Initiated"
        /\ JobCommand(op.caller) = "DEPLOY" /\ JobCommand(op'.caller) = "DEPLOY"
    BY <2>1 DEF SInv, Fits, Appless, JobCommand
  <2>3. Statuses' = [Statuses EXCEPT ![op.app] = "Error"]
    BY <2>1, <2>2, SetStatusMoves DEF TypeInv, HandlerOK, FrameFits, Status
  <2> QED  BY <1>0, <2>1, <2>2, <2>3, EdgeFacts, LifeWorks DEF Status
<1>7. CASE DeployDone
  <2>1. op.pc = "deployed" /\ op'.pc \in Appless /\ SetStatus(op.app, "Running")
    BY <1>7 DEF DeployDone, Return, At, Idle, Frame, Appless
  <2>2. op.pc \notin Appless /\ Statuses[op.app] = "Initiated" /\ JobCommand(op.caller) = "DEPLOY"
    BY <2>1 DEF SInv, Fits, Appless, JobCommand
  <2>3. Statuses' = [Statuses EXCEPT ![op.app] = "Running"]
    BY <2>1, <2>2, SetStatusMoves DEF TypeInv, HandlerOK, FrameFits, Status
  <2> QED  BY <1>0, <2>1, <2>2, <2>3, EdgeFacts, LifeWorks DEF Status
<1>8. CASE LateError
  <2>1. op.pc = "lateError" /\ op'.pc \in Appless /\ SetStatus(op.app, "Error")
    BY <1>8 DEF LateError, Return, At, Idle, Frame, Appless
  <2>2. /\ op.pc \notin Appless /\ Statuses[op.app] \in {"Unknown", "Error"} /\ op.app \in Apps
        /\ JobCommand(op.caller) = "DEPLOY"
    BY <2>1 DEF SInv, Fits, Appless, TypeInv, HandlerOK, FrameFits, Callers, At, JobCommand
  <2>3. Statuses' = [Statuses EXCEPT ![op.app] = Statuses[op.app]]
    BY <2>1, <2>2, SetStatusMoves DEF Status
  <2>4. Statuses[op.app] \in Life!Status /\ Statuses[op.app] \in Life!Outcomes("DEPLOY")
    BY <2>2, EdgeFacts, StatusesOK
  <2> QED  BY <1>0, <2>1, <2>2, <2>3, <2>4, LifeWorks
<1> QED  BY <1>1, <1>2, <1>3, <1>4, <1>5, <1>6, <1>7, <1>8 DEF Deploy

LEMMA LifeRefused ==
    ASSUME TypeInv, SInv, NEW cmd \in {"STOP", "RESUME"}, Handling(cmd), Return(FALSE),
           HasStatus(msg.app, IF cmd = "STOP" THEN "Running" ELSE "Stopped"),
           SetStatus(msg.app, "Error"), UNCHANGED dockerVars
    PROVE  Life!Next
<1>1. PICK a \in Apps : a = msg.app
  BY DispatchOK DEF TypeInv
<1>2. Statuses[a] \in {"Running", "Stopped"}
  BY <1>1, StatusFacts DEF Status
<1>3. Statuses' = [Statuses EXCEPT ![a] = "Error"]
  BY <1>1, <1>2, SetStatusMoves DEF Status
<1>4. \A b : LifeContent(b)' = LifeContent(b)
  BY DEF dockerVars, LifeContent, ContainersOf, NetworksOf
<1>5. LifeJob = None /\ LifeJob' = None
  BY DEF Handling, At, Return, Idle, Frame, LifeJob, BetweenJobs
<1>6. Life!FoundMissing(a)
  BY <1>2, <1>3, <1>4, <1>5 DEF Life!FoundMissing, Statuses
<1> QED  BY <1>6 DEF Life!Next

LEMMA LifeStopResume ==
    ASSUME TypeInv, OwnInv, SInv, Callers, HostEffect, Stop \/ Resume
    PROVE  Life!Next \/ UNCHANGED Life!vars
<1>0. op \in FrameType /\ {"STOP", "RESUME"} \subseteq Life!Command /\ Status \subseteq Life!Status
  BY DEF TypeInv, HandlerOK, Life!Command, Status, Life!Status, Life!Recorded
<1>1. CASE StopRefused \/ ResumeRefused
  <2>1. CASE UNCHANGED <<dockerVars, storeVars>>
    <3>1. UNCHANGED <<containers, networks, known>> /\ LifeJob' = LifeJob
      BY <1>1, <2>1 DEF StopRefused, ResumeRefused, Handling, At, Return, Idle, Frame, dockerVars,
                        storeVars, LifeJob, BetweenJobs
    <3> QED  BY <3>1, LifeStutters
  <2>2. CASE ~UNCHANGED <<dockerVars, storeVars>>
    BY <1>1, <2>2, LifeRefused DEF StopRefused, ResumeRefused, Neither, RecordOnly
  <2> QED  BY <2>1, <2>2
<1>2. CASE StopBegin
  <2>1. /\ op.pc \in Appless /\ op'.pc \notin Appless /\ op'.app = msg.app /\ msg.app \in Apps
        /\ JobCommand(op'.caller) = "STOP" /\ UNCHANGED <<containers, networks>>
        /\ SetStatus(msg.app, "Executing") /\ HasStatus(msg.app, "Running")
    BY <1>2, DispatchOK DEF StopBegin, Handling, At, Step, Frame, RecordOnly, dockerVars, Appless,
       JobCommand, TypeInv
  <2>2. PICK a \in Apps : a = msg.app
    BY <2>1
  <2>3. Statuses[a] = "Running"
    BY <2>1, <2>2, StatusFacts DEF Status
  <2>4. Statuses' = [Statuses EXCEPT ![a] = "Executing"]
    BY <2>1, <2>2, <2>3, SetStatusMoves DEF Status
  <2>5. "Running" \in Life!Permitted("STOP")
    BY DEF Life!Permitted
  <2> QED  BY <1>0, <2>1, <2>2, <2>3, <2>4, <2>5, EdgeFacts, LifeBegins DEF Status
<1>3. CASE ResumeBegin
  <2>1. /\ op.pc \in Appless /\ op'.pc \notin Appless /\ op'.app = msg.app /\ msg.app \in Apps
        /\ JobCommand(op'.caller) = "RESUME" /\ UNCHANGED <<containers, networks>>
        /\ SetStatus(msg.app, "Executing") /\ HasStatus(msg.app, "Stopped")
    BY <1>3, DispatchOK DEF ResumeBegin, Handling, At, Step, Frame, RecordOnly, dockerVars, Appless,
       JobCommand, TypeInv
  <2>2. PICK a \in Apps : a = msg.app
    BY <2>1
  <2>3. Statuses[a] = "Stopped"
    BY <2>1, <2>2, StatusFacts DEF Status
  <2>4. Statuses' = [Statuses EXCEPT ![a] = "Executing"]
    BY <2>1, <2>2, <2>3, SetStatusMoves DEF Status
  <2>5. "Stopped" \in Life!Permitted("RESUME")
    BY DEF Life!Permitted
  <2> QED  BY <1>0, <2>1, <2>2, <2>3, <2>4, <2>5, EdgeFacts, LifeBegins DEF Status
<1>4. CASE StopNext \/ ResumeNext
  <2>1. /\ op.pc \in {"stop", "resume"} /\ op'.pc = op.pc /\ op'.app = op.app
        /\ op'.caller = op.caller /\ UNCHANGED storeVars
    BY <1>0, <1>4 DEF StopNext, ResumeNext, At, Step, HostOnly, FrameType
  <2>2. /\ op.pc \notin Appless /\ Statuses[op.app] = "Executing" /\ op.app \in Apps
        /\ JobCommand(op.caller) \in {"STOP", "RESUME"}
    BY <2>1 DEF SInv, Fits, Appless, Callers, At, JobCommand, TypeInv, HandlerOK, FrameFits
  <2>3. Statuses' = [Statuses EXCEPT ![op.app] = Statuses[op.app]]
    BY <2>1, <2>2, SameMoves
  <2>4. op'.pc \notin Appless /\ JobCommand(op'.caller) = JobCommand(op.caller)
    BY <2>1, <2>2
  <2> QED  BY <1>0, <2>1, <2>2, <2>3, <2>4, LifeWorks DEF Status
<1>5. CASE StopFails \/ StopDone
  <2>1. op.pc = "stop" /\ op'.pc \in Appless
    BY <1>5 DEF StopFails, StopDone, At, Return, Idle, Frame, Appless
  <2>2. /\ op.pc \notin Appless /\ Statuses[op.app] = "Executing" /\ op.app \in Apps
        /\ JobCommand(op.caller) = "STOP"
    BY <2>1 DEF SInv, Fits, Appless, Callers, At, JobCommand, TypeInv, HandlerOK, FrameFits
  <2>3. PICK s \in {"Error", "Stopped"} : SetStatus(op.app, s)
    BY <1>5 DEF StopFails, StopDone
  <2>4. Statuses' = [Statuses EXCEPT ![op.app] = s]
    BY <2>2, <2>3, SetStatusMoves DEF Status
  <2> QED  BY <1>0, <2>1, <2>2, <2>4, EdgeFacts, LifeWorks DEF Status
<1>6. CASE ResumeFails \/ ResumeDone
  <2>1. op.pc = "resume" /\ op'.pc \in Appless
    BY <1>6 DEF ResumeFails, ResumeDone, At, Return, Idle, Frame, Appless
  <2>2. /\ op.pc \notin Appless /\ Statuses[op.app] = "Executing" /\ op.app \in Apps
        /\ JobCommand(op.caller) = "RESUME"
    BY <2>1 DEF SInv, Fits, Appless, Callers, At, JobCommand, TypeInv, HandlerOK, FrameFits
  <2>3. PICK s \in {"Error", "Running"} : SetStatus(op.app, s)
    BY <1>6 DEF ResumeFails, ResumeDone
  <2>4. Statuses' = [Statuses EXCEPT ![op.app] = s]
    BY <2>2, <2>3, SetStatusMoves DEF Status
  <2> QED  BY <1>0, <2>1, <2>2, <2>4, EdgeFacts, LifeWorks DEF Status
<1> QED  BY <1>1, <1>2, <1>3, <1>4, <1>5, <1>6 DEF Stop, Resume

LEMMA LifeUndeploy ==
    ASSUME TypeInv, OwnInv, SInv, Callers, HostEffect, UndeployEdgeApp
    PROVE  Life!Next \/ UNCHANGED Life!vars
<1>0. op \in FrameType /\ Status \subseteq Life!Status
  BY DEF TypeInv, HandlerOK, Status, Life!Status, Life!Recorded
<1>1. CASE UndeployRejected
  <2>1. UNCHANGED <<containers, networks, known>> /\ LifeJob' = LifeJob
    BY <1>1 DEF UndeployRejected, Handling, At, Return, Idle, Frame, Neither, dockerVars, storeVars,
                LifeJob, BetweenJobs
  <2> QED  BY <2>1, LifeStutters
<1>2. CASE UndeployBegin
  <2>1. PICK cmd \in {"UNDEPLOY", "REMOVE"} : Handling(cmd)
    BY <1>2 DEF UndeployBegin
  <2>2. /\ op.pc \in Appless /\ op'.pc \notin Appless /\ op'.app = msg.app /\ msg.app \in Apps
        /\ JobCommand(op'.caller) = cmd /\ UNCHANGED <<containers, networks>>
        /\ UNCHANGED storeVars /\ IsKnown(msg.app)
    BY <1>2, <2>1, DispatchOK DEF UndeployBegin, Handling, At, Step, Frame, Neither, dockerVars,
       Appless, JobCommand, TypeInv
  <2>3. PICK a \in Apps : a = msg.app
    BY <2>2
  <2>4. /\ Statuses' = [Statuses EXCEPT ![a] = Statuses[a]] /\ cmd \in Life!Command
        /\ Statuses[a] \in Life!Status /\ Statuses[a] # "Unknown"
    BY <2>2, <2>3, SameMoves, StatusesOK, StatusFacts DEF Life!Command
  <2>5. Statuses[a] \in Life!Permitted(cmd)
    BY <2>4 DEF Life!Permitted, Life!Status, Life!Recorded
  <2> QED  BY <2>2, <2>3, <2>4, <2>5, LifeBegins
<1>3. CASE ~(UndeployRejected \/ UndeployBegin)
  <2>1. op.pc \in Undeploying /\ op.pc \notin Appless
    BY <1>3 DEF UndeployEdgeApp, Undeploy, ListContainers, ListContainersFails, RemoveContainer,
       RemoveContainerFails, PruneNetworks, PruneNetworksFails, UndeployDone, UndeployIncomplete,
       At, Undeploying, Appless
  <2>2. /\ op.app \in Apps
        /\ op.caller \in {"redeploy", "rollback", "lateRollback", "UNDEPLOY", "REMOVE", "DELETE"}
    BY <2>1 DEF TypeInv, HandlerOK, FrameFits, Callers, Undeploying
  <2>3. PICK cmd \in {"DEPLOY", "UNDEPLOY", "REMOVE"} : cmd = JobCommand(op.caller)
    BY <2>2 DEF JobCommand
  <2>4. cmd \in Life!Command /\ Statuses[op.app] \in Life!Status
    BY <2>2, StatusesOK DEF Life!Command
  <2>5. CASE Undeploy
    <3>1. /\ op'.pc = "list" /\ op.pc = "undeploy" /\ op'.app = op.app /\ op'.caller = op.caller
          /\ SetStatus(op.app, "Executing")
      BY <1>0, <2>5 DEF Undeploy, At, GoTo, Step, FrameType
    <3>2. Statuses[op.app] # "Unknown" /\ op'.pc \notin Appless
      BY <2>1, <3>1 DEF SInv, Fits, Appless
    <3>3. Statuses' = [Statuses EXCEPT ![op.app] = "Executing"] /\ Statuses[op.app] \in Status
      BY <2>2, <2>4, <3>1, <3>2, SetStatusMoves DEF Status, Life!Status, Life!Recorded
    <3> QED  BY <1>0, <2>1, <2>3, <2>4, <3>1, <3>2, <3>3, EdgeFacts, LifeWorks DEF Status
  <2>6. CASE ListContainers \/ RemoveContainer \/ PruneNetworks
    <3>1. /\ op'.pc \in {"removeContainers", "undeployed"} /\ op'.app = op.app
          /\ op'.caller = op.caller /\ UNCHANGED storeVars
      BY <1>0, <2>6 DEF ListContainers, RemoveContainer, PruneNetworks, At, GoTo, Step, Neither,
         HostOnly, FrameType
    <3>2. Statuses' = [Statuses EXCEPT ![op.app] = Statuses[op.app]] /\ op'.pc \notin Appless
      BY <2>2, <3>1, SameMoves DEF Appless
    <3> QED  BY <2>1, <2>3, <2>4, <3>1, <3>2, LifeWorks
  <2>7. CASE RemoveContainerFails \/ PruneNetworksFails
    <3>1. /\ op.pc = "removeContainers" /\ op'.pc \in {"removeContainers", "undeployed"}
          /\ op'.app = op.app /\ op'.caller = op.caller /\ SetStatus(op.app, "Error")
      BY <1>0, <2>7 DEF RemoveContainerFails, PruneNetworksFails, At, Step, FrameType
    <3>2. Statuses[op.app] \in {"Executing", "Error"} /\ op'.pc \notin Appless
      BY <2>1, <3>1 DEF SInv, Fits, Appless
    <3>3. Statuses' = [Statuses EXCEPT ![op.app] = "Error"]
      BY <2>2, <3>1, <3>2, SetStatusMoves DEF Status
    <3> QED  BY <1>0, <2>1, <2>3, <2>4, <3>1, <3>2, <3>3, EdgeFacts, LifeWorks DEF Status
  <2>8. CASE ListContainersFails
    <3>1. op.pc = "list" /\ SetStatus(op.app, "Error") /\ ReturnFromUndeploy(FALSE)
      BY <2>8 DEF ListContainersFails, At
    <3>2. Statuses[op.app] = "Executing"
      BY <2>1, <3>1 DEF SInv, Fits
    <3>3. Statuses' = [Statuses EXCEPT ![op.app] = "Error"]
      BY <2>2, <3>1, <3>2, SetStatusMoves DEF Status
    <3> QED  BY <2>1, <3>1, <3>2, <3>3, LifeUndeployReturns
  <2>9. CASE UndeployDone
    <3>1. /\ op.pc = "undeployed" /\ ~op.failed /\ SetStatus(op.app, "Undeployed")
          /\ ReturnFromUndeploy(TRUE) /\ UNCHANGED <<containers, networks>>
      BY <2>9 DEF UndeployDone, At, RecordOnly, dockerVars
    <3>2. Statuses[op.app] = "Executing" /\ Empty(op.app)
      BY <2>1, <3>1 DEF SInv, Fits, OwnInv, RemovalCovers, At
    <3>3. Statuses' = [Statuses EXCEPT ![op.app] = "Undeployed"]
      BY <2>2, <3>1, <3>2, SetStatusMoves DEF Status
    <3> QED  BY <2>1, <3>1, <3>2, <3>3, LifeUndeployReturns
  <2>10. CASE UndeployIncomplete
    <3>1. op.pc = "undeployed" /\ op.failed /\ ReturnFromUndeploy(FALSE) /\ UNCHANGED storeVars
      BY <2>10 DEF UndeployIncomplete, At, Neither
    <3>2. Statuses[op.app] = "Error"
      BY <2>1, <3>1 DEF SInv, Fits
    <3>3. Statuses' = [Statuses EXCEPT ![op.app] = "Error"]
      BY <2>2, <3>1, <3>2, SameMoves
    <3> QED  BY <2>1, <3>1, <3>2, <3>3, LifeUndeployReturns
  <2> QED  BY <1>3, <2>5, <2>6, <2>7, <2>8, <2>9, <2>10 DEF UndeployEdgeApp
<1> QED  BY <1>1, <1>2, <1>3

LEMMA LifeRemove ==
    ASSUME TypeInv, OwnInv, SInv, Callers, HostEffect, RemoveEdgeApp
    PROVE  Life!Next
<1>0. op \in FrameType /\ "Error" \in Life!Status
  BY DEF TypeInv, HandlerOK, Life!Status, Life!Recorded
<1>1. op.pc \in {"images", "removeImages"} /\ op.pc \notin Appless /\ op.app \in Apps
  BY DEF RemoveEdgeApp, SelectImages, SelectImagesFails, RemoveImage, RemoveImageFails,
         ImagesRemain, Forget, At, Appless, TypeInv, HandlerOK, FrameFits
<1>2. op.caller \in {"redeploy", "rollback", "lateRollback", "REMOVE", "DELETE"}
  BY <1>1 DEF Callers
<1>3. PICK cmd \in {"DEPLOY", "REMOVE"} : cmd = JobCommand(op.caller)
  BY <1>2 DEF JobCommand
<1>4. /\ op.pc = "images" => Statuses[op.app] = "Undeployed"
      /\ op.pc = "removeImages" => Statuses[op.app] = IF op.failed THEN "Error" ELSE "Undeployed"
  BY <1>1 DEF SInv, Fits
<1>5. cmd \in Life!Command /\ Statuses[op.app] \in Life!Status
  BY <1>1, StatusesOK DEF Life!Command
<1>6. CASE SelectImages \/ RemoveImage
  <2>1. op'.pc = "removeImages" /\ op'.app = op.app /\ op'.caller = op.caller /\ UNCHANGED storeVars
    BY <1>0, <1>6 DEF SelectImages, RemoveImage, At, Step, Neither, HostOnly, FrameType
  <2>2. Statuses' = [Statuses EXCEPT ![op.app] = Statuses[op.app]] /\ op'.pc \notin Appless
    BY <1>1, <2>1, SameMoves DEF Appless
  <2> QED  BY <1>1, <1>3, <1>5, <2>1, <2>2, LifeWorks
<1>7. CASE RemoveImageFails
  <2>1. /\ op.pc = "removeImages" /\ op'.pc = "removeImages" /\ op'.app = op.app
        /\ op'.caller = op.caller /\ SetStatus(op.app, "Error")
    BY <1>0, <1>7 DEF RemoveImageFails, At, Step, FrameType
  <2>2. Statuses' = [Statuses EXCEPT ![op.app] = "Error"] /\ op'.pc \notin Appless
    BY <1>1, <1>4, <2>1, SetStatusMoves DEF Appless, Status
  <2> QED  BY <1>0, <1>1, <1>3, <1>4, <1>5, <2>1, <2>2, EdgeFacts, LifeWorks
<1>8. CASE SelectImagesFails
  <2>1. Statuses[op.app] = "Undeployed" /\ ReturnFromRemove(FALSE)
    BY <1>4, <1>8 DEF SelectImagesFails, At
  <2>2. Statuses' = [Statuses EXCEPT ![op.app] = "Error"]
    BY <1>1, <1>8, <2>1, SetStatusMoves DEF SelectImagesFails, Status
  <2> QED  BY <1>1, <1>2, <2>1, <2>2, LifeRemoveReturns
<1>9. CASE ImagesRemain
  <2>1. Statuses[op.app] = "Error" /\ ReturnFromRemove(FALSE) /\ UNCHANGED storeVars
    BY <1>4, <1>9 DEF ImagesRemain, At, Neither
  <2>2. Statuses' = [Statuses EXCEPT ![op.app] = "Error"]
    BY <1>1, <2>1, SameMoves
  <2> QED  BY <1>1, <1>2, <2>1, <2>2, LifeRemoveReturns
<1>10. CASE Forget
  <2>1. Statuses[op.app] = "Undeployed" /\ \E ok \in BOOLEAN : ReturnFromRemove(ok)
    BY <1>4, <1>10 DEF Forget, At
  <2>2. Statuses' = [Statuses EXCEPT ![op.app] = "Unknown"]
    BY <1>1, <1>10, DeleteMoves DEF Forget
  <2> QED  BY <1>1, <1>2, <2>1, <2>2, LifeRemoveReturns
<1> QED  BY <1>6, <1>7, <1>8, <1>9, <1>10 DEF RemoveEdgeApp

LEMMA LifeDelete ==
    ASSUME TypeInv, OwnInv, SInv, DeleteNode
    PROVE  Life!Next \/ UNCHANGED Life!vars
<1>1. op.pc \in Appless /\ UNCHANGED <<containers, networks>> /\ UNCHANGED storeVars
  BY DEF DeleteNode, DeleteBegin, DeleteNext, DeleteLast, SetNodeDeleted, Handling, At, Neither,
         Appless, dockerVars
<1>2. CASE DeleteNext
  <2>1. PICK a \in Apps : IsKnown(a) /\ op'.pc = "undeploy" /\ op'.app = a /\ op'.caller = "DELETE"
    BY <1>2 DEF DeleteNext, Step, Frame
  <2>2. /\ JobCommand(op'.caller) = "REMOVE" /\ "REMOVE" \in Life!Command /\ op'.pc \notin Appless
        /\ Statuses' = [Statuses EXCEPT ![a] = Statuses[a]]
    BY <1>1, <2>1, SameMoves DEF JobCommand, Life!Command, Appless
  <2>3. Statuses[a] \in Life!Status /\ Statuses[a] # "Unknown"
    BY <2>1, StatusesOK, StatusFacts
  <2>4. Statuses[a] \in Life!Permitted("REMOVE")
    BY <2>3 DEF Life!Permitted, Life!Status, Life!Recorded
  <2> QED  BY <1>1, <2>1, <2>2, <2>3, <2>4, LifeBegins
<1>3. CASE ~DeleteNext
  <2>0. op \in FrameType
    BY DEF TypeInv, HandlerOK
  <2>1. op'.pc \in Appless
    BY <1>3, <2>0 DEF DeleteNode, DeleteBegin, DeleteLast, SetNodeDeleted, Step, GoTo, Idle,
                      Frame, Appless, FrameType
  <2>2. LifeJob' = LifeJob /\ UNCHANGED known
    BY <1>1, <2>1 DEF LifeJob, BetweenJobs, Appless, storeVars
  <2> QED  BY <1>1, <2>2, LifeStutters
<1> QED  BY <1>2, <1>3

\* The engine changes one container, which is one app's.
LEMMA LifeEngine ==
    ASSUME TypeInv, OwnInv, Engine
    PROVE  Life!Next
<1>1. PICK c \in containers : (\E s : ContainerTo(c.id, s)) \/ StopAndRemoveContainer(c.id)
  BY DEF Engine, ContainerChanges, ContainerLost
<1>2. PICK a \in Apps : a = c.app
  BY DEF TypeInv, HostOK, Container
<1>3. \A d \in containers : d.id = c.id => d.app = a
  BY <1>2 DEF OwnInv, IdsUnique
<1>4. \A b : b # a => LifeContent(b)' = LifeContent(b)
  <2>1. CASE StopAndRemoveContainer(c.id)
    BY <1>3, <2>1, RemoveContainerOwn
  <2>2. CASE \E s : ContainerTo(c.id, s)
    <3>1. PICK s : ContainerTo(c.id, s)
      BY <2>2
    <3> QED  BY <1>3, <3>1, ContainerToOwn DEF TypeInv
  <2> QED  BY <1>1, <2>1, <2>2
<1>5. LifeContent(a) # <<{}, {}>>
  BY <1>2 DEF LifeContent, ContainersOf
<1>6. UNCHANGED <<known, op>>
  BY DEF Engine, storeVars, handlerVars
<1>7. Life!Drift(a)
  BY <1>4, <1>5, <1>6 DEF Life!Drift, Life!OthersKeepContent, LifeStatus, IsKnown, LifeJob,
     BetweenJobs
<1> QED  BY <1>7 DEF Life!Next

LEMMA LifeCrash ==
    ASSUME TypeInv, FileBehind, Restart
    PROVE  Life!Crash
<1>1. UNCHANGED <<containers, networks>> /\ known' = file /\ LifeJob' = None
  BY DEF Restart, InitKnownManifests, dockerVars, LifeJob, BetweenJobs, Idle, Frame
<1>2. \A a \in Apps : LifeContent(a)' = LifeContent(a) /\ LifeStatus(a)' = FileStatus(a)
  BY <1>1 DEF LifeContent, ContainersOf, NetworksOf, LifeStatus, IsKnown, FileStatus
<1>3. \A a \in Apps : FileStatus(a) \in Life!Status
  BY DEF TypeInv, StoreOK, FileStatus, Record, Status, Life!Status, Life!Recorded
<1> QED  BY <1>1, <1>2, <1>3 DEF Life!Crash, FileBehind, Statuses

LEMMA LifeStep ==
    ASSUME TypeInv, OwnInv, SInv, Callers, FileBehind, [CrashNext]_vars
    PROVE  Life!Next \/ Life!Crash \/ UNCHANGED Life!vars
<1>1. CASE Handler
  BY <1>1, HandlerHost, LifeDeploy, LifeStopResume, LifeUndeploy, LifeRemove, LifeDelete
     DEF Handler
<1>2. CASE Receive \/ Finished \/ LogRead \/ UNCHANGED vars
  <2>1. UNCHANGED <<containers, networks, known, op>>
    BY <1>2 DEF Receive, Finished, LogRead, SetLastLogRead, vars, dockerVars, storeVars,
                handlerVars
  <2> QED  BY <2>1, LifeStutters DEF LifeJob, BetweenJobs
<1> QED  BY <1>1, <1>2, LifeEngine, LifeCrash
         DEF CrashNext, Next, CrashRestart, UpdateManifestPanics

\* Whatever commands arrive, whatever calls fail or half succeed, whatever the engine
\* does to containers and whenever the agent crashes: a command is taken on only in the
\* statuses its guard names, changes the status and the host of its own app only, along
\* its own edges, and ends at its goal or an admitted failure; a crash costs an Initiated
\* app its new record at most (edgeapp.go 18-343, status.go 46-77).
THEOREM ImplementsTheLifecycle == CrashSpec => ImplementsLifecycle
<1>1. Init => Life!Init
  BY DEF Init, Life!Init, LifeStatus, LifeContent, LifeJob, BetweenJobs, IsKnown, ContainersOf,
         NetworksOf, Idle, Frame
<1>2. TypeInv /\ OwnInv /\ SInv /\ Callers /\ FileBehind /\ [CrashNext]_vars
        => [Life!Next \/ Life!Crash]_Life!vars
  BY LifeStep
<1> QED  BY <1>1, <1>2, TypeInvariant, AlwaysOwn, AlwaysSInv, AlwaysCalled, AlwaysBehind, PTL
         DEF CrashSpec, ImplementsLifecycle, Life!CrashSpec
==============================================================================
