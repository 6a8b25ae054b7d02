----------------------------- MODULE EdgeAppHost -----------------------------
(***************************************************************************)
(* Proofs about containers and images, over failing calls and crashes: a   *)
(* Stopped app is quiet, images in use and images needed stay while those  *)
(* of a removed app go, and containers are started in the reverse order.   *)
(***************************************************************************)
EXTENDS EdgeAppSafety

\* QuietInv without its last part, which is an invariant of its own.
QuietCore == StoppedIsQuiet /\ IdsUnique /\ WorkCovers

\* No step of these starts a container.
NoneStarts ==
    /\ IdsUnique'
    /\ \A d \in containers' : d.state = "running" =>
            \E c \in containers :
                c.id = d.id /\ c.app = d.app /\ c.state = "running"

\* No app becomes Stopped, in memory or on file.
NoneStops == \A a \in Apps : ~NotStopped(a)' => ~NotStopped(a)

------------------------------------------------------------------------------
(* The host                                                                *)

LEMMA SameStartsNone ==
    ASSUME IdsUnique, UNCHANGED containers
    PROVE  NoneStarts
BY DEF IdsUnique, NoneStarts

LEMMA StopStartsNone ==
    ASSUME HostOK, IdsUnique, NEW id, StopContainer(id)
    PROVE  NoneStarts
<1>1. \A d \in containers' : \E c \in containers :
            /\ c.id = d.id /\ c.app = d.app
            /\ d = IF c.id = id THEN [c EXCEPT !.state = "exited"] ELSE c
  BY DEF HostOK, StopContainer, ContainerTo, Container
<1>2. \A c \in containers : [c EXCEPT !.state = "exited"].state = "exited"
  BY DEF HostOK, Container
<1>3. IdsUnique'
  BY <1>1 DEF IdsUnique
<1> QED
  BY <1>1, <1>2, <1>3 DEF NoneStarts

LEMMA RemoveStartsNone ==
    ASSUME IdsUnique, NEW id, StopAndRemoveContainer(id)
    PROVE  NoneStarts
BY DEF IdsUnique, NoneStarts, StopAndRemoveContainer

LEMMA CreateStartsNone ==
    ASSUME HostOK, IdsUnique, NEW b, NEW net, NEW k, NEW i,
           createContainer(b, net, k, i)
    PROVE  /\ NoneStarts
           /\ \A c \in containers' : c.id = NewContainerId => c.app = b
<1> DEFINE new == [id |-> NewContainerId, app |-> b, net |-> net, module |-> k,
                  image |-> i, state |-> "created"]
<1>1. containers' = containers \cup {new}
  BY DEF createContainer
<1>2. new.id = NewContainerId /\ new.app = b /\ new.state # "running"
  OBVIOUS
<1>3. \A c \in containers : c.id # NewContainerId
  BY NewContainerIdOK DEF HostOK, Container
<1> HIDE DEF new
<1> QED
  BY <1>1, <1>2, <1>3 DEF IdsUnique, NoneStarts

\* Starting a container: any other that runs did so before.
LEMMA StartStartsOne ==
    ASSUME HostOK, IdsUnique, NEW id, StartContainer(id)
    PROVE  /\ IdsUnique'
           /\ \A d \in containers' : \E c \in containers :
                    /\ c.id = d.id /\ c.app = d.app
                    /\ d.state = "running" => c.state = "running" \/ c.id = id
<1>1. \A d \in containers' : \E c \in containers :
            /\ c.id = d.id /\ c.app = d.app
            /\ d = IF c.id = id THEN [c EXCEPT !.state = "running"] ELSE c
  BY DEF HostOK, StartContainer, ContainerTo, Container
<1>2. IdsUnique'
  BY <1>1 DEF IdsUnique
<1> QED
  BY <1>1, <1>2

------------------------------------------------------------------------------
(* The record                                                              *)

LEMMA SameStopsNone ==
    ASSUME UNCHANGED storeVars
    PROVE  NoneStops
BY DEF NoneStops, storeVars, NotStopped, SavedAs, HasStatus, IsKnown

\* An app without a record has none on file.
LEMMA UnknownNotStopped ==
    ASSUME UnsavedOnlyInitiated, NEW a \in Apps, Inactive(a)
    PROVE  NotStopped(a)
<1>1. CASE ~IsKnown(a)
  BY <1>1 DEF UnsavedOnlyInitiated, NotStopped, SavedAs, HasStatus, IsKnown
<1>2. CASE IsKnown(a) /\ known[a].status = "Undeployed"
  BY <1>2 DEF UnsavedOnlyInitiated, NotStopped, SavedAs, HasStatus, IsKnown
<1> QED
  BY <1>1, <1>2 DEF Inactive

LEMMA SetStatusStops ==
    ASSUME StoreOK, UnsavedOnlyInitiated, NEW b, NEW s \in Status, SetStatus(b, s)
    PROVE  /\ \A a \in Apps : a # b \/ s # "Stopped" =>
                    (~NotStopped(a)' => ~NotStopped(a))
           /\ b \in Apps /\ s # "Stopped" => NotStopped(b)'
<1>1. CASE ~IsKnown(b)
  <2>1. UNCHANGED storeVars
    BY <1>1 DEF SetStatus
  <2>2. b \in Apps => NotStopped(b)
    BY <1>1, UnknownNotStopped DEF Inactive
  <2>3. b \in Apps => NotStopped(b)'
    BY <2>1, <2>2 DEF storeVars, NotStopped, SavedAs, HasStatus, IsKnown
  <2> QED
    BY <2>1, <2>3, SameStopsNone DEF NoneStops
<1>2. CASE IsKnown(b)
  <2>1. known' = [known EXCEPT ![b].status = s] /\ file' = known'
    BY <1>2 DEF SetStatus
  <2>2. b \in Apps => known'[b].status = s
    <3>1. b \in Apps => known[b] \in Record
      BY <1>2 DEF StoreOK, IsKnown
    <3>2. b \in Apps => known'[b] = [known[b] EXCEPT !.status = s]
      BY <2>1 DEF StoreOK
    <3> QED
      BY <3>1, <3>2 DEF Record
  <2>3. \A a \in Apps : a # b => known'[a] = known[a]
    BY <2>1 DEF StoreOK
  <2>4. \A a \in Apps : file'[a] = known'[a]
    BY <2>1
  <2>5. \A a \in Apps : ~NotStopped(a)' <=> HasStatus(a, "Stopped")'
    BY <2>4 DEF NotStopped, SavedAs, HasStatus, IsKnown
  <2>6. \A a \in Apps : a # b => (HasStatus(a, "Stopped")' => HasStatus(a, "Stopped"))
    BY <2>3 DEF HasStatus, IsKnown
  <2>7. b \in Apps /\ s # "Stopped" => ~HasStatus(b, "Stopped")'
    BY <2>2 DEF HasStatus
  <2> QED
    BY <2>5, <2>6, <2>7 DEF NotStopped
<1> QED
  BY <1>1, <1>2

LEMMA SetStatusStopsNone ==
    ASSUME StoreOK, UnsavedOnlyInitiated, NEW b,
           NEW s \in Status \ {"Stopped"}, SetStatus(b, s)
    PROVE  NoneStops
BY SetStatusStops DEF NoneStops

LEMMA DeleteStopsNone ==
    ASSUME StoreOK, NEW b, DeleteKnownManifest(b)
    PROVE  NoneStops
<1>1. known' = [known EXCEPT ![b] = None] /\ file' = known'
  BY DEF DeleteKnownManifest
<1>2. \A a \in Apps : known'[a] = None \/ known'[a] = known[a]
  BY <1>1 DEF StoreOK
<1> QED
  BY <1>1, <1>2 DEF NoneStops, NotStopped, SavedAs, HasStatus, IsKnown

\* A new record is not Stopped, and the file stays as it was.
LEMMA AddStopsNone ==
    ASSUME StoreOK, NEW m \in Manifests, AddKnownManifest(m)
    PROVE  NoneStops
<1>1. \A a \in Apps : a # m.id => known'[a] = known[a]
  BY AddEffect
<1>2. \A a \in Apps : a = m.id => HasStatus(a, "Initiated")'
  BY AddEffect
<1>3. file' = file
  BY DEF AddKnownManifest
<1>4. ASSUME NEW a \in Apps, a # m.id, ~NotStopped(a)'
      PROVE  ~NotStopped(a)
  <2>1. known'[a] = known[a]
    BY <1>1, <1>4
  <2> QED
    BY <1>3, <1>4, <2>1 DEF NotStopped, SavedAs, HasStatus, IsKnown
<1>5. ASSUME NEW a \in Apps, a = m.id, ~NotStopped(a)'
      PROVE  ~NotStopped(a)
  <2>1. ~HasStatus(a, "Stopped")'
    BY <1>2, <1>5 DEF HasStatus
  <2> QED
    BY <1>3, <1>5, <2>1 DEF NotStopped, SavedAs
<1> QED
  BY <1>4, <1>5 DEF NoneStops

------------------------------------------------------------------------------
(* Steps that start nothing                                                *)

LEMMA QuietStays ==
    ASSUME StoppedIsQuiet, NoneStarts, NoneStops
    PROVE  StoppedIsQuiet' /\ IdsUnique'
<1>1. ASSUME NEW a \in Apps, ~NotStopped(a)'
      PROVE  RunningIn(a)' = {}
  <2>1. RunningIn(a) = {}
    BY <1>1 DEF NoneStops, StoppedIsQuiet, NotStopped, SavedAs
  <2> QED
    BY <2>1 DEF NoneStarts, RunningIn, ContainersOf
<1> QED
  BY <1>1 DEF NoneStarts, StoppedIsQuiet, NotStopped, SavedAs

\* Where the handler goes on to: a call at which nothing is asked of it, or
\* one that works on the same app as before.
WorkMoves ==
    \/ op'.pc \notin Busy
    \/ /\ op.pc \in Busy /\ op'.app = op.app
       /\ op'.pc \in Busy \ {"start", "resume", "stop"}

LEMMA WorkStays ==
    ASSUME WorkCovers, op.pc \in Busy => op.app \in Apps, NoneStops, WorkMoves
    PROVE  WorkCovers'
<1>1. CASE op'.pc \notin Busy
  BY <1>1 DEF WorkCovers, Busy, Label, At
<1>2. CASE /\ op.pc \in Busy /\ op'.app = op.app
           /\ op'.pc \in Busy \ {"start", "resume", "stop"}
  <2>1. op.app \in Apps /\ NotStopped(op.app)
    BY <1>2 DEF WorkCovers
  <2>2. \A a \in Apps : a = op.app => NotStopped(a)'
    BY <2>1 DEF NoneStops
  <2>3. NotStopped(op.app)'
    BY <1>2, <2>1, <2>2 DEF NotStopped, SavedAs, HasStatus, IsKnown
  <2> QED
    BY <1>2, <2>3 DEF WorkCovers, At
<1> QED
  BY <1>1, <1>2 DEF WorkMoves

LEMMA QuietStep ==
    ASSUME QuietCore, op.pc \in Busy => op.app \in Apps,
           NoneStarts, NoneStops, WorkMoves
    PROVE  QuietCore'
BY QuietStays, WorkStays DEF QuietCore

LEMMA ReturnsMove ==
    ASSUME op \in FrameType, op.pc \in Busy, NEW ok \in BOOLEAN,
           Return(ok) \/ ReturnFromRemove(ok) \/ ReturnFromUndeploy(ok)
    PROVE  WorkMoves
<1>1. Return(ok) \/ Return(FALSE) => WorkMoves
  BY DEF Return, Idle, Frame, WorkMoves, Busy
<1>2. ASSUME NEW label \in {"add", "images", "lateError", "deleteNext", "deleted"},
             GoTo(label)
      PROVE  WorkMoves
  BY <1>2 DEF GoTo, Step, FrameType, WorkMoves, Busy, Label
<1>3. ReturnFromRemove(ok) \/ ReturnFromRemove(FALSE) => WorkMoves
  BY <1>1, <1>2 DEF ReturnFromRemove
<1> QED
  BY <1>1, <1>2, <1>3 DEF ReturnFromUndeploy

------------------------------------------------------------------------------
(* The commands                                                            *)

\* What the proofs about single commands start from.
Context ==
    /\ TypeInv /\ QuietCore /\ UnsavedOnlyInitiated
    /\ HostOK /\ StoreOK /\ HandlerOK /\ op \in FrameType
    /\ op.pc \in Busy => op.app \in Apps

LEMMA GetContext ==
    ASSUME TypeInv, QuietCore, UnsavedOnlyInitiated
    PROVE  Context
<1>1. op.pc \in Busy => op.pc \notin Appless
  BY DEF Busy, Appless
<1> QED
  BY <1>1 DEF Context, TypeInv, HandlerOK, FrameFits

\* A container is started for the app that is being worked on.
LEMMA StartKeepsQuiet ==
    ASSUME Context, op.pc \in {"start", "resume"}, NEW id \in op.todo,
           StartContainer(id), NoneStops
    PROVE  StoppedIsQuiet' /\ IdsUnique'
<1>1. /\ IdsUnique'
      /\ \A d \in containers' : \E c \in containers :
            /\ c.id = d.id /\ c.app = d.app
            /\ d.state = "running" => c.state = "running" \/ c.id = id
  BY StartStartsOne DEF Context, QuietCore
<1>2. /\ NotStopped(op.app) /\ op.app \in Apps
      /\ \A c \in containers : c.id = id => c.app = op.app
  BY DEF Context, QuietCore, WorkCovers, Busy, Label
<1>3. ASSUME NEW a \in Apps, ~NotStopped(a)'
      PROVE  RunningIn(a)' = {}
  <2>1. RunningIn(a) = {} /\ a # op.app
    BY <1>2, <1>3 DEF Context, QuietCore, NoneStops, StoppedIsQuiet, NotStopped,
       SavedAs
  <2> QED
    BY <1>1, <1>2, <2>1 DEF RunningIn, ContainersOf
<1> QED
  BY <1>1, <1>3 DEF StoppedIsQuiet, NotStopped, SavedAs

LEMMA QuietDeploy ==
    ASSUME Context, Deploy
    PROVE  QuietCore'
<1>0. HostOK /\ StoreOK /\ IdsUnique /\ op \in FrameType
  BY DEF Context, QuietCore
<1>1. UNCHANGED containers => NoneStarts
  BY <1>0, SameStartsNone
<1>2. UNCHANGED storeVars => NoneStops
  BY SameStopsNone
<1>3. \A s \in {"Running", "Error"} : SetStatus(op.app, s) => NoneStops
  BY <1>0, SetStatusStopsNone DEF Context, Status
<1>4. NoneStarts /\ NoneStops /\ WorkMoves => QuietCore'
  BY QuietStep DEF Context
<1>5. \A c : Step(Rollback(c)) => WorkMoves
  BY <1>0 DEF Step, Rollback, FrameType, WorkMoves, Busy
<1>6. CASE DeployFresh
  <2>1. NoneStarts /\ NoneStops
    BY <1>1, <1>2, <1>6 DEF DeployFresh, Neither, dockerVars
  <2>2. msg.app \in Apps /\ op'.pc = "add" /\ op'.app = msg.app
    BY <1>6, DispatchOK DEF Context, DeployFresh, Step, Frame
  <2>3. NotStopped(msg.app)
    BY <1>6, <2>2, UnknownNotStopped DEF Context, DeployFresh
  <2>4. NotStopped(op.app)'
    BY <1>6, <2>2, <2>3 DEF DeployFresh, Neither, storeVars, NotStopped, SavedAs,
       HasStatus, IsKnown
  <2>5. WorkCovers'
    BY <2>2, <2>4 DEF WorkCovers, At
  <2> QED
    BY <2>1, <2>5, QuietStays DEF Context, QuietCore
<1>7. CASE DeployNewVersion \/ DeployRejected
  <2>1. WorkMoves
    BY <1>7 DEF DeployNewVersion, DeployRejected, Step, Return, Idle, Frame,
       WorkMoves, Busy
  <2> QED
    BY <1>1, <1>2, <1>4, <1>7, <2>1
       DEF DeployNewVersion, DeployRejected, Neither, dockerVars
<1>8. CASE Add
  <2>1. msg.man \in Manifests
    BY <1>8, DeployContext DEF Context, Add, At, InDeploy
  <2>2. NoneStarts /\ NoneStops
    BY <1>0, <1>1, <1>8, <2>1, AddStopsNone DEF Add, RecordOnly, dockerVars
  <2>3. WorkMoves
    BY <1>0, <1>8 DEF Add, At, Step, FrameType, WorkMoves, Busy, Label
  <2> QED
    BY <1>4, <2>2, <2>3
<1>9. CASE InspectFails \/ DeployDone \/ LateError
  <2>1. WorkMoves
    BY <1>9 DEF InspectFails, DeployDone, LateError, Return, Idle, Frame,
       WorkMoves, Busy
  <2>2. NoneStarts /\ NoneStops
    BY <1>1, <1>2, <1>3, <1>9 DEF InspectFails, DeployDone, LateError,
       RecordOnly, dockerVars
  <2> QED
    BY <1>4, <2>1, <2>2
<1>10. CASE ImagePresent \/ Pull \/ PullErrorUnseen
  <2>1. WorkMoves
    BY <1>0, <1>10 DEF ImagePresent, Pull, PullErrorUnseen, At, Step, NextImage,
       FrameType, WorkMoves, Busy, Label
  <2>2. NoneStarts /\ NoneStops
    BY <1>1, <1>2, <1>10 DEF ImagePresent, Pull, PullErrorUnseen, PullImage,
       Neither, HostOnly, dockerVars
  <2> QED
    BY <1>4, <2>1, <2>2
<1>11. CASE PullFails \/ CreateNetworkFails
  <2>1. NoneStarts /\ NoneStops
    BY <1>1, <1>3, <1>11 DEF PullFails, CreateNetworkFails, Fails, PullImage,
       CreateNetwork, dockerVars
  <2> QED
    BY <1>4, <1>5, <1>11, <2>1 DEF PullFails, CreateNetworkFails
<1>12. CASE CreateAppNetwork
  <2>1. WorkMoves
    BY <1>0, <1>12 DEF CreateAppNetwork, At, Step, FrameType, WorkMoves, Busy, Label
  <2>2. NoneStarts /\ NoneStops
    BY <1>1, <1>2, <1>12 DEF CreateAppNetwork, CreateNetwork, HostOnly
  <2> QED
    BY <1>4, <2>1, <2>2
<1>13. CASE CreateContainer
  <2>1. /\ NoneStarts
        /\ \A c \in containers' : c.id = NewContainerId => c.app = op.app
    BY <1>0, <1>13, CreateStartsNone DEF CreateContainer, CreateModule
  <2>2. /\ op.pc = "create" /\ op'.pc = "start" /\ op'.app = op.app
        /\ op'.todo = {NewContainerId}
    BY <1>0, <1>13 DEF CreateContainer, At, Step, FrameType
  <2>3. UNCHANGED storeVars
    BY <1>13 DEF CreateContainer, HostOnly
  <2>4. NotStopped(op.app)
    BY <2>2 DEF Context, QuietCore, WorkCovers, Busy, Label
  <2>5. NotStopped(op.app)'
    BY <2>2, <2>3, <2>4 DEF storeVars, NotStopped, SavedAs, HasStatus, IsKnown
  <2>6. WorkCovers'
    BY <2>1, <2>2, <2>5 DEF WorkCovers, At
  <2> QED
    BY <1>2, <2>1, <2>3, <2>6, QuietStays DEF Context, QuietCore
<1>14. CASE CreateContainerFails
  <2>1. NoneStarts
    BY <1>0, <1>1, <1>14, CreateStartsNone DEF CreateContainerFails, Fails,
       CreateModule, dockerVars
  <2> QED
    BY <1>2, <1>4, <1>5, <1>14, <2>1 DEF CreateContainerFails
<1>15. CASE StartModule
  <2>1. PICK id \in op.todo : StartContainer(id)
    BY <1>15 DEF StartModule
  <2>2. NoneStops /\ op.pc = "start"
    BY <1>2, <1>15 DEF StartModule, HostOnly, At
  <2>3. StoppedIsQuiet' /\ IdsUnique'
    BY <2>1, <2>2, StartKeepsQuiet
  <2>4. WorkMoves
    BY <1>0, <1>15 DEF StartModule, At, Step, FrameType, WorkMoves, Busy, Label
  <2> QED
    BY <2>2, <2>3, <2>4, WorkStays DEF Context, QuietCore
<1>16. CASE StartModuleFails
  <2>1. PICK id \in op.todo : FailsOn(id, StartContainer(id))
    BY <1>16 DEF StartModuleFails
  <2>2. NoneStops /\ op.pc = "start" /\ WorkMoves
    BY <1>2, <1>5, <1>16 DEF StartModuleFails, At
  <2>3. CASE StartContainer(id)
    <3>1. StoppedIsQuiet' /\ IdsUnique'
      BY <2>2, <2>3, StartKeepsQuiet
    <3> QED
      BY <2>2, <3>1, WorkStays DEF Context, QuietCore
  <2>4. CASE UNCHANGED dockerVars
    BY <1>1, <1>4, <2>2, <2>4 DEF dockerVars
  <2> QED
    BY <2>1, <2>3, <2>4 DEF FailsOn, Fails
<1> QED
  BY <1>6, <1>7, <1>8, <1>9, <1>10, <1>11, <1>12, <1>13, <1>14, <1>15, <1>16
     DEF Deploy

LEMMA QuietStop ==
    ASSUME Context, Stop
    PROVE  QuietCore'
<1>0. HostOK /\ StoreOK /\ IdsUnique /\ op \in FrameType /\ UnsavedOnlyInitiated
  BY DEF Context, QuietCore
<1>1. UNCHANGED containers => NoneStarts
  BY <1>0, SameStartsNone
<1>2. UNCHANGED storeVars => NoneStops
  BY SameStopsNone
<1>3. \A b : SetStatus(b, "Error") => NoneStops
  BY <1>0, SetStatusStopsNone DEF Status
<1>4. NoneStarts /\ NoneStops /\ WorkMoves => QuietCore'
  BY QuietStep DEF Context
<1>5. \A ok : Return(ok) => WorkMoves
  BY DEF Return, Idle, Frame, WorkMoves, Busy
<1>6. CASE StopRefused
  <2>1. NoneStarts /\ NoneStops
    BY <1>1, <1>2, <1>3, <1>6 DEF StopRefused, Neither, RecordOnly, dockerVars
  <2> QED
    BY <1>4, <1>5, <1>6, <2>1 DEF StopRefused
<1>7. CASE StopBegin
  <2>1. /\ msg.app \in Apps /\ op'.pc = "stop" /\ op'.app = msg.app
        /\ op'.todo = Ids(RunningIn(msg.app))
    BY <1>7, DispatchOK DEF Context, StopBegin, Step, Frame
  <2>2. UNCHANGED containers
    BY <1>7 DEF StopBegin, RecordOnly, dockerVars
  <2>3. NoneStops
    BY <1>0, <1>7, SetStatusStopsNone DEF StopBegin, Status
  <2>4. \A a \in Apps : a = msg.app => NotStopped(a)'
    BY <1>0, <1>7, SetStatusStops DEF StopBegin, Status
  <2>5. NotStopped(op.app)'
    BY <2>1, <2>4 DEF NotStopped, SavedAs, HasStatus, IsKnown
  <2>6. Ids(RunningIn(op.app))' = op'.todo
    BY <2>1, <2>2 DEF Ids, RunningIn, ContainersOf
  <2>7. WorkCovers'
    BY <2>1, <2>5, <2>6 DEF WorkCovers, At
  <2> QED
    BY <1>1, <2>2, <2>3, <2>7, QuietStays DEF Context, QuietCore
<1>8. CASE StopNext
  <2>1. PICK id \in op.todo :
            /\ StopContainer(id)
            /\ op' = [op EXCEPT !.todo = @ \ {id}]
    BY <1>8 DEF StopNext, Step
  <2>2. NoneStarts /\ NoneStops
    BY <1>0, <1>2, <1>8, <2>1, StopStartsNone DEF StopNext, HostOnly
  <2>3. /\ op.pc = "stop" /\ op'.pc = "stop" /\ op'.app = op.app
        /\ op'.todo = op.todo \ {id}
    BY <1>0, <1>8, <2>1 DEF StopNext, At, FrameType
  <2>4. NotStopped(op.app) /\ op.app \in Apps
    BY <2>3 DEF Context, QuietCore, WorkCovers, Busy, Label
  <2>5. \A a \in Apps : a = op.app => NotStopped(a)'
    BY <2>2, <2>4 DEF NoneStops
  <2>6. NotStopped(op.app)'
    BY <2>3, <2>4, <2>5 DEF NotStopped, SavedAs, HasStatus, IsKnown
  <2>7. \A d \in containers' : d.state = "running" => d.id # id
    <3>1. \A d \in containers' : \E c \in containers :
                d = IF c.id = id THEN [c EXCEPT !.state = "exited"] ELSE c
      BY <2>1 DEF StopContainer, ContainerTo
    <3>2. \A c \in containers : [c EXCEPT !.state = "exited"].state = "exited"
      BY <1>0 DEF HostOK, Container
    <3> QED
      BY <3>1, <3>2
  <2>8. Ids(RunningIn(op.app)) \subseteq op.todo
    BY <2>3 DEF Context, QuietCore, WorkCovers, At
  <2>9. \A d \in containers' : d.app = op.app /\ d.state = "running" =>
            d.id \in op.todo \ {id}
    BY <2>2, <2>7, <2>8 DEF NoneStarts, Ids, RunningIn, ContainersOf
  <2>10. Ids(RunningIn(op.app))' \subseteq op'.todo
    BY <2>3, <2>9 DEF Ids, RunningIn, ContainersOf
  <2>11. WorkCovers'
    BY <2>3, <2>6, <2>10 DEF WorkCovers, At
  <2> QED
    BY <2>2, <2>11, QuietStays DEF Context, QuietCore
<1>9. CASE StopFails
  <2>1. PICK id \in op.todo : FailsOn(id, StopContainer(id))
    BY <1>9 DEF StopFails
  <2>2. NoneStarts
    BY <1>0, <1>1, <2>1, StopStartsNone DEF FailsOn, Fails, dockerVars
  <2> QED
    BY <1>3, <1>4, <1>5, <1>9, <2>2 DEF StopFails
<1>10. CASE StopDone
  <2>1. op.pc = "stop" /\ op.todo = {} /\ op.app \in Apps
    BY <1>10 DEF Context, StopDone, At, Busy, Label
  <2>2. RunningIn(op.app) = {}
    BY <2>1 DEF Context, QuietCore, WorkCovers, At, Ids
  <2>3. UNCHANGED containers
    BY <1>10 DEF StopDone, RecordOnly, dockerVars
  <2>4. \A a \in Apps : a # op.app => (~NotStopped(a)' => ~NotStopped(a))
    BY <1>0, <1>10, SetStatusStops DEF StopDone, Status
  <2>5. ASSUME NEW a \in Apps, ~NotStopped(a)'
        PROVE  RunningIn(a)' = {}
    <3>1. RunningIn(a) = {}
      BY <2>2, <2>4, <2>5 DEF Context, QuietCore, StoppedIsQuiet, NotStopped,
         SavedAs
    <3> QED
      BY <2>3, <3>1 DEF RunningIn, ContainersOf
  <2>6. StoppedIsQuiet' /\ IdsUnique'
    BY <1>1, <2>3, <2>5 DEF NoneStarts, StoppedIsQuiet, NotStopped, SavedAs
  <2>7. op'.pc \notin Busy
    BY <1>10 DEF StopDone, Return, Idle, Frame, Busy
  <2>8. WorkCovers'
    BY <2>7 DEF WorkCovers, Busy, Label, At
  <2> QED
    BY <2>6, <2>8 DEF QuietCore
<1> QED
  BY <1>6, <1>7, <1>8, <1>9, <1>10 DEF Stop

LEMMA QuietResume ==
    ASSUME Context, Resume
    PROVE  QuietCore'
<1>0. HostOK /\ StoreOK /\ IdsUnique /\ op \in FrameType /\ UnsavedOnlyInitiated
  BY DEF Context, QuietCore
<1>1. UNCHANGED containers => NoneStarts
  BY <1>0, SameStartsNone
<1>2. UNCHANGED storeVars => NoneStops
  BY SameStopsNone
<1>3. \A b, s : s \in {"Running", "Error"} /\ SetStatus(b, s) => NoneStops
  BY <1>0, SetStatusStopsNone DEF Status
<1>4. NoneStarts /\ NoneStops /\ WorkMoves => QuietCore'
  BY QuietStep DEF Context
<1>5. \A ok : Return(ok) => WorkMoves
  BY DEF Return, Idle, Frame, WorkMoves, Busy
<1>6. CASE ResumeRefused \/ ResumeDone
  <2>1. NoneStarts /\ NoneStops /\ WorkMoves
    BY <1>1, <1>2, <1>3, <1>5, <1>6 DEF ResumeRefused, ResumeDone, Neither,
       RecordOnly, dockerVars
  <2> QED
    BY <1>4, <2>1
<1>7. CASE ResumeBegin
  <2>1. /\ msg.app \in Apps /\ op'.pc = "resume" /\ op'.app = msg.app
        /\ op'.todo = Ids(ContainersOf(msg.app) \ RunningIn(msg.app))
    BY <1>7, DispatchOK DEF Context, ResumeBegin, Step, Frame
  <2>2. UNCHANGED containers
    BY <1>7 DEF ResumeBegin, RecordOnly, dockerVars
  <2>3. NoneStops
    BY <1>0, <1>7, SetStatusStopsNone DEF ResumeBegin, Status
  <2>4. \A a \in Apps : a = msg.app => NotStopped(a)'
    BY <1>0, <1>7, SetStatusStops DEF ResumeBegin, Status
  <2>5. NotStopped(op.app)'
    BY <2>1, <2>4 DEF NotStopped, SavedAs, HasStatus, IsKnown
  <2>6. \A c \in containers' : c.id \in op'.todo => c.app = op'.app
    BY <1>0, <2>1, <2>2 DEF IdsUnique, Ids, ContainersOf
  <2>7. WorkCovers'
    BY <2>1, <2>5, <2>6 DEF WorkCovers, At
  <2> QED
    BY <1>1, <2>2, <2>3, <2>7, QuietStays DEF Context, QuietCore
<1>8. CASE ResumeNext
  <2>1. PICK id \in op.todo :
            /\ StartContainer(id)
            /\ op' = [op EXCEPT !.todo = @ \ {id}]
    BY <1>8 DEF ResumeNext, Step
  <2>2. NoneStops /\ op.pc = "resume"
    BY <1>2, <1>8 DEF ResumeNext, HostOnly, At
  <2>3. StoppedIsQuiet' /\ IdsUnique'
    BY <2>1, <2>2, StartKeepsQuiet
  <2>4. op'.pc = "resume" /\ op'.app = op.app /\ op'.todo = op.todo \ {id}
    BY <1>0, <2>1, <2>2 DEF FrameType
  <2>5. /\ NotStopped(op.app) /\ op.app \in Apps
        /\ \A c \in containers : c.id \in op.todo => c.app = op.app
    BY <2>2 DEF Context, QuietCore, WorkCovers, Busy, Label
  <2>6. \A a \in Apps : a = op.app => NotStopped(a)'
    BY <2>2, <2>5 DEF NoneStops
  <2>7. NotStopped(op.app)'
    BY <2>4, <2>5, <2>6 DEF NotStopped, SavedAs, HasStatus, IsKnown
  <2>8. \A d \in containers' : \E c \in containers : c.id = d.id /\ c.app = d.app
    BY <1>0, <2>1, StartStartsOne
  <2>9. \A d \in containers' : d.id \in op'.todo => d.app = op'.app
    BY <2>4, <2>5, <2>8
  <2>10. WorkCovers'
    BY <2>4, <2>7, <2>9 DEF WorkCovers, At
  <2> QED
    BY <2>3, <2>10 DEF QuietCore
<1>9. CASE ResumeFails
  <2>1. PICK id \in op.todo : FailsOn(id, StartContainer(id))
    BY <1>9 DEF ResumeFails
  <2>2. NoneStops /\ op.pc = "resume" /\ WorkMoves
    BY <1>3, <1>5, <1>9 DEF ResumeFails, At
  <2>3. CASE StartContainer(id)
    <3>1. StoppedIsQuiet' /\ IdsUnique'
      BY <2>2, <2>3, StartKeepsQuiet
    <3> QED
      BY <2>2, <3>1, WorkStays DEF Context, QuietCore
  <2>4. CASE UNCHANGED dockerVars
    BY <1>1, <1>4, <2>2, <2>4 DEF dockerVars
  <2> QED
    BY <2>1, <2>3, <2>4 DEF FailsOn, Fails
<1> QED
  BY <1>6, <1>7, <1>8, <1>9 DEF Resume

LEMMA QuietUndeploy ==
    ASSUME Context, UndeployEdgeApp
    PROVE  QuietCore'
<1>0. HostOK /\ StoreOK /\ IdsUnique /\ op \in FrameType /\ UnsavedOnlyInitiated
  BY DEF Context, QuietCore
<1>1. UNCHANGED containers => NoneStarts
  BY <1>0, SameStartsNone
<1>2. UNCHANGED storeVars => NoneStops
  BY SameStopsNone
<1>3. \A b, s : s \in {"Executing", "Undeployed", "Error"} /\ SetStatus(b, s)
        => NoneStops
  BY <1>0, SetStatusStopsNone DEF Status
<1>4. NoneStarts /\ NoneStops /\ WorkMoves => QuietCore'
  BY QuietStep DEF Context
<1>5. CASE UndeployRejected \/ UndeployBegin
  <2>1. WorkMoves
    BY <1>5 DEF UndeployRejected, UndeployBegin, Return, Step, Idle, Frame,
       WorkMoves, Busy
  <2>2. NoneStarts /\ NoneStops
    BY <1>1, <1>2, <1>5 DEF UndeployRejected, UndeployBegin, Neither, dockerVars
  <2> QED
    BY <1>4, <2>1, <2>2
<1>6. CASE Undeploy
  <2>1. op.pc = "undeploy" /\ op'.pc = "list" /\ op'.app = op.app
    BY <1>0, <1>6 DEF Undeploy, At, GoTo, Step, FrameType
  <2>2. op.app \in Apps
    BY <2>1 DEF Context, HandlerOK, FrameFits, Appless
  <2>3. NoneStarts /\ NoneStops
    BY <1>1, <1>3, <1>6 DEF Undeploy, RecordOnly, dockerVars
  <2>4. \A a \in Apps : a = op.app => NotStopped(a)'
    BY <1>0, <1>6, SetStatusStops DEF Undeploy, Status
  <2>5. NotStopped(op.app)'
    BY <2>1, <2>2, <2>4 DEF NotStopped, SavedAs, HasStatus, IsKnown
  <2>6. WorkCovers'
    BY <2>1, <2>5 DEF WorkCovers, At
  <2> QED
    BY <2>3, <2>6, QuietStays DEF Context, QuietCore
<1>7. CASE ListContainers \/ PruneNetworks \/ PruneNetworksFails
  <2>1. WorkMoves
    BY <1>0, <1>7 DEF ListContainers, PruneNetworks, PruneNetworksFails, At,
       GoTo, Step, FrameType, WorkMoves, Busy, Label
  <2>2. NoneStarts /\ NoneStops
    BY <1>1, <1>2, <1>3, <1>7 DEF ListContainers, PruneNetworks,
       PruneNetworksFails, Neither, HostOnly, Fails, NetworkPrune, dockerVars
  <2> QED
    BY <1>4, <2>1, <2>2
<1>8. CASE RemoveContainer \/ RemoveContainerFails
  <2>1. WorkMoves
    BY <1>0, <1>8 DEF RemoveContainer, RemoveContainerFails, At, Step,
       FrameType, WorkMoves, Busy, Label
  <2>2. NoneStops
    BY <1>2, <1>3, <1>8 DEF RemoveContainer, RemoveContainerFails, HostOnly
  <2>3. \A id : StopContainer(id) => NoneStarts
    BY <1>0, StopStartsNone
  <2>4. \A id : StopAndRemoveContainer(id) => NoneStarts
    BY <1>0, RemoveStartsNone
  <2>5. NoneStarts
    BY <1>1, <1>8, <2>3, <2>4 DEF RemoveContainer, RemoveContainerFails,
       FailsOn, Fails, dockerVars
  <2> QED
    BY <1>4, <2>1, <2>2, <2>5
<1>9. CASE ListContainersFails \/ UndeployDone \/ UndeployIncomplete
  <2>1. op.pc \in Busy
    BY <1>9 DEF ListContainersFails, UndeployDone, UndeployIncomplete, At, Busy,
       Label
  <2>2. WorkMoves
    BY <1>0, <1>9, <2>1, ReturnsMove DEF ListContainersFails, UndeployDone,
       UndeployIncomplete
  <2>3. NoneStarts /\ NoneStops
    BY <1>1, <1>2, <1>3, <1>9 DEF ListContainersFails, UndeployDone,
       UndeployIncomplete, Neither, RecordOnly, dockerVars
  <2> QED
    BY <1>4, <2>2, <2>3
<1> QED
  BY <1>5, <1>6, <1>7, <1>8, <1>9 DEF UndeployEdgeApp

LEMMA QuietRemove ==
    ASSUME Context, RemoveEdgeApp
    PROVE  QuietCore'
<1>0. HostOK /\ StoreOK /\ IdsUnique /\ op \in FrameType /\ UnsavedOnlyInitiated
  BY DEF Context, QuietCore
<1>1. NoneStarts
  BY <1>0, SameStartsNone DEF RemoveEdgeApp, SelectImages, SelectImagesFails,
     RemoveImage, RemoveImageFails, ImagesRemain, Forget, Neither, HostOnly,
     Fails, ImageRemove, dockerVars
<1>2. UNCHANGED storeVars => NoneStops
  BY SameStopsNone
<1>3. \A b : SetStatus(b, "Error") => NoneStops
  BY <1>0, SetStatusStopsNone DEF Status
<1>4. \A b : DeleteKnownManifest(b) => NoneStops
  BY <1>0, DeleteStopsNone
<1>5. NoneStops
  BY <1>2, <1>3, <1>4 DEF RemoveEdgeApp, SelectImages, SelectImagesFails,
     RemoveImage, RemoveImageFails, ImagesRemain, Forget, Neither, HostOnly
<1>6. SelectImages \/ RemoveImage \/ RemoveImageFails => WorkMoves
  BY <1>0 DEF SelectImages, RemoveImage, RemoveImageFails, At, Step,
     FrameType, WorkMoves, Busy, Label
<1>7. ASSUME SelectImagesFails \/ ImagesRemain \/ Forget
      PROVE  WorkMoves
  <2>1. op.pc \in Busy
    BY <1>7 DEF SelectImagesFails, ImagesRemain, Forget, At, Busy, Label
  <2> QED
    BY <1>0, <1>7, <2>1, ReturnsMove DEF SelectImagesFails, ImagesRemain, Forget
<1>8. WorkMoves
  BY <1>6, <1>7 DEF RemoveEdgeApp
<1> QED
  BY <1>1, <1>5, <1>8, QuietStep DEF Context

LEMMA QuietDelete ==
    ASSUME Context, DeleteNode
    PROVE  QuietCore'
<1>1. NoneStarts /\ NoneStops
  BY SameStartsNone, SameStopsNone DEF Context, QuietCore, DeleteNode,
     DeleteBegin, DeleteNext, DeleteLast, SetNodeDeleted, Neither, dockerVars
<1>2. WorkMoves
  BY DEF Context, DeleteNode, DeleteBegin, DeleteNext, DeleteLast,
     SetNodeDeleted, GoTo, Step, Idle, Frame, FrameType, WorkMoves, Busy
<1> QED
  BY <1>1, <1>2, QuietStep DEF Context

------------------------------------------------------------------------------
(* Crashes, and the theorem                                                *)

\* What is on file is in memory after a restart, and was not Stopped before.
LEMMA QuietCrash ==
    ASSUME Context, Restart
    PROVE  QuietCore'
<1>1. NoneStarts
  BY SameStartsNone DEF Context, QuietCore, Restart, dockerVars
<1>2. NoneStops
  BY DEF Restart, InitKnownManifests, NoneStops, NotStopped, SavedAs,
     HasStatus, IsKnown
<1>3. WorkMoves
  BY DEF Restart, Idle, Frame, WorkMoves, Busy
<1> QED
  BY <1>1, <1>2, <1>3, QuietStep DEF Context

LEMMA QuietLogRead ==
    ASSUME Context, LogRead
    PROVE  QuietCore'
<1>1. NoneStops
  BY DEF LogRead, SetLastLogRead, NoneStops, NotStopped, SavedAs, HasStatus,
     IsKnown
<1>2. /\ UNCHANGED <<containers, op>>
      /\ NoneStarts
  BY SameStartsNone DEF Context, QuietCore, LogRead, dockerVars, handlerVars
<1>3. StoppedIsQuiet' /\ IdsUnique'
  BY <1>1, <1>2, QuietStays DEF Context, QuietCore
<1>4. op.pc \in Busy => NotStopped(op.app)'
  <2>1. \A a \in Apps : a = op.app /\ NotStopped(a) => NotStopped(a)'
    BY <1>1 DEF NoneStops
  <2> QED
    BY <1>2, <2>1 DEF Context, QuietCore, WorkCovers, NotStopped, SavedAs,
       HasStatus, IsKnown
<1>5. WorkCovers'
  BY <1>2, <1>4 DEF Context, QuietCore, WorkCovers, At, Ids, RunningIn,
     ContainersOf
<1> QED
  BY <1>3, <1>5 DEF QuietCore

LEMMA QuietNext ==
    ASSUME Unstable = {}, TypeInv, QuietCore, UnsavedOnlyInitiated,
           [CrashNext]_vars
    PROVE  QuietCore'
<1>0. Context
  BY GetContext
<1>1. CASE Receive
  <2>1. NoneStarts /\ NoneStops /\ op' = op /\ op.pc = "idle"
    BY <1>0, <1>1, SameStartsNone, SameStopsNone DEF Context, QuietCore,
       Receive, At, dockerVars
  <2>2. WorkMoves
    BY <2>1 DEF WorkMoves, Busy
  <2> QED
    BY <1>0, <2>1, <2>2, QuietStep DEF Context
<1>2. CASE Finished \/ UNCHANGED vars
  BY <1>2 DEF Finished, vars, dockerVars, storeVars, handlerVars, QuietCore,
     StoppedIsQuiet, IdsUnique, WorkCovers, NotStopped, SavedAs, HasStatus,
     IsKnown, At, Ids, RunningIn, ContainersOf
<1>3. ~Engine
  BY DEF Engine, ContainerChanges, ContainerLost
<1>4. CASE Handler
  BY <1>0, <1>4, QuietDeploy, QuietStop, QuietResume, QuietUndeploy,
     QuietRemove, QuietDelete DEF Handler
<1>5. CASE LogRead
  BY <1>0, <1>5, QuietLogRead
<1>6. CASE Restart
  BY <1>0, <1>6, QuietCrash
<1> QED
  BY <1>1, <1>2, <1>3, <1>4, <1>5, <1>6 DEF CrashNext, Next, CrashRestart, UpdateManifestPanics

\* As long as containers do not restart by themselves, an app that the agent
\* calls Stopped, in memory or on file, has no running container: whatever
\* commands arrive, whatever calls fail or half succeed, and wherever the agent
\* crashes (edgeapp.go 121-222; status.go 46-77).
THEOREM StoppedStaysQuiet ==
    ASSUME Unstable = {}
    PROVE  CrashSpec => []StoppedIsQuiet
<1>1. Init => QuietCore
  BY EdgeAppAssumption DEF Init, QuietCore, StoppedIsQuiet, IdsUnique,
     WorkCovers, RunningIn, ContainersOf, At, Idle, Frame, Busy
<1>2. TypeInv /\ UnsavedOnlyInitiated /\ QuietCore /\ [CrashNext]_vars => QuietCore'
  BY QuietNext
<1>3. QuietCore => StoppedIsQuiet
  BY DEF QuietCore
<1> QED
  BY <1>1, <1>2, <1>3, TypeInvariant, FileLagsOnlyWhenInitiated, PTL
     DEF CrashSpec

------------------------------------------------------------------------------
(* Images                                                                  *)

\* What a step of a handler does to the images of the host.
ImageEffect ==
    \/ images' = images
    \/ At("image") /\ PullImage(ModuleImage)
    \/ /\ At("removeImages") /\ \E i \in op.imgs : ImageRemove(i)
       /\ RemoveImage \/ RemoveImageFails

LEMMA HandlerImages ==
    ASSUME Handler
    PROVE  ImageEffect
<1> USE DEF ImageEffect
<1>1. Deploy => ImageEffect
  BY DEF Deploy, DeployFresh, DeployNewVersion, DeployRejected, Add, InspectFails,
         ImagePresent, Pull, PullErrorUnseen, PullFails, CreateAppNetwork,
         CreateNetworkFails, CreateContainer, CreateContainerFails, CreateModule, StartModule,
         StartModuleFails, DeployDone, LateError, Neither, RecordOnly, Fails, FailsOn,
         StartContainer, ContainerTo, CreateNetwork, createContainer, dockerVars
<1>2. Stop \/ Resume => ImageEffect
  BY DEF Stop, StopRefused, StopBegin, StopNext, StopFails, StopDone, Resume,
         ResumeRefused, ResumeBegin, ResumeNext, ResumeFails, ResumeDone, Neither,
         RecordOnly, Fails, FailsOn, StartContainer, StopContainer, ContainerTo, dockerVars
<1>3. UndeployEdgeApp => ImageEffect
  BY DEF UndeployEdgeApp, UndeployRejected, UndeployBegin, Undeploy, ListContainers,
         ListContainersFails, RemoveContainer, RemoveContainerFails, PruneNetworks,
         PruneNetworksFails, UndeployDone, UndeployIncomplete, Neither, RecordOnly,
         Fails, FailsOn, StopContainer, ContainerTo, StopAndRemoveContainer, NetworkPrune,
         dockerVars
<1>4. RemoveEdgeApp \/ DeleteNode => ImageEffect
  BY DEF RemoveEdgeApp, SelectImages, SelectImagesFails, RemoveImage, RemoveImageFails,
         ImagesRemain, Forget, DeleteNode, DeleteBegin, DeleteNext, DeleteLast,
         SetNodeDeleted, Neither, Fails, dockerVars
<1> QED  BY <1>1, <1>2, <1>3, <1>4 DEF Handler

\* Every container was there before, made from the same image.
SameImages == \A d \in containers' : \E c \in containers : d.id = c.id /\ d.image = c.image

LEMMA ContainerToImages ==
    ASSUME HostOK, NEW id, NEW s, ContainerTo(id, s)
    PROVE  /\ SameImages
           /\ \A c \in containers : \E d \in containers' : d.id = c.id /\ d.image = c.image
<1>1. \A c \in containers : [c EXCEPT !.state = s].id = c.id /\ [c EXCEPT !.state = s].image = c.image
  BY DEF HostOK, Container
<1> QED  BY <1>1 DEF ContainerTo, SameImages

\* The calls after which the list of images to remove is looked at.
LEMMA ToRemoveImages ==
    ASSUME op \in FrameType, Handler, op'.pc = "removeImages"
    PROVE  SelectImages \/ RemoveImage \/ RemoveImageFails
<1>a. \A ok : ~Return(ok)
  BY DEF Return, Idle, Frame
<1>b. \A label, caller, a : Step(Frame(label, caller, a)) => label = "removeImages"
  BY DEF Step, Frame
<1>c. \A label : GoTo(label) => label = "removeImages"
  BY DEF GoTo, Step, FrameType
<1>1. \A ok : ~ReturnFromRemove(ok)
  BY <1>a, <1>c DEF ReturnFromRemove
<1>2. \A ok : ~ReturnFromUndeploy(ok)
  BY <1>a, <1>c, <1>1 DEF ReturnFromUndeploy
<1>3. ~Deploy
  <2>1. ~(DeployFresh \/ DeployNewVersion \/ DeployRejected \/ Add \/ InspectFails
          \/ DeployDone \/ LateError)
    BY <1>a, <1>b DEF DeployFresh, DeployNewVersion, DeployRejected, Add, InspectFails,
                      DeployDone, LateError, Step, FrameType
  <2>2. ~(ImagePresent \/ Pull \/ PullErrorUnseen)
    BY DEF ImagePresent, Pull, PullErrorUnseen, Step, NextImage, At, FrameType
  <2>3. ~(CreateAppNetwork \/ CreateContainer \/ StartModule)
    BY DEF CreateAppNetwork, CreateContainer, StartModule, Step, FrameType
  <2>4. ~(PullFails \/ CreateNetworkFails \/ CreateContainerFails \/ StartModuleFails)
    BY DEF PullFails, CreateNetworkFails, CreateContainerFails, StartModuleFails, Step,
           Rollback, FrameType
  <2> QED  BY <2>1, <2>2, <2>3, <2>4 DEF Deploy
<1>4. ~(Stop \/ Resume)
  BY DEF Stop, StopRefused, StopBegin, StopNext, StopFails, StopDone, Resume, ResumeRefused,
         ResumeBegin, ResumeNext, ResumeFails, ResumeDone, At, Return, Step, Idle, Frame, FrameType
<1>5. ~UndeployEdgeApp
  <2>1. ~(UndeployRejected \/ UndeployBegin \/ Undeploy \/ PruneNetworks)
    BY <1>a, <1>b, <1>c DEF UndeployRejected, UndeployBegin, Undeploy, PruneNetworks
  <2>2. ~(ListContainers \/ RemoveContainer \/ RemoveContainerFails \/ PruneNetworksFails)
    BY DEF ListContainers, RemoveContainer, RemoveContainerFails, PruneNetworksFails, At, Step,
           FrameType
  <2> QED  BY <1>2, <2>1, <2>2 DEF UndeployEdgeApp, ListContainersFails, UndeployDone, UndeployIncomplete
<1>6. ~DeleteNode
  BY DEF DeleteNode, DeleteBegin, DeleteNext, DeleteLast, SetNodeDeleted, GoTo, Step, Idle,
         Frame, FrameType
<1> QED  BY <1>1, <1>3, <1>4, <1>5, <1>6
         DEF Handler, RemoveEdgeApp, SelectImagesFails, ImagesRemain, Forget

\* No image in use is removed, and no container is made without its image.
LEMMA HandlerKeepsImages ==
    ASSUME TypeInv, ImageInv, Handler
    PROVE  ImagesOfContainersPresent'
<1>0. HostOK
  BY DEF TypeInv
<1>1. HostEffect /\ ImageEffect
  BY HandlerHost, HandlerImages
<1>2. CASE UNCHANGED <<containers, networks>>
  BY <1>1, <1>2 DEF ImageEffect, PullImage, ImageRemove, ImageInv, ImageWork,
                    ImagesOfContainersPresent, InUse
<1>3. CASE LoopEffect
  <2>1. PICK id : (\E s : ContainerTo(id, s)) \/ StopAndRemoveContainer(id)
    BY <1>3 DEF LoopEffect
  <2>2. images' = images
    BY <2>1 DEF StopAndRemoveContainer, ContainerTo
  <2>3. CASE StopAndRemoveContainer(id)
    BY <2>2, <2>3 DEF StopAndRemoveContainer, ImageInv, ImagesOfContainersPresent
  <2>4. CASE \E s : ContainerTo(id, s)
    BY <1>0, <2>2, <2>4, ContainerToImages DEF SameImages, ImageInv, ImagesOfContainersPresent
  <2> QED  BY <2>1, <2>3, <2>4
<1>4. CASE PruneEffect \/ NetworkEffect
  BY <1>4 DEF PruneEffect, NetworkPrune, NetworkEffect, CreateNetwork, ImageInv,
              ImagesOfContainersPresent
<1>5. CASE ContainerEffect
  BY <1>5 DEF ContainerEffect, CreateModule, createContainer, ImageInv, ImagesOfContainersPresent
<1> QED  BY <1>1, <1>2, <1>3, <1>4, <1>5 DEF HostEffect

LEMMA HandlerKeepsImageWork ==
    ASSUME TypeInv, ImageInv, Handler
    PROVE  ImageWork'
<1> SUFFICES ASSUME op'.pc = "removeImages"
             PROVE  ImageWork'
  BY DEF ImageWork, At
<1>0. op \in FrameType
  BY DEF TypeInv, HandlerOK
<1>1. CASE SelectImages
  <2>1. /\ op'.imgs = {i \in RemoveImageNames \cap images : ~InUse(i)}
        /\ op'.app = op.app /\ op'.caller = op.caller
        /\ UNCHANGED <<dockerVars, storeVars, msg>>
    BY <1>0, <1>1 DEF SelectImages, Step, Neither, FrameType
  <2> QED  BY <2>1 DEF ImageWork, At, RemoveImageNames, KeepImages, GetUsedImages, InUse,
                       dockerVars, storeVars
<1>2. CASE RemoveImage \/ RemoveImageFails
  <2>1. PICK i \in op.imgs :
            /\ op'.imgs = op.imgs \ {i} /\ op'.failed \in {op.failed, TRUE}
            /\ containers' = containers /\ images' \in {images, images \ {i}}
            /\ ~op'.failed => images' = images \ {i} /\ known' = known
    BY <1>0, <1>2 DEF RemoveImage, RemoveImageFails, Step, Fails, ImageRemove, HostOnly,
                      dockerVars, storeVars, FrameType
  <2>2. op.pc = "removeImages" /\ op'.app = op.app /\ op'.caller = op.caller /\ msg' = msg
    BY <1>0, <1>2 DEF RemoveImage, RemoveImageFails, At, Step, FrameType
  <2> QED  BY <2>1, <2>2 DEF ImageInv, ImageWork, At, KeepImages, GetUsedImages, InUse
<1> QED  BY <1>0, <1>1, <1>2, ToRemoveImages

LEMMA ImageStep ==
    ASSUME TypeInv, OwnInv, ImageInv, [CrashNext]_vars
    PROVE  ImageInv'
<1>1. CASE Handler
  BY <1>1, HandlerKeepsImages, HandlerKeepsImageWork DEF ImageInv
<1>2. CASE Engine
  <2>1. UNCHANGED <<op, msg, known>> /\ images' = images
    BY <1>2 DEF Engine, handlerVars, storeVars, ContainerChanges, ContainerLost, ContainerTo,
                StopAndRemoveContainer
  <2>2. SameImages
    BY <1>2, ContainerToImages
       DEF Engine, ContainerChanges, ContainerLost, StopAndRemoveContainer, SameImages, TypeInv
  <2>3. \A i : i \notin Unstable /\ InUse(i) => InUse(i)'
    <3>1. CASE ContainerLost
      <4>1. PICK c \in containers : c.image \in Unstable /\ StopAndRemoveContainer(c.id)
        BY <3>1 DEF ContainerLost
      <4>2. \A d \in containers : d.id = c.id => d.image \in Unstable
        BY <4>1 DEF OwnInv, IdsUnique
      <4> QED  BY <4>1, <4>2 DEF StopAndRemoveContainer, InUse
    <3>2. CASE ContainerChanges
      BY <3>2, ContainerToImages DEF ContainerChanges, TypeInv, InUse
    <3> QED  BY <1>2, <3>1, <3>2 DEF Engine
  <2> QED  BY <2>1, <2>2, <2>3 DEF SameImages, ImageInv, ImagesOfContainersPresent, ImageWork, At,
                                   KeepImages, GetUsedImages, InUse
<1>3. CASE Restart
  BY <1>3 DEF Restart, dockerVars, Idle, Frame, ImageInv, ImagesOfContainersPresent, ImageWork,
              At
<1>4. CASE Receive \/ Finished \/ LogRead \/ UNCHANGED vars
  <2>1. UNCHANGED <<dockerVars, known, op>> /\ (msg' = msg \/ op.pc = "idle")
    BY <1>4 DEF Receive, Finished, LogRead, SetLastLogRead, vars, storeVars, handlerVars, At
  <2> QED  BY <2>1 DEF dockerVars, ImageInv, ImagesOfContainersPresent, ImageWork, At, KeepImages,
                       GetUsedImages, InUse
<1> QED  BY <1>1, <1>2, <1>3, <1>4 DEF CrashNext, Next, CrashRestart, UpdateManifestPanics

LEMMA AlwaysImages == CrashSpec => []ImageInv
<1>1. Init => ImageInv
  BY DEF Init, ImageInv, ImagesOfContainersPresent, ImageWork, At, Idle, Frame
<1>2. TypeInv /\ OwnInv /\ ImageInv /\ [CrashNext]_vars => ImageInv'
  BY ImageStep
<1> QED  BY <1>1, <1>2, TypeInvariant, AlwaysOwn, PTL DEF CrashSpec

\* No image is removed while a container of any app is made from it, whatever apps
\* share it, whatever calls fail and whenever the agent crashes (edgeapp.go 305-333).
THEOREM UsedImagesStay == CrashSpec => []ImagesOfContainersPresent
BY AlwaysImages, PTL DEF ImageInv

\* While an old version is replaced no image of the new one is removed, for any two
\* versions, failing calls and crashes included (edgeapp.go 34-39, 287-293).
THEOREM NewImagesStay == CrashSpec => RedeployKeepsImages
<1>1. ASSUME ImageInv, [CrashNext]_vars, op.caller = "redeploy"
      PROVE  images \cap ModuleImages(msg.man) \subseteq images'
  <2>1. CASE Handler
    <3>1. CASE At("removeImages") /\ \E i \in op.imgs : ImageRemove(i)
      BY <1>1, <3>1 DEF ImageInv, ImageWork, ImageRemove, KeepImages
    <3> QED  BY <2>1, <3>1, HandlerImages DEF ImageEffect, PullImage
  <2>2. images' = images \/ Handler
    BY <1>1
             DEF CrashNext, Next, CrashRestart, UpdateManifestPanics,
                 Receive, Engine, ContainerChanges, ContainerLost, ContainerTo,
                StopAndRemoveContainer, Finished, LogRead, Restart, vars, dockerVars
  <2> QED  BY <2>1, <2>2
<1>2. ImageInv /\ [CrashNext]_vars =>
        [op.caller = "redeploy" => images \cap ModuleImages(msg.man) \subseteq images']_vars
  BY <1>1
<1> QED  BY <1>2, AlwaysImages, PTL DEF CrashSpec, RedeployKeepsImages

\* What a step of a handler does to the record, call by call.
RecordEffect ==
    \/ UNCHANGED storeVars
    \/ \E b \in {op.app, msg.app} : \E s \in Status \ {"Undeployed"} : SetStatus(b, s)
    \/ Add \/ UndeployDone \/ Forget

LEMMA HandlerRecord ==
    ASSUME Handler
    PROVE  RecordEffect
<1> USE DEF RecordEffect
<1>0. {"Initiated", "Running", "Stopped", "Error", "Executing"} = Status \ {"Undeployed"}
  BY DEF Status
<1>1. Deploy => RecordEffect
  BY <1>0 DEF Deploy, DeployFresh, DeployNewVersion, DeployRejected, InspectFails, ImagePresent,
         Pull, PullErrorUnseen, PullFails, CreateAppNetwork, CreateNetworkFails, CreateContainer,
         CreateContainerFails, StartModule, StartModuleFails, DeployDone, LateError, Neither,
         HostOnly
<1>2. Stop \/ Resume => RecordEffect
  BY <1>0 DEF Stop, StopRefused, StopBegin, StopNext, StopFails, StopDone, Resume, ResumeRefused,
         ResumeBegin, ResumeNext, ResumeFails, ResumeDone, Neither, HostOnly
<1>3. UndeployEdgeApp => RecordEffect
  BY <1>0 DEF UndeployEdgeApp, UndeployRejected, UndeployBegin, Undeploy, ListContainers,
         ListContainersFails, RemoveContainer, RemoveContainerFails, PruneNetworks,
         PruneNetworksFails, UndeployDone, UndeployIncomplete, Neither, HostOnly
<1>4. RemoveEdgeApp \/ DeleteNode => RecordEffect
  BY <1>0 DEF RemoveEdgeApp, SelectImages, SelectImagesFails, RemoveImage, RemoveImageFails,
         ImagesRemain, DeleteNode, DeleteBegin, DeleteNext, DeleteLast, SetNodeDeleted, Neither,
         HostOnly
<1> QED  BY <1>1, <1>2, <1>3, <1>4 DEF Handler

\* A record that is given a status stays on record.
LEMMA SetStatusKnows ==
    ASSUME StoreOK, NEW b, NEW s \in Status, SetStatus(b, s), NEW a \in Apps, IsKnown(a)
    PROVE  known'[a] # None /\ known'[a].man = known[a].man
<1>1. CASE ~IsKnown(b)
  BY <1>1 DEF SetStatus, storeVars, IsKnown
<1>2. CASE IsKnown(b) /\ a # b
  BY <1>2 DEF SetStatus, StoreOK, IsKnown
<1>3. CASE IsKnown(b) /\ a = b
  <2>1. known[a] \in Record /\ known'[a] = [known[a] EXCEPT !.status = s]
    BY <1>3 DEF SetStatus, StoreOK, IsKnown
  <2>2. known'[a] \in Record /\ known'[a].man = known[a].man
    BY <2>1 DEF Record
  <2> QED  BY <2>2, EdgeAppAssumption
<1> QED  BY <1>1, <1>2, <1>3

\* Only the end of RemoveEdgeApp takes an app off the record.
LEMMA ForgetOnly ==
    ASSUME TypeInv, [Next]_vars, NEW a \in Apps, IsKnown(a), known'[a] = None
    PROVE  Forget /\ a = op.app
<1>1. StoreOK /\ known' # known
  BY DEF TypeInv, IsKnown
<1>2. Handler
  BY <1>1 DEF Next, Receive, Engine, Finished, vars, storeVars
<1>3. ~Add
  <2> SUFFICES ASSUME Add
               PROVE  FALSE
    OBVIOUS
  <2>1. msg.man \in Manifests /\ AddKnownManifest(msg.man)
    BY DeployContext DEF Add, At, InDeploy, TypeInv
  <2> QED  BY <1>1, <2>1, AddEffect DEF HasStatus, IsKnown
<1>4. Forget
  <2>1. "Undeployed" \in Status
    BY DEF Status
  <2> QED  BY <1>1, <1>2, <1>3, <2>1, HandlerRecord, SetStatusKnows
           DEF RecordEffect, UndeployDone, storeVars
<1> QED  BY <1>1, <1>4 DEF Forget, DeleteKnownManifest, StoreOK, IsKnown

\* As long as containers do not get lost by themselves, an app that is taken off the
\* record takes its images along, but for those that a container uses or that the new
\* version needs; the agent does not crash (edgeapp.go 278-339).
THEOREM RemovalTakesImages ==
    ASSUME Unstable = {}
    PROVE  Spec => RemovalDropsImages
<1>1. ASSUME TypeInv, ImageInv, [Next]_vars, NEW a \in Apps, IsKnown(a), known'[a] = None,
             NEW i \in GetUsedImages(a), i \in images'
      PROVE  InUse(i)' \/ i \in KeepImages
  <2>1. Forget /\ a = op.app
    BY <1>1, ForgetOnly
  <2>2. op.pc = "removeImages" /\ op.imgs = {} /\ ~op.failed /\ UNCHANGED dockerVars
    BY <2>1 DEF Forget, At
  <2>3. InUse(i) \/ i \in KeepImages
    BY <1>1, <2>1, <2>2 DEF ImageInv, ImageWork, At, dockerVars
  <2> QED  BY <2>2, <2>3 DEF InUse, dockerVars
<1>2. TypeInv /\ ImageInv /\ [Next]_vars =>
        [\A a \in Apps : IsKnown(a) /\ known'[a] = None =>
            \A i \in GetUsedImages(a) : i \in images' => InUse(i)' \/ i \in KeepImages]_vars
  BY <1>1
<1> QED  BY <1>2, AlwaysImages, TypeInvariant, SpecImpliesCrashSpec, PTL
         DEF Spec, RemovalDropsImages

------------------------------------------------------------------------------
(* The order of starts                                                     *)

\* The steps of a handler that change containers, and how.
StartEffect ==
    /\ At("start") \/ At("resume")
    /\ \E id \in op.todo :
        ContainerTo(id, "running") /\ (At("resume") => IsOldest(id, op.todo))

EndEffect ==
    \E id \in op.todo : ContainerTo(id, "exited") \/ StopAndRemoveContainer(id)

ContainersEffect ==
    \/ containers' = containers
    \/ StartEffect \/ EndEffect \/ ContainerEffect

LEMMA HandlerContainers ==
    ASSUME Handler
    PROVE  ContainersEffect
<1> USE DEF ContainersEffect
<1>1. Deploy => ContainersEffect
  BY DEF Deploy, DeployFresh, DeployNewVersion, DeployRejected, Add, InspectFails,
         ImagePresent, Pull, PullErrorUnseen, PullFails, CreateAppNetwork,
         CreateNetworkFails, CreateNetwork, CreateContainer, CreateContainerFails, StartModule,
         StartModuleFails, DeployDone, LateError, Neither, RecordOnly, Fails, FailsOn,
         PullImage, StartContainer, dockerVars, At, StartEffect, ContainerEffect
<1>2. Stop => ContainersEffect
  BY DEF Stop, StopRefused, StopBegin, StopNext, StopFails, StopDone, Neither, RecordOnly, Fails,
         FailsOn, StopContainer, dockerVars, EndEffect
<1>3. Resume => ContainersEffect
  BY DEF Resume, ResumeRefused, ResumeBegin, ResumeNext, ResumeFails, ResumeDone, Neither,
         RecordOnly, Fails, FailsOn, StartContainer, dockerVars, At, StartEffect
<1>4. UndeployEdgeApp => ContainersEffect
  BY DEF UndeployEdgeApp, UndeployRejected, UndeployBegin, Undeploy, ListContainers,
         ListContainersFails, RemoveContainer, RemoveContainerFails, PruneNetworks,
         PruneNetworksFails, NetworkPrune, UndeployDone, UndeployIncomplete, Neither, RecordOnly,
         Fails, FailsOn, StopContainer, dockerVars, EndEffect
<1>5. RemoveEdgeApp \/ DeleteNode => ContainersEffect
  BY DEF RemoveEdgeApp, SelectImages, SelectImagesFails, RemoveImage, RemoveImageFails,
         ImagesRemain, Forget, DeleteNode, DeleteBegin, DeleteNext, DeleteLast,
         SetNodeDeleted, Neither, Fails, ImageRemove, dockerVars
<1> QED  BY <1>1, <1>2, <1>3, <1>4, <1>5 DEF Handler

\* What ContainerTo leaves of every container.
LEMMA ContainerToFacts ==
    ASSUME HostOK, NEW id, NEW s, ContainerTo(id, s)
    PROVE  \A d \in containers' : \E c \in containers :
                /\ d.id = c.id /\ d.app = c.app /\ d.net = c.net /\ d.module = c.module
                /\ d.state = IF c.id = id THEN s ELSE c.state
<1> SUFFICES ASSUME NEW d \in containers'
             PROVE  \E c \in containers :
                        /\ d.id = c.id /\ d.app = c.app /\ d.net = c.net /\ d.module = c.module
                        /\ d.state = IF c.id = id THEN s ELSE c.state
  OBVIOUS
<1>1. CASE d \in containers /\ d.id # id
  BY <1>1 DEF ContainerTo
<1>2. CASE \E c \in containers : c.id = id /\ d = [c EXCEPT !.state = s]
  <2>1. PICK c \in containers : c.id = id /\ d = [c EXCEPT !.state = s]
    BY <1>2
  <2>2. d.id = c.id /\ d.app = c.app /\ d.net = c.net /\ d.module = c.module /\ d.state = s
    BY <2>1 DEF HostOK, Container
  <2> QED  BY <2>1, <2>2
<1> QED  BY <1>1, <1>2 DEF ContainerTo

\* Every container was there before, in its place.
SamePlaces ==
    \A d \in containers' : \E c \in containers :
        d.id = c.id /\ d.net = c.net /\ d.module = c.module

LEMMA PlacesKeepOrder ==
    ASSUME MadeInOrder, SamePlaces
    PROVE  MadeInOrder'
BY DEF MadeInOrder, SamePlaces

\* The calls that StartWork is about, and the steps that lead to them.
LEMMA ToStarts ==
    ASSUME op \in FrameType, Handler, op'.pc \in {"create", "start", "resume"}
    PROVE  CreateAppNetwork \/ CreateContainer \/ StartModule \/ ResumeBegin \/ ResumeNext
<1> DEFINE elsewhere == {"add", "lateError", "deleteNext", "deleted", "images", "list",
                         "undeployed", "undeploy"}
<1>a. \A ok : ~Return(ok)
  BY DEF Return, Idle, Frame
<1>b. \A label \in elsewhere : \A caller, a : ~Step(Frame(label, caller, a))
  BY DEF Step, Frame
<1>c. \A label \in elsewhere : ~GoTo(label)
  BY DEF GoTo, Step, FrameType
<1>d. /\ ~GoTo("add") /\ ~GoTo("lateError") /\ ~GoTo("deleteNext") /\ ~GoTo("deleted")
      /\ ~GoTo("images") /\ ~GoTo("list") /\ ~GoTo("undeployed")
  BY <1>c
<1>e. \A caller, a : ~Step(Frame("add", caller, a)) /\ ~Step(Frame("undeploy", caller, a))
                    /\ ~Step(Frame("deleteNext", caller, a))
  BY <1>b
<1> HIDE DEF elsewhere
<1>1. \A ok : ~ReturnFromRemove(ok)
  <2> SUFFICES ASSUME NEW ok, ReturnFromRemove(ok) PROVE FALSE
    OBVIOUS
  <2>2. ~GoTo(IF ok THEN "deleteNext" ELSE "deleted")
    BY <1>d
  <2> QED  BY <1>a, <1>d, <2>2 DEF ReturnFromRemove
<1>2. \A ok : ~ReturnFromUndeploy(ok)
  BY <1>a, <1>d, <1>1 DEF ReturnFromUndeploy
<1>3. CASE Deploy
  <2>1. ~(DeployFresh \/ DeployNewVersion \/ DeployRejected \/ Add \/ InspectFails
          \/ DeployDone \/ LateError)
    BY <1>a, <1>e DEF DeployFresh, DeployNewVersion, DeployRejected, Add, InspectFails,
                      DeployDone, LateError, Step, FrameType
  <2>2. ~(ImagePresent \/ Pull \/ PullErrorUnseen)
    BY DEF ImagePresent, Pull, PullErrorUnseen, Step, NextImage, At, FrameType
  <2>3. ~(PullFails \/ CreateNetworkFails \/ CreateContainerFails \/ StartModuleFails)
    BY DEF PullFails, CreateNetworkFails, CreateContainerFails, StartModuleFails, Step,
           Rollback, FrameType
  <2> QED  BY <1>3, <2>1, <2>2, <2>3 DEF Deploy
<1>4. CASE Stop
  <2>1. ~(StopBegin \/ StopNext)
    BY DEF StopBegin, StopNext, At, Step, Frame, FrameType
  <2> QED  BY <1>4, <1>a, <2>1 DEF Stop, StopRefused, StopFails, StopDone
<1>5. CASE Resume
  BY <1>5, <1>a DEF Resume, ResumeRefused, ResumeFails, ResumeDone
<1>6. CASE UndeployEdgeApp
  <2>1. ~(UndeployRejected \/ UndeployBegin \/ Undeploy \/ PruneNetworks)
    BY <1>a, <1>d, <1>e DEF UndeployRejected, UndeployBegin, Undeploy, PruneNetworks
  <2>2. ~(ListContainers \/ RemoveContainer \/ RemoveContainerFails \/ PruneNetworksFails)
    BY DEF ListContainers, RemoveContainer, RemoveContainerFails, PruneNetworksFails, At, Step,
           FrameType
  <2> QED  BY <1>2, <1>6, <2>1, <2>2
           DEF UndeployEdgeApp, ListContainersFails, UndeployDone, UndeployIncomplete
<1>7. CASE RemoveEdgeApp
  <2>1. ~(SelectImages \/ RemoveImage \/ RemoveImageFails)
    BY DEF SelectImages, RemoveImage, RemoveImageFails, At, Step, FrameType
  <2> QED  BY <1>1, <1>7, <2>1 DEF RemoveEdgeApp, SelectImagesFails, ImagesRemain, Forget
<1>8. CASE DeleteNode
  <2>1. ~SetNodeDeleted
    BY DEF SetNodeDeleted, Idle, Frame
  <2> QED  BY <1>8, <1>d, <1>e, <2>1 DEF DeleteNode, DeleteBegin, DeleteNext, DeleteLast
<1> QED  BY <1>3, <1>4, <1>5, <1>6, <1>7, <1>8 DEF Handler

LEMMA OrderHandler ==
    ASSUME TypeInv, OwnInv, OrderInv, Handler
    PROVE  OrderInv'
<1>0. op \in FrameType /\ HostOK /\ NetworksDistinct /\ IdsUnique /\ MadeInOrder /\ StartWork
  BY DEF TypeInv, HandlerOK, OwnInv, OrderInv
<1>1. MadeInOrder'
  <2>1. CASE containers' = containers
    BY <1>0, <2>1 DEF MadeInOrder
  <2>2. CASE StartEffect \/ EndEffect
    <3>1. PICK id : (\E s : ContainerTo(id, s)) \/ StopAndRemoveContainer(id)
      BY <2>2 DEF StartEffect, EndEffect
    <3>2. SamePlaces
      <4>1. CASE StopAndRemoveContainer(id)
        BY <4>1 DEF StopAndRemoveContainer, SamePlaces
      <4>2. CASE \E s : ContainerTo(id, s)
        BY <1>0, <4>2, ContainerToFacts DEF SamePlaces
      <4> QED  BY <3>1, <4>1, <4>2
    <3> QED  BY <1>0, <3>2, PlacesKeepOrder
  <2>3. CASE ContainerEffect
    <3> DEFINE new == [id |-> NewContainerId, app |-> op.app, net |-> op.net, module |-> op.idx,
                       image |-> ModuleImage, state |-> "created"]
    <3>1. containers' = containers \cup {new} /\ op.pc = "create"
      BY <2>3 DEF ContainerEffect, CreateModule, createContainer
    <3>2. new.id = NewContainerId /\ new.net = op.net /\ new.module = op.idx
      OBVIOUS
    <3>3. \A c \in containers : c.id < NewContainerId /\ c.id \in Nat
      BY <1>0, NewContainerIdOK DEF HostOK, Container
    <3>4. \A c \in containers : c.net = op.net => op.idx < c.module
      BY <1>0, <3>1 DEF StartWork, At
    <3>5. NewContainerId \in Nat
      BY <1>0, NewContainerIdOK
    <3> HIDE DEF new
    <3> QED  BY <1>0, <3>1, <3>2, <3>3, <3>4, <3>5 DEF MadeInOrder
  <2> QED  BY <2>1, <2>2, <2>3, HandlerContainers DEF ContainersEffect
<1>2. StartWork'
  <2> SUFFICES ASSUME op'.pc \in {"create", "start", "resume"}
               PROVE  StartWork'
    BY DEF StartWork, At
  <2>1. CASE CreateAppNetwork
    <3>1. op'.pc = "create" /\ op'.net = NewCount /\ containers' = containers /\ NewCount >= 0
      BY <1>0, <2>1 DEF CreateAppNetwork, CreateNetwork, Step, FrameType
    <3>2. \A c \in containers : c.net # NewCount
      BY <1>0, <3>1, NewCountOK DEF NetworksDistinct
    <3> QED  BY <3>1, <3>2 DEF StartWork, At
  <2>2. CASE CreateContainer
    <3> DEFINE new == [id |-> NewContainerId, app |-> op.app, net |-> op.net, module |-> op.idx,
                       image |-> ModuleImage, state |-> "created"]
    <3>1. containers' = containers \cup {new} /\ op.pc = "create"
      BY <2>2 DEF CreateContainer, At, CreateModule, createContainer
    <3>2. new.id = NewContainerId /\ new.net = op.net /\ new.module = op.idx
      OBVIOUS
    <3>3. \A c \in containers : c.id # NewContainerId
      BY <1>0, NewContainerIdOK DEF HostOK, Container
    <3>4. \A c \in containers : c.net = op.net => op.idx < c.module /\ c.state = "running"
      BY <1>0, <3>1 DEF StartWork, At
    <3>5. op'.pc = "start" /\ op'.net = op.net /\ op'.idx = op.idx /\ op'.todo = {NewContainerId}
      BY <1>0, <2>2 DEF CreateContainer, Step, FrameType
    <3> HIDE DEF new
    <3> QED  BY <3>1, <3>2, <3>3, <3>4, <3>5 DEF StartWork, At
  <2>3. CASE StartModule
    <3>1. PICK id \in op.todo : ContainerTo(id, "running")
      BY <2>3 DEF StartModule, StartContainer
    <3>2. /\ op.pc = "start" /\ op.idx \in Nat
          /\ \/ op'.pc = "create" /\ op'.net = op.net /\ op'.idx = op.idx - 1
             \/ op'.pc = "deployed"
      BY <1>0, <2>3 DEF StartModule, At, Step, FrameType
    <3>3. op.todo = {id}
      BY <1>0, <3>1, <3>2 DEF StartWork, At
    <3>4. \A d \in containers' : d.net = op.net =>
                op.idx <= d.module /\ d.module \in Nat /\ d.state = "running"
      <4>1. \A c \in containers : c.module \in Nat
        BY <1>0 DEF HostOK, Container
      <4>2. \A c \in containers : c.net = op.net => op.idx <= c.module
        BY <1>0, <3>2, <4>1 DEF StartWork, At
      <4>3. \A c \in containers : c.net = op.net => c.id = id \/ c.state = "running"
        BY <1>0, <3>2, <3>3 DEF StartWork, At
      <4> QED  BY <1>0, <3>1, <4>1, <4>2, <4>3, ContainerToFacts
    <3>5. \A d \in containers' : d.net = op.net => op.idx - 1 < d.module /\ d.state = "running"
      BY <3>2, <3>4
    <3> QED  BY <3>2, <3>5 DEF StartWork, At
  <2>4. CASE ResumeBegin
    <3>1. /\ op'.pc = "resume" /\ op'.app = msg.app /\ containers' = containers
          /\ op'.todo = Ids(ContainersOf(msg.app) \ RunningIn(msg.app))
      BY <2>4 DEF ResumeBegin, Step, Frame, RecordOnly, dockerVars
    <3> QED  BY <3>1 DEF StartWork, At, Ids, ContainersOf, RunningIn
  <2>5. CASE ResumeNext
    <3>1. PICK id \in op.todo : ContainerTo(id, "running") /\ op'.todo = op.todo \ {id}
      BY <1>0, <2>5 DEF ResumeNext, StartContainer, Step, FrameType
    <3>2. op'.pc = "resume" /\ op.pc = "resume" /\ op'.app = op.app
      BY <1>0, <2>5 DEF ResumeNext, At, Step, FrameType
    <3>3. \A c \in containers : c.app = op.app /\ c.id \notin op.todo => c.state = "running"
      BY <1>0, <3>2 DEF StartWork, At, ContainersOf
    <3>4. \A d \in containers' : d.app = op.app /\ d.id \notin op'.todo => d.state = "running"
      BY <1>0, <3>1, <3>3, ContainerToFacts
    <3> QED  BY <3>2, <3>4 DEF StartWork, At, ContainersOf
  <2> QED  BY <1>0, <2>1, <2>2, <2>3, <2>4, <2>5, ToStarts
<1> QED  BY <1>1, <1>2 DEF OrderInv

\* Containers that do not stop by themselves are touched by handlers only.
LEMMA OrderStep ==
    ASSUME Unstable = {}, TypeInv, OwnInv, OrderInv, [CrashNext]_vars
    PROVE  OrderInv'
<1> USE DEF OrderInv
<1>1. CASE Handler
  BY <1>1, OrderHandler
<1>2. ~Engine
  BY DEF Engine, ContainerChanges, ContainerLost
<1>3. CASE Receive \/ LogRead \/ Finished \/ UNCHANGED vars
  <2>1. containers' = containers /\ op' = op
    BY <1>3 DEF Receive, LogRead, Finished, vars, handlerVars, dockerVars
  <2> QED  BY <2>1 DEF MadeInOrder, StartWork, At, ContainersOf
<1>4. CASE Restart
  <2>1. containers' = containers /\ op'.pc = "idle"
    BY <1>4 DEF Restart, dockerVars, Idle, Frame
  <2> QED  BY <2>1 DEF MadeInOrder, StartWork, At
<1> QED  BY <1>1, <1>2, <1>3, <1>4 DEF CrashNext, Next, CrashRestart, UpdateManifestPanics

LEMMA AlwaysOrder ==
    ASSUME Unstable = {}
    PROVE  CrashSpec => []OrderInv
<1>1. Init => OrderInv
  BY DEF Init, OrderInv, MadeInOrder, StartWork, At, Idle, Frame
<1>2. TypeInv /\ OwnInv /\ OrderInv /\ [CrashNext]_vars => OrderInv'
  BY OrderStep
<1> QED  BY <1>1, <1>2, TypeInvariant, AlwaysOwn, PTL DEF CrashSpec

\* One step of a handler starts a container in its turn.
LEMMA StartsInTurn ==
    ASSUME TypeInv, OwnInv, OrderInv, Handler,
           NEW c \in containers, NEW d \in containers', NEW e \in containers,
           c.id = d.id, c.state # "running", d.state = "running",
           e.app = c.app, e.net = c.net, e.module > c.module
    PROVE  e.state = "running"
<1>0. op \in FrameType /\ HostOK /\ IdsUnique /\ MadeInOrder /\ StartWork
  BY DEF TypeInv, HandlerOK, OwnInv, OrderInv
<1>1. c \in Container /\ e \in Container
  BY <1>0 DEF HostOK
<1>2. c.module \in Nat /\ e.module \in Nat /\ c.id \in Nat /\ e.id \in Nat
  BY <1>1 DEF Container
<1>3. CASE containers' = containers
  BY <1>0, <1>3 DEF IdsUnique
<1>4. CASE StartEffect
  <2>1. PICK id \in op.todo : ContainerTo(id, "running") /\ (At("resume") => IsOldest(id, op.todo))
    BY <1>4 DEF StartEffect
  <2>2. c.id = id
    <3>1. PICK b \in containers : d.id = b.id /\ d.state = IF b.id = id THEN "running" ELSE b.state
      BY <1>0, <2>1, ContainerToFacts
    <3> QED  BY <1>0, <3>1 DEF IdsUnique
  <2>3. CASE At("start")
    <3>1. op.todo = {id} /\ c.net = op.net /\ c.module = op.idx
      BY <1>0, <2>1, <2>2, <2>3 DEF StartWork
    <3>2. e.id # id
      BY <1>0, <1>2, <2>2, <3>1 DEF IdsUnique
    <3> QED  BY <1>0, <2>3, <3>1, <3>2 DEF StartWork
  <2>4. CASE At("resume")
    <3>1. e.id < c.id
      BY <1>0, <1>2 DEF MadeInOrder, IdsUnique
    <3>2. e.id \notin op.todo
      BY <1>2, <2>1, <2>2, <2>4, <3>1 DEF IsOldest
    <3>3. c.app = op.app
      BY <1>0, <2>1, <2>2, <2>4 DEF OwnInv, OwnWork, At
    <3> QED  BY <1>0, <2>4, <3>2, <3>3 DEF StartWork, ContainersOf
  <2> QED  BY <1>4, <2>3, <2>4 DEF StartEffect
<1>5. CASE EndEffect
  <2>1. PICK id \in op.todo : ContainerTo(id, "exited") \/ StopAndRemoveContainer(id)
    BY <1>5 DEF EndEffect
  <2>2. CASE StopAndRemoveContainer(id)
    BY <1>0, <2>2 DEF StopAndRemoveContainer, IdsUnique
  <2>3. CASE ContainerTo(id, "exited")
    <3>1. PICK b \in containers : d.id = b.id /\ d.state = IF b.id = id THEN "exited" ELSE b.state
      BY <1>0, <2>3, ContainerToFacts
    <3> QED  BY <1>0, <3>1 DEF IdsUnique
  <2> QED  BY <2>1, <2>2, <2>3
<1>6. CASE ContainerEffect
  <2> DEFINE new == [id |-> NewContainerId, app |-> op.app, net |-> op.net, module |-> op.idx,
                     image |-> ModuleImage, state |-> "created"]
  <2>1. containers' = containers \cup {new} /\ new.state = "created"
    BY <1>6 DEF ContainerEffect, CreateModule, createContainer
  <2> HIDE DEF new
  <2> QED  BY <1>0, <2>1 DEF IdsUnique
<1> QED  BY <1>3, <1>4, <1>5, <1>6, HandlerContainers DEF ContainersEffect

\* Where containers do not stop by themselves, every container is started after
\* all those behind it in the manifest, when the app is deployed and when it is
\* resumed, whatever fails and wherever the agent crashes ("start containers in
\* reverse order", edgeapp.go 101 and 193).
THEOREM StartsInOrder ==
    ASSUME Unstable = {}
    PROVE  CrashSpec => StartsInReverseOrder
<1>1. ASSUME TypeInv, OwnInv, OrderInv, [CrashNext]_vars
      PROVE  \A c \in containers, d \in containers' :
              (c.id = d.id /\ c.state # "running" /\ d.state = "running")
              => \A e \in ContainersOf(c.app) :
                      e.net = c.net /\ e.module > c.module => e.state = "running"
  <2>1. CASE Handler
    BY <1>1, <2>1, StartsInTurn DEF ContainersOf
  <2>2. CASE containers' = containers
    BY <1>1, <2>2 DEF OwnInv, IdsUnique
  <2>3. ~Engine
    BY DEF Engine, ContainerChanges, ContainerLost
  <2>4. Receive \/ LogRead \/ Restart \/ Finished \/ UNCHANGED vars => containers' = containers
    BY DEF Receive, LogRead, Restart, Finished, vars, dockerVars
  <2> QED  BY <1>1, <2>1, <2>2, <2>3, <2>4 DEF CrashNext, Next, CrashRestart, UpdateManifestPanics
<1>2. TypeInv /\ OwnInv /\ OrderInv /\ [CrashNext]_vars =>
        [\A c \in containers, d \in containers' :
            (c.id = d.id /\ c.state # "running" /\ d.state = "running")
            => \A e \in ContainersOf(c.app) :
                    e.net = c.net /\ e.module > c.module => e.state = "running"]_vars
  BY <1>1
<1> QED  BY <1>2, TypeInvariant, AlwaysOwn, AlwaysOrder, PTL DEF CrashSpec, StartsInReverseOrder
==============================================================================
