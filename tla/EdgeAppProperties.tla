-------------------------- MODULE EdgeAppProperties --------------------------
(***************************************************************************)
(* What the handling of commands promises.  Each property says which runs  *)
(* it is for; "calls succeed" stands for faults = 0.                       *)
(***************************************************************************)
EXTENDS EdgeApp

Container ==
    [id : Nat \ {0}, app : Apps, net : 0 .. MaxNetworkIndex, module : Nat \ {0},
     image : Images, state : ContainerState]

Network == [app : Apps, count : 0 .. MaxNetworkIndex]

FrameType ==
    [pc : Label, caller : Caller, app : Apps \cup {None}, idx : Nat,
     net : 0 .. MaxNetworkIndex, todo : SUBSET Nat, imgs : SUBSET Images,
     failed : BOOLEAN]

Result ==
    [cmd : {"DEPLOY", "STOP", "RESUME", "UNDEPLOY", "REMOVE", "DELETE"},
     app : Apps \cup {None}, man : Manifests \cup {None}, ok : BOOLEAN]

\* The types of all variables of the agent and of the engine it drives
\* (edgeapp.go, status.go, docker/*.go).
TypeOK ==
    /\ containers \subseteq Container
    /\ networks \subseteq Network
    /\ images \subseteq Images
    /\ known \in [Apps -> Record \cup {None}]
    /\ file \in [Apps -> Record \cup {None}]
    /\ op \in FrameType
    /\ msg \in Message \cup {None}
    /\ last \in Result \cup {None}
    /\ nodeStatus \in {"Connected", "Deleted"}
    /\ commands \in Nat /\ faults \in Nat /\ crashes \in Nat

------------------------------------------------------------------------------
(* What is on the host and what is on record                               *)

Empty(a) == ContainersOf(a) = {} /\ NetworksOf(a) = {}

\* An app the agent has forgotten or calls Undeployed has no container and no
\* network left, whatever call failed on the way (UndeployEdgeApp, edgeapp.go
\* 238-262, goes on after errors; RemoveEdgeApp must not forget after one).
InactiveIsEmpty == \A a \in Apps : Inactive(a) => Empty(a)

Redelivered(a) == msg # None /\ msg.cmd = "DEPLOY" /\ msg.app = a

HasSecrets(a) == \E m \in Secretive : m.id = a

\* With crashes the record of a new app may be lost before it is first saved
\* (AddKnownManifest, status.go 46-52): what it left on the host is then owed
\* to the message that is still to be delivered again.  Calls succeed.  An app
\* with secrets is excepted: until the new process has the organization key, Parse
\* refuses the message, which is acknowledged, and nothing owns what is left.
InactiveIsEmptyAfterCrash ==
    faults = 0 => \A a \in Apps :
        Inactive(a) => Empty(a) \/ Redelivered(a) \/ HasSecrets(a)

\* An app that is called Stopped has no running container (StopEdgeApp stops
\* what its list showed, ResumeEdgeApp and a new version give up the status
\* before they start anything), and the saved record is as true as the one in
\* memory.  Containers do not restart by themselves here.
StoppedIsQuiet ==
    \A a \in Apps :
        HasStatus(a, "Stopped") \/ (file[a] # None /\ file[a].status = "Stopped")
            => RunningIn(a) = {}

\* The containers that deploying man makes on one network.
Deployed(man, net) ==
    {[app |-> man.id, net |-> net, module |-> k, image |-> man.modules[k],
      state |-> "running"] : k \in DOMAIN man.modules}

Shape(c) == [app |-> c.app, net |-> c.net, module |-> c.module,
             image |-> c.image, state |-> c.state]

\* A Running app is exactly its manifest: one network, one running container
\* for each module from the module's image, and nothing of an older version,
\* after any sequence of commands (DEPLOY, STOP, RESUME in all their orders).
\* Calls succeed and nothing crashes.
RunningMatchesManifest ==
    faults = 0 => \A a \in Apps : HasStatus(a, "Running") =>
        \E n \in networks :
            /\ NetworksOf(a) = {n}
            /\ {Shape(c) : c \in ContainersOf(a)} = Deployed(known[a].man, n.count)
            /\ Cardinality(ContainersOf(a)) = Len(known[a].man.modules)

\* No two networks have the same count, so names made from it never collide
\* (makeNetworkName, network.go 51-84), and every container is on a network of
\* its own app: pruning one app's networks cannot cut off another's containers.
NetworksDistinct ==
    /\ \A m, n \in networks : m.count = n.count => m = n
    /\ \A n \in networks : n.count \notin ForeignCounts
    /\ \A c \in containers : [app |-> c.app, count |-> c.net] \in networks

\* No image is removed while a container of any app is made from it (the count
\* of containers in edgeapp.go 305-333; two apps may share an image).
ImagesOfContainersPresent == \A c \in containers : c.image \in images

\* Removing an app that is on record takes its images along, but for those a
\* container uses or the new version needs (edgeapp.go 278-339).
RemovalDropsImages ==
    [][\A a \in Apps : IsKnown(a) /\ known'[a] = None =>
            \A i \in GetUsedImages(a) :
                i \in images' => InUse(i)' \/ i \in KeepImages]_vars

\* While an old version is replaced no image of the new one is removed: what
\* is on the host is not pulled again (edgeapp.go 34-39, 287-293).
RedeployKeepsImages ==
    [][op.caller = "redeploy" =>
            images \cap ModuleImages(msg.man) \subseteq images']_vars

------------------------------------------------------------------------------
(* What the status says                                                    *)

\* Between two commands no app is left Executing, and none Initiated when calls
\* succeed: every path through a handler ends by saying what became of the app.
\* Nothing crashes.
Settled ==
    crashes = 0 /\ At("idle") /\ msg = None => \A a \in Apps :
        /\ ~HasStatus(a, "Executing")
        /\ faults = 0 => ~HasStatus(a, "Initiated")

\* When calls succeed no sequence of commands brings an app into Error or makes
\* a deployment roll back (a late rollback deletes the record before it sets
\* Error, edgeapp.go 104-110, so the status alone would not tell): none of the
\* handlers gets in the way of another by a missing image, no containers, or a
\* network that is still there.
NoErrorWithoutFault ==
    faults = 0 =>
        /\ \A a \in Apps : ~HasStatus(a, "Error")
        /\ op.caller \notin {"rollback", "lateRollback"}

\* The file lags behind memory only for an app that is Initiated: every other
\* status was saved with all the records as it was set (status.go 46-77).
UnsavedOnlyInitiated ==
    \A a \in Apps : file[a] # known[a] => HasStatus(a, "Initiated")

\* A container is started only when the modules behind it in the manifest run
\* already, in a deployment and when the app is resumed ("start containers in
\* reverse order to prevent connectivity issues", edgeapp.go 101 and 193).
StartsInReverseOrder ==
    [][\A c \in containers, d \in containers' :
            (c.id = d.id /\ c.state # "running" /\ d.state = "running")
            => \A e \in ContainersOf(c.app) :
                    e.net = c.net /\ e.module > c.module
                    => e.state = "running"]_vars

\* A node that is reported Deleted, right after the command, has no edge app on
\* record and none on the host (node_msg.go 16-26).  Calls succeed.
DeleteIsComplete ==
    faults = 0 /\ last # None /\ last.cmd = "DELETE" =>
        /\ nodeStatus = "Deleted"
        /\ \A a \in Apps : ~IsKnown(a) /\ Empty(a)

------------------------------------------------------------------------------
(* How far a handler is from its end                                       *)

Building == {"add", "image", "network", "create", "start", "deployed"}

\* The parts a handler may still go through: a new version follows the removal
\* of the old one, a rollback follows a deployment, and what ends a rollback or
\* a deletion comes last.
Stage ==
    CASE At("idle") -> IF msg = None THEN 0 ELSE 5
      [] op.pc \in {"lateError", "deleted"} -> 1
      [] op.pc \in Building -> 3
      [] OTHER -> IF op.caller = "redeploy" THEN 4 ELSE 2

AppsLeft == IF op.caller = "DELETE" THEN Cardinality({a \in Apps : IsKnown(a)}) ELSE 0

\* The calls of a part, counted from its end.
CallsLeft ==
    [idle |-> 0, lateError |-> 0, deleted |-> 0, stop |-> 0, resume |-> 0,
     add |-> 4, image |-> 3, network |-> 2, create |-> 1, start |-> 1, deployed |-> 0,
     deleteNext |-> 6, undeploy |-> 5, list |-> 4, removeContainers |-> 3,
     undeployed |-> 2, images |-> 1, removeImages |-> 0]

\* The rounds of a loop that are left.
Rounds ==
    CASE At("image") -> Len(msg.man.modules) - op.idx
      [] At("create") -> 2 * op.idx
      [] At("start") -> 2 * op.idx - 1
      [] OTHER -> Cardinality(op.todo) + Cardinality(op.imgs)

Distance == <<Stage, AppsLeft, CallsLeft[op.pc], Rounds>>

\* Tuples of natural numbers in lexicographic order, which has no infinite descent.
Below(s, t) ==
    /\ {s, t} \subseteq [1 .. 4 -> Nat]
    /\ \E k \in 1 .. 4 : s[k] < t[k] /\ \A j \in 1 .. k - 1 : s[j] = t[j]

\* Whatever calls fail on its way, every step of a handler takes it nearer to its
\* end: no path through deployment, removal and rollback comes back to where it
\* was, and deleting all apps goes on only as long as each of them does go
\* (edgeapp.go 18-343, node_msg.go 16-26).
HandlerGetsOn == [][Handler => Below(Distance', Distance)]_vars

------------------------------------------------------------------------------
(* What the test of the handlers says of a command that returned no error  *)

Succeeded(cmd) == last # None /\ last.ok /\ last.cmd = cmd

AllInState(a, n, s) ==
    /\ Cardinality(ContainersOf(a)) = n
    /\ \A c \in ContainersOf(a) : c.state = s

\* After DEPLOY the app has a network, as many containers as the manifest has
\* modules, and they run (orchestration_msg_test.go 146-169, 279-312).
DeployVerified ==
    Succeeded("DEPLOY") =>
        /\ NetworksOf(last.app) # {}
        /\ AllInState(last.app, Len(last.man.modules), "running")

\* After STOP every container of the app has exited (orchestration_msg_test.go
\* 171-194).
StopVerified ==
    Succeeded("STOP") =>
        \A c \in ContainersOf(last.app) : c.state = "exited"

------------------------------------------------------------------------------
(* Liveness                                                                *)

\* Every message is answered for in the end: its handler returns and it is
\* acknowledged, over any (bounded) number of failing calls and crashes.  So is
\* one at which the agent panics every time (edgeapp.go 85), though late: each
\* delivery leaves one more network, and when there is no number left for the
\* next, the rollback removes them all.
EveryCommandEnds == (msg # None) ~> (msg = None)
==============================================================================
