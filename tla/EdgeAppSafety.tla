---------------------------- MODULE EdgeAppSafety ----------------------------
(***************************************************************************)
(* Type correctness of EdgeApp and its first safety theorems, with crashes *)
(* and without, for every set of apps, images and manifests and every      *)
(* bound.                                                                  *)
(*                                                                         *)
(* TypeOK is not inductive: an image is looked up as modules[idx] of the   *)
(* message's manifest, so the handler's frame must agree with the message  *)
(* it works on (FrameFits), and a new container gets a number above all    *)
(* others, so the numbers in use must be bounded (IdsBounded).  The        *)
(* invariants that make the properties inductive come first.               *)
(***************************************************************************)
EXTENDS EdgeAppProperties, WellFoundedInduction, TLAPS

------------------------------------------------------------------------------
(* The inductive invariants behind the properties of EdgeApp: what a       *)
(* handler has done and has still to do at each of its calls               *)

\* UndeployEdgeApp: while no call has failed, every container the app has is
\* still on the list (edgeapp.go 238-246), and after the list nothing is left.
RemovalCovers ==
    /\ At("removeContainers") /\ ~op.failed => Ids(ContainersOf(op.app)) \subseteq op.todo
    /\ At("undeployed") /\ ~op.failed => Empty(op.app)
    /\ op.pc \in {"images", "removeImages"} => Empty(op.app)

\* DeployEdgeApp: before anything is made for an app the app is on record, and
\* its containers are put on the network made for it (edgeapp.go 45, 85, 104).
RecordFirst ==
    /\ op.pc \in {"image", "network", "create", "start", "deployed"} =>
            ~Inactive(op.app)
    /\ op.pc \in {"create", "start"} =>
            [app |-> op.app, count |-> op.net] \in networks

\* InactiveIsEmpty with what makes it inductive (without crashes): networks are
\* told apart, removal covers all there is, and the record comes first.
EmptyInv ==
    InactiveIsEmpty /\ NetworksDistinct /\ RemovalCovers /\ RecordFirst

------------------------------------------------------------------------------
IdsUnique == \A c, d \in containers : c.id = d.id => c = d

SavedAs(a, s) == file[a] # None /\ file[a].status = s
NotStopped(a) == ~HasStatus(a, "Stopped") /\ ~SavedAs(a, "Stopped")

\* The calls during which a handler may start or has yet to stop containers.
Busy == Label \ {"idle", "undeploy", "lateError", "deleteNext", "deleted"}

\* An app being worked on is not Stopped, in memory or on file; a handler starts
\* containers of its own app only; StopEdgeApp still has every running one on
\* its list (edgeapp.go 143-162).
WorkCovers ==
    /\ op.pc \in Busy => NotStopped(op.app)
    /\ op.pc \in {"start", "resume"} =>
            \A c \in containers : c.id \in op.todo => c.app = op.app
    /\ At("stop") => Ids(RunningIn(op.app)) \subseteq op.todo

\* StoppedIsQuiet with what makes it inductive, crashes included: containers
\* have numbers of their own, handlers cover their work, and a file that lags
\* behind does so for an Initiated app only.
QuietInv ==
    StoppedIsQuiet /\ IdsUnique /\ WorkCovers /\ UnsavedOnlyInitiated

------------------------------------------------------------------------------
\* A handler touches the host for its own app only: the network it puts
\* containers on is the app's, and so is all that its list holds (edgeapp.go
\* 85-112, 150, 190, 244).
OwnWork ==
    /\ op.pc \in {"create", "start"} =>
            [app |-> op.app, count |-> op.net] \in networks
    /\ op.pc \in {"start", "stop", "resume", "removeContainers"} =>
            \A c \in containers : c.id \in op.todo => c.app = op.app

\* What makes NetworksDistinct inductive when the agent may crash, too.
OwnInv == NetworksDistinct /\ IdsUnique /\ RemovalCovers /\ OwnWork

------------------------------------------------------------------------------
\* RemoveEdgeApp has on its list what no container uses and the new version does
\* not need, and, while no call has failed, all the app's images that are left
\* otherwise (edgeapp.go 287-339).  Containers of Unstable images may get lost
\* meanwhile, and their images with nobody to use them.
ImageWork ==
    At("removeImages") =>
        /\ \A i \in op.imgs : ~InUse(i) /\ i \notin KeepImages
        /\ ~op.failed => \A i \in (GetUsedImages(op.app) \cap images) \ Unstable :
                            InUse(i) \/ i \in KeepImages \/ i \in op.imgs

\* ImagesOfContainersPresent with what makes it inductive, crashes included.
ImageInv == ImagesOfContainersPresent /\ ImageWork

------------------------------------------------------------------------------
\* On one network containers are made from the last module to the first.
MadeInOrder ==
    \A c, d \in containers : c.net = d.net /\ c.id < d.id => d.module < c.module

\* The modules behind the one that is made next run, and so do all containers of
\* an app being resumed that are not on the list (edgeapp.go 101-117, 190-211).
StartWork ==
    /\ At("create") =>
        \A c \in containers : c.net = op.net => op.idx < c.module /\ c.state = "running"
    /\ At("start") =>
        /\ \A c \in containers : c.net = op.net /\ c.id \notin op.todo =>
                op.idx < c.module /\ c.state = "running"
        /\ \A c \in containers : c.id \in op.todo => c.net = op.net /\ c.module = op.idx
        /\ \E id \in op.todo : op.todo = {id}
    /\ At("resume") =>
        \A c \in ContainersOf(op.app) : c.id \notin op.todo => c.state = "running"

\* What StartsInReverseOrder follows from, crashes included, when containers do
\* not stop by themselves.
OrderInv == MadeInOrder /\ StartWork

------------------------------------------------------------------------------
(* While calls succeed and containers do not change by themselves           *)

\* No call finds what it works on missing: containers on a list exist, and the
\* images of the manifest are on the host before the network is made.
Smooth == faults = 0 =>
    /\ ~op.failed /\ op.caller # "lateRollback"
    /\ op.pc \in {"start", "stop", "resume", "removeContainers"} =>
            op.todo \subseteq Ids(containers)
    /\ At("image") => \A k \in 1 .. op.idx - 1 : msg.man.modules[k] \in images
    /\ op.pc \in {"network", "create", "start"} => ModuleImages(msg.man) \subseteq images

\* One network for a, and one container on it for each module of man from k on.
BuiltFrom(a, man, k, net) ==
    /\ NetworksOf(a) = {[app |-> a, count |-> net]}
    /\ \A c \in ContainersOf(a) :
            /\ c.net = net /\ c.module \in k .. Len(man.modules)
            /\ c.image = man.modules[c.module]
    /\ \A j \in k .. Len(man.modules) : \E c \in ContainersOf(a) : c.module = j
    /\ \A c, d \in ContainersOf(a) : c.module = d.module => c = d

\* A record is kept under the ID of its manifest.
KeyedById == \A a \in Apps : IsKnown(a) => known[a].man.id = a

IsWhole(a) == \E net \in 0 .. MaxNetworkIndex : BuiltFrom(a, known[a].man, 1, net)

\* An app that is settled has what its manifest says, and so has one that is
\* being stopped or resumed; one that is being made has what has been made.
WholeInv == faults = 0 =>
    /\ \A a \in Apps : HasStatus(a, "Running") \/ HasStatus(a, "Stopped") => IsWhole(a)
    /\ \A a \in Apps : HasStatus(a, "Running") => RunningIn(a) = ContainersOf(a)
    /\ At("add") => Inactive(op.app)
    /\ op.pc \in {"image", "network", "create", "start", "deployed"} =>
            known[op.app].man = msg.man
    /\ op.pc \in {"image", "network"} => Empty(op.app)
    /\ At("create") => BuiltFrom(op.app, msg.man, op.idx + 1, op.net)
    /\ At("start") => BuiltFrom(op.app, msg.man, op.idx, op.net)
    /\ op.pc \in {"deployed", "stop", "resume"} => IsWhole(op.app)
    /\ At("deployed") => RunningIn(op.app) = ContainersOf(op.app)

\* DeleteNode goes on until no app is on record (node_msg.go 16-26), and what a
\* handler returned is told of as long as no message has come in since.
DeleteInv ==
    /\ last # None => msg = None
    /\ ~At("idle") => (op.caller = "DELETE" <=> msg.cmd = "DELETE")
    /\ op.pc \in {"deleteNext", "deleted"} => op.caller = "DELETE"
    /\ At("deleted") /\ faults = 0 => \A a \in Apps : ~IsKnown(a)
    /\ last # None /\ last.cmd = "DELETE" /\ faults = 0 =>
            nodeStatus = "Deleted" /\ \A a \in Apps : ~IsKnown(a)

\* There is a number for the network of every app, beside those the networks of
\* others bear (makeNetworkName, network.go 51-84).
Room ==
    /\ IsFiniteSet(Apps)
    /\ Cardinality(Apps) + Cardinality(ForeignCounts \cap (0 .. MaxNetworkIndex))
            <= MaxNetworkIndex + 1

\* NoErrorWithoutFault with what makes it inductive: no app has two networks.
ErrorInv ==
    /\ NoErrorWithoutFault
    /\ faults = 0 => \A m, n \in networks : m.app = n.app => m = n

------------------------------------------------------------------------------
(* When the agent may crash and calls succeed                               *)

\* The message of a DEPLOY is handled by DeployEdgeApp and what it calls, and by
\* nothing else, and no other message is (orchestration_msg.go, edgeapp.go 18-129).
Taken ==
    /\ ~At("idle") =>
        (msg.cmd = "DEPLOY" <=> op.caller \in {"DEPLOY", "redeploy", "rollback", "lateRollback"})
    /\ op.pc \in {"deleteNext", "deleted"} => op.caller = "DELETE"

\* InactiveIsEmptyAfterCrash with what makes it inductive: a late rollback that
\* has removed the record has removed everything, and the file lacks no record
\* but the one that the message under way will bring again.
OwedInv ==
    /\ InactiveIsEmptyAfterCrash
    /\ faults = 0 /\ At("lateError") /\ Inactive(op.app) => Empty(op.app)
    /\ faults = 0 => \A a \in Apps : file[a] # known[a] =>
            /\ op.pc \in {"image", "network", "create", "start", "deployed", "undeploy"}
            /\ op.app = a /\ Redelivered(a)

------------------------------------------------------------------------------
(* The numbers of networks                                                 *)

LEMMA WellOrdering ==
    ASSUME NEW T \in SUBSET Nat, T # {}
    PROVE  \E m \in T : \A n \in T : m <= n
<1>1. PICK m \in T : \A n \in T : <<n, m>> \notin OpToRel(<, Nat)
  BY NatLessThanWellFounded, WFMin
<1>2. \A n \in T : ~(n < m)
  BY <1>1 DEF OpToRel
<1> QED
  BY <1>2

\* A set of integers that is bounded above has a largest element.
LEMMA MaxOfBounded ==
    ASSUME NEW S \in SUBSET Int, S # {},
           \E b \in Int : \A x \in S : x <= b
    PROVE  Max(S) \in S /\ \A x \in S : x <= Max(S)
<1> PICK b \in Int : \A x \in S : x <= b
  OBVIOUS
<1> DEFINE T == {b - x : x \in S}
<1>1. T \in SUBSET Nat /\ T # {}
  <2>1. \A x \in S : b - x \in Nat
    OBVIOUS
  <2> QED
    BY <2>1
<1>2. PICK t \in T : \A u \in T : t <= u
  BY <1>1, WellOrdering
<1>3. PICK m \in S : t = b - m
  BY <1>2
<1>4. ASSUME NEW x \in S PROVE m >= x
  <2>1. b - x \in T
    OBVIOUS
  <2>2. b - m <= b - x
    BY <1>2, <1>3, <2>1
  <2> QED
    BY <2>2
<1> HIDE DEF T
<1>5. \E x \in S : \A y \in S : x >= y
  BY <1>4
<1> QED
  BY <1>5 DEF Max

\* A set of integers that is bounded below has a smallest element.
LEMMA MinOfBounded ==
    ASSUME NEW S \in SUBSET Nat, S # {}
    PROVE  Min(S) \in S /\ \A x \in S : Min(S) <= x
<1>1. \E m \in S : \A x \in S : m <= x
  BY WellOrdering
<1> QED
  BY <1>1 DEF Min

LEMMA CountRange ==
    ASSUME NEW counts \in SUBSET (-MaxNetworkIndex .. MaxNetworkIndex)
    PROVE  /\ getLastCreatedNetworkCount(counts) \in 0 .. MaxNetworkIndex
           /\ \A c \in counts : c <= getLastCreatedNetworkCount(counts)
<1>1. MaxNetworkIndex \in Nat \ {0}
  BY MaxNetworkIndexAssumption
<1> DEFINE S == {0} \cup counts
<1>2. S \in SUBSET Int /\ S # {} /\ \A x \in S : x <= MaxNetworkIndex
  BY <1>1
<1>3. Max(S) \in S /\ \A x \in S : x <= Max(S)
  <2>1. \E b \in Int : \A x \in S : x <= b
    BY <1>1, <1>2
  <2> QED
    BY <1>2, <2>1, MaxOfBounded
<1>4. Max(S) <= MaxNetworkIndex /\ 0 <= Max(S) /\ Max(S) \in Int
  BY <1>2, <1>3
<1>5. getLastCreatedNetworkCount(counts) = Max(S)
  BY DEF getLastCreatedNetworkCount
<1> HIDE DEF S
<1>6. \A c \in counts : c <= Max(S)
  BY <1>3 DEF S
<1> QED
  BY <1>1, <1>4, <1>5, <1>6

LEMMA GapIsFree ==
    ASSUME NEW counts
    PROVE  \/ getLowestAvailableNetworkCount(counts) = -1
           \/ getLowestAvailableNetworkCount(counts)
                    \in (0 .. MaxNetworkIndex - 1) \ counts
<1>1. MaxNetworkIndex \in Nat \ {0}
  BY MaxNetworkIndexAssumption
<1>2. CASE Candidates(counts) = {}
  BY <1>2 DEF getLowestAvailableNetworkCount
<1>3. CASE Candidates(counts) # {}
  <2>1. Candidates(counts) \in SUBSET Nat
    BY <1>1 DEF Candidates
  <2>2. Min(Candidates(counts)) \in Candidates(counts)
    BY <1>3, <2>1, MinOfBounded
  <2> QED
    BY <1>3, <2>2 DEF getLowestAvailableNetworkCount, Candidates
<1> QED
  BY <1>2, <1>3

\* A count makeNetworkName settles on is within the limit and is not one a
\* network bears already, for every limit and every set of existing counts
\* that fit into the last characters of a name (network.go 51-84, 120-159).
THEOREM NewCountIsFresh ==
    ASSUME NEW counts \in SUBSET (-MaxNetworkIndex .. MaxNetworkIndex),
           NewNetworkCount(counts) >= 0
    PROVE  NewNetworkCount(counts) \in (0 .. MaxNetworkIndex) \ counts
<1>1. MaxNetworkIndex \in Nat \ {0}
  BY MaxNetworkIndexAssumption
<1>2. CASE getLastCreatedNetworkCount(counts) < MaxNetworkIndex
  BY <1>1, <1>2, CountRange DEF NewNetworkCount
<1>3. CASE ~(getLastCreatedNetworkCount(counts) < MaxNetworkIndex)
  BY <1>1, <1>3, GapIsFree DEF NewNetworkCount
<1> QED
  BY <1>2, <1>3

------------------------------------------------------------------------------

IdsBounded == \E n \in Nat : \A c \in containers : c.id <= n

HostOK ==
    /\ containers \subseteq Container /\ IdsBounded
    /\ networks \subseteq Network
    /\ images \subseteq Images

StoreOK ==
    /\ known \in [Apps -> Record \cup {None}]
    /\ file \in [Apps -> Record \cup {None}]

\* Where DeployEdgeApp is on the stack, and where the frame names no app.
InDeploy ==
    \/ op.pc \in {"add", "image", "network", "create", "start", "deployed",
                  "lateError"}
    \/ op.caller \in {"redeploy", "rollback", "lateRollback"}

Appless == {"idle", "deleteNext", "deleted"}

FrameFits ==
    /\ op.pc # "idle" => msg # None
    /\ op.pc = "idle" => op.caller = "none"
    /\ op.pc \notin Appless => op.app \in Apps
    /\ InDeploy => msg.cmd = "DEPLOY" /\ msg.app = op.app
    /\ op.pc \in {"image", "create", "start"} =>
            op.idx \in 1 .. Len(msg.man.modules)

HandlerOK ==
    /\ op \in FrameType
    /\ msg \in Message \cup {None}
    /\ last \in Result \cup {None}
    /\ nodeStatus \in {"Connected", "Deleted"}
    /\ FrameFits

CountersOK == commands \in Nat /\ faults \in Nat /\ crashes \in Nat

TypeInv == HostOK /\ StoreOK /\ HandlerOK /\ CountersOK

------------------------------------------------------------------------------
(* Messages and manifests                                                  *)

LEMMA MessageFacts ==
    ASSUME NEW m \in Message
    PROVE  /\ m.cmd \in {"DEPLOY", "STOP", "RESUME", "UNDEPLOY", "REMOVE", "DELETE"}
           /\ m.cmd = "DEPLOY" =>
                m.man \in Manifests /\ m.app = m.man.id /\ m.app \in Apps
           /\ m.cmd \in {"STOP", "RESUME", "UNDEPLOY", "REMOVE"} => m.app \in Apps
           /\ m.app \in Apps \cup {None} /\ m.man \in Manifests \cup {None}
           /\ m # None
<1>1. CASE \E man \in Manifests :
                m = [cmd |-> "DEPLOY", app |-> man.id, man |-> man]
  <2>1. PICK man \in Manifests :
                m = [cmd |-> "DEPLOY", app |-> man.id, man |-> man]
    BY <1>1
  <2>2. man.id \in Apps
    BY EdgeAppAssumption
  <2> QED
    BY <2>1, <2>2, EdgeAppAssumption
<1>2. CASE \E c \in {"STOP", "RESUME", "UNDEPLOY", "REMOVE"}, a \in Apps :
                m = [cmd |-> c, app |-> a, man |-> None]
  BY <1>2, EdgeAppAssumption
<1>3. CASE m = [cmd |-> "DELETE", app |-> None, man |-> None]
  BY <1>3, EdgeAppAssumption
<1> QED
  BY <1>1, <1>2, <1>3 DEF Message

LEMMA ManifestFacts ==
    ASSUME NEW m \in Manifests
    PROVE  /\ m.id \in Apps /\ m.modules \in Seq(Images)
           /\ Len(m.modules) \in Nat \ {0}
           /\ \A k \in 1 .. Len(m.modules) : m.modules[k] \in Images
<1>1. m.id \in Apps /\ m.modules \in Seq(Images) /\ m.modules # <<>>
  BY EdgeAppAssumption
<1> QED
  BY <1>1

------------------------------------------------------------------------------
(* The record                                                              *)

LEMMA SetStatusOK ==
    ASSUME StoreOK, NEW a, NEW s \in Status, SetStatus(a, s)
    PROVE  StoreOK'
BY DEF StoreOK, SetStatus, IsKnown, storeVars, Record

LEMMA AddKnownManifestOK ==
    ASSUME StoreOK, NEW m \in Manifests, AddKnownManifest(m)
    PROVE  StoreOK'
BY DEF StoreOK, AddKnownManifest, Record, Status

LEMMA DeleteKnownManifestOK ==
    ASSUME StoreOK, NEW a, DeleteKnownManifest(a)
    PROVE  StoreOK'
BY DEF StoreOK, DeleteKnownManifest

LEMMA StoreKept ==
    ASSUME StoreOK, UNCHANGED storeVars
    PROVE  StoreOK'
BY DEF StoreOK, storeVars

------------------------------------------------------------------------------
(* The host                                                                *)

LEMMA HostKept ==
    ASSUME HostOK, UNCHANGED dockerVars
    PROVE  HostOK'
BY DEF HostOK, IdsBounded, dockerVars

LEMMA PullImageOK ==
    ASSUME HostOK, NEW i \in Images, PullImage(i)
    PROVE  HostOK'
BY DEF HostOK, IdsBounded, PullImage

LEMMA ImageRemoveOK ==
    ASSUME HostOK, NEW i, ImageRemove(i)
    PROVE  HostOK'
BY DEF HostOK, IdsBounded, ImageRemove

LEMMA NetworkPruneOK ==
    ASSUME HostOK, NEW a, NetworkPrune(a)
    PROVE  HostOK'
BY DEF HostOK, IdsBounded, NetworkPrune

LEMMA NewCountOK ==
    ASSUME HostOK, NewCount >= 0
    PROVE  /\ NewCount \in 0 .. MaxNetworkIndex
           /\ NewCount \notin ForeignCounts
           /\ \A n \in networks : n.count # NewCount
<1> DEFINE counts == ForeignCounts \cup {n.count : n \in networks}
<1>1. counts \in SUBSET (-MaxNetworkIndex .. MaxNetworkIndex)
  <2>1. \A n \in networks : n.count \in 0 .. MaxNetworkIndex
    BY DEF HostOK, Network
  <2>2. \A c \in 0 .. MaxNetworkIndex : c \in -MaxNetworkIndex .. MaxNetworkIndex
    BY MaxNetworkIndexAssumption
  <2> QED
    BY <2>1, <2>2, DockerAssumption
<1>2. NewCount = NewNetworkCount(counts)
  BY DEF NewCount
<1>3. \A n \in networks : n.count \in counts
  OBVIOUS
<1>4. ForeignCounts \subseteq counts
  OBVIOUS
<1> HIDE DEF counts
<1> QED
  BY <1>1, <1>2, <1>3, <1>4, NewCountIsFresh

LEMMA CreateNetworkOK ==
    ASSUME HostOK, NEW a \in Apps, NewCount >= 0, CreateNetwork(a)
    PROVE  HostOK'
BY NewCountOK DEF HostOK, IdsBounded, CreateNetwork, Network

LEMMA NewContainerIdOK ==
    ASSUME HostOK
    PROVE  /\ NewContainerId \in Nat \ {0}
           /\ \A c \in containers : c.id < NewContainerId
<1> DEFINE S == {0} \cup Ids(containers)
<1>1. S \in SUBSET Int /\ S # {}
  BY DEF HostOK, Ids, Container
<1>2. \E n \in Int : \A x \in S : x <= n
  BY DEF HostOK, IdsBounded, Ids
<1>3. Max(S) \in S /\ \A x \in S : x <= Max(S)
  <2> HIDE DEF S
  <2> QED
    BY <1>1, <1>2, MaxOfBounded
<1>4. Max(S) \in Nat
  BY <1>1, <1>3
<1>5. \A c \in containers : c.id \in S /\ c.id \in Nat
  BY DEF Ids, HostOK, Container
<1>6. NewContainerId = 1 + Max(S)
  BY DEF NewContainerId
<1> HIDE DEF S
<1> QED
  BY <1>3, <1>4, <1>5, <1>6

LEMMA createContainerOK ==
    ASSUME HostOK, NEW a \in Apps, NEW net \in 0 .. MaxNetworkIndex,
           NEW k \in Nat \ {0}, NEW i \in Images, createContainer(a, net, k, i)
    PROVE  HostOK'
<1> DEFINE new == [id |-> NewContainerId, app |-> a, net |-> net, module |-> k,
                   image |-> i, state |-> "created"]
<1>1. new \in Container
  BY NewContainerIdOK DEF Container, ContainerState
<1>2. containers' = containers \cup {new} /\ UNCHANGED <<networks, images>>
  BY DEF createContainer
<1>3. \A c \in containers' : c.id <= NewContainerId
  BY <1>2, NewContainerIdOK DEF HostOK, Container
<1> QED
  BY <1>1, <1>2, <1>3, NewContainerIdOK DEF HostOK, IdsBounded

LEMMA ContainerToOK ==
    ASSUME HostOK, NEW id, NEW s \in ContainerState, ContainerTo(id, s)
    PROVE  HostOK'
<1>1. \A d \in containers' : \E c \in containers :
            d \in Container /\ d.id = c.id
  BY DEF HostOK, ContainerTo, Container
<1>2. IdsBounded'
  BY <1>1 DEF HostOK, IdsBounded
<1> QED
  BY <1>1, <1>2 DEF HostOK, ContainerTo

LEMMA StopAndRemoveContainerOK ==
    ASSUME HostOK, NEW id, StopAndRemoveContainer(id)
    PROVE  HostOK'
BY DEF HostOK, IdsBounded, StopAndRemoveContainer

------------------------------------------------------------------------------
(* The handler's frame                                                     *)

LEMMA ReturnOK ==
    ASSUME HandlerOK, op.pc # "idle" \/ msg # None, NEW ok \in BOOLEAN, Return(ok)
    PROVE  HandlerOK'
<1>1. msg \in Message
  BY DEF HandlerOK, FrameFits
<1>2. last' \in Result
  BY <1>1, MessageFacts DEF Return, Result
<1>3. op' \in FrameType /\ op'.pc = "idle" /\ op'.caller = "none"
  BY MaxNetworkIndexAssumption
     DEF Return, Idle, Frame, FrameType, Label, Caller
<1>4. FrameFits'
  BY <1>3 DEF FrameFits, InDeploy, Appless
<1> QED
  BY <1>2, <1>3, <1>4 DEF Return, HandlerOK

\* A frame for the message that has just been taken up.
FrameWith(label, caller, a, todo) ==
    [pc |-> label, caller |-> caller, app |-> a, idx |-> 0, net |-> 0,
     todo |-> todo, imgs |-> {}, failed |-> FALSE]

LEMMA NewFrameOK ==
    ASSUME HandlerOK, msg # None,
           NEW label \in {"add", "undeploy", "stop", "resume"},
           NEW caller \in Caller \ {"none", "rollback", "lateRollback"},
           label = "add" \/ caller = "redeploy" => msg.cmd = "DEPLOY",
           msg.app \in Apps,
           NEW todo \in SUBSET Nat,
           op' = FrameWith(label, caller, msg.app, todo),
           UNCHANGED <<msg, last, nodeStatus>>
    PROVE  HandlerOK'
<1>1. /\ op'.pc = label /\ op'.caller = caller /\ op'.app = msg.app
      /\ op' \in FrameType
  <2>1. label \in Label /\ 0 \in 0 .. MaxNetworkIndex
    BY MaxNetworkIndexAssumption DEF Label
  <2> QED
    BY <2>1 DEF FrameWith, FrameType
<1>2. FrameFits'
  BY <1>1 DEF FrameFits, InDeploy, Appless, Caller
<1> QED
  BY <1>1, <1>2 DEF HandlerOK

\* A frame made from the current one.
LEMMA StepOK ==
    ASSUME HandlerOK, op.pc # "idle", NEW frame \in FrameType, Step(frame),
           frame.pc # "idle",
           frame.pc \notin Appless => frame.app \in Apps,
           InDeploy' => msg.cmd = "DEPLOY" /\ msg.app = frame.app,
           frame.pc \in {"image", "create", "start"} =>
                frame.idx \in 1 .. Len(msg.man.modules)
    PROVE  HandlerOK'
BY DEF HandlerOK, FrameFits, Step

\* A call further down the same handler.
LEMMA GoToOK ==
    ASSUME HandlerOK, op.pc \notin Appless,
           NEW label \in Label \ {"idle", "image", "create", "start"},
           label \in {"add", "network", "deployed", "lateError"} => InDeploy,
           GoTo(label)
    PROVE  HandlerOK'
<1> DEFINE frame == [op EXCEPT !.pc = label]
<1>1. frame \in FrameType /\ frame.pc = label /\ frame.app = op.app
      /\ frame.caller = op.caller
  BY DEF HandlerOK, FrameType
<1>2. op' = frame /\ UNCHANGED <<msg, last, nodeStatus>>
  BY DEF GoTo, Step
<1> HIDE DEF frame
<1>3. FrameFits'
  BY <1>1, <1>2 DEF HandlerOK, FrameFits, InDeploy, Appless
<1> QED
  BY <1>1, <1>2, <1>3 DEF HandlerOK

LEMMA ReturnFromRemoveOK ==
    ASSUME HandlerOK, op.pc \notin Appless, NEW ok \in BOOLEAN,
           ReturnFromRemove(ok)
    PROVE  HandlerOK'
<1>0. op.pc # "idle"
  BY DEF Appless
<1>1. CASE Return(ok)
  BY <1>0, <1>1, ReturnOK
<1>2. CASE op.caller = "redeploy" /\ GoTo("add")
  BY <1>2, GoToOK DEF Label, InDeploy
<1>3. CASE Return(FALSE)
  BY <1>0, <1>3, ReturnOK
<1>4. CASE op.caller = "lateRollback" /\ GoTo("lateError")
  BY <1>4, GoToOK DEF Label, InDeploy
<1>5. CASE GoTo(IF ok THEN "deleteNext" ELSE "deleted")
  BY <1>5, GoToOK DEF Label
<1> QED
  BY <1>1, <1>2, <1>3, <1>4, <1>5 DEF ReturnFromRemove

LEMMA ReturnFromUndeployOK ==
    ASSUME HandlerOK, op.pc \notin Appless, NEW ok \in BOOLEAN,
           ReturnFromUndeploy(ok)
    PROVE  HandlerOK'
<1>0. op.pc # "idle"
  BY DEF Appless
<1>1. CASE Return(ok)
  BY <1>0, <1>1, ReturnOK
<1>2. CASE GoTo("images")
  BY <1>2, GoToOK DEF Label
<1>3. CASE ReturnFromRemove(FALSE)
  BY <1>3, ReturnFromRemoveOK
<1> QED
  BY <1>1, <1>2, <1>3 DEF ReturnFromUndeploy

------------------------------------------------------------------------------
(* DeployEdgeApp                                                           *)

Good == HostOK /\ StoreOK /\ HandlerOK

LEMMA DispatchOK ==
    ASSUME HandlerOK, NEW cmd, Handling(cmd)
    PROVE  /\ op.pc = "idle" /\ msg # None /\ msg \in Message /\ msg.cmd = cmd
           /\ cmd \in {"DEPLOY", "STOP", "RESUME", "UNDEPLOY", "REMOVE"} =>
                    msg.app \in Apps
BY MessageFacts DEF HandlerOK, Handling, At

\* While DeployEdgeApp runs, the message holds its manifest.
LEMMA DeployContext ==
    ASSUME HandlerOK, InDeploy, op.pc # "idle"
    PROVE  /\ msg \in Message /\ msg.cmd = "DEPLOY" /\ msg.app = op.app
           /\ msg.man \in Manifests /\ op.app \in Apps /\ op.app = msg.man.id
           /\ Len(msg.man.modules) \in Nat \ {0}
           /\ op.pc \in {"image", "create", "start"} => ModuleImage \in Images
BY MessageFacts, ManifestFacts DEF HandlerOK, FrameFits, ModuleImage

LEMMA DeployOK ==
    ASSUME Good, Deploy
    PROVE  Good'
<1> USE DEF Good
<1>1. CASE DeployFresh
  <2>1. op' = FrameWith("add", "DEPLOY", msg.app, {})
        /\ UNCHANGED <<msg, last, nodeStatus>>
    BY <1>1 DEF DeployFresh, Step, Frame, FrameWith
  <2>2. msg # None /\ msg.cmd = "DEPLOY" /\ msg.app \in Apps
    BY <1>1, DispatchOK DEF DeployFresh
  <2>3. HandlerOK'
    BY <2>1, <2>2, NewFrameOK DEF Caller
  <2> QED
    BY <1>1, <2>3, HostKept, StoreKept DEF DeployFresh, Neither
<1>2. CASE DeployNewVersion
  <2>1. op' = FrameWith("undeploy", "redeploy", msg.app, {})
        /\ UNCHANGED <<msg, last, nodeStatus>>
    BY <1>2 DEF DeployNewVersion, Step, Frame, FrameWith
  <2>2. msg # None /\ msg.cmd = "DEPLOY" /\ msg.app \in Apps
    BY <1>2, DispatchOK DEF DeployNewVersion
  <2>3. HandlerOK'
    BY <2>1, <2>2, NewFrameOK DEF Caller
  <2> QED
    BY <1>2, <2>3, HostKept, StoreKept DEF DeployNewVersion, Neither
<1>3. CASE DeployRejected
  <2>1. HandlerOK'
    BY <1>3, DispatchOK, ReturnOK DEF DeployRejected
  <2> QED
    BY <1>3, <2>1, HostKept, StoreKept DEF DeployRejected, Neither
<1>4. CASE Add
  <2>1. InDeploy /\ op.pc = "add"
    BY <1>4 DEF Add, At, InDeploy
  <2>2. HandlerOK'
    <3> DEFINE frame == [op EXCEPT !.pc = "image", !.idx = 1]
    <3>1. frame \in FrameType /\ frame.pc = "image" /\ frame.idx = 1
          /\ frame.app = op.app
      BY DEF HandlerOK, FrameType, Label
    <3>2. Step(frame)
      BY <1>4 DEF Add
    <3> HIDE DEF frame
    <3> QED
      BY <2>1, <3>1, <3>2, StepOK, DeployContext
  <2> QED
    BY <1>4, <2>1, <2>2, DeployContext, AddKnownManifestOK, HostKept
       DEF Add, RecordOnly
<1>5. ASSUME At("image"), Step(NextImage)
      PROVE  HandlerOK'
  <2>1. InDeploy /\ op.pc = "image"
    BY <1>5 DEF At, InDeploy
  <2>2. op.idx \in 1 .. Len(msg.man.modules) /\ Len(msg.man.modules) \in Nat
    BY <2>1, DeployContext DEF HandlerOK, FrameFits
  <2>3. /\ NextImage \in FrameType /\ NextImage.app = op.app
        /\ NextImage.pc \in {"image", "network"}
        /\ NextImage.pc = "image" => NextImage.idx \in 1 .. Len(msg.man.modules)
    BY <2>1, <2>2 DEF NextImage, HandlerOK, FrameType, Label
  <2>4. /\ NextImage.pc # "idle"
        /\ NextImage.pc \in {"image", "create", "start"} =>
                NextImage.idx \in 1 .. Len(msg.man.modules)
    BY <2>3
  <2>5. msg.cmd = "DEPLOY" /\ msg.app = op.app /\ op.app \in Apps
    BY <2>1, DeployContext
  <2> QED
    BY <1>5, <2>1, <2>3, <2>4, <2>5, StepOK
<1>6. CASE InspectFails
  <2>1. HandlerOK'
    BY <1>6, ReturnOK DEF InspectFails, At
  <2> QED
    BY <1>6, <2>1, HostKept, StoreKept DEF InspectFails
<1>7. CASE ImagePresent
  BY <1>5, <1>7, HostKept, StoreKept DEF ImagePresent, Neither
<1>8. CASE Pull
  <2>1. ModuleImage \in Images
    BY <1>8, DeployContext DEF Pull, At, InDeploy
  <2> QED
    BY <1>5, <1>8, <2>1, PullImageOK, StoreKept DEF Pull, HostOnly
<1>9. CASE PullErrorUnseen
  BY <1>5, <1>9, HostKept, StoreKept DEF PullErrorUnseen
<1>10. ASSUME InDeploy, op.pc # "idle",
              NEW c \in {"rollback", "lateRollback"}, Step(Rollback(c))
       PROVE  HandlerOK'
  <2>1. Rollback(c) \in FrameType /\ Rollback(c).pc = "undeploy"
        /\ Rollback(c).app = op.app
    BY DEF Rollback, HandlerOK, FrameType, Label, Caller
  <2> QED
    BY <1>10, <2>1, StepOK, DeployContext
<1>11. CASE PullFails
  <2>1. InDeploy /\ op.pc = "image"
    BY <1>11 DEF PullFails, At, InDeploy
  <2>2. HostOK'
    BY <1>11, <2>1, DeployContext, PullImageOK, HostKept DEF PullFails, Fails
  <2> QED
    BY <1>10, <1>11, <2>1, <2>2, SetStatusOK DEF PullFails, Status
<1>12. CASE CreateAppNetwork
  <2>1. InDeploy /\ op.pc = "network"
    BY <1>12 DEF CreateAppNetwork, At, InDeploy
  <2>2. NewCount \in 0 .. MaxNetworkIndex
    BY <1>12, NewCountOK DEF CreateAppNetwork
  <2>3. HandlerOK'
    <3> DEFINE frame == [op EXCEPT !.pc = "create", !.net = NewCount,
                                   !.idx = Len(msg.man.modules)]
    <3>0. Len(msg.man.modules) \in Nat \ {0}
      BY <2>1, DeployContext
    <3>1. /\ frame \in FrameType /\ frame.pc = "create" /\ frame.app = op.app
          /\ frame.idx = Len(msg.man.modules)
      <4>1. op \in FrameType /\ Len(msg.man.modules) \in Nat
        BY <3>0 DEF HandlerOK
      <4> QED
        BY <2>2, <4>1 DEF FrameType, Label
    <3>4. frame.idx \in 1 .. Len(msg.man.modules)
      BY <3>0, <3>1
    <3>2. Step(frame)
      BY <1>12 DEF CreateAppNetwork
    <3> HIDE DEF frame
    <3> QED
      BY <2>1, <3>1, <3>2, <3>4, StepOK, DeployContext
  <2> QED
    BY <1>12, <2>1, <2>3, DeployContext, CreateNetworkOK, StoreKept
       DEF CreateAppNetwork, HostOnly
<1>13. CASE CreateNetworkFails
  <2>1. InDeploy /\ op.pc = "network"
    BY <1>13 DEF CreateNetworkFails, At, InDeploy
  <2>2. HostOK'
    BY <1>13, <2>1, DeployContext, CreateNetworkOK, HostKept
       DEF CreateNetworkFails, Fails
  <2> QED
    BY <1>10, <1>13, <2>1, <2>2, SetStatusOK DEF CreateNetworkFails, Status
<1>14. ASSUME At("create"), CreateModule
       PROVE  HostOK'
  <2>1. InDeploy /\ op.pc = "create"
    BY <1>14 DEF At, InDeploy
  <2>2. op.idx \in Nat \ {0} /\ op.net \in 0 .. MaxNetworkIndex
    BY <2>1, DeployContext DEF HandlerOK, FrameFits, FrameType
  <2> QED
    BY <1>14, <2>1, <2>2, DeployContext, createContainerOK DEF CreateModule
<1>15. CASE CreateContainer
  <2>1. InDeploy /\ op.pc = "create"
    BY <1>15 DEF CreateContainer, At, InDeploy
  <2>2. HandlerOK'
    <3> DEFINE frame == [op EXCEPT !.pc = "start", !.todo = {NewContainerId}]
    <3>1. frame \in FrameType /\ frame.pc = "start" /\ frame.app = op.app
          /\ frame.idx = op.idx
      BY NewContainerIdOK DEF HandlerOK, FrameType, Label
    <3>2. op.idx \in 1 .. Len(msg.man.modules)
      BY <2>1 DEF HandlerOK, FrameFits
    <3>3. Step(frame)
      BY <1>15 DEF CreateContainer
    <3> HIDE DEF frame
    <3> QED
      BY <2>1, <3>1, <3>2, <3>3, StepOK, DeployContext
  <2> QED
    BY <1>14, <1>15, <2>2, StoreKept DEF CreateContainer, HostOnly
<1>16. CASE CreateContainerFails
  <2>1. InDeploy /\ op.pc = "create"
    BY <1>16 DEF CreateContainerFails, At, InDeploy
  <2>2. HostOK'
    BY <1>14, <1>16, HostKept DEF CreateContainerFails, Fails
  <2> QED
    BY <1>10, <1>16, <2>1, <2>2, StoreKept DEF CreateContainerFails
<1>17. CASE StartModule
  <2>1. InDeploy /\ op.pc = "start"
    BY <1>17 DEF StartModule, At, InDeploy
  <2>2. HandlerOK'
    <3> DEFINE frame == IF op.idx > 1 THEN [op EXCEPT !.pc = "create", !.idx = @ - 1]
                                      ELSE [op EXCEPT !.pc = "deployed"]
    <3>1. op.idx \in 1 .. Len(msg.man.modules) /\ Len(msg.man.modules) \in Nat
      BY <2>1, DeployContext DEF HandlerOK, FrameFits
    <3>2. /\ frame \in FrameType /\ frame.app = op.app
          /\ frame.pc \in {"create", "deployed"}
          /\ frame.pc = "create" => frame.idx \in 1 .. Len(msg.man.modules)
      <4>1. op \in FrameType /\ op.idx \in Nat
        BY <3>1 DEF HandlerOK
      <4>2. CASE op.idx > 1
        <5>1. op.idx - 1 \in Nat /\ op.idx - 1 \in 1 .. Len(msg.man.modules)
          BY <3>1, <4>2
        <5>2. frame = [op EXCEPT !.pc = "create", !.idx = op.idx - 1]
          BY <4>2
        <5> HIDE DEF frame
        <5> QED
          BY <4>1, <5>1, <5>2 DEF FrameType, Label
      <4>3. CASE ~(op.idx > 1)
        BY <4>1, <4>3 DEF FrameType, Label
      <4> QED
        BY <4>2, <4>3
    <3>3. Step(frame)
      BY <1>17 DEF StartModule
    <3>4. msg.cmd = "DEPLOY" /\ msg.app = op.app /\ op.app \in Apps
      BY <2>1, DeployContext
    <3> HIDE DEF frame
    <3>5. /\ frame.pc # "idle"
          /\ frame.pc \in {"image", "create", "start"} =>
                frame.idx \in 1 .. Len(msg.man.modules)
      BY <3>2
    <3> QED
      BY <2>1, <3>2, <3>3, <3>4, <3>5, StepOK
  <2>3. HostOK'
    BY <1>17, ContainerToOK DEF StartModule, StartContainer, ContainerState
  <2> QED
    BY <1>17, <2>2, <2>3, StoreKept DEF StartModule, HostOnly
<1>18. CASE StartModuleFails
  <2>1. InDeploy /\ op.pc = "start"
    BY <1>18 DEF StartModuleFails, At, InDeploy
  <2>2. HostOK'
    BY <1>18, ContainerToOK, HostKept
       DEF StartModuleFails, FailsOn, Fails, StartContainer, ContainerState
  <2> QED
    BY <1>10, <1>18, <2>1, <2>2, StoreKept DEF StartModuleFails
<1>19. CASE DeployDone
  <2>1. HandlerOK'
    BY <1>19, ReturnOK DEF DeployDone, At
  <2> QED
    BY <1>19, <2>1, SetStatusOK, HostKept DEF DeployDone, RecordOnly, Status
<1>20. CASE LateError
  <2>1. HandlerOK'
    BY <1>20, ReturnOK DEF LateError, At
  <2> QED
    BY <1>20, <2>1, SetStatusOK, HostKept DEF LateError, RecordOnly, Status
<1> QED
  BY <1>1, <1>2, <1>3, <1>4, <1>6, <1>7, <1>8, <1>9, <1>11, <1>12, <1>13,
     <1>15, <1>16, <1>17, <1>18, <1>19, <1>20 DEF Deploy

------------------------------------------------------------------------------
(* StopEdgeApp and ResumeEdgeApp                                           *)

LEMMA IdsOK ==
    ASSUME HostOK, NEW S \in SUBSET containers
    PROVE  Ids(S) \in SUBSET Nat
BY DEF HostOK, Container, Ids

\* One round of a loop over containers or images.
LEMMA LoopOK ==
    ASSUME HandlerOK, op.pc \in {"stop", "resume", "removeContainers", "removeImages"},
           op' \in FrameType, op'.pc = op.pc, op'.app = op.app,
           op'.caller = op.caller, UNCHANGED <<msg, last, nodeStatus>>
    PROVE  HandlerOK'
<1>1. FrameFits'
  BY DEF HandlerOK, FrameFits, InDeploy, Appless
<1> QED
  BY <1>1 DEF HandlerOK

LEMMA StopOK ==
    ASSUME Good, Stop
    PROVE  Good'
<1> USE DEF Good
<1>1. CASE StopRefused
  <2>1. HandlerOK'
    BY <1>1, DispatchOK, ReturnOK DEF StopRefused
  <2>2. HostOK'
    BY <1>1, HostKept DEF StopRefused, Neither, RecordOnly, dockerVars
  <2>3. StoreOK'
    BY <1>1, StoreKept, SetStatusOK DEF StopRefused, Neither, Status
  <2> QED
    BY <2>1, <2>2, <2>3
<1>2. CASE StopBegin
  <2> DEFINE todo == Ids(RunningIn(msg.app))
  <2>1. todo \in SUBSET Nat
    BY IdsOK DEF RunningIn, ContainersOf
  <2>2. op' = FrameWith("stop", "STOP", msg.app, todo)
        /\ UNCHANGED <<msg, last, nodeStatus>>
    BY <1>2 DEF StopBegin, Step, Frame, FrameWith
  <2>3. msg # None /\ msg.app \in Apps
    BY <1>2, DispatchOK DEF StopBegin
  <2> HIDE DEF todo
  <2>4. HandlerOK'
    BY <2>1, <2>2, <2>3, NewFrameOK DEF Caller
  <2> QED
    BY <1>2, <2>4, HostKept, SetStatusOK DEF StopBegin, RecordOnly, Status
<1>3. CASE StopNext
  <2>1. PICK id \in op.todo :
            StopContainer(id) /\ Step([op EXCEPT !.todo = @ \ {id}])
    BY <1>3 DEF StopNext
  <2>2. HandlerOK'
    <3>1. op.pc = "stop" /\ op \in FrameType
      BY <1>3 DEF StopNext, At, HandlerOK
    <3>2. /\ op' \in FrameType /\ op'.pc = op.pc /\ op'.app = op.app
          /\ op'.caller = op.caller /\ UNCHANGED <<msg, last, nodeStatus>>
      BY <2>1, <3>1 DEF Step, FrameType
    <3> QED
      BY <3>1, <3>2, LoopOK
  <2> QED
    BY <1>3, <2>1, <2>2, ContainerToOK, StoreKept
       DEF StopNext, StopContainer, ContainerState, HostOnly
<1>4. CASE StopFails
  <2>1. HandlerOK'
    BY <1>4, ReturnOK DEF StopFails, At
  <2>2. HostOK'
    BY <1>4, ContainerToOK, HostKept
       DEF StopFails, FailsOn, Fails, StopContainer, ContainerState
  <2> QED
    BY <1>4, <2>1, <2>2, SetStatusOK DEF StopFails, Status
<1>5. CASE StopDone
  <2>1. HandlerOK'
    BY <1>5, ReturnOK DEF StopDone, At
  <2> QED
    BY <1>5, <2>1, HostKept, SetStatusOK DEF StopDone, RecordOnly, Status
<1> QED
  BY <1>1, <1>2, <1>3, <1>4, <1>5 DEF Stop

LEMMA ResumeOK ==
    ASSUME Good, Resume
    PROVE  Good'
<1> USE DEF Good
<1>1. CASE ResumeRefused
  <2>1. HandlerOK'
    BY <1>1, DispatchOK, ReturnOK DEF ResumeRefused
  <2>2. HostOK'
    BY <1>1, HostKept DEF ResumeRefused, Neither, RecordOnly, dockerVars
  <2>3. StoreOK'
    BY <1>1, StoreKept, SetStatusOK DEF ResumeRefused, Neither, Status
  <2> QED
    BY <2>1, <2>2, <2>3
<1>2. CASE ResumeBegin
  <2> DEFINE todo == Ids(ContainersOf(msg.app) \ RunningIn(msg.app))
  <2>1. todo \in SUBSET Nat
    BY IdsOK DEF RunningIn, ContainersOf
  <2>2. op' = FrameWith("resume", "RESUME", msg.app, todo)
        /\ UNCHANGED <<msg, last, nodeStatus>>
    BY <1>2 DEF ResumeBegin, Step, Frame, FrameWith
  <2>3. msg # None /\ msg.app \in Apps
    BY <1>2, DispatchOK DEF ResumeBegin
  <2> HIDE DEF todo
  <2>4. HandlerOK'
    BY <2>1, <2>2, <2>3, NewFrameOK DEF Caller
  <2> QED
    BY <1>2, <2>4, HostKept, SetStatusOK DEF ResumeBegin, RecordOnly, Status
<1>3. CASE ResumeNext
  <2>1. PICK id \in op.todo :
            StartContainer(id) /\ Step([op EXCEPT !.todo = @ \ {id}])
    BY <1>3 DEF ResumeNext
  <2>2. HandlerOK'
    <3>1. op.pc = "resume" /\ op \in FrameType
      BY <1>3 DEF ResumeNext, At, HandlerOK
    <3>2. /\ op' \in FrameType /\ op'.pc = op.pc /\ op'.app = op.app
          /\ op'.caller = op.caller /\ UNCHANGED <<msg, last, nodeStatus>>
      BY <2>1, <3>1 DEF Step, FrameType
    <3> QED
      BY <3>1, <3>2, LoopOK
  <2> QED
    BY <1>3, <2>1, <2>2, ContainerToOK, StoreKept
       DEF ResumeNext, StartContainer, ContainerState, HostOnly
<1>4. CASE ResumeFails
  <2>1. HandlerOK'
    BY <1>4, ReturnOK DEF ResumeFails, At
  <2>2. HostOK'
    BY <1>4, ContainerToOK, HostKept
       DEF ResumeFails, FailsOn, Fails, StartContainer, ContainerState
  <2> QED
    BY <1>4, <2>1, <2>2, SetStatusOK DEF ResumeFails, Status
<1>5. CASE ResumeDone
  <2>1. HandlerOK'
    BY <1>5, ReturnOK DEF ResumeDone, At
  <2> QED
    BY <1>5, <2>1, HostKept, SetStatusOK DEF ResumeDone, RecordOnly, Status
<1> QED
  BY <1>1, <1>2, <1>3, <1>4, <1>5 DEF Resume

------------------------------------------------------------------------------
(* UndeployEdgeApp, RemoveEdgeApp and DeleteNode                           *)

LEMMA UndeployOK ==
    ASSUME Good, UndeployEdgeApp
    PROVE  Good'
<1> USE DEF Good
<1>1. CASE UndeployRejected
  <2>1. HandlerOK'
    BY <1>1, DispatchOK, ReturnOK DEF UndeployRejected
  <2> QED
    BY <1>1, <2>1, HostKept, StoreKept DEF UndeployRejected, Neither
<1>2. CASE UndeployBegin
  <2>1. op' = FrameWith("undeploy", msg.cmd, msg.app, {})
        /\ UNCHANGED <<msg, last, nodeStatus>>
    BY <1>2 DEF UndeployBegin, Step, Frame, FrameWith
  <2>2. /\ msg # None /\ msg.cmd \in {"UNDEPLOY", "REMOVE"} /\ msg.app \in Apps
    BY <1>2, DispatchOK DEF UndeployBegin
  <2>3. HandlerOK'
    BY <2>1, <2>2, NewFrameOK DEF Caller
  <2> QED
    BY <1>2, <2>3, HostKept, StoreKept DEF UndeployBegin, Neither
<1>3. CASE Undeploy
  <2>1. HandlerOK'
    BY <1>3, GoToOK DEF Undeploy, At, Label, Appless
  <2> QED
    BY <1>3, <2>1, HostKept, SetStatusOK DEF Undeploy, RecordOnly, Status
<1>4. CASE ListContainers
  <2>1. op \in FrameType /\ Ids(ContainersOf(op.app)) \in SUBSET Nat
    BY IdsOK DEF HandlerOK, ContainersOf
  <2>2. /\ op' \in FrameType /\ op'.pc = "removeContainers" /\ op'.app = op.app
        /\ op'.caller = op.caller /\ UNCHANGED <<msg, last, nodeStatus>>
    BY <1>4, <2>1 DEF ListContainers, Step, FrameType, Label
  <2>3. HandlerOK'
    <3>1. FrameFits'
      BY <1>4, <2>2 DEF ListContainers, At, HandlerOK, FrameFits, InDeploy, Appless
    <3> QED
      BY <2>2, <3>1 DEF HandlerOK
  <2> QED
    BY <1>4, <2>3, HostKept, StoreKept DEF ListContainers, Neither
<1>5. CASE ListContainersFails
  <2>1. HandlerOK'
    BY <1>5, ReturnFromUndeployOK DEF ListContainersFails, At, Appless
  <2> QED
    BY <1>5, <2>1, HostKept, SetStatusOK DEF ListContainersFails, Status
<1>6. CASE RemoveContainer
  <2>1. PICK id \in op.todo :
            StopAndRemoveContainer(id) /\ Step([op EXCEPT !.todo = @ \ {id}])
    BY <1>6 DEF RemoveContainer
  <2>2. op.pc = "removeContainers" /\ op \in FrameType
    BY <1>6 DEF RemoveContainer, At, HandlerOK
  <2>3. /\ op' \in FrameType /\ op'.pc = op.pc /\ op'.app = op.app
        /\ op'.caller = op.caller /\ UNCHANGED <<msg, last, nodeStatus>>
    BY <2>1, <2>2 DEF Step, FrameType
  <2>4. HandlerOK'
    BY <2>2, <2>3, LoopOK
  <2> QED
    BY <1>6, <2>1, <2>4, StopAndRemoveContainerOK, StoreKept
       DEF RemoveContainer, HostOnly
<1>7. CASE RemoveContainerFails
  <2>1. PICK id \in op.todo :
            /\ FailsOn(id, StopAndRemoveContainer(id) \/ StopContainer(id))
            /\ Step([op EXCEPT !.todo = @ \ {id}, !.failed = TRUE])
    BY <1>7 DEF RemoveContainerFails
  <2>2. op.pc = "removeContainers" /\ op \in FrameType
    BY <1>7 DEF RemoveContainerFails, At, HandlerOK
  <2>3. /\ op' \in FrameType /\ op'.pc = op.pc /\ op'.app = op.app
        /\ op'.caller = op.caller /\ UNCHANGED <<msg, last, nodeStatus>>
    BY <2>1, <2>2 DEF Step, FrameType
  <2>4. HandlerOK'
    BY <2>2, <2>3, LoopOK
  <2>5. HostOK'
    BY <2>1, StopAndRemoveContainerOK, ContainerToOK, HostKept
       DEF FailsOn, Fails, StopContainer, ContainerState
  <2> QED
    BY <1>7, <2>4, <2>5, SetStatusOK DEF RemoveContainerFails, Status
<1>8. CASE PruneNetworks
  <2>1. HandlerOK'
    BY <1>8, GoToOK DEF PruneNetworks, At, Label, Appless
  <2> QED
    BY <1>8, <2>1, NetworkPruneOK, StoreKept DEF PruneNetworks, HostOnly
<1>9. CASE PruneNetworksFails
  <2>1. op \in FrameType /\ op.pc = "removeContainers"
    BY <1>9 DEF PruneNetworksFails, At, HandlerOK
  <2>2. /\ op' \in FrameType /\ op'.pc = "undeployed" /\ op'.app = op.app
        /\ op'.caller = op.caller /\ UNCHANGED <<msg, last, nodeStatus>>
    BY <1>9, <2>1 DEF PruneNetworksFails, Step, FrameType, Label
  <2>3. HandlerOK'
    <3>1. FrameFits'
      BY <2>1, <2>2 DEF HandlerOK, FrameFits, InDeploy, Appless
    <3> QED
      BY <2>2, <3>1 DEF HandlerOK
  <2>4. HostOK'
    BY <1>9, NetworkPruneOK, HostKept DEF PruneNetworksFails, Fails
  <2> QED
    BY <1>9, <2>3, <2>4, SetStatusOK DEF PruneNetworksFails, Status
<1>10. CASE UndeployDone
  <2>1. HandlerOK'
    BY <1>10, ReturnFromUndeployOK DEF UndeployDone, At, Appless
  <2> QED
    BY <1>10, <2>1, HostKept, SetStatusOK DEF UndeployDone, RecordOnly, Status
<1>11. CASE UndeployIncomplete
  <2>1. HandlerOK'
    BY <1>11, ReturnFromUndeployOK DEF UndeployIncomplete, At, Appless
  <2> QED
    BY <1>11, <2>1, HostKept, StoreKept DEF UndeployIncomplete, Neither
<1> QED
  BY <1>1, <1>2, <1>3, <1>4, <1>5, <1>6, <1>7, <1>8, <1>9, <1>10, <1>11
     DEF UndeployEdgeApp

LEMMA RemoveOK ==
    ASSUME Good, RemoveEdgeApp
    PROVE  Good'
<1> USE DEF Good
<1>1. CASE SelectImages
  <2>1. op \in FrameType /\ op.pc = "images" /\ images \subseteq Images
    BY <1>1 DEF SelectImages, At, HandlerOK, HostOK
  <2>2. /\ op' \in FrameType /\ op'.pc = "removeImages" /\ op'.app = op.app
        /\ op'.caller = op.caller /\ UNCHANGED <<msg, last, nodeStatus>>
    BY <1>1, <2>1 DEF SelectImages, Step, FrameType, Label
  <2>3. HandlerOK'
    <3>1. FrameFits'
      BY <2>1, <2>2 DEF HandlerOK, FrameFits, InDeploy, Appless
    <3> QED
      BY <2>2, <3>1 DEF HandlerOK
  <2> QED
    BY <1>1, <2>3, HostKept, StoreKept DEF SelectImages, Neither
<1>2. CASE SelectImagesFails
  <2>1. HandlerOK'
    BY <1>2, ReturnFromRemoveOK DEF SelectImagesFails, At, Appless
  <2> QED
    BY <1>2, <2>1, HostKept, SetStatusOK DEF SelectImagesFails, Status
<1>3. CASE RemoveImage
  <2>1. PICK i \in op.imgs : ImageRemove(i) /\ Step([op EXCEPT !.imgs = @ \ {i}])
    BY <1>3 DEF RemoveImage
  <2>2. op.pc = "removeImages" /\ op \in FrameType
    BY <1>3 DEF RemoveImage, At, HandlerOK
  <2>3. /\ op' \in FrameType /\ op'.pc = op.pc /\ op'.app = op.app
        /\ op'.caller = op.caller /\ UNCHANGED <<msg, last, nodeStatus>>
    BY <2>1, <2>2 DEF Step, FrameType
  <2>4. HandlerOK'
    BY <2>2, <2>3, LoopOK
  <2> QED
    BY <1>3, <2>1, <2>4, ImageRemoveOK, StoreKept DEF RemoveImage, HostOnly
<1>4. CASE RemoveImageFails
  <2>1. PICK i \in op.imgs :
            /\ Fails(ImageRemove(i))
            /\ Step([op EXCEPT !.imgs = @ \ {i}, !.failed = TRUE])
    BY <1>4 DEF RemoveImageFails
  <2>2. op.pc = "removeImages" /\ op \in FrameType
    BY <1>4 DEF RemoveImageFails, At, HandlerOK
  <2>3. /\ op' \in FrameType /\ op'.pc = op.pc /\ op'.app = op.app
        /\ op'.caller = op.caller /\ UNCHANGED <<msg, last, nodeStatus>>
    BY <2>1, <2>2 DEF Step, FrameType
  <2>4. HandlerOK'
    BY <2>2, <2>3, LoopOK
  <2>5. HostOK'
    BY <2>1, ImageRemoveOK, HostKept DEF Fails
  <2> QED
    BY <1>4, <2>4, <2>5, SetStatusOK DEF RemoveImageFails, Status
<1>5. CASE ImagesRemain
  <2>1. HandlerOK'
    BY <1>5, ReturnFromRemoveOK DEF ImagesRemain, At, Appless
  <2> QED
    BY <1>5, <2>1, HostKept, StoreKept DEF ImagesRemain, Neither
<1>6. CASE Forget
  <2>1. HandlerOK'
    BY <1>6, ReturnFromRemoveOK DEF Forget, At, Appless
  <2> QED
    BY <1>6, <2>1, HostKept, DeleteKnownManifestOK DEF Forget
<1> QED
  BY <1>1, <1>2, <1>3, <1>4, <1>5, <1>6 DEF RemoveEdgeApp

LEMMA DeleteOK ==
    ASSUME Good, DeleteNode
    PROVE  Good'
<1> USE DEF Good
<1>0. 0 \in 0 .. MaxNetworkIndex
  BY MaxNetworkIndexAssumption
<1>1. CASE DeleteBegin
  <2>1. op' = FrameWith("deleteNext", "DELETE", None, {})
        /\ UNCHANGED <<msg, last, nodeStatus>>
    BY <1>1 DEF DeleteBegin, Step, Frame, FrameWith
  <2>2. op' \in FrameType /\ op'.pc = "deleteNext" /\ op'.caller = "DELETE"
    BY <1>0, <2>1 DEF FrameWith, FrameType, Label, Caller
  <2>3. FrameFits'
    BY <1>1, <2>1, <2>2, DispatchOK DEF DeleteBegin, FrameFits, InDeploy, Appless
  <2> QED
    BY <1>1, <2>1, <2>2, <2>3, HostKept, StoreKept
       DEF DeleteBegin, Neither, HandlerOK
<1>2. CASE DeleteNext
  <2>1. PICK a \in Apps : /\ op' = FrameWith("undeploy", "DELETE", a, {})
                          /\ UNCHANGED <<msg, last, nodeStatus>>
    BY <1>2 DEF DeleteNext, Step, Frame, FrameWith
  <2>2. /\ op' \in FrameType /\ op'.pc = "undeploy" /\ op'.caller = "DELETE"
        /\ op'.app \in Apps
    BY <1>0, <2>1 DEF FrameWith, FrameType, Label, Caller
  <2>3. FrameFits'
    BY <1>2, <2>1, <2>2 DEF DeleteNext, At, HandlerOK, FrameFits, InDeploy, Appless
  <2> QED
    BY <1>2, <2>1, <2>2, <2>3, HostKept, StoreKept
       DEF DeleteNext, Neither, HandlerOK
<1>3. CASE DeleteLast
  <2>1. op \in FrameType /\ op.pc = "deleteNext"
    BY <1>3 DEF DeleteLast, At, HandlerOK
  <2>2. /\ op' \in FrameType /\ op'.pc = "deleted" /\ op'.app = op.app
        /\ op'.caller = op.caller /\ UNCHANGED <<msg, last, nodeStatus>>
    BY <1>3, <2>1 DEF DeleteLast, GoTo, Step, FrameType, Label
  <2>3. FrameFits'
    BY <2>1, <2>2 DEF HandlerOK, FrameFits, InDeploy, Appless
  <2> QED
    BY <1>3, <2>2, <2>3, HostKept, StoreKept DEF DeleteLast, Neither, HandlerOK
<1>4. CASE SetNodeDeleted
  <2>1. msg \in Message
    BY <1>4 DEF SetNodeDeleted, At, HandlerOK, FrameFits
  <2>2. last' \in Result
    BY <1>4, <2>1, MessageFacts DEF SetNodeDeleted, Result
  <2>3. op' \in FrameType /\ op'.pc = "idle" /\ op'.caller = "none"
    BY <1>0, <1>4 DEF SetNodeDeleted, Idle, Frame, FrameType, Label, Caller
  <2>4. FrameFits'
    BY <2>3 DEF FrameFits, InDeploy, Appless
  <2> QED
    BY <1>4, <2>2, <2>3, <2>4, HostKept, StoreKept
       DEF SetNodeDeleted, Neither, HandlerOK
<1> QED
  BY <1>1, <1>2, <1>3, <1>4 DEF DeleteNode

------------------------------------------------------------------------------
(* The theorem                                                             *)

LEMMA TypeInit ==
    ASSUME Init
    PROVE  TypeInv
<1>1. HostOK
  <2>1. IdsBounded
    BY DEF Init, IdsBounded
  <2> QED
    BY <2>1 DEF Init, HostOK
<1>2. StoreOK
  BY DEF Init, StoreOK
<1>3. HandlerOK
  <2>1. op \in FrameType /\ op.pc = "idle" /\ op.caller = "none"
    BY MaxNetworkIndexAssumption DEF Init, Idle, Frame, FrameType, Label, Caller
  <2>2. FrameFits
    BY <2>1 DEF FrameFits, InDeploy, Appless
  <2> QED
    BY <2>1, <2>2 DEF Init, HandlerOK
<1>4. CountersOK
  BY DEF Init, CountersOK
<1> QED
  BY <1>1, <1>2, <1>3, <1>4 DEF TypeInv

\* A handler counts the faults it meets and nothing else.
LEMMA FaultsOK ==
    ASSUME CountersOK, Handler
    PROVE  CountersOK' /\ (faults' = 0 => faults = 0)
<1>1. NoFault \/ Fault => faults' \in Nat /\ (faults' = 0 => faults = 0)
  BY DEF CountersOK, NoFault, Fault
<1>2. Deploy => NoFault \/ Fault
  BY DEF Deploy, DeployFresh, DeployNewVersion, DeployRejected, Add,
         InspectFails, ImagePresent, Pull, PullErrorUnseen, PullFails,
         CreateAppNetwork, CreateNetworkFails, CreateContainer,
         CreateContainerFails, StartModule, StartModuleFails, DeployDone,
         LateError, Neither, HostOnly, RecordOnly, Fails, FailsOn
<1>3. Stop \/ Resume => NoFault \/ Fault
  BY DEF Stop, StopRefused, StopBegin, StopNext, StopFails, StopDone,
         Resume, ResumeRefused, ResumeBegin, ResumeNext, ResumeFails,
         ResumeDone, Neither, HostOnly, RecordOnly, Fails, FailsOn
<1>4. UndeployEdgeApp => NoFault \/ Fault
  BY DEF UndeployEdgeApp, UndeployRejected, UndeployBegin, Undeploy,
         ListContainers, ListContainersFails, RemoveContainer,
         RemoveContainerFails, PruneNetworks, PruneNetworksFails,
         UndeployDone, UndeployIncomplete, Neither, HostOnly, RecordOnly,
         Fails, FailsOn
<1>5. RemoveEdgeApp \/ DeleteNode => NoFault \/ Fault
  BY DEF RemoveEdgeApp, SelectImages, SelectImagesFails, RemoveImage,
         RemoveImageFails, ImagesRemain, Forget, DeleteNode, DeleteBegin,
         DeleteNext, DeleteLast, SetNodeDeleted, Neither, HostOnly, Fails
<1> QED
  BY <1>1, <1>2, <1>3, <1>4, <1>5 DEF Handler, CountersOK

LEMMA TypeStep ==
    ASSUME TypeInv, [CrashNext]_vars
    PROVE  TypeInv'
<1> USE DEF TypeInv
<1>1. CASE Handler
  <2>1. Good'
    BY <1>1, DeployOK, StopOK, ResumeOK, UndeployOK, RemoveOK, DeleteOK
       DEF Handler, Good
  <2> QED
    BY <1>1, <2>1, FaultsOK DEF Good
<1>2. CASE Receive
  <2>1. HandlerOK'
    <3>1. /\ op' = op /\ op.pc = "idle" /\ msg' \in Message /\ last' = None
          /\ nodeStatus' = nodeStatus
      BY <1>2 DEF Receive, At
    <3>2. msg' # None
      BY <3>1, MessageFacts
    <3>3. FrameFits'
      BY <3>1, <3>2 DEF HandlerOK, FrameFits, InDeploy, Appless
    <3> QED
      BY <3>1, <3>3 DEF HandlerOK
  <2> QED
    BY <1>2, <2>1, HostKept, StoreKept DEF Receive, CountersOK
<1>3. ASSUME UNCHANGED <<handlerVars, counters>>
      PROVE  HandlerOK' /\ CountersOK'
  BY <1>3 DEF handlerVars, counters, HandlerOK, FrameFits, InDeploy, CountersOK
<1>4. CASE Engine
  <2>1. HostOK'
    BY <1>4, ContainerToOK, StopAndRemoveContainerOK
       DEF Engine, ContainerChanges, ContainerLost
  <2> QED
    BY <1>3, <1>4, <2>1, StoreKept DEF Engine
<1>5. CASE LogRead
  <2>1. StoreOK'
    BY <1>5 DEF LogRead, SetLastLogRead, StoreOK
  <2> QED
    BY <1>3, <1>5, <2>1, HostKept DEF LogRead
<1>6. CASE Restart
  <2>1. StoreOK'
    BY <1>6 DEF Restart, InitKnownManifests, StoreOK
  <2>2. HandlerOK'
    <3>1. op' \in FrameType /\ op'.pc = "idle" /\ op'.caller = "none"
      BY <1>6, MaxNetworkIndexAssumption
         DEF Restart, Idle, Frame, FrameType, Label, Caller
    <3>2. FrameFits'
      BY <3>1 DEF FrameFits, InDeploy, Appless
    <3> QED
      BY <1>6, <3>1, <3>2 DEF Restart, HandlerOK
  <2> QED
    BY <1>6, <2>1, <2>2, HostKept DEF Restart, CountersOK
<1>7. CASE UNCHANGED vars
  BY <1>3, <1>7, HostKept, StoreKept DEF vars
<1>8. CASE Finished
  BY <1>7, <1>8 DEF Finished
<1> QED
  BY <1>1, <1>2, <1>4, <1>5, <1>6, <1>7, <1>8
           DEF CrashNext, Next, CrashRestart, UpdateManifestPanics

LEMMA TypeInvImpliesTypeOK == TypeInv => TypeOK
BY DEF TypeInv, HostOK, StoreOK, HandlerOK, CountersOK, TypeOK

\* Whatever commands come, calls fail and crashes happen, every variable stays
\* within its type: no container from an image that is no module's, no network
\* count beyond the limit, no step of a handler without the message it is for.
THEOREM TypeCorrect == CrashSpec => []TypeOK
<1>1. Init => TypeInv
  BY TypeInit
<1>2. TypeInv /\ [CrashNext]_vars => TypeInv'
  BY TypeStep
<1> QED
  BY <1>1, <1>2, TypeInvImpliesTypeOK, PTL DEF CrashSpec
LEMMA TypeInvariant == CrashSpec => []TypeInv
<1>1. Init => TypeInv
  BY TypeInit
<1>2. TypeInv /\ [CrashNext]_vars => TypeInv'
  BY TypeStep
<1> QED
  BY <1>1, <1>2, PTL DEF CrashSpec

LEMMA SpecImpliesCrashSpec == Spec => CrashSpec
<1>1. [Next]_vars => [CrashNext]_vars
  BY DEF CrashNext
<1> QED
  BY <1>1, PTL DEF Spec, CrashSpec

------------------------------------------------------------------------------
(* The record and its file                                                 *)

\* What a step of a handler does to the record: nothing, a new record that is
\* not saved, or a change that is saved with all the others.
StoreEffect ==
    UNCHANGED storeVars \/ file' = known' \/ (At("add") /\ AddKnownManifest(msg.man))

LEMMA HandlerStore ==
    ASSUME Handler
    PROVE  StoreEffect
<1> USE DEF StoreEffect, SetStatus
<1>1. Deploy => StoreEffect
  BY DEF Deploy, DeployFresh, DeployNewVersion, DeployRejected, Add,
         InspectFails, ImagePresent, Pull, PullErrorUnseen, PullFails,
         CreateAppNetwork, CreateNetworkFails, CreateContainer,
         CreateContainerFails, StartModule, StartModuleFails, DeployDone,
         LateError, Neither, HostOnly
<1>2. Stop \/ Resume => StoreEffect
  BY DEF Stop, StopRefused, StopBegin, StopNext, StopFails, StopDone,
         Resume, ResumeRefused, ResumeBegin, ResumeNext, ResumeFails,
         ResumeDone, Neither, HostOnly
<1>3. UndeployEdgeApp => StoreEffect
  BY DEF UndeployEdgeApp, UndeployRejected, UndeployBegin, Undeploy,
         ListContainers, ListContainersFails, RemoveContainer,
         RemoveContainerFails, PruneNetworks, PruneNetworksFails,
         UndeployDone, UndeployIncomplete, Neither, HostOnly
<1>4. RemoveEdgeApp \/ DeleteNode => StoreEffect
  BY DEF RemoveEdgeApp, SelectImages, SelectImagesFails, RemoveImage,
         RemoveImageFails, ImagesRemain, Forget, DeleteKnownManifest,
         DeleteNode, DeleteBegin, DeleteNext, DeleteLast, SetNodeDeleted,
         Neither, HostOnly
<1> QED
  BY <1>1, <1>2, <1>3, <1>4 DEF Handler

\* AddKnownManifest touches the one record, and makes it Initiated.
LEMMA AddEffect ==
    ASSUME StoreOK, NEW m \in Manifests, AddKnownManifest(m), NEW a \in Apps
    PROVE  /\ a # m.id => known'[a] = known[a]
           /\ a = m.id => HasStatus(a, "Initiated")'
           /\ file' = file
<1>1. known' = [known EXCEPT ![m.id] = [man |-> m, status |-> "Initiated"]]
      /\ file' = file
  BY DEF AddKnownManifest
<1>2. [man |-> m, status |-> "Initiated"] # None
  BY EdgeAppAssumption DEF Record, Status
<1> QED
  BY <1>1, <1>2 DEF StoreOK, HasStatus, IsKnown

\* What the crash of the agent loses: however commands, failing calls, the log
\* reader's writes and crashes follow on each other, memory and file differ only
\* in records that DEPLOY has made and not yet given a status (status.go 46-77).
THEOREM FileLagsOnlyWhenInitiated == CrashSpec => []UnsavedOnlyInitiated
<1>1. Init => UnsavedOnlyInitiated
  BY DEF Init, UnsavedOnlyInitiated
<1>2. ASSUME TypeInv, UnsavedOnlyInitiated, [CrashNext]_vars
      PROVE  UnsavedOnlyInitiated'
  <2> USE DEF UnsavedOnlyInitiated
  <2>1. CASE UNCHANGED storeVars
    BY <1>2, <2>1 DEF storeVars, HasStatus, IsKnown
  <2>2. CASE file' = known'
    BY <2>2
  <2>3. CASE At("add") /\ AddKnownManifest(msg.man)
    <3>1. msg.man \in Manifests /\ StoreOK
      BY <1>2, <2>3, DeployContext DEF TypeInv, At, InDeploy
    <3>2. ASSUME NEW a \in Apps, file'[a] # known'[a]
          PROVE  HasStatus(a, "Initiated")'
      <4>1. CASE a = msg.man.id
        BY <2>3, <3>1, <4>1, AddEffect
      <4>2. CASE a # msg.man.id
        <5>1. known'[a] = known[a] /\ file'[a] = file[a]
          BY <2>3, <3>1, <4>2, AddEffect
        <5> QED
          BY <1>2, <3>2, <5>1 DEF HasStatus, IsKnown
      <4> QED
        BY <4>1, <4>2
    <3> QED
      BY <3>2
  <2>4. CASE Handler
    BY <2>1, <2>2, <2>3, <2>4, HandlerStore DEF StoreEffect
  <2>5. CASE Receive \/ Engine \/ Finished \/ UNCHANGED vars
    BY <2>1, <2>5 DEF Receive, Engine, Finished, vars
  <2>6. CASE LogRead \/ Restart
    BY <2>2, <2>6 DEF LogRead, SetLastLogRead, Restart, InitKnownManifests
  <2> QED
    BY <1>2, <2>4, <2>5, <2>6 DEF CrashNext, Next, CrashRestart, UpdateManifestPanics
<1> QED
  BY <1>1, <1>2, TypeInvariant, PTL DEF CrashSpec

------------------------------------------------------------------------------
(* Nothing is left of an inactive app                                      *)

\* A step that makes nothing: every container and every network was there
\* before, and every container keeps its network.
HostShrinks ==
    /\ \A d \in containers' : \E c \in containers :
            d.id = c.id /\ d.app = c.app /\ d.net = c.net
    /\ networks' \subseteq networks
    /\ \A c \in containers' : [app |-> c.app, count |-> c.net] \in networks'

LEMMA ShrinkKeeps ==
    ASSUME NetworksDistinct, HostShrinks
    PROVE  /\ NetworksDistinct'
           /\ \A a : Empty(a) => Empty(a)'
           /\ \A a : Ids(ContainersOf(a))' \subseteq Ids(ContainersOf(a))
BY DEF NetworksDistinct, HostShrinks, Empty, ContainersOf, NetworksOf, Ids

LEMMA SameHost ==
    ASSUME NetworksDistinct, UNCHANGED <<containers, networks>>
    PROVE  HostShrinks
BY DEF NetworksDistinct, HostShrinks

LEMMA ContainerToShrinks ==
    ASSUME HostOK, NetworksDistinct, NEW id, NEW s, ContainerTo(id, s)
    PROVE  HostShrinks
<1>1. \A d \in containers' : \E c \in containers :
            d.id = c.id /\ d.app = c.app /\ d.net = c.net
  BY DEF HostOK, ContainerTo, Container
<1> QED
  BY <1>1 DEF NetworksDistinct, HostShrinks, ContainerTo

LEMMA RemoveContainerShrinks ==
    ASSUME NetworksDistinct, NEW id, StopAndRemoveContainer(id)
    PROVE  HostShrinks
BY DEF NetworksDistinct, HostShrinks, StopAndRemoveContainer

LEMMA PruneShrinks ==
    ASSUME NetworksDistinct, NEW a, NetworkPrune(a)
    PROVE  HostShrinks
BY DEF NetworksDistinct, HostShrinks, NetworkPrune

\* Pruning removes every network of an app without containers: a container on
\* one of them would be the app's own.
LEMMA PruneEmpties ==
    ASSUME HostOK, NetworksDistinct, NEW a, NetworkPrune(a), ContainersOf(a) = {}
    PROVE  Empty(a)'
<1>1. containers' = containers
  BY DEF NetworkPrune
<1>2. ASSUME NEW n \in networks, n.app = a, NEW c \in containers, c.net = n.count
      PROVE  FALSE
  <2>1. [app |-> c.app, count |-> c.net] \in networks
    BY DEF NetworksDistinct
  <2>2. [app |-> c.app, count |-> c.net] = n
    BY <1>2, <2>1 DEF NetworksDistinct
  <2>3. c.app = a
    BY <1>2, <2>2
  <2> QED
    BY <2>3 DEF ContainersOf
<1> QED
  BY <1>1, <1>2 DEF NetworkPrune, Empty, ContainersOf, NetworksOf

\* No app becomes inactive; none but perhaps one of which nothing is left.
NoneLapses == \A a \in Apps : Inactive(a)' => Inactive(a)
NoneLost == \A a \in Apps : Inactive(a)' => Inactive(a) \/ Empty(a)

LEMMA LapseIsLoss == NoneLapses => NoneLost
BY DEF NoneLapses, NoneLost

LEMMA SameStore ==
    ASSUME UNCHANGED storeVars
    PROVE  NoneLapses
BY DEF NoneLapses, storeVars, Inactive, IsKnown

LEMMA SetStatusKeeps ==
    ASSUME StoreOK, NEW b, NEW s \in Status \ {"Undeployed"}, SetStatus(b, s)
    PROVE  NoneLapses
<1>1. CASE ~IsKnown(b)
  BY <1>1, SameStore DEF SetStatus
<1>2. CASE IsKnown(b)
  <2>1. known' = [known EXCEPT ![b].status = s]
    BY <1>2 DEF SetStatus
  <2>2. ASSUME NEW a \in Apps, Inactive(a)'
        PROVE  Inactive(a)
    <3>1. CASE a = b
      <4>1. known[b] \in Record
        BY <1>2, <3>1 DEF StoreOK, IsKnown
      <4>2. known'[b] = [known[b] EXCEPT !.status = s]
        BY <2>1, <3>1 DEF StoreOK
      <4>3. known'[b] \in Record /\ known'[b].status = s
        BY <4>1, <4>2 DEF Record
      <4>4. known'[b] # None
        BY <4>3, EdgeAppAssumption
      <4> QED
        BY <2>2, <3>1, <4>3, <4>4 DEF Inactive, IsKnown
    <3>2. CASE a # b
      BY <2>1, <2>2, <3>2 DEF StoreOK, Inactive, IsKnown
    <3> QED
      BY <3>1, <3>2
  <2> QED
    BY <2>2 DEF NoneLapses
<1> QED
  BY <1>1, <1>2

\* The calls at which RemovalCovers and RecordFirst ask for nothing.
Harmless == {"idle", "add", "undeploy", "list", "lateError", "stop", "resume",
             "deleteNext", "deleted"}

LEMMA ToHarmless ==
    ASSUME EmptyInv, HostShrinks, NoneLost, op'.pc \in Harmless
    PROVE  EmptyInv'
<1>1. NetworksDistinct' /\ \A a : Empty(a) => Empty(a)'
  BY ShrinkKeeps DEF EmptyInv
<1>2. InactiveIsEmpty'
  BY <1>1 DEF EmptyInv, InactiveIsEmpty, NoneLost
<1>3. RemovalCovers' /\ RecordFirst'
  BY DEF Harmless, RemovalCovers, RecordFirst, At
<1> QED
  BY <1>1, <1>2, <1>3 DEF EmptyInv

LEMMA ReturnsHarmlessly ==
    ASSUME op \in FrameType, NEW ok \in BOOLEAN,
           Return(ok) \/ ReturnFromRemove(ok) \/ ReturnFromUndeploy(FALSE)
    PROVE  op'.pc \in Harmless
<1>1. Return(ok) \/ Return(FALSE) => op'.pc \in Harmless
  BY DEF Return, Idle, Frame, Harmless
<1>2. ASSUME NEW label \in Harmless, GoTo(label)
      PROVE  op'.pc \in Harmless
  BY <1>2 DEF GoTo, Step, FrameType
<1>3. ReturnFromRemove(ok) \/ ReturnFromRemove(FALSE) => op'.pc \in Harmless
  BY <1>1, <1>2 DEF ReturnFromRemove, Harmless
<1> QED
  BY <1>1, <1>3 DEF ReturnFromUndeploy

\* A new network, a new container: what is of other apps stays as it was.
LEMMA NetworkAdded ==
    ASSUME HostOK, NetworksDistinct, NewCount >= 0, NEW b, CreateNetwork(b)
    PROVE  /\ NetworksDistinct' /\ [app |-> b, count |-> NewCount] \in networks'
           /\ \A a : a # b /\ Empty(a) => Empty(a)'
<1>1. NewCount \notin ForeignCounts /\ \A n \in networks : n.count # NewCount
  BY NewCountOK
<1> QED
  BY <1>1 DEF NetworksDistinct, CreateNetwork, Empty, ContainersOf, NetworksOf

LEMMA ContainerAdded ==
    ASSUME NetworksDistinct, NEW b, NEW net, NEW k, NEW i,
           [app |-> b, count |-> net] \in networks, createContainer(b, net, k, i)
    PROVE  /\ NetworksDistinct' /\ networks' = networks
           /\ \A a : a # b /\ Empty(a) => Empty(a)'
<1> DEFINE new == [id |-> NewContainerId, app |-> b, net |-> net, module |-> k,
                  image |-> i, state |-> "created"]
<1>1. containers' = containers \cup {new} /\ networks' = networks
  BY DEF createContainer
<1>2. new.app = b /\ new.net = net
  OBVIOUS
<1> HIDE DEF new
<1> QED
  BY <1>1, <1>2 DEF NetworksDistinct, Empty, ContainersOf, NetworksOf

LEMMA EmptyDeploy ==
    ASSUME TypeInv, EmptyInv, Deploy
    PROVE  EmptyInv'
<1>0. HostOK /\ StoreOK /\ HandlerOK /\ op \in FrameType /\ NetworksDistinct
  BY DEF TypeInv, EmptyInv, HandlerOK
<1>1. UNCHANGED <<containers, networks>> => HostShrinks
  BY <1>0, SameHost
<1>2. UNCHANGED storeVars => NoneLapses /\ NoneLost
  BY SameStore, LapseIsLoss
<1>3. \A b, s : /\ s \in Status \ {"Undeployed"}
                /\ SetStatus(b, s)
                => NoneLapses /\ NoneLost
  BY <1>0, SetStatusKeeps, LapseIsLoss
<1>4. \A c : Step(Rollback(c)) => op'.pc \in Harmless
  BY <1>0 DEF Step, Rollback, FrameType, Harmless
<1>5. CASE DeployFresh \/ DeployNewVersion
  <2>1. op'.pc \in Harmless
    BY <1>5 DEF DeployFresh, DeployNewVersion, Step, Frame, Harmless
  <2> QED
    BY <1>1, <1>2, <1>5, <2>1, ToHarmless
       DEF DeployFresh, DeployNewVersion, Neither, dockerVars
<1>6. CASE DeployRejected \/ InspectFails
  <2>1. op'.pc \in Harmless
    BY <1>0, <1>6, ReturnsHarmlessly DEF DeployRejected, InspectFails
  <2> QED
    BY <1>1, <1>2, <1>6, <2>1, ToHarmless
       DEF DeployRejected, InspectFails, Neither, dockerVars
<1>7. CASE DeployDone \/ LateError
  <2>1. op'.pc \in Harmless
    BY <1>0, <1>7, ReturnsHarmlessly DEF DeployDone, LateError
  <2>2. HostShrinks
    BY <1>1, <1>7 DEF DeployDone, LateError, RecordOnly, dockerVars
  <2>3. NoneLost
    BY <1>3, <1>7 DEF DeployDone, LateError, Status
  <2> QED
    BY <2>1, <2>2, <2>3, ToHarmless
<1>8. CASE PullFails
  <2>1. HostShrinks
    BY <1>1, <1>8 DEF PullFails, Fails, PullImage, dockerVars
  <2>2. NoneLost
    BY <1>3, <1>8 DEF PullFails, Status
  <2> QED
    BY <1>4, <1>8, <2>1, <2>2, ToHarmless DEF PullFails
<1>9. CASE StartModuleFails
  <2>1. HostShrinks
    BY <1>0, <1>1, <1>9, ContainerToShrinks
       DEF StartModuleFails, FailsOn, Fails, StartContainer, dockerVars
  <2> QED
    BY <1>2, <1>4, <1>9, <2>1, ToHarmless DEF StartModuleFails
<1>10. CASE Add
  <2>1. msg.man \in Manifests /\ op.app = msg.man.id /\ op.app \in Apps
    BY <1>0, <1>10, DeployContext DEF Add, At, InDeploy
  <2>2. op'.pc = "image" /\ op'.app = op.app
    BY <1>0, <1>10 DEF Add, Step, FrameType
  <2>3. \A a \in Apps : Inactive(a)' => Inactive(a) /\ a # op.app
    <3> SUFFICES ASSUME NEW a \in Apps, Inactive(a)'
                 PROVE  Inactive(a) /\ a # op.app
      OBVIOUS
    <3>1. a # op.app
      BY <1>0, <1>10, <2>1, AddEffect DEF Add, Inactive, HasStatus
    <3>2. known'[a] = known[a]
      BY <1>0, <1>10, <2>1, <3>1, AddEffect DEF Add
    <3> QED
      BY <3>1, <3>2 DEF Inactive, IsKnown
  <2>4. NetworksDistinct' /\ \A a : Empty(a) => Empty(a)'
    BY <1>0, <1>1, <1>10, ShrinkKeeps DEF Add, RecordOnly, dockerVars
  <2>5. InactiveIsEmpty'
    BY <2>3, <2>4 DEF EmptyInv, InactiveIsEmpty
  <2> QED
    BY <2>1, <2>2, <2>3, <2>4, <2>5 DEF EmptyInv, RemovalCovers, RecordFirst, At
<1>11. ASSUME op.pc \in {"image", "start"},
              op'.pc \in {"image", "network", "create", "deployed"},
              op'.pc = "create" => op.pc = "start",
              op'.app = op.app, op'.net = op.net, HostShrinks,
              networks' = networks, UNCHANGED storeVars
       PROVE  EmptyInv'
  <2>1. \A a : Inactive(a)' => Inactive(a)
    BY <1>11 DEF storeVars, Inactive, IsKnown
  <2>2. NetworksDistinct' /\ \A a : Empty(a) => Empty(a)'
    BY <1>0, <1>11, ShrinkKeeps
  <2>3. InactiveIsEmpty'
    BY <2>1, <2>2 DEF EmptyInv, InactiveIsEmpty
  <2>4. RemovalCovers' /\ RecordFirst'
    BY <1>11, <2>1 DEF EmptyInv, RemovalCovers, RecordFirst, At
  <2> QED
    BY <2>2, <2>3, <2>4 DEF EmptyInv
<1>12. CASE ImagePresent \/ Pull \/ PullErrorUnseen
  <2>1. /\ op.pc = "image" /\ op'.pc \in {"image", "network"}
        /\ op'.app = op.app /\ op'.net = op.net
    BY <1>0, <1>12 DEF ImagePresent, Pull, PullErrorUnseen, At, Step, NextImage,
                       FrameType
  <2>2. UNCHANGED <<containers, networks>> /\ UNCHANGED storeVars
    BY <1>12 DEF ImagePresent, Pull, PullErrorUnseen, PullImage, Neither,
                 HostOnly, dockerVars
  <2> QED
    BY <1>1, <1>11, <2>1, <2>2
<1>13. CASE StartModule
  <2>1. /\ op.pc = "start" /\ op'.pc \in {"create", "deployed"}
        /\ op'.app = op.app /\ op'.net = op.net
    BY <1>0, <1>13 DEF StartModule, At, Step, FrameType
  <2>2. HostShrinks /\ networks' = networks /\ UNCHANGED storeVars
    BY <1>0, <1>13, ContainerToShrinks
       DEF StartModule, StartContainer, ContainerTo, HostOnly
  <2> QED
    BY <1>11, <2>1, <2>2
<1>14. ASSUME op.pc \in {"network", "create"}, NoneLapses, NetworksDistinct',
              \A a : a # op.app /\ Empty(a) => Empty(a)'
       PROVE  InactiveIsEmpty' /\ \A a \in Apps : Inactive(a)' => a # op.app
  <2>1. ~Inactive(op.app)
    BY <1>14 DEF EmptyInv, RecordFirst
  <2> QED
    BY <1>14, <2>1 DEF EmptyInv, InactiveIsEmpty, NoneLapses
<1>15. ASSUME op.pc \in {"network", "create"}, NoneLapses, NetworksDistinct',
              \A a : a # op.app /\ Empty(a) => Empty(a)',
              op'.pc \in Harmless
       PROVE  EmptyInv'
  <2>1. InactiveIsEmpty'
    BY <1>14, <1>15
  <2> QED
    BY <1>15, <2>1 DEF EmptyInv, Harmless, RemovalCovers, RecordFirst, At
<1>16. UNCHANGED <<containers, networks>> =>
          NetworksDistinct' /\ \A a : Empty(a) => Empty(a)'
  BY <1>0, <1>1, ShrinkKeeps
<1>17. op.pc \in {"network", "create"} => op.app \in Apps
  BY <1>0 DEF HandlerOK, FrameFits, Appless
<1>18. CASE CreateAppNetwork
  <2>1. op.pc = "network" /\ CreateNetwork(op.app) /\ NoneLapses
    BY <1>2, <1>18 DEF CreateAppNetwork, At, HostOnly
  <2>2. /\ NetworksDistinct' /\ [app |-> op.app, count |-> NewCount] \in networks'
        /\ \A a : a # op.app /\ Empty(a) => Empty(a)'
    BY <1>0, <1>18, <2>1, NetworkAdded DEF CreateAppNetwork
  <2>3. InactiveIsEmpty' /\ \A a \in Apps : Inactive(a)' => a # op.app
    BY <1>14, <2>1, <2>2
  <2>4. op'.pc = "create" /\ op'.app = op.app /\ op'.net = NewCount
    BY <1>0, <1>18 DEF CreateAppNetwork, Step, FrameType
  <2>5. RecordFirst'
    <3>1. (op.app)' \in Apps /\ ~Inactive(op.app)'
      BY <1>17, <2>1, <2>3, <2>4 DEF Inactive, IsKnown
    <3> QED
      BY <2>2, <2>4, <3>1 DEF RecordFirst
  <2> QED
    BY <2>2, <2>3, <2>4, <2>5 DEF EmptyInv, RemovalCovers, At
<1>19. CASE CreateNetworkFails
  <2>1. op.pc = "network" /\ op'.pc \in Harmless /\ NoneLapses
    BY <1>3, <1>4, <1>19 DEF CreateNetworkFails, At, Status
  <2>2. NetworksDistinct' /\ \A a : a # op.app /\ Empty(a) => Empty(a)'
    <3>1. CASE UNCHANGED dockerVars
      BY <1>16, <3>1 DEF dockerVars
    <3>2. CASE NewCount >= 0 /\ CreateNetwork(op.app)
      BY <1>0, <3>2, NetworkAdded
    <3> QED
      BY <1>19, <3>1, <3>2 DEF CreateNetworkFails, Fails
  <2> QED
    BY <1>15, <2>1, <2>2
<1>20. CASE CreateContainer
  <2>1. /\ op.pc = "create" /\ CreateModule /\ NoneLapses
        /\ [app |-> op.app, count |-> op.net] \in networks
    BY <1>2, <1>20 DEF CreateContainer, At, HostOnly, EmptyInv, RecordFirst
  <2>2. /\ NetworksDistinct' /\ networks' = networks
        /\ \A a : a # op.app /\ Empty(a) => Empty(a)'
    BY <1>0, <2>1, ContainerAdded DEF CreateModule
  <2>3. InactiveIsEmpty' /\ \A a \in Apps : Inactive(a)' => a # op.app
    BY <1>14, <2>1, <2>2
  <2>4. op'.pc = "start" /\ op'.app = op.app /\ op'.net = op.net
    BY <1>0, <1>20 DEF CreateContainer, Step, FrameType
  <2>5. RecordFirst'
    <3>1. (op.app)' \in Apps /\ ~Inactive(op.app)'
      BY <1>17, <2>1, <2>3, <2>4 DEF Inactive, IsKnown
    <3> QED
      BY <2>1, <2>2, <2>4, <3>1 DEF RecordFirst
  <2> QED
    BY <2>2, <2>3, <2>4, <2>5 DEF EmptyInv, RemovalCovers, At
<1>21. CASE CreateContainerFails
  <2>1. op.pc = "create" /\ op'.pc \in Harmless /\ NoneLapses
    BY <1>2, <1>4, <1>21 DEF CreateContainerFails, At
  <2>2. NetworksDistinct' /\ \A a : a # op.app /\ Empty(a) => Empty(a)'
    <3>1. CASE UNCHANGED dockerVars
      BY <1>16, <3>1 DEF dockerVars
    <3>2. CASE CreateModule
      <4>1. [app |-> op.app, count |-> op.net] \in networks
        BY <2>1 DEF EmptyInv, RecordFirst
      <4> QED
        BY <1>0, <3>2, <4>1, ContainerAdded DEF CreateModule
    <3> QED
      BY <1>21, <3>1, <3>2 DEF CreateContainerFails, Fails
  <2> QED
    BY <1>15, <2>1, <2>2
<1> QED
  BY <1>5, <1>6, <1>7, <1>8, <1>9, <1>10, <1>12, <1>13, <1>18, <1>19, <1>20,
     <1>21 DEF Deploy

\* The calls of UndeployEdgeApp and RemoveEdgeApp that RemovalCovers is about.
Removal == {"removeContainers", "undeployed", "images", "removeImages"}

LEMMA ToRemoval ==
    ASSUME EmptyInv, HostShrinks, NoneLost, RemovalCovers', op'.pc \in Removal
    PROVE  EmptyInv'
<1>1. NetworksDistinct' /\ \A a : Empty(a) => Empty(a)'
  BY ShrinkKeeps DEF EmptyInv
<1>2. InactiveIsEmpty'
  BY <1>1 DEF EmptyInv, InactiveIsEmpty, NoneLost
<1>3. RecordFirst'
  BY DEF Removal, RecordFirst
<1> QED
  BY <1>1, <1>2, <1>3 DEF EmptyInv

LEMMA EmptyStopResume ==
    ASSUME TypeInv, EmptyInv, Stop \/ Resume
    PROVE  EmptyInv'
<1>0. HostOK /\ StoreOK /\ op \in FrameType /\ NetworksDistinct
  BY DEF TypeInv, EmptyInv, HandlerOK
<1>1. UNCHANGED dockerVars => HostShrinks
  BY <1>0, SameHost DEF dockerVars
<1>2. UNCHANGED storeVars => NoneLost
  BY SameStore, LapseIsLoss
<1>3. \A b, s : s \in Status \ {"Undeployed"} /\ SetStatus(b, s) => NoneLost
  BY <1>0, SetStatusKeeps, LapseIsLoss
<1>4. \A ok \in BOOLEAN : Return(ok) => op'.pc \in Harmless
  BY <1>0, ReturnsHarmlessly
<1>5. \A id, s : ContainerTo(id, s) => HostShrinks
  BY <1>0, ContainerToShrinks
<1>6. op'.pc \in Harmless
  <2>1. CASE StopBegin \/ ResumeBegin
    BY <2>1 DEF StopBegin, ResumeBegin, Step, Frame, Harmless
  <2>2. CASE StopNext \/ ResumeNext
    BY <1>0, <2>2 DEF StopNext, ResumeNext, At, Step, FrameType, Harmless
  <2>3. CASE StopRefused \/ StopFails \/ StopDone
    BY <1>4, <2>3 DEF StopRefused, StopFails, StopDone
  <2>4. CASE ResumeRefused \/ ResumeFails \/ ResumeDone
    BY <1>4, <2>4 DEF ResumeRefused, ResumeFails, ResumeDone
  <2> QED
    BY <2>1, <2>2, <2>3, <2>4 DEF Stop, Resume
<1>7. HostShrinks
  <2>1. CASE StopNext \/ ResumeNext \/ StopFails \/ ResumeFails
    BY <1>1, <1>5, <2>1 DEF StopNext, ResumeNext, StopFails, ResumeFails,
       FailsOn, Fails, StopContainer, StartContainer
  <2>2. CASE StopRefused \/ ResumeRefused \/ StopBegin \/ ResumeBegin
              \/ StopDone \/ ResumeDone
    BY <1>1, <2>2 DEF StopRefused, ResumeRefused, StopBegin, ResumeBegin,
       StopDone, ResumeDone, Neither, RecordOnly, dockerVars
  <2> QED
    BY <2>1, <2>2 DEF Stop, Resume
<1>8. NoneLost
  <2>1. {"Running", "Stopped", "Error", "Executing"} \subseteq Status \ {"Undeployed"}
    BY DEF Status
  <2>2. CASE Stop
    BY <1>2, <1>3, <2>1, <2>2 DEF Stop, StopRefused, StopBegin, StopNext,
       StopFails, StopDone, Neither, HostOnly
  <2>3. CASE Resume
    BY <1>2, <1>3, <2>1, <2>3 DEF Resume, ResumeRefused, ResumeBegin,
       ResumeNext, ResumeFails, ResumeDone, Neither, HostOnly
  <2> QED
    BY <2>2, <2>3
<1> QED
  BY <1>6, <1>7, <1>8, ToHarmless

LEMMA EmptyUndeploy ==
    ASSUME TypeInv, EmptyInv, UndeployEdgeApp
    PROVE  EmptyInv'
<1>0. HostOK /\ StoreOK /\ HandlerOK /\ op \in FrameType /\ NetworksDistinct
  BY DEF TypeInv, EmptyInv, HandlerOK
<1>1. UNCHANGED dockerVars => HostShrinks
  BY <1>0, SameHost DEF dockerVars
<1>2. UNCHANGED storeVars => NoneLost
  BY SameStore, LapseIsLoss
<1>3. \A b, s : s \in Status \ {"Undeployed"} /\ SetStatus(b, s) => NoneLost
  BY <1>0, SetStatusKeeps, LapseIsLoss
<1>4. "Error" \in Status \ {"Undeployed"} /\ "Executing" \in Status \ {"Undeployed"}
  BY DEF Status
<1>5. CASE UndeployRejected \/ UndeployIncomplete \/ ListContainersFails
  <2>1. op'.pc \in Harmless
    BY <1>0, <1>5, ReturnsHarmlessly
       DEF UndeployRejected, UndeployIncomplete, ListContainersFails
  <2>2. HostShrinks /\ NoneLost
    BY <1>1, <1>2, <1>3, <1>4, <1>5 DEF UndeployRejected, UndeployIncomplete,
       ListContainersFails, Neither, dockerVars
  <2> QED
    BY <2>1, <2>2, ToHarmless
<1>6. CASE UndeployBegin \/ Undeploy
  <2>1. op'.pc \in Harmless
    BY <1>0, <1>6 DEF UndeployBegin, Undeploy, GoTo, Step, Frame, FrameType,
                      Harmless
  <2>2. HostShrinks /\ NoneLost
    BY <1>1, <1>2, <1>3, <1>4, <1>6 DEF UndeployBegin, Undeploy, Neither,
       RecordOnly, dockerVars
  <2> QED
    BY <2>1, <2>2, ToHarmless
<1>7. CASE ListContainers
  <2>1. /\ op'.pc = "removeContainers" /\ op'.app = op.app
        /\ op'.todo = Ids(ContainersOf(op.app))
    BY <1>0, <1>7 DEF ListContainers, Step, FrameType
  <2>2. containers' = containers
    BY <1>7 DEF ListContainers, Neither, dockerVars
  <2>3. RemovalCovers'
    BY <2>1, <2>2 DEF RemovalCovers, At, ContainersOf, Ids
  <2>4. HostShrinks /\ NoneLost
    BY <1>1, <1>2, <1>7 DEF ListContainers, Neither, dockerVars
  <2> QED
    BY <2>1, <2>3, <2>4, ToRemoval DEF Removal
<1>8. CASE RemoveContainer
  <2>1. PICK id \in op.todo :
            StopAndRemoveContainer(id) /\ Step([op EXCEPT !.todo = @ \ {id}])
    BY <1>8 DEF RemoveContainer
  <2>2. /\ op'.pc = "removeContainers" /\ op.pc = "removeContainers"
        /\ op'.app = op.app /\ op'.todo = op.todo \ {id}
        /\ op'.failed = op.failed
    BY <1>0, <1>8, <2>1 DEF RemoveContainer, At, Step, FrameType
  <2>3. containers' = {c \in containers : c.id # id}
    BY <2>1 DEF StopAndRemoveContainer
  <2>4. RemovalCovers'
    BY <2>2, <2>3 DEF EmptyInv, RemovalCovers, At, ContainersOf, Ids
  <2>5. HostShrinks /\ NoneLost
    BY <1>0, <1>2, <1>8, <2>1, RemoveContainerShrinks DEF RemoveContainer, HostOnly
  <2> QED
    BY <2>2, <2>4, <2>5, ToRemoval DEF Removal
<1>9. CASE RemoveContainerFails
  <2>1. PICK id \in op.todo :
            /\ FailsOn(id, StopAndRemoveContainer(id) \/ StopContainer(id))
            /\ Step([op EXCEPT !.todo = @ \ {id}, !.failed = TRUE])
    BY <1>9 DEF RemoveContainerFails
  <2>2. op'.pc = "removeContainers" /\ op'.failed
    BY <1>0, <1>9, <2>1 DEF RemoveContainerFails, At, Step, FrameType
  <2>3. HostShrinks
    BY <1>0, <1>1, <2>1, RemoveContainerShrinks, ContainerToShrinks
       DEF FailsOn, Fails, StopContainer
  <2>4. NoneLost
    BY <1>3, <1>4, <1>9 DEF RemoveContainerFails
  <2>5. RemovalCovers'
    BY <2>2 DEF RemovalCovers, At
  <2> QED
    BY <2>2, <2>3, <2>4, <2>5, ToRemoval DEF Removal
<1>10. CASE PruneNetworks
  <2>1. /\ op'.pc = "undeployed" /\ op.pc = "removeContainers" /\ op.todo = {}
        /\ op'.app = op.app /\ op'.failed = op.failed
    BY <1>0, <1>10 DEF PruneNetworks, At, GoTo, Step, FrameType
  <2>2. HostShrinks /\ NoneLost
    BY <1>0, <1>2, <1>10, PruneShrinks DEF PruneNetworks, HostOnly
  <2>3. ~op.failed => Empty(op.app)'
    <3>1. ~op.failed => ContainersOf(op.app) = {}
      BY <2>1 DEF EmptyInv, RemovalCovers, At, Ids
    <3>2. ASSUME NEW a, a = op.app, ContainersOf(a) = {}
          PROVE  Empty(a)'
      BY <1>0, <1>10, <3>2, PruneEmpties DEF PruneNetworks
    <3> QED
      BY <2>1, <3>1, <3>2
  <2>4. RemovalCovers'
    BY <2>1, <2>3 DEF RemovalCovers, At
  <2> QED
    BY <2>1, <2>2, <2>4, ToRemoval DEF Removal
<1>11. CASE PruneNetworksFails
  <2>1. op'.pc = "undeployed" /\ op'.failed
    BY <1>0, <1>11 DEF PruneNetworksFails, Step, FrameType
  <2>2. HostShrinks /\ NoneLost
    BY <1>0, <1>1, <1>3, <1>4, <1>11, PruneShrinks DEF PruneNetworksFails, Fails
  <2>3. RemovalCovers'
    BY <2>1 DEF RemovalCovers, At
  <2> QED
    BY <2>1, <2>2, <2>3, ToRemoval DEF Removal
<1>12. CASE UndeployDone
  <2>1. Empty(op.app)
    BY <1>12 DEF UndeployDone, At, EmptyInv, RemovalCovers
  <2>2. NoneLost
    <3>1. \A a \in Apps : a # op.app => known'[a] = known[a]
      BY <1>0, <1>12 DEF UndeployDone, SetStatus, storeVars, StoreOK
    <3> QED
      BY <2>1, <3>1 DEF NoneLost, Inactive, IsKnown
  <2>3. HostShrinks
    BY <1>1, <1>12 DEF UndeployDone, RecordOnly, dockerVars
  <2>4. CASE Return(TRUE)
    <3>1. op'.pc \in Harmless
      BY <1>0, <2>4, ReturnsHarmlessly
    <3> QED
      BY <2>2, <2>3, <3>1, ToHarmless
  <2>5. CASE GoTo("images")
    <3>1. op'.pc = "images" /\ op'.app = op.app
      BY <1>0, <2>5 DEF GoTo, Step, FrameType
    <3>2. Empty(op.app)'
      BY <1>12, <2>1, <3>1 DEF UndeployDone, RecordOnly, dockerVars, Empty,
         ContainersOf, NetworksOf
    <3>3. RemovalCovers'
      BY <3>1, <3>2 DEF RemovalCovers, At
    <3> QED
      BY <2>2, <2>3, <3>1, <3>3, ToRemoval DEF Removal
  <2> QED
    BY <1>12, <2>4, <2>5 DEF UndeployDone, ReturnFromUndeploy
<1> QED
  BY <1>5, <1>6, <1>7, <1>8, <1>9, <1>10, <1>11, <1>12 DEF UndeployEdgeApp

LEMMA EmptyRemove ==
    ASSUME TypeInv, EmptyInv, RemoveEdgeApp
    PROVE  EmptyInv'
<1>0. HostOK /\ StoreOK /\ HandlerOK /\ op \in FrameType /\ NetworksDistinct
  BY DEF TypeInv, EmptyInv, HandlerOK
<1>1. UNCHANGED <<containers, networks>> => HostShrinks
  BY <1>0, SameHost
<1>2. UNCHANGED storeVars => NoneLost
  BY SameStore, LapseIsLoss
<1>3. \A b : SetStatus(b, "Error") => NoneLost
  BY <1>0, SetStatusKeeps, LapseIsLoss DEF Status
<1>4. Empty(op.app)
  BY DEF EmptyInv, RemovalCovers, RemoveEdgeApp, SelectImages, SelectImagesFails,
     RemoveImage, RemoveImageFails, ImagesRemain, Forget, At
<1>5. HostShrinks
  BY <1>1 DEF RemoveEdgeApp, SelectImages, SelectImagesFails, RemoveImage,
     RemoveImageFails, ImagesRemain, Forget, Neither, HostOnly, Fails,
     ImageRemove, dockerVars
<1>6. CASE SelectImages \/ RemoveImage \/ RemoveImageFails
  <2>1. op'.pc = "removeImages" /\ op'.app = op.app
    BY <1>0, <1>6 DEF SelectImages, RemoveImage, RemoveImageFails, At, Step,
       FrameType
  <2>2. UNCHANGED <<containers, networks>>
    BY <1>6 DEF SelectImages, RemoveImage, RemoveImageFails, Neither, Fails,
       ImageRemove, dockerVars
  <2>3. RemovalCovers'
    BY <1>4, <2>1, <2>2 DEF RemovalCovers, At, Empty, ContainersOf, NetworksOf
  <2>4. NoneLost
    BY <1>2, <1>3, <1>6 DEF SelectImages, RemoveImage, RemoveImageFails,
       Neither, HostOnly
  <2> QED
    BY <1>5, <2>1, <2>3, <2>4, ToRemoval DEF Removal
<1>7. CASE SelectImagesFails \/ ImagesRemain
  <2>1. op'.pc \in Harmless
    BY <1>0, <1>7, ReturnsHarmlessly DEF SelectImagesFails, ImagesRemain
  <2>2. NoneLost
    BY <1>2, <1>3, <1>7 DEF SelectImagesFails, ImagesRemain, Neither
  <2> QED
    BY <1>5, <2>1, <2>2, ToHarmless
<1>8. CASE Forget
  <2>1. op'.pc \in Harmless
    BY <1>0, <1>8, ReturnsHarmlessly DEF Forget
  <2>2. \A a \in Apps : a # op.app => known'[a] = known[a]
    BY <1>0, <1>8 DEF Forget, DeleteKnownManifest, StoreOK
  <2>3. NoneLost
    BY <1>4, <2>2 DEF NoneLost, Inactive, IsKnown
  <2> QED
    BY <1>5, <2>1, <2>3, ToHarmless
<1> QED
  BY <1>6, <1>7, <1>8 DEF RemoveEdgeApp

LEMMA EmptyDelete ==
    ASSUME TypeInv, EmptyInv, DeleteNode
    PROVE  EmptyInv'
<1>1. HostShrinks /\ NoneLost
  BY SameHost, SameStore, LapseIsLoss DEF EmptyInv, DeleteNode, DeleteBegin,
     DeleteNext, DeleteLast, SetNodeDeleted, Neither, dockerVars
<1>2. op \in FrameType
  BY DEF TypeInv, HandlerOK
<1>3. op'.pc \in Harmless
  BY <1>2 DEF DeleteNode, DeleteBegin, DeleteNext, DeleteLast, SetNodeDeleted,
     GoTo, Step, Idle, Frame, FrameType, Harmless
<1> QED
  BY <1>1, <1>3, ToHarmless

LEMMA EmptyEngine ==
    ASSUME TypeInv, EmptyInv, Engine
    PROVE  EmptyInv'
<1>1. HostOK /\ NetworksDistinct
  BY DEF TypeInv, EmptyInv
<1>2. HostShrinks
  BY <1>1, ContainerToShrinks, RemoveContainerShrinks
     DEF Engine, ContainerChanges, ContainerLost
<1>3. UNCHANGED <<storeVars, op>>
  BY DEF Engine, handlerVars
<1>4. /\ NetworksDistinct'
      /\ \A a : Empty(a) => Empty(a)'
      /\ \A a : Ids(ContainersOf(a))' \subseteq Ids(ContainersOf(a))
  BY <1>1, <1>2, ShrinkKeeps
<1>5. InactiveIsEmpty'
  BY <1>3, <1>4 DEF EmptyInv, InactiveIsEmpty, storeVars, Inactive, IsKnown
<1>6. ASSUME NEW a, a = op.app
      PROVE  /\ Empty(op.app) => Empty(op.app)'
             /\ Ids(ContainersOf(op.app))' \subseteq Ids(ContainersOf(op.app))
  <2>1. (op.app)' = a
    BY <1>3, <1>6
  <2> QED
    BY <1>4, <1>6, <2>1 DEF Empty, ContainersOf, NetworksOf, Ids
<1>7. RemovalCovers'
  BY <1>3, <1>6 DEF EmptyInv, RemovalCovers, At
<1>8. networks' = networks
  BY DEF Engine, ContainerChanges, ContainerLost, ContainerTo,
     StopAndRemoveContainer
<1>9. RecordFirst'
  BY <1>3, <1>8 DEF EmptyInv, RecordFirst, storeVars, Inactive, IsKnown
<1> QED
  BY <1>4, <1>5, <1>7, <1>9 DEF EmptyInv

LEMMA EmptyStep == TypeInv /\ EmptyInv /\ [Next]_vars => EmptyInv'
<1> SUFFICES ASSUME TypeInv, EmptyInv, [Next]_vars
             PROVE  EmptyInv'
  OBVIOUS
<1>1. CASE Receive
  BY <1>1 DEF Receive, EmptyInv, InactiveIsEmpty, NetworksDistinct,
     RemovalCovers, RecordFirst, At, Inactive, IsKnown, Empty, ContainersOf,
     NetworksOf, Ids, dockerVars, storeVars
<1>2. CASE Finished \/ UNCHANGED vars
  BY <1>2 DEF Finished, vars, EmptyInv, InactiveIsEmpty, NetworksDistinct,
     RemovalCovers, RecordFirst, At, Inactive, IsKnown, Empty, ContainersOf,
     NetworksOf, Ids, dockerVars, storeVars, handlerVars
<1>3. CASE Engine
  BY <1>3, EmptyEngine
<1>4. CASE Handler
  BY <1>4, EmptyDeploy, EmptyStopResume, EmptyUndeploy, EmptyRemove, EmptyDelete
     DEF Handler
<1> QED
  BY <1>1, <1>2, <1>3, <1>4 DEF Next

LEMMA EmptyAlways == Spec => []EmptyInv
<1>1. Init => EmptyInv
  BY DEF Init, EmptyInv, InactiveIsEmpty, NetworksDistinct, RemovalCovers,
     RecordFirst, At, Idle, Frame, Empty, ContainersOf, NetworksOf
<1> QED
  BY <1>1, EmptyStep, TypeInvariant, SpecImpliesCrashSpec, PTL
     DEF Spec

\* Whatever sequence of commands arrives and whatever calls fail or half
\* succeed, an app the agent has forgotten or calls Undeployed has no container
\* and no network on the host (edgeapp.go 238-262, 278-353): errors are
\* counted, and only a removal without any gives the record up.
THEOREM NothingLeftBehind == Spec => []InactiveIsEmpty
BY EmptyAlways, PTL DEF EmptyInv

------------------------------------------------------------------------------
(* What a step of a handler does to the host                               *)

LoopEffect ==
    /\ op.pc \in {"start", "stop", "resume", "removeContainers"}
    /\ \E id \in op.todo :
        \/ \E s \in ContainerState : ContainerTo(id, s)
        \/ StopAndRemoveContainer(id)

PruneEffect == op.pc = "removeContainers" /\ op.todo = {} /\ NetworkPrune(op.app)
NetworkEffect == op.pc = "network" /\ NewCount >= 0 /\ CreateNetwork(op.app)
ContainerEffect == op.pc = "create" /\ ModuleImage \in images /\ CreateModule

HostEffect ==
    \/ UNCHANGED <<containers, networks>>
    \/ LoopEffect \/ PruneEffect \/ NetworkEffect \/ ContainerEffect

LEMMA HandlerHost ==
    ASSUME Handler
    PROVE  HostEffect
<1> USE DEF HostEffect
<1>1. Deploy => HostEffect
  BY DEF Deploy, DeployFresh, DeployNewVersion, DeployRejected, Add, InspectFails,
         ImagePresent, Pull, PullErrorUnseen, PullFails, CreateAppNetwork,
         CreateNetworkFails, CreateContainer, CreateContainerFails, StartModule,
         StartModuleFails, DeployDone, LateError, Neither, RecordOnly, Fails, FailsOn,
         PullImage, StartContainer, ContainerState, dockerVars, At,
         LoopEffect, NetworkEffect, ContainerEffect
<1>2. Stop \/ Resume => HostEffect
  BY DEF Stop, StopRefused, StopBegin, StopNext, StopFails, StopDone, Resume,
         ResumeRefused, ResumeBegin, ResumeNext, ResumeFails, ResumeDone, Neither,
         RecordOnly, Fails, FailsOn, StartContainer, StopContainer, ContainerState,
         dockerVars, At, LoopEffect
<1>3. UndeployEdgeApp => HostEffect
  BY DEF UndeployEdgeApp, UndeployRejected, UndeployBegin, Undeploy, ListContainers,
         ListContainersFails, RemoveContainer, RemoveContainerFails, PruneNetworks,
         PruneNetworksFails, UndeployDone, UndeployIncomplete, Neither, RecordOnly,
         Fails, FailsOn, StopContainer, ContainerState, dockerVars, At, LoopEffect,
         PruneEffect
<1>4. RemoveEdgeApp \/ DeleteNode => HostEffect
  BY DEF RemoveEdgeApp, SelectImages, SelectImagesFails, RemoveImage, RemoveImageFails,
         ImagesRemain, Forget, DeleteNode, DeleteBegin, DeleteNext, DeleteLast,
         SetNodeDeleted, Neither, Fails, ImageRemove, dockerVars
<1> QED  BY <1>1, <1>2, <1>3, <1>4 DEF Handler

------------------------------------------------------------------------------
(* Handlers work on their own app                                          *)

LEMMA ContainerToUnique ==
    ASSUME HostOK, IdsUnique, NEW id, NEW s, ContainerTo(id, s)
    PROVE  IdsUnique'
<1>1. \A d \in containers' : \E c \in containers :
            c.id = d.id /\ d = IF c.id = id THEN [c EXCEPT !.state = s] ELSE c
  BY DEF HostOK, ContainerTo, Container
<1> QED  BY <1>1 DEF IdsUnique

LEMMA ContainerAddedUnique ==
    ASSUME HostOK, IdsUnique, NEW b, NEW net, NEW k, NEW i, createContainer(b, net, k, i)
    PROVE  /\ IdsUnique'
           /\ \A c \in containers' : c.id = NewContainerId => c.app = b
<1> DEFINE new == [id |-> NewContainerId, app |-> b, net |-> net, module |-> k,
                  image |-> i, state |-> "created"]
<1>1. containers' = containers \cup {new}
  BY DEF createContainer
<1>2. new.id = NewContainerId /\ new.app = b
  OBVIOUS
<1>3. \A c \in containers : c.id # NewContainerId
  BY NewContainerIdOK DEF HostOK, Container
<1> HIDE DEF new
<1> QED  BY <1>1, <1>2, <1>3 DEF IdsUnique

\* However the host changes, networks stay apart and containers keep their numbers.
HostKeeps == NetworksDistinct' /\ IdsUnique'

LEMMA EffectKeeps ==
    ASSUME TypeInv, OwnInv, HostEffect
    PROVE  /\ HostKeeps
           /\ HostShrinks \/ NetworkEffect \/ ContainerEffect
<1>0. HostOK /\ NetworksDistinct /\ IdsUnique
  BY DEF TypeInv, OwnInv
<1>1. CASE UNCHANGED <<containers, networks>>
  <2>1. HostShrinks
    BY <1>0, <1>1, SameHost
  <2> QED  BY <1>0, <1>1, <2>1, ShrinkKeeps DEF HostKeeps, IdsUnique
<1>2. CASE LoopEffect
  <2>1. PICK id \in op.todo :
            \/ \E s \in ContainerState : ContainerTo(id, s)
            \/ StopAndRemoveContainer(id)
    BY <1>2 DEF LoopEffect
  <2>2. HostShrinks
    BY <1>0, <2>1, ContainerToShrinks, RemoveContainerShrinks
  <2>3. IdsUnique'
    BY <1>0, <2>1, ContainerToUnique DEF StopAndRemoveContainer, IdsUnique
  <2> QED  BY <1>0, <2>2, <2>3, ShrinkKeeps DEF HostKeeps
<1>3. CASE PruneEffect
  <2>1. HostShrinks /\ containers' = containers
    BY <1>0, <1>3, PruneShrinks DEF PruneEffect, NetworkPrune
  <2> QED  BY <1>0, <2>1, ShrinkKeeps DEF HostKeeps, IdsUnique
<1>4. CASE NetworkEffect
  <2>1. NetworksDistinct'
    BY <1>0, <1>4, NetworkAdded DEF NetworkEffect
  <2> QED  BY <1>0, <1>4, <2>1 DEF HostKeeps, IdsUnique, NetworkEffect, CreateNetwork
<1>5. CASE ContainerEffect
  <2>1. [app |-> op.app, count |-> op.net] \in networks
    BY <1>5 DEF ContainerEffect, OwnInv, OwnWork
  <2>2. NetworksDistinct'
    BY <1>0, <1>5, <2>1, ContainerAdded DEF ContainerEffect, CreateModule
  <2>3. IdsUnique'
    BY <1>0, <1>5, ContainerAddedUnique DEF ContainerEffect, CreateModule
  <2> QED  BY <1>5, <2>2, <2>3 DEF HostKeeps
<1> QED  BY <1>1, <1>2, <1>3, <1>4, <1>5 DEF HostEffect

\* The calls at which RemovalCovers and OwnWork ask for nothing.
Free == {"idle", "add", "image", "network", "deployed", "lateError", "undeploy", "list",
         "deleteNext", "deleted"}

LEMMA ToFree ==
    ASSUME HostKeeps, op'.pc \in Free
    PROVE  OwnInv'
BY DEF HostKeeps, OwnInv, OwnWork, RemovalCovers, Free, At

\* The loops over containers, and nothing else that is asked of the list.
LEMMA ToLoop ==
    ASSUME HostKeeps, op'.pc \in {"stop", "resume"},
           \A c \in containers' : c.id \in op'.todo => c.app = op'.app
    PROVE  OwnInv'
BY DEF HostKeeps, OwnInv, OwnWork, RemovalCovers, At

\* One of the loops has a container less to look at.
LEMMA LoopShrinks ==
    ASSUME OwnInv, HostShrinks, op'.app = op.app, op'.todo \subseteq op.todo,
           op.pc \in {"start", "stop", "resume", "removeContainers"}
    PROVE  \A c \in containers' : c.id \in op'.todo => c.app = op'.app
BY DEF OwnInv, OwnWork, HostShrinks

LEMMA ListIsOwn ==
    ASSUME IdsUnique, NEW b, NEW S \in SUBSET ContainersOf(b), UNCHANGED containers
    PROVE  \A c \in containers' : c.id \in Ids(S) => c.app = b
BY DEF IdsUnique, Ids, ContainersOf

------------------------------------------------------------------------------
LEMMA OwnDeploy ==
    ASSUME TypeInv, OwnInv, HostKeeps, Deploy
    PROVE  OwnInv'
<1>0. op \in FrameType /\ HostOK
  BY DEF TypeInv, HandlerOK
<1>1. CASE CreateAppNetwork
  <2>1. [app |-> op.app, count |-> NewCount] \in networks'
    BY <1>1 DEF CreateAppNetwork, CreateNetwork
  <2>2. op'.pc = "create" /\ op'.app = op.app /\ op'.net = NewCount
    BY <1>0, <1>1 DEF CreateAppNetwork, Step, FrameType
  <2> QED  BY <2>1, <2>2 DEF HostKeeps, OwnInv, OwnWork, RemovalCovers, At
<1>2. CASE CreateContainer
  <2>1. /\ networks' = networks
        /\ \A c \in containers' : c.id = NewContainerId => c.app = op.app
    BY <1>0, <1>2, ContainerAddedUnique
       DEF CreateContainer, CreateModule, createContainer, OwnInv
  <2>2. /\ op.pc = "create" /\ op'.pc = "start" /\ op'.app = op.app /\ op'.net = op.net
        /\ op'.todo = {NewContainerId}
    BY <1>0, <1>2 DEF CreateContainer, At, Step, FrameType
  <2>3. [app |-> op'.app, count |-> op'.net] \in networks'
    BY <2>1, <2>2 DEF OwnInv, OwnWork
  <2> QED  BY <2>1, <2>2, <2>3 DEF HostKeeps, OwnInv, OwnWork, RemovalCovers, At
<1>3. CASE StartModule
  <2>1. /\ op.pc = "start" /\ op'.pc \in {"create", "deployed"} /\ op'.app = op.app
        /\ op'.net = op.net
    BY <1>0, <1>3 DEF StartModule, At, Step, FrameType
  <2>2. networks' = networks
    BY <1>3 DEF StartModule, StartContainer, ContainerTo
  <2>3. [app |-> op'.app, count |-> op'.net] \in networks'
    BY <2>1, <2>2 DEF OwnInv, OwnWork
  <2> QED  BY <2>1, <2>3 DEF HostKeeps, OwnInv, OwnWork, RemovalCovers, At
<1>4. CASE ~(CreateAppNetwork \/ CreateContainer \/ StartModule)
  <2> SUFFICES op'.pc \in Free
    BY ToFree
  <2>1. CASE DeployFresh \/ DeployNewVersion
    BY <2>1 DEF DeployFresh, DeployNewVersion, Step, Frame, Free
  <2>5. CASE Add
    BY <1>0, <2>5 DEF Add, Step, FrameType, Free
  <2>2. CASE DeployRejected \/ InspectFails \/ DeployDone \/ LateError
    BY <2>2 DEF DeployRejected, InspectFails, DeployDone, LateError, Return, Idle, Frame, Free
  <2>3. CASE ImagePresent \/ Pull \/ PullErrorUnseen
    BY <1>0, <2>3 DEF ImagePresent, Pull, PullErrorUnseen, Step, NextImage, At, FrameType, Free
  <2>4. CASE PullFails \/ CreateNetworkFails \/ CreateContainerFails \/ StartModuleFails
    BY <1>0, <2>4 DEF PullFails, CreateNetworkFails, CreateContainerFails, StartModuleFails,
                      Step, Rollback, FrameType, Free
  <2> QED  BY <1>4, <2>1, <2>2, <2>3, <2>4, <2>5 DEF Deploy
<1> QED  BY <1>1, <1>2, <1>3, <1>4

LEMMA OwnStopResume ==
    ASSUME TypeInv, OwnInv, HostKeeps, Stop \/ Resume
    PROVE  OwnInv'
<1>0. op \in FrameType /\ HostOK /\ NetworksDistinct /\ IdsUnique
  BY DEF TypeInv, HandlerOK, OwnInv
<1>1. CASE StopBegin \/ ResumeBegin
  <2>1. /\ op'.pc \in {"stop", "resume"} /\ op'.app = msg.app
        /\ UNCHANGED containers
        /\ \E S \in SUBSET ContainersOf(msg.app) : op'.todo = Ids(S)
    BY <1>1 DEF StopBegin, ResumeBegin, Step, Frame, RecordOnly, dockerVars, RunningIn
  <2> QED  BY <1>0, <2>1, ListIsOwn, ToLoop
<1>2. CASE StopNext \/ ResumeNext
  <2>1. /\ op.pc \in {"stop", "resume"} /\ op'.pc = op.pc /\ op'.app = op.app
        /\ op'.todo \subseteq op.todo
    BY <1>0, <1>2 DEF StopNext, ResumeNext, At, Step, FrameType
  <2>2. HostShrinks
    BY <1>0, <1>2, ContainerToShrinks DEF StopNext, ResumeNext, StopContainer, StartContainer
  <2> QED  BY <2>1, <2>2, LoopShrinks, ToLoop
<1>3. CASE StopRefused \/ StopFails \/ StopDone \/ ResumeRefused \/ ResumeFails \/ ResumeDone
  <2>1. op'.pc \in Free
    BY <1>3 DEF StopRefused, StopFails, StopDone, ResumeRefused, ResumeFails, ResumeDone,
                Return, Idle, Frame, Free
  <2> QED  BY <2>1, ToFree
<1> QED  BY <1>1, <1>2, <1>3 DEF Stop, Resume

LEMMA ReturnsToFree ==
    ASSUME op \in FrameType, NEW ok \in BOOLEAN,
           ReturnFromRemove(ok) \/ ReturnFromUndeploy(FALSE)
    PROVE  op'.pc \in Free
<1>1. Return(ok) \/ Return(FALSE) => op'.pc \in Free
  BY DEF Return, Idle, Frame, Free
<1>2. ASSUME NEW label \in Free, GoTo(label)
      PROVE  op'.pc \in Free
  BY <1>2 DEF GoTo, Step, FrameType
<1>3. ReturnFromRemove(ok) \/ ReturnFromRemove(FALSE) => op'.pc \in Free
  BY <1>1, <1>2 DEF ReturnFromRemove, Free
<1> QED  BY <1>1, <1>3 DEF ReturnFromUndeploy

LEMMA OwnUndeploy ==
    ASSUME TypeInv, OwnInv, HostKeeps, UndeployEdgeApp
    PROVE  OwnInv'
<1>0. op \in FrameType /\ HostOK /\ NetworksDistinct /\ IdsUnique
  BY DEF TypeInv, HandlerOK, OwnInv
<1>1. CASE UndeployRejected \/ UndeployBegin \/ Undeploy \/ ListContainersFails
           \/ UndeployIncomplete
  <2> SUFFICES op'.pc \in Free
    BY ToFree
  <2>1. CASE UndeployRejected \/ UndeployBegin \/ Undeploy
    BY <1>0, <2>1 DEF UndeployRejected, UndeployBegin, Undeploy, Return, GoTo, Step, Idle,
                      Frame, FrameType, Free
  <2>2. CASE ListContainersFails \/ UndeployIncomplete
    BY <1>0, <2>2, ReturnsToFree DEF ListContainersFails, UndeployIncomplete
  <2> QED  BY <1>1, <2>1, <2>2
<1>2. CASE ListContainers
  <2>1. /\ op'.pc = "removeContainers" /\ op'.app = op.app
        /\ op'.todo = Ids(ContainersOf(op.app)) /\ UNCHANGED containers
    BY <1>0, <1>2 DEF ListContainers, Step, Neither, dockerVars, FrameType
  <2>2. \A c \in containers' : c.id \in op'.todo => c.app = op'.app
    BY <1>0, <2>1, ListIsOwn
  <2>3. Ids(ContainersOf(op.app))' \subseteq op'.todo
    BY <2>1 DEF Ids, ContainersOf
  <2> QED  BY <2>1, <2>2, <2>3 DEF HostKeeps, OwnInv, OwnWork, RemovalCovers, At
<1>3. CASE RemoveContainer \/ RemoveContainerFails
  <2>1. PICK id \in op.todo : op'.todo = op.todo \ {id}
            /\ (~op'.failed => ~op.failed /\ StopAndRemoveContainer(id))
    BY <1>0, <1>3 DEF RemoveContainer, RemoveContainerFails, Step, FrameType
  <2>2. op.pc = "removeContainers" /\ op'.pc = "removeContainers" /\ op'.app = op.app
    BY <1>0, <1>3 DEF RemoveContainer, RemoveContainerFails, At, Step, FrameType
  <2>3. HostShrinks
    BY <1>0, <1>3, SameHost, ContainerToShrinks, RemoveContainerShrinks
       DEF RemoveContainer, RemoveContainerFails, FailsOn, Fails, StopContainer, dockerVars
  <2>4. \A c \in containers' : c.id \in op'.todo => c.app = op'.app
    BY <2>1, <2>2, <2>3, LoopShrinks
  <2>5. ~op'.failed => Ids(ContainersOf(op.app))' \subseteq op'.todo
    <3> SUFFICES ASSUME ~op'.failed
                 PROVE  \A c \in containers' : c.app = op'.app => c.id \in op'.todo
      BY DEF Ids, ContainersOf
    <3>1. containers' = {c \in containers : c.id # id}
      BY <2>1 DEF StopAndRemoveContainer
    <3>2. \A c \in containers : c.app = op.app => c.id \in op.todo
      BY <2>1, <2>2 DEF OwnInv, RemovalCovers, At, Ids, ContainersOf
    <3> QED  BY <2>1, <2>2, <3>1, <3>2
  <2> QED  BY <2>2, <2>4, <2>5 DEF HostKeeps, OwnInv, OwnWork, RemovalCovers, At
<1>4. CASE PruneNetworks
  <2>1. /\ op.pc = "removeContainers" /\ op'.pc = "undeployed" /\ op'.app = op.app
        /\ op'.failed = op.failed /\ op.todo = {}
    BY <1>0, <1>4 DEF PruneNetworks, At, GoTo, Step, FrameType
  <2>2. ~op.failed => ContainersOf(op.app) = {}
    BY <2>1 DEF OwnInv, RemovalCovers, At, Ids
  <2>3. ~op.failed => \A a : a = op.app => Empty(a)'
    BY <1>0, <1>4, <2>2, PruneEmpties DEF PruneNetworks
  <2>4. ~op'.failed => Empty(op.app)'
    BY <2>1, <2>3 DEF Empty, ContainersOf, NetworksOf
  <2> QED  BY <2>1, <2>4 DEF HostKeeps, OwnInv, OwnWork, RemovalCovers, At
<1>5. CASE PruneNetworksFails
  <2>1. op'.pc = "undeployed" /\ op'.failed
    BY <1>0, <1>5 DEF PruneNetworksFails, Step, FrameType
  <2> QED  BY <2>1 DEF HostKeeps, OwnInv, OwnWork, RemovalCovers, At
<1>6. CASE UndeployDone
  <2>1. op.pc = "undeployed" /\ ~op.failed /\ UNCHANGED <<containers, networks>>
    BY <1>6 DEF UndeployDone, At, RecordOnly, dockerVars
  <2>2. CASE op'.pc \in Free
    BY <2>2, ToFree
  <2>3. CASE op'.pc = "images" /\ op'.app = op.app
    <3>1. Empty(op.app)
      BY <2>1 DEF OwnInv, RemovalCovers, At
    <3>2. Empty(op.app)'
      BY <2>1, <2>3, <3>1 DEF Empty, ContainersOf, NetworksOf
    <3> QED  BY <2>3, <3>2 DEF HostKeeps, OwnInv, OwnWork, RemovalCovers, At
  <2>4. op'.pc \in Free \/ (op'.pc = "images" /\ op'.app = op.app)
    BY <1>0, <1>6 DEF UndeployDone, ReturnFromUndeploy, Return, GoTo, Step, Idle, Frame,
                      FrameType, Free
  <2> QED  BY <2>2, <2>3, <2>4
<1> QED  BY <1>1, <1>2, <1>3, <1>4, <1>5, <1>6 DEF UndeployEdgeApp

LEMMA OwnRemove ==
    ASSUME TypeInv, OwnInv, HostKeeps, RemoveEdgeApp
    PROVE  OwnInv'
<1>0. op \in FrameType
  BY DEF TypeInv, HandlerOK
<1>1. CASE SelectImages \/ RemoveImage \/ RemoveImageFails
  <2>1. /\ op.pc \in {"images", "removeImages"} /\ op'.pc = "removeImages"
        /\ op'.app = op.app /\ UNCHANGED <<containers, networks>>
    BY <1>0, <1>1 DEF SelectImages, RemoveImage, RemoveImageFails, At, Step, Neither,
       HostOnly, Fails, ImageRemove, dockerVars, FrameType
  <2>2. Empty(op.app)
    BY <2>1 DEF OwnInv, RemovalCovers
  <2>3. Empty(op.app)'
    BY <2>1, <2>2 DEF Empty, ContainersOf, NetworksOf
  <2> QED  BY <2>1, <2>3 DEF HostKeeps, OwnInv, OwnWork, RemovalCovers, At
<1>2. CASE SelectImagesFails \/ ImagesRemain \/ Forget
  <2>1. op'.pc \in Free
    BY <1>0, <1>2, ReturnsToFree DEF SelectImagesFails, ImagesRemain, Forget
  <2> QED  BY <2>1, ToFree
<1> QED  BY <1>1, <1>2 DEF RemoveEdgeApp

LEMMA OwnStep ==
    ASSUME TypeInv, OwnInv, [CrashNext]_vars
    PROVE  OwnInv'
<1>0. op \in FrameType /\ HostOK /\ NetworksDistinct /\ IdsUnique
  BY DEF TypeInv, HandlerOK, OwnInv
<1>1. CASE Handler
  <2>1. HostKeeps
    BY <1>1, HandlerHost, EffectKeeps
  <2>2. CASE DeleteNode
    <3>1. op'.pc \in Free
      BY <1>0, <2>2 DEF DeleteNode, DeleteBegin, DeleteNext, DeleteLast, SetNodeDeleted,
         GoTo, Step, Idle, Frame, FrameType, Free
    <3> QED  BY <2>1, <3>1, ToFree
  <2> QED  BY <1>1, <2>1, <2>2, OwnDeploy, OwnStopResume, OwnUndeploy, OwnRemove DEF Handler
<1>2. CASE Engine
  <2>1. HostShrinks /\ IdsUnique'
    BY <1>0, <1>2, ContainerToShrinks, RemoveContainerShrinks, ContainerToUnique
       DEF Engine, ContainerChanges, ContainerLost, StopAndRemoveContainer, IdsUnique
  <2>2. HostKeeps /\ \A a : Empty(a) => Empty(a)'
    BY <1>0, <2>1, ShrinkKeeps DEF HostKeeps
  <2>3. op' = op /\ networks' = networks
    BY <1>2 DEF Engine, handlerVars, ContainerChanges, ContainerLost, ContainerTo,
       StopAndRemoveContainer
  <2>4. OwnWork'
    BY <2>1, <2>3 DEF OwnInv, OwnWork, HostShrinks
  <2>5. Empty(op.app) => Empty(op.app)'
    <3>1. \A a : a = op.app /\ Empty(a) => Empty(a)'
      BY <2>2
    <3> QED  BY <2>3, <3>1 DEF Empty, ContainersOf, NetworksOf
  <2>6. Ids(ContainersOf(op.app))' \subseteq Ids(ContainersOf(op.app))
    BY <2>1, <2>3 DEF HostShrinks, Ids, ContainersOf
  <2>7. RemovalCovers'
    BY <2>3, <2>5, <2>6 DEF OwnInv, RemovalCovers, At
  <2> QED  BY <2>2, <2>4, <2>7 DEF HostKeeps, OwnInv
<1>3. CASE Restart
  <2>1. HostShrinks /\ containers' = containers /\ op'.pc = "idle"
    BY <1>0, <1>3, SameHost DEF Restart, dockerVars, Idle, Frame
  <2>2. HostKeeps
    BY <1>0, <2>1, ShrinkKeeps DEF HostKeeps, IdsUnique
  <2> QED  BY <2>1, <2>2, ToFree DEF Free
<1>4. CASE Receive \/ Finished \/ LogRead \/ UNCHANGED vars
  <2>1. UNCHANGED <<containers, networks, op>>
    BY <1>4 DEF Receive, Finished, LogRead, vars, dockerVars, handlerVars
  <2> QED  BY <2>1 DEF OwnInv, NetworksDistinct, IdsUnique, RemovalCovers, OwnWork, At, Ids,
                       ContainersOf, Empty, NetworksOf
<1> QED  BY <1>1, <1>2, <1>3, <1>4 DEF CrashNext, Next, CrashRestart, UpdateManifestPanics

LEMMA AlwaysOwn == CrashSpec => []OwnInv
<1>1. Init => OwnInv
  BY DEF Init, OwnInv, NetworksDistinct, IdsUnique, RemovalCovers, OwnWork, At, Idle, Frame
<1>2. TypeInv /\ OwnInv /\ [CrashNext]_vars => OwnInv'
  BY OwnStep
<1> QED  BY <1>1, <1>2, TypeInvariant, PTL DEF CrashSpec

\* No two networks of the agent, nor one of them and one of somebody else, have
\* the same number, for every limit, over failing calls, an engine that removes
\* containers and crashes of the agent; and every container is on a network of
\* its own app (network.go 51-84, edgeapp.go 85-104).
THEOREM NetworksNeverCollide == CrashSpec => []NetworksDistinct
BY AlwaysOwn, PTL DEF OwnInv
==============================================================================
