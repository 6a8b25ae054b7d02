-------------------------------- MODULE Docker --------------------------------
(***************************************************************************)
(* The docker engine as the agent drives it (internal/docker).             *)
(*                                                                         *)
(* The state is the engine's, not the agent's: it survives a crash of the  *)
(* agent.  The label manifestUniqueID is the field "app"; an image is its  *)
(* own ID.  Every operator below is what one successful call does; what a  *)
(* failing call may leave behind is said where the call is made.           *)
(***************************************************************************)
EXTENDS NetworkName

CONSTANTS
    Apps,           \* the manifest IDs: values of the label manifestUniqueID
    Images,         \* full image names
    Unstable,       \* images whose containers exit, fail or are removed
                    \* without the agent's doing
    ForeignCounts   \* counts read from networks that are not the agent's,
                    \* each of which has a name long enough to be read

ASSUME DockerAssumption ==
    /\ Unstable \subseteq Images
    /\ ForeignCounts \subseteq -MaxNetworkIndex .. MaxNetworkIndex

VARIABLES
    containers,     \* set of containers, see TypeOK of EdgeApp
    networks,       \* set of [app, count]
    images          \* images present on the host

dockerVars == <<containers, networks, images>>

ContainerState == {"created", "running", "restarting", "exited"}

ContainersOf(a) == {c \in containers : c.app = a}
NetworksOf(a) == {n \in networks : n.app = a}
Ids(S) == {c.id : c \in S}
Exists(id) == id \in Ids(containers)
InUse(i) == \E c \in containers : c.image = i

\* Containers are numbered in the order of their creation; only that order is
\* ever used (docker lists the newest first), so numbers of removed containers
\* are used again.
NewContainerId == 1 + Max({0} \cup Ids(containers))

NewCount == NewNetworkCount(ForeignCounts \cup {n.count : n \in networks})

------------------------------------------------------------------------------
PullImage(i) ==
    /\ images' = images \cup {i}
    /\ UNCHANGED <<containers, networks>>

ImageRemove(i) ==
    /\ images' = images \ {i}
    /\ UNCHANGED <<containers, networks>>

CreateNetwork(a) ==
    /\ networks' = networks \cup {[app |-> a, count |-> NewCount]}
    /\ UNCHANGED <<containers, images>>

\* NetworksPrune removes the networks of the app that no container is on.
NetworkPrune(a) ==
    /\ networks' = {n \in networks :
                        n.app = a => \E c \in containers : c.net = n.count}
    /\ UNCHANGED <<containers, images>>

createContainer(a, net, k, i) ==
    /\ containers' = containers \cup
            {[id |-> NewContainerId, app |-> a, net |-> net, module |-> k,
              image |-> i, state |-> "created"]}
    /\ UNCHANGED <<networks, images>>

ContainerTo(id, s) ==
    /\ containers' = {IF c.id = id THEN [c EXCEPT !.state = s] ELSE c :
                        c \in containers}
    /\ UNCHANGED <<networks, images>>

StartContainer(id) == ContainerTo(id, "running")

StopContainer(id) == ContainerTo(id, "exited")

StopAndRemoveContainer(id) ==
    /\ containers' = {c \in containers : c.id # id}
    /\ UNCHANGED <<networks, images>>

------------------------------------------------------------------------------
(* What containers do by themselves under RestartPolicy on-failure, 100.   *)

MayGoTo(s, t) ==
    \/ s = "running" /\ t \in {"exited", "restarting"}
    \/ s = "restarting" /\ t \in {"running", "exited"}

ContainerChanges ==
    \E c \in containers, s \in ContainerState :
        /\ c.image \in Unstable
        /\ MayGoTo(c.state, s)
        /\ ContainerTo(c.id, s)

\* Somebody else removes a container.
ContainerLost ==
    \E c \in containers :
        /\ c.image \in Unstable
        /\ StopAndRemoveContainer(c.id)
==============================================================================
