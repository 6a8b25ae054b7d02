---------------------------- MODULE NodeSession ----------------------------
(***************************************************************************)
(* What the broker keeps as the status of the node: startup and shutdown   *)
(* (cmd/agent/agent.go), the MQTT session with its will (internal/com/     *)
(* mqtt.go) and the senders of status messages, of which only the node     *)
(* status is modelled here (module StatusReport models the rest).          *)
(*                                                                         *)
(* A message that is published goes into the connection and reaches the    *)
(* broker later and in order; what is in a connection that breaks is lost. *)
(***************************************************************************)
EXTENDS Naturals, Sequences

CONSTANTS
    NoMessage,      \* nothing retained, nothing to publish
    MaxStarts,      \* bound: starts of the agent
    MaxLosses,      \* bound: connections that break
    MaxInFlight     \* bound: messages in the connection

NodeStatus == {"Disconnected", "Connected", "Deleted"}

ASSUME NodeSessionAssumption ==
    NoMessage \notin NodeStatus /\ MaxStarts \in Nat /\ MaxLosses \in Nat /\ MaxInFlight \in Nat

VARIABLES
    place,          \* where main() is; "off" when there is no process
    nodeStatus,     \* edgeapp.nodeStatus
    link,           \* the connection as the client sees it
    wire,           \* what is in the connection, to the broker
    will,           \* the broker has the will of a connection it believes open
    retained,       \* the node status in the message the broker keeps, or NoMessage
    beat, hand,     \* the message the heartbeat, a handler is about to publish
    deletion,       \* a message on <nodeId>/delete waits at the broker
    late,           \* no part of the program: something was published between
                    \* the farewell and the end of the last connection
    deleting,       \* whether the agent was started with --delete
    starts, losses  \* counters for the bounds

sessionVars == <<place, nodeStatus, link, wire, will, retained, beat, hand,
                 deletion, late, deleting, starts, losses>>

\* The option does not change while the agent runs, nor does the counter.
bounds == <<deleting, starts, losses>>

SessionInit ==
    /\ place = "starting" /\ nodeStatus = "Disconnected"
    /\ link = "none" /\ wire = <<>> /\ will = FALSE /\ retained = NoMessage
    /\ beat = NoMessage /\ hand = NoMessage /\ deletion \in BOOLEAN
    /\ late = FALSE /\ deleting \in BOOLEAN /\ starts = 1 /\ losses = 0

------------------------------------------------------------------------------
(* publishMessage: while the client reconnects a message of QoS 0 is       *)
(* dropped without an error, and no answer within a second counts as one.  *)

Published(m) ==
    /\ link = "up" => Len(wire) < MaxInFlight
    /\ wire' = IF link = "up" THEN Append(wire, m) ELSE wire
    /\ late' = (late \/ (link = "up" /\ place = "quitting"))

------------------------------------------------------------------------------
(* main                                                                    *)

\* Variant: the connection is made without a will.
OpenedWithoutWill ==
    /\ link' = "up" /\ wire' = <<>> /\ will' = FALSE /\ late' = FALSE
    /\ UNCHANGED retained

\* The connection replaces an older one, of which the broker may not know yet
\* that it is over: its will is published first.
Opened ==
    /\ link' = "up" /\ wire' = <<>> /\ will' = TRUE /\ late' = FALSE
    /\ retained' = IF will THEN "Disconnected" ELSE retained

Connect ==
    /\ place = "starting" /\ place' = IF deleting THEN "deleting" ELSE "connected"
    /\ Opened
    /\ UNCHANGED <<nodeStatus, beat, hand, deletion, bounds>>

\* From here on handlers may have run: subscriptions are made on connecting.
SetConnected ==
    /\ place = "connected" /\ place' = "announcing"
    /\ nodeStatus' = "Connected"
    /\ UNCHANGED <<link, wire, will, retained, beat, hand, deletion, late, bounds>>

\* SendNodePublicKey is done; the goroutines start.
StartThreads ==
    /\ place = "announcing" /\ place' = "running"
    /\ UNCHANGED <<nodeStatus, link, wire, will, retained, beat, hand, deletion,
                   late, bounds>>

\* --delete: DeleteNode(NodeDisconnected) in main, then os.Exit; the message is
\* sent by the exit that follows.
DeleteNodeAndExit ==
    /\ place = "deleting" /\ place' = "off"
    /\ nodeStatus' = "Disconnected"
    /\ Published(nodeStatus')
    /\ link' = "none" /\ beat' = NoMessage /\ hand' = NoMessage
    /\ UNCHANGED <<will, retained, deletion, bounds>>

\* Variant: the client just disconnects.
SayNothing ==
    /\ place = "running" /\ place' = "quitting"
    /\ UNCHANGED <<nodeStatus, link, wire, will, retained, beat, hand, deletion, late,
                   bounds>>

\* SIGTERM: sendDisconnectedStatus, of which an answer is awaited for a second.
\* While the client reconnects the message is kept for later; the will, which
\* says the same, makes up for that and stands for both here.
SayGoodbye ==
    /\ place = "running" /\ place' = "quitting"
    /\ Published("Disconnected")
    /\ UNCHANGED <<nodeStatus, link, will, retained, beat, hand, deletion, bounds>>

\* client.Disconnect: what is published before it is sent before it.
Disconnect ==
    /\ place = "quitting" /\ place' = "off"
    /\ wire' = IF link = "up" THEN Append(wire, "DISCONNECT") ELSE wire
    /\ link' = "none" /\ beat' = NoMessage /\ hand' = NoMessage
    /\ UNCHANGED <<nodeStatus, will, retained, deletion, late, bounds>>

\* log.Fatal, a panic, a signal that is not caught.
ProcessEnds ==
    /\ place # "off" /\ place' = "off"
    /\ link' = "none" /\ beat' = NoMessage /\ hand' = NoMessage
    /\ UNCHANGED <<nodeStatus, wire, will, retained, deletion, late, bounds>>

\* systemd, or the user.
Restart ==
    /\ place = "off" /\ starts < MaxStarts /\ starts' = starts + 1
    /\ place' = "starting" /\ nodeStatus' = "Disconnected" /\ deleting' \in BOOLEAN
    /\ UNCHANGED <<link, wire, will, retained, beat, hand, deletion, late, losses>>

Main == Connect \/ SetConnected \/ StartThreads \/ DeleteNodeAndExit \/ Disconnect

------------------------------------------------------------------------------
(* The senders of status messages: composed first, published later.        *)

\* Variant: the heartbeat takes the node to be connected.
ComposeConnected ==
    /\ place \in {"running", "quitting"} /\ beat = NoMessage
    /\ beat' = "Connected"
    /\ UNCHANGED <<place, nodeStatus, link, wire, will, retained, hand, deletion,
                   late, bounds>>

Compose ==
    /\ place \in {"running", "quitting"} /\ beat = NoMessage
    /\ beat' = nodeStatus
    /\ UNCHANGED <<place, nodeStatus, link, wire, will, retained, hand, deletion,
                   late, bounds>>

Publish ==
    /\ beat # NoMessage /\ beat' = NoMessage
    /\ Published(beat)
    /\ UNCHANGED <<place, nodeStatus, link, will, retained, hand, deletion, bounds>>

Heartbeat == Compose \/ Publish

Serving == place \notin {"off", "starting"} /\ link = "up" /\ hand = NoMessage

\* NodeDeleteHandler; the agent goes on.
DeleteNode ==
    /\ Serving /\ deletion /\ deletion' = FALSE
    /\ nodeStatus' = "Deleted" /\ hand' = "Deleted"
    /\ UNCHANGED <<place, link, wire, will, retained, beat, late, bounds>>

\* A handler of orchestration messages.
ComposeInHandler ==
    /\ Serving /\ hand' = nodeStatus
    /\ UNCHANGED <<place, nodeStatus, link, wire, will, retained, beat, deletion,
                   late, bounds>>

PublishInHandler ==
    /\ hand # NoMessage /\ hand' = NoMessage
    /\ Published(hand)
    /\ UNCHANGED <<place, nodeStatus, link, will, retained, beat, deletion, bounds>>

Handlers == DeleteNode \/ PublishInHandler

------------------------------------------------------------------------------
(* The broker and the connection                                           *)

Arrive ==
    /\ wire # <<>>
    /\ IF Head(wire) = "DISCONNECT"
       THEN wire' = <<>> /\ will' = FALSE /\ UNCHANGED retained
       ELSE wire' = Tail(wire) /\ retained' = Head(wire) /\ UNCHANGED will
    /\ UNCHANGED <<place, nodeStatus, link, beat, hand, deletion, late, bounds>>

\* The broker finds the connection over without a DISCONNECT.
PublishWill ==
    /\ will /\ link # "up" /\ wire = <<>>
    /\ will' = FALSE /\ retained' = "Disconnected"
    /\ UNCHANGED <<place, nodeStatus, link, wire, beat, hand, deletion, late, bounds>>

ConnectionLost ==
    /\ link = "up" /\ losses < MaxLosses /\ losses' = losses + 1
    /\ link' = "down" /\ wire' = <<>>
    /\ UNCHANGED <<place, nodeStatus, will, retained, beat, hand, deletion, late,
                   deleting, starts>>

Reconnect ==
    /\ link = "down" /\ Opened
    /\ UNCHANGED <<place, nodeStatus, beat, hand, deletion, bounds>>

Broker == Arrive \/ PublishWill

SessionNext ==
    \/ Main \/ SayGoodbye \/ ProcessEnds \/ Restart
    \/ Heartbeat \/ Handlers \/ ComposeInHandler
    \/ Broker \/ ConnectionLost \/ Reconnect

\* What has begun goes on; only signals, crashes, starts, commands and losses
\* need not happen.
SessionSpec ==
    /\ SessionInit /\ [][SessionNext]_sessionVars
    /\ WF_sessionVars(Main) /\ WF_sessionVars(Heartbeat) /\ WF_sessionVars(Handlers)
    /\ WF_sessionVars(Broker) /\ WF_sessionVars(Reconnect)

------------------------------------------------------------------------------
(* Properties                                                              *)

Alive == {"Connected", "Deleted"}
SaysAlive == retained \in Alive

\* The connection was closed with a DISCONNECT the broker has not seen yet.
Closed == wire # <<>> /\ wire[Len(wire)] = "DISCONNECT"

\* The status the broker keeps once it has taken everything that is on the way.
Standing ==
    LET n == IF Closed THEN Len(wire) - 1 ELSE Len(wire)
    IN  IF n = 0 THEN retained ELSE wire[n]

\* Whatever says that the node is alive can still be taken back without it: the
\* broker has the will of that connection and no DISCONNECT will make it forget
\* it, over ends of the process at any point, losses and connections that replace
\* others; unless something was published after the farewell (mqtt.go 78-107).
AliveIsRevocable == Standing \in Alive => late \/ (will /\ ~Closed)

\* After the process is gone, in whatever way, the broker's message comes to say
\* so, by the farewell or by the will (mqtt.go 78-107); unless something was
\* published between the farewell and the end of the connection.
GoneIsTold == (place = "off") ~> (~SaysAlive \/ late \/ place # "off")

\* The same without the exception ("Cleanup on ending the process", agent.go
\* 100): the heartbeat is not stopped before the farewell.
StoppedNodeIsDisconnected == (place = "off") ~> (~SaysAlive \/ place # "off")

\* An agent that goes on running with a connection that holds comes to be told
\* by its own status, for good, whatever will of an older connection, message of
\* a startup or overtaken heartbeat came before (agent.go 83-97, 206-217).
RunningIsTold ==
    <>[](place = "running" /\ link = "up") => <>[](retained = nodeStatus)
==============================================================================
