----------------------------- MODULE LogPipeline -----------------------------
(***************************************************************************)
(* The logs of one edge app on their way to MAPI (sendEdgeAppLogs of       *)
(* cmd/agent/agent.go, internal/edgeapp/logs.go, the log reader of         *)
(* internal/docker and SetLastLogRead of internal/manifest).               *)
(*                                                                         *)
(* In each cycle the lines of every container from the end of the last     *)
(* window to the time the cycle began are read, all are sent as one        *)
(* message, and the end of the window is recorded.  A line is the          *)
(* container and the time it was written; its text, and what constructLog- *)
(* Entry makes of it, is left out.  The engine stamps a line as it is      *)
(* written and includes both ends of a window.                             *)
(***************************************************************************)
EXTENDS Naturals, FiniteSets

CONSTANTS
    Containers,     \* the containers the app has, one after the other
    Slashless,      \* those the engine lists with an image name without a slash
    MaxContainers,  \* bound: how many of them it ever has
    MaxTime,        \* bound: the clock
    MaxFaults,      \* bound: calls that fail, messages that are lost
    MaxRestarts     \* bound: crashes of the agent

ASSUME LogPipelineAssumption ==
    /\ Slashless \subseteq Containers /\ MaxContainers \in Nat
    /\ MaxTime \in Nat \ {0} /\ MaxFaults \in Nat /\ MaxRestarts \in Nat

VARIABLES
    now,            \* the clock
    alive,          \* the app's containers; the others are to come or gone
    gone,           \* containers that were removed, with their logs
    lines,          \* what the containers have written
    lastRead,       \* LastLogReadTime of the record; 0 is the empty string
    lastReadFile,   \* the same, as saved
    sender,         \* the frame of sendEdgeAppLogs
    arrived,        \* how often each line has reached MAPI, counted to 2
    dropped,        \* lines in messages that were lost without an error
    cut,            \* no part of the program: lines that were read past
    windows,        \* no part of the program: the times at which a window ended
    faults, restarts \* counters for the bounds

logVars == <<now, alive, gone, lines, lastRead, lastReadFile, sender, arrived,
          dropped, cut, windows, faults, restarts>>

\* At the last tick no line is written, so that all can still be read.
Line == [con : Containers, at : 1 .. MaxTime - 1]

Asleep == [pc |-> "sleep", since |-> 0, until |-> 0, todo |-> {}, got |-> {}]

LogInit ==
    /\ now = 1 /\ alive = {} /\ gone = {} /\ lines = {}
    /\ lastRead = 0 /\ lastReadFile = 0
    /\ sender = Asleep
    /\ arrived = [l \in Line |-> 0] /\ dropped = {} /\ cut = {} /\ windows = {}
    /\ faults = 0 /\ restarts = 0

SenderAt(label) == sender.pc = label

hostVars == <<now, alive, gone, lines>>
recordVars == <<lastRead, lastReadFile>>
sentVars == <<arrived, dropped, cut>>
counters == <<faults, restarts>>

Fault == faults < MaxFaults /\ faults' = faults + 1 /\ UNCHANGED restarts

------------------------------------------------------------------------------
(* The containers                                                          *)

Tick ==
    /\ now < MaxTime /\ now' = now + 1
    /\ UNCHANGED <<alive, gone, lines, recordVars, sender, sentVars, windows, counters>>

WriteLine ==
    /\ now < MaxTime
    /\ \E c \in alive : lines' = lines \cup {[con |-> c, at |-> now]}
    /\ UNCHANGED <<now, alive, gone, recordVars, sender, sentVars, windows, counters>>

\* A deployment: the old containers are removed, the record is made anew
\* (AddKnownManifest) and, with the status Running, saved.
Deploy ==
    /\ \E S \in SUBSET (Containers \ (alive \cup gone)) :
        /\ S # {} /\ Cardinality(S \cup alive \cup gone) <= MaxContainers
        /\ alive' = S /\ gone' = gone \cup alive
    /\ lastRead' = 0 /\ lastReadFile' = 0
    /\ UNCHANGED <<now, lines, sender, sentVars, windows, counters>>

------------------------------------------------------------------------------
(* The sender                                                              *)

\* The record is copied, and the window ends, before anything is read.
Wake ==
    /\ SenderAt("sleep")
    /\ sender' = [Asleep EXCEPT !.pc = "list", !.since = lastRead, !.until = now]
    /\ windows' = windows \cup {now}
    /\ UNCHANGED <<hostVars, recordVars, sentVars, counters>>

ListContainers ==
    /\ SenderAt("list")
    /\ sender' = [sender EXCEPT !.pc = "read", !.todo = alive]
    /\ UNCHANGED <<hostVars, recordVars, sentVars, windows, counters>>

InWindow(l) == sender.since <= l.at /\ l.at <= sender.until

\* The lines of a container in the window, from one time to before another.
WindowOf(c, from, to) == {l \in lines : l.con = c /\ InWindow(l) /\ from <= l.at /\ l.at < to}

ReadContainerLogs ==
    /\ SenderAt("read")
    /\ \E c \in (sender.todo \cap alive) \ Slashless :
        sender' = [sender EXCEPT !.todo = @ \ {c}, !.got = @ \cup WindowOf(c, 0, MaxTime)]
    /\ UNCHANGED <<hostVars, recordVars, sentVars, windows, counters>>

\* The reader returns the lines it has and no error, and misses the rest: when data
\* comes together with EOF, when EOF falls inside a frame, and when a short Read makes
\* it take text for headers.
ReadIsCut ==
    /\ SenderAt("read") /\ Fault
    /\ \E c \in (sender.todo \cap alive) \ Slashless, t \in 1 .. MaxTime :
        /\ sender' = [sender EXCEPT !.todo = @ \ {c}, !.got = @ \cup WindowOf(c, 0, t)]
        /\ cut' = cut \cup WindowOf(c, t, MaxTime)
    /\ UNCHANGED <<hostVars, recordVars, arrived, dropped, windows>>

\* SendEdgeAppLogs splits the name of the image when the container has been read: an
\* index out of range, and again in the first cycle of the next process.
ModuleNamePanics ==
    /\ SenderAt("read") /\ sender.todo \cap alive \cap Slashless # {}
    /\ sender' = Asleep /\ lastRead' = lastReadFile
    /\ UNCHANGED <<hostVars, lastReadFile, sentVars, windows, counters>>

\* Variant: a container that cannot be read is passed over.
ReadSkips ==
    /\ SenderAt("read")
    /\ \E c \in sender.todo : sender' = [sender EXCEPT !.todo = @ \ {c}]
    /\ Fault
    /\ UNCHANGED <<hostVars, recordVars, sentVars, windows>>

\* Variant: the error ends the goroutine.
ReadFailsForGood ==
    /\ \/ SenderAt("list") /\ Fault
       \/ SenderAt("read") /\ sender.todo # {} /\ Fault
       \/ SenderAt("read") /\ sender.todo \cap gone # {} /\ UNCHANGED counters
    /\ sender' = [Asleep EXCEPT !.pc = "ended"]
    /\ UNCHANGED <<hostVars, recordVars, sentVars, windows>>

\* Of a list or of one container that cannot be read nothing at all is sent, and
\* the window stays open; a container that is gone cannot be read.
ReadFails ==
    /\ \/ SenderAt("list") /\ Fault
       \/ SenderAt("read") /\ sender.todo # {} /\ Fault
       \/ SenderAt("read") /\ sender.todo \cap gone # {} /\ UNCHANGED counters
    /\ sender' = Asleep
    /\ UNCHANGED <<hostVars, recordVars, sentVars, windows>>

\* Without lines there is no message.
Publish ==
    /\ SenderAt("read") /\ sender.todo = {}
    /\ arrived' = [l \in Line |-> IF l \in sender.got /\ arrived[l] < 2
                                 THEN arrived[l] + 1 ELSE arrived[l]]
    /\ sender' = [sender EXCEPT !.pc = "record"]
    /\ UNCHANGED <<hostVars, recordVars, dropped, cut, windows, counters>>

\* A message of QoS 0 is dropped while the client reconnects, and one that is not
\* written within a second counts as sent.
PublishLost ==
    /\ SenderAt("read") /\ sender.todo = {} /\ Fault
    /\ dropped' = dropped \cup sender.got
    /\ sender' = [sender EXCEPT !.pc = "record"]
    /\ UNCHANGED <<hostVars, recordVars, arrived, cut, windows>>

PublishFails ==
    /\ SenderAt("read") /\ sender.todo = {} /\ sender.got # {} /\ Fault
    /\ sender' = Asleep
    /\ UNCHANGED <<hostVars, recordVars, sentVars, windows>>

\* Variant: the beginning of the window is recorded.
RecordSince ==
    /\ SenderAt("record")
    /\ lastRead' = sender.since /\ lastReadFile' = sender.since
    /\ sender' = Asleep
    /\ UNCHANGED <<hostVars, sentVars, windows, counters>>

RecordLogRead ==
    /\ SenderAt("record")
    /\ lastRead' = sender.until /\ lastReadFile' = sender.until
    /\ sender' = Asleep
    /\ UNCHANGED <<hostVars, sentVars, windows, counters>>

Sender ==
    \/ Wake \/ ListContainers
    \/ ReadContainerLogs \/ ReadIsCut \/ ModuleNamePanics \/ ReadFails
    \/ Publish \/ PublishLost \/ PublishFails \/ RecordLogRead

CrashRestart ==
    /\ restarts < MaxRestarts /\ restarts' = restarts + 1
    /\ sender' = Asleep /\ lastRead' = lastReadFile
    /\ UNCHANGED <<hostVars, lastReadFile, sentVars, windows, faults>>

LogNext == Tick \/ WriteLine \/ Deploy \/ Sender \/ CrashRestart

\* The loop goes on for ever, and so does time up to its bound.
LogSpec == LogInit /\ [][LogNext]_logVars /\ WF_logVars(Sender) /\ WF_logVars(Tick)

------------------------------------------------------------------------------
(* Properties                                                              *)

\* The types of the record, the sender's frame and the messages (logs.go).
LogTypeOK ==
    /\ now \in 1 .. MaxTime /\ alive \cup gone \subseteq Containers
    /\ alive \cap gone = {}
    /\ lines \subseteq Line /\ dropped \cup cut \subseteq Line
    /\ {lastRead, lastReadFile} \subseteq 0 .. MaxTime
    /\ sender \in [pc : {"sleep", "list", "read", "record"}, since : 0 .. MaxTime,
                   until : 0 .. MaxTime, todo : SUBSET Containers, got : SUBSET Line]
    /\ arrived \in [Line -> 0 .. 2]

\* No line is passed over but by the reader: what was written before the end of the
\* last window has reached MAPI, unless its message was lost without an error, the
\* reader ended before it without one, or its container is gone; whatever reads and
\* publications failed, and however the agent ended or the app was deployed again
\* between two of the steps (logs.go 36-70).
NothingPassedOver ==
    \A l \in lines :
        l.con \in alive /\ l.at < lastRead => arrived[l] > 0 \/ l \in dropped \cup cut

\* A line is sent twice only when a crash comes between the message and the record
\* of it, or when it was written at the very time a window ended.
SentOnce ==
    \A l \in Line : arrived[l] > 1 => restarts > 0 \/ l.at \in windows

\* Every line comes to be sent, is lost with its message or by its reader, or goes
\* with its container - but where one container of the app has an image name that the
\* agent panics over (logs.go 62), none does: otherwise, once no more are written, none
\* is held back for good by a reading or a publication that failed, the end of the
\* agent or a deployment (logs.go 36-47).
EveryLineLeaves ==
    <>[](\/ alive \cap Slashless # {}
         \/ \A l \in lines : arrived[l] > 0 \/ l \in dropped \cup cut \/ l.con \in gone)
=============================================================================
