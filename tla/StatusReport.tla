---------------------------- MODULE StatusReport ----------------------------
(***************************************************************************)
(* The status messages of the node (internal/edgeapp/status.go and the two *)
(* goroutines of cmd/agent/agent.go that send them), composed with the     *)
(* handling of commands.                                                   *)
(*                                                                         *)
(* Three parties put a status message together and publish it, retained,   *)
(* on one topic: the handler, after each status it sets; the heartbeat;    *)
(* the monitor, when two readings differ.  The handler changes nothing     *)
(* while it reads, so its message is one step with the status it sets.     *)
(* The other two read record and engine bit by bit, without a lock, while  *)
(* a handler runs.                                                         *)
(***************************************************************************)
EXTENDS EdgeAppProperties

CONSTANTS
    Teams,          \* the sets of Reporters of which one runs
    Harsh,          \* images whose containers, when stopped, exit with a code
                    \* other than 0 and 137
    MaxChanges      \* bound: changes of containers by the engine

VARIABLES
    reader,         \* the frame of each reporter that runs
    seen,           \* monitorEdgeAppStatus: edgeApps
    retained,       \* the message the broker keeps, or None
    changes         \* counter for the bound

reportVars == <<reader, seen, retained, changes>>

Reporters == {"heartbeat", "monitor"}
Team == DOMAIN reader

(* A reading: GetEdgeAppStatus at one app after the other.  held is the    *)
(* record itself when the app has another by now, or none: the reader has  *)
(* a pointer.  moved is no part of the program; it tells whether something *)
(* changed since the reading began.                                        *)
Asleep == [pc |-> "sleep", sending |-> FALSE, todo |-> {}, app |-> None,
           held |-> None, status |-> None, cons |-> {}, report |-> <<>>,
           node |-> None, latest |-> <<>>, moved |-> FALSE]

ReportInit ==
    /\ Init
    /\ \E team \in Teams : reader = [r \in team |-> Asleep]
    /\ seen = <<>> /\ retained = None /\ changes = 0

------------------------------------------------------------------------------
(* What is said of an app                                                  *)

\* Variant: the number of containers is not compared.
MiscountedNever(rec, cons) == FALSE

Miscounted(rec, cons) ==
    rec.status \in {"Running", "Stopped"} /\ Cardinality(cons) # Len(rec.man.modules)

Afflicted(rec, c) ==
    \/ rec.status = "Running" /\ c.state # "running"
    \/ rec.status = "Stopped" /\ (c.state # "exited" \/ c.image \in Harsh)

Entry(a, s) == [app |-> a, status |-> s]

\* The message the handler puts together.
HandlerReport ==
    [node |-> nodeStatus,
     apps |-> {Entry(a, LET rec == known[a]
                            cons == ContainersOf(a)
                        IN IF Miscounted(rec, cons) \/ \E c \in cons : Afflicted(rec, c)
                           THEN "Error" ELSE rec.status) :
                a \in {b \in Apps : IsKnown(b)}}]

------------------------------------------------------------------------------
(* GetEdgeAppStatus, as a reporter r runs it                               *)

AtReader(r, label) == reader[r].pc = label
ReaderTo(r, frame) == reader' = [reader EXCEPT ![r] = frame]
ReaderOnly == UNCHANGED <<dockerVars, storeVars, handlerVars, commands, crashes, changes>>

Rec(r) == IF reader[r].held = None THEN known[reader[r].app] ELSE reader[r].held

StartReading(r) ==
    [Asleep EXCEPT !.pc = "app", !.todo = {a \in Apps : IsKnown(a)},
                   !.sending = reader[r].sending, !.latest = reader[r].latest]

Appended(r, s) ==
    [reader[r] EXCEPT !.pc = "app", !.todo = @ \ {reader[r].app}, !.app = None,
        !.held = None, !.cons = {}, !.status = None,
        !.report = Append(@, Entry(reader[r].app, s))]

Reported(r) == {reader[r].report[k].app : k \in DOMAIN reader[r].report}

Wake(r) ==
    /\ AtReader(r, "sleep")
    /\ ReaderTo(r, [StartReading(r) EXCEPT !.sending = (r = "heartbeat")])
    /\ NoFault /\ UNCHANGED <<seen, retained>> /\ ReaderOnly

\* The map is walked in any order; a record that was added meanwhile may turn
\* up or not.
ReadApp(r) ==
    /\ AtReader(r, "app")
    /\ \E a \in Apps \ Reported(r) :
        /\ IsKnown(a)
        /\ ReaderTo(r,
            IF known[a].status = "Undeployed"
            THEN [reader[r] EXCEPT !.todo = @ \ {a},
                                   !.report = Append(@, Entry(a, "Undeployed"))]
            ELSE [reader[r] EXCEPT !.pc = "list", !.app = a,
                                   !.status = known[a].status])
    /\ NoFault /\ UNCHANGED <<seen, retained>> /\ ReaderOnly

ReadContainers(r) ==
    /\ AtReader(r, "list")
    /\ ReaderTo(r, [reader[r] EXCEPT !.pc = "count", !.cons = ContainersOf(reader[r].app)])
    /\ NoFault /\ UNCHANGED <<seen, retained>> /\ ReaderOnly

\* The status is read again here and after each inspection.
CountContainers(r) ==
    /\ AtReader(r, "count")
    /\ ReaderTo(r, [reader[r] EXCEPT !.pc = "inspect",
            !.status = IF Miscounted(Rec(r), reader[r].cons) THEN "Error" ELSE @])
    /\ NoFault /\ UNCHANGED <<seen, retained>> /\ ReaderOnly

InspectContainer(r) ==
    /\ AtReader(r, "inspect")
    /\ \E c \in reader[r].cons :
        /\ IsNewest(c.id, Ids(reader[r].cons)) /\ Exists(c.id)
        /\ ReaderTo(r, [reader[r] EXCEPT !.cons = @ \ {c},
                !.status = IF Afflicted(Rec(r), c) THEN "Error" ELSE @])
    /\ NoFault /\ UNCHANGED <<seen, retained>> /\ ReaderOnly

AppRead(r) ==
    /\ AtReader(r, "inspect") /\ reader[r].cons = {}
    /\ ReaderTo(r, Appended(r, reader[r].status))
    /\ NoFault /\ UNCHANGED <<seen, retained>> /\ ReaderOnly

\* Variant: it ends the goroutine.
ReadingFailsForGood(r) ==
    /\ \/ AtReader(r, "list") /\ Fault
       \/ /\ AtReader(r, "inspect")
          /\ \E c \in reader[r].cons :
                /\ IsNewest(c.id, Ids(reader[r].cons))
                /\ IF Exists(c.id) THEN Fault ELSE NoFault
    /\ ReaderTo(r, [Asleep EXCEPT !.pc = "ended"])
    /\ UNCHANGED <<seen, retained>> /\ ReaderOnly

\* A list or an inspection that fails ends the reading; nothing is sent.
ReadingFails(r) ==
    /\ \/ AtReader(r, "list") /\ Fault
       \/ /\ AtReader(r, "inspect")
          /\ \E c \in reader[r].cons :
                /\ IsNewest(c.id, Ids(reader[r].cons))
                /\ IF Exists(c.id) THEN Fault ELSE NoFault
    /\ ReaderTo(r, Asleep)
    /\ UNCHANGED <<seen, retained>> /\ ReaderOnly

ReadingDone(r) == AtReader(r, "app") /\ reader[r].todo = {}

------------------------------------------------------------------------------
(* What the reporters do with a reading                                    *)

\* GetStatusMessage: the node status is read last.
Compose(r) ==
    /\ ReadingDone(r) /\ reader[r].sending
    /\ ReaderTo(r, [reader[r] EXCEPT !.pc = "publish", !.node = nodeStatus])
    /\ NoFault /\ UNCHANGED <<seen, retained>> /\ ReaderOnly

ReportOf(seq) == {seq[k] : k \in DOMAIN seq}

\* The monitor remembers the reading that made it send, not the one it sent.
Publish(r) ==
    /\ AtReader(r, "publish")
    /\ retained' = [node |-> reader[r].node, apps |-> ReportOf(reader[r].report)]
    /\ seen' = IF r = "monitor" THEN reader[r].latest ELSE seen
    /\ ReaderTo(r, Asleep) /\ NoFault /\ ReaderOnly

\* No error is seen when the message is lost, or given up after a second;
\* when there is one the monitor does not take the change as told.
PublishFails(r) ==
    /\ AtReader(r, "publish") /\ Fault
    /\ seen' \in {seen, IF r = "monitor" THEN reader[r].latest ELSE seen}
    /\ ReaderTo(r, Asleep) /\ UNCHANGED retained /\ ReaderOnly

\* Variant: only the numbers of apps are compared.
DiffersInLength(old, new) == Len(old) # Len(new)

\* CompareEdgeAppStatus, position by position.
Differs(old, new) ==
    Len(old) = Len(new) => \E k \in DOMAIN old : old[k].status # new[k].status

MonitorCompares(r) ==
    /\ r = "monitor" /\ ReadingDone(r) /\ ~reader[r].sending
    /\ ReaderTo(r, IF Differs(seen, reader[r].report)
                   THEN [StartReading(r) EXCEPT !.sending = TRUE,
                                                !.latest = reader[r].report]
                   ELSE Asleep)
    /\ NoFault /\ UNCHANGED <<seen, retained>> /\ ReaderOnly

Reporter(r) ==
    \/ Wake(r) \/ ReadApp(r) \/ ReadContainers(r) \/ CountContainers(r)
    \/ InspectContainer(r) \/ AppRead(r) \/ ReadingFails(r)
    \/ Compose(r) \/ Publish(r) \/ PublishFails(r) \/ MonitorCompares(r)

------------------------------------------------------------------------------
(* The handler, and the engine, seen from a reader                         *)

\* The record that a reader is at is taken out of the map, or replaced in it.
Replaced(a) == IsKnown(a) /\ (known'[a] = None \/ (At("add") /\ op.app = a))

SeenBy(f) ==
    IF f.pc = "sleep" THEN f ELSE
    [f EXCEPT !.moved = TRUE,
              !.todo = {a \in @ : known'[a] # None},
              !.held = IF f.app # None /\ @ = None /\ Replaced(f.app)
                       THEN known[f.app] ELSE @]

Watched == reader' = [r \in Team |-> SeenBy(reader[r])]

\* setAndSendStatus, and SendStatus after a record or the node is deleted.  A
\* status that is set to what it was is sent too; that is left open.
SendsStatus == (known' # known /\ ~At("add")) \/ At("deleted")

HandlerSends ==
    \/ SendsStatus /\ retained' = HandlerReport'
    \/ SendsStatus /\ faults < MaxFaults /\ UNCHANGED retained
    \/ ~SendsStatus /\ UNCHANGED retained

HandlerReports ==
    /\ Handler /\ HandlerSends /\ Watched
    /\ UNCHANGED <<seen, changes>>

EngineChanges ==
    /\ changes < MaxChanges /\ changes' = changes + 1
    /\ Engine /\ Watched
    /\ UNCHANGED <<seen, retained>>

ReceiveMessage == Receive /\ UNCHANGED reportVars

reportingVars == <<vars, reportVars>>

ReportNext ==
    \/ ReceiveMessage \/ HandlerReports \/ EngineChanges
    \/ \E r \in Team : Reporter(r)

ReportSpec == ReportInit /\ [][ReportNext]_reportingVars

\* Handlers go on to their end, and both loops go on for ever.
FairReportSpec ==
    /\ ReportSpec
    /\ WF_reportingVars(HandlerReports)
    /\ \A r \in Reporters : WF_reportingVars(r \in Team /\ Reporter(r))

------------------------------------------------------------------------------
(* What the status messages promise                                        *)

\* All modules of the app, and nothing else of it, are in the state that its
\* status stands for (README.md 113: the message "includes the status of the
\* node, the running edge apps and their modules").
ModulesAre(a, s) ==
    LET modules == DOMAIN known[a].man.modules IN
    /\ {c.module : c \in {d \in ContainersOf(a) : d.state = s}} = modules
    /\ Cardinality(ContainersOf(a)) = Cardinality(modules)

TrueStatus(a) ==
    LET s == known[a].status IN
    IF \/ s = "Running" /\ ~ModulesAre(a, "running")
       \/ s = "Stopped" /\ (~ModulesAre(a, "exited") \/ \E c \in ContainersOf(a) : c.image \in Harsh)
    THEN "Error" ELSE s

TrueReport == {Entry(a, TrueStatus(a)) : a \in {b \in Apps : IsKnown(b)}}

\* Containers are counted and never compared with the manifest: while some of an
\* older version are left, by a call that failed (run RedeployFault), they are
\* taken for those that are missing.
Mixed(a) == \E c, d \in ContainersOf(a) : c.net # d.net

AgreesWith(report, other) ==
    {e \in report : ~Mixed(e.app)} = {e \in other : ~Mixed(e.app)}

\* A message put together while no handler did anything and no container
\* changed is true, for every app on record and of no other (GetEdgeAppStatus
\* reads the status of an app up to four times, status.go 64-94, and keeps a
\* pointer to a record that may be out of the map).
UndisturbedIsTrue ==
    \A r \in Team :
        AtReader(r, "publish") /\ ~reader[r].moved =>
            /\ AgreesWith(ReportOf(reader[r].report), TrueReport)
            /\ reader[r].node = nodeStatus

\* Once nothing changes any more the retained message becomes true and stays
\* true, whatever messages were lost or overtaken before: by the heartbeat.
RetainedBecomesTrue ==
    <>[](/\ retained # None
         /\ retained.node = nodeStatus
         /\ AgreesWith(retained.apps, TrueReport))

\* The monitor takes note of every change that is not a mere exchange of the
\* statuses of apps, whatever orders the two lists come in (status.go 114-122).
HowMany(seq, s) == Cardinality({k \in DOMAIN seq : seq[k].status = s})

MonitorNotices ==
    [][\A r \in Team :
        r = "monitor" /\ ReadingDone(r) /\ ~reader[r].sending
        /\ (\E s \in Status : HowMany(seen, s) # HowMany(reader[r].report, s))
            => reader'[r].pc # "sleep"]_reportingVars
==============================================================================
