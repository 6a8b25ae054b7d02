---------------------------- MODULE AppLifecycle ----------------------------
(***************************************************************************)
(* What the agent promises about its edge apps, without how it does it:    *)
(* the life cycle of an app as its reported status shows it.  EdgeApp,     *)
(* where every call of a handler is a step of its own, implements this     *)
(* specification (module EdgeAppLifecycle).                                *)
(*                                                                         *)
(* Commands are carried out one at a time and each touches one app only;   *)
(* RemoveAll is a sequence of removals.  A command may begin only where    *)
(* the code allows it, the status moves along the edges of the command,    *)
(* and it ends at the command's goal, in Error, or at one of the two other *)
(* statuses a failed deployment leaves.                                    *)
(***************************************************************************)
CONSTANTS
    Apps,           \* the manifest IDs
    Nothing,        \* the content of an app that has nothing on the host
    NoJob           \* no command is being carried out

VARIABLES
    status,         \* the status of every app, "Unknown" without a record
    content,        \* what every app has on the host
    job             \* the command being carried out: [cmd, app]

vars == <<status, content, job>>

Recorded == {"Initiated", "Running", "Stopped", "Error", "Executing", "Undeployed"}
Status == Recorded \cup {"Unknown"}
Command == {"DEPLOY", "STOP", "RESUME", "UNDEPLOY", "REMOVE"}

\* The statuses in which a command is taken on.
Permitted(cmd) ==
    CASE cmd = "DEPLOY" -> Status
      [] cmd = "STOP"   -> {"Running"}
      [] cmd = "RESUME" -> {"Stopped"}
      [] OTHER          -> Recorded

Clearing ==
    {<<s, "Executing">> : s \in Recorded}
    \cup {"Executing"} \X {"Error", "Undeployed"}

Removing == Clearing \cup {"Undeployed"} \X {"Error", "Unknown"}

\* The moves of the status while a command is carried out.
Edges(cmd) ==
    CASE cmd = "DEPLOY" ->
            {"Unknown", "Undeployed", "Error"} \X {"Initiated"}
            \cup {"Initiated"} \X {"Running", "Error"}
            \cup Removing
      [] cmd = "STOP" ->
            {<<"Running", "Executing">>} \cup {"Executing"} \X {"Stopped", "Error"}
      [] cmd = "RESUME" ->
            {<<"Stopped", "Executing">>} \cup {"Executing"} \X {"Running", "Error"}
      [] cmd = "UNDEPLOY" -> Clearing
      [] cmd = "REMOVE" -> Removing

\* Where a command may leave the app.
Outcomes(cmd) ==
    CASE cmd = "DEPLOY"   -> {"Running", "Error", "Unknown", "Initiated"}
      [] cmd = "STOP"     -> {"Stopped", "Error"}
      [] cmd = "RESUME"   -> {"Running", "Error"}
      [] cmd = "UNDEPLOY" -> {"Undeployed", "Error"}
      [] cmd = "REMOVE"   -> {"Unknown", "Error"}

Init ==
    /\ status = [a \in Apps |-> "Unknown"]
    /\ content = [a \in Apps |-> Nothing]
    /\ job = NoJob

OthersKeepContent(a) ==
    /\ DOMAIN content' = Apps
    /\ \A b \in Apps \ {a} : content'[b] = content[b]

\* A command changes the status of its own app along an edge, and its content
\* only while the status says that it is being worked on; an app comes to be
\* Undeployed only with nothing left.
Progress(cmd, a) ==
    /\ \E s \in Status :
        /\ s = status[a] \/ <<status[a], s>> \in Edges(cmd)
        /\ s = "Undeployed" => s = status[a] \/ content'[a] = Nothing
        /\ status' = [status EXCEPT ![a] = s]
    /\ OthersKeepContent(a)
    /\ content'[a] # content[a] => status[a] \in {"Initiated", "Executing", "Error"}

Begin(cmd, a) ==
    /\ job = NoJob /\ status[a] \in Permitted(cmd)
    /\ Progress(cmd, a)
    /\ job' = [cmd |-> cmd, app |-> a]

Work(cmd, a) ==
    /\ job = [cmd |-> cmd, app |-> a]
    /\ Progress(cmd, a)
    /\ UNCHANGED job

End(cmd, a) ==
    /\ job = [cmd |-> cmd, app |-> a]
    /\ Progress(cmd, a) /\ status'[a] \in Outcomes(cmd)
    /\ job' = NoJob

\* STOP or RESUME finds that the app has no containers.
FoundMissing(a) ==
    /\ job = NoJob /\ status[a] \in {"Running", "Stopped"}
    /\ status' = [status EXCEPT ![a] = "Error"]
    /\ UNCHANGED <<content, job>>

\* The engine changes what there is; it makes nothing where there is nothing.
Drift(a) ==
    /\ content[a] # Nothing
    /\ OthersKeepContent(a)
    /\ UNCHANGED <<status, job>>

Next ==
    \E a \in Apps :
        \/ \E cmd \in Command : Begin(cmd, a) \/ Work(cmd, a) \/ End(cmd, a)
        \/ FoundMissing(a)
        \/ Drift(a)

Spec == Init /\ [][Next]_vars

\* A crash ends the command.  Only an Initiated app, the one whose record was
\* not saved yet, may be found in a status it had before.
Crash ==
    /\ job' = NoJob
    /\ status' \in [Apps -> Status]
    /\ \A a \in Apps :
        \/ status'[a] = status[a]
        \/ status[a] = "Initiated" /\ status'[a] \in {"Unknown", "Undeployed", "Error"}
    /\ UNCHANGED content

CrashSpec == Init /\ [][Next \/ Crash]_vars

------------------------------------------------------------------------------
\* Without crashes an app that is Unknown or Undeployed has nothing on the host.
InactiveHasNothing ==
    \A a \in Apps : status[a] \in {"Unknown", "Undeployed"} => content[a] = Nothing
==============================================================================
