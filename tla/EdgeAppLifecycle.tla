-------------------------- MODULE EdgeAppLifecycle --------------------------
(***************************************************************************)
(* EdgeApp implements AppLifecycle: the refinement mapping, and the        *)
(* invariant that ties the next call of a handler to the app's status.     *)
(***************************************************************************)
EXTENDS EdgeAppProperties

LifeStatus(a) == IF IsKnown(a) THEN known[a].status ELSE "Unknown"
LifeContent(a) == <<ContainersOf(a), NetworksOf(a)>>

\* The command as AppLifecycle knows it: the ways of a DEPLOY are one command,
\* and RemoveAll is at no app between two removals.
JobCommand(caller) ==
    CASE caller \in {"DEPLOY", "redeploy", "rollback", "lateRollback"} -> "DEPLOY"
      [] caller = "DELETE" -> "REMOVE"
      [] OTHER -> caller

BetweenJobs == op.pc \in {"idle", "deleteNext", "deleted"}

LifeJob == IF BetweenJobs THEN None
           ELSE [cmd |-> JobCommand(op.caller), app |-> op.app]

Life == INSTANCE AppLifecycle WITH
    Nothing <- <<{}, {}>>, NoJob <- None,
    status <- [a \in Apps |-> LifeStatus(a)],
    content <- [a \in Apps |-> LifeContent(a)],
    job <- LifeJob

\* Every run of the handlers, over failing calls, crashes and an engine that
\* changes containers, is one of the life cycle: a command begins only in the
\* statuses its guard names, moves the status of its own app only and along its
\* own edges, and ends at its goal or an admitted failure.
ImplementsLifecycle == Life!CrashSpec

------------------------------------------------------------------------------
\* The status of the app at each call of its handler (edgeapp.go 18-343):
\* what every path that leads to the call has set last.
StatusFits ==
    LET s == LifeStatus(op.app) IN
    /\ At("add") => s = "Error" \/ (op.caller = "redeploy" /\ s = "Unknown")
                        \/ (op.caller = "DEPLOY" /\ s \in {"Unknown", "Undeployed"})
    /\ op.pc \in {"image", "network", "create", "start", "deployed"} =>
            s = "Initiated" /\ op.caller \in {"DEPLOY", "redeploy"}
    /\ At("lateError") => s \in {"Unknown", "Error"}
    /\ op.pc \in {"stop", "resume", "list"} => s = "Executing"
    /\ At("undeploy") => s # "Unknown"
    /\ op.pc \in {"removeContainers", "undeployed"} =>
            s = IF op.failed THEN "Error" ELSE "Executing"
    /\ At("images") => s = "Undeployed"
    /\ At("removeImages") => s = IF op.failed THEN "Error" ELSE "Undeployed"
==============================================================================
