------------------------------ MODULE DataParts ------------------------------
(***************************************************************************)
(* What happens to data, side by side: the file of the records, the logs   *)
(* of an app and a manifest on its way to the containers.  The three share *)
(* no variable, so it is enough that in every behaviour one of them moves. *)
(***************************************************************************)
EXTENDS ManifestFile, LogPipeline, ManifestWiring

VARIABLE part       \* the one that moves

\* The parts that do not move are in one of their initial states.
PartInit ==
    /\ Init /\ LogInit /\ WiringInit
    /\ part \in {"file", "logs", "wiring"}
    /\ part # "file" => calm
    /\ part # "wiring" => message = <<>> /\ decryptor /\ secrets = [i \in Indices |-> "none"]

InFile(A) == part = "file" /\ A /\ UNCHANGED <<part, logVars, wiringVars>>
InLogs(A) == part = "logs" /\ A /\ UNCHANGED <<part, vars, wiringVars>>
InWiring(A) == part = "wiring" /\ A /\ UNCHANGED <<part, vars, logVars>>

PartNext == InFile(Next) \/ InLogs(LogNext) \/ InWiring(WiringNext)

partVars == <<part, vars, logVars, wiringVars>>

PartSpec ==
    /\ PartInit /\ [][PartNext]_partVars
    /\ WF_partVars(InFile(InitKnownManifests))
    /\ WF_partVars(InLogs(Sender)) /\ WF_partVars(InLogs(Tick))

\* The types of all three.
TypesOK == TypeOK /\ LogTypeOK /\ WiringTypeOK
==============================================================================
