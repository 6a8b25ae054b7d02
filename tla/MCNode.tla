-------------------------------- MODULE MCNode --------------------------------
(* Two keys of each kind, and NodeSession beside NodeKeys.  They share no      *)
(* variable, so it is enough that in every behaviour one of them moves.        *)
EXTENDS NodeKeys, NodeSession

CONSTANTS k1, k2, o1, o2

VARIABLE part       \* the one that moves

MCPrivateKeys == {k1, k2}
MCOrgKeys == {o1, o2}

PartInit == Init /\ SessionInit /\ part \in {"keys", "session"}

InKeys(A) == part = "keys" /\ A /\ UNCHANGED <<part, sessionVars>>
InSession(A) == part = "session" /\ A /\ UNCHANGED <<part, vars>>

PartNext == InKeys(Next) \/ InSession(SessionNext)

partVars == <<part, vars, sessionVars>>

PartSpec ==
    /\ PartInit /\ [][PartNext]_partVars
    /\ WF_partVars(InKeys(Startup)) /\ WF_partVars(InKeys(OrgPrivKeyHandler))
    /\ WF_partVars(InSession(Main)) /\ WF_partVars(InSession(Heartbeat))
    /\ WF_partVars(InSession(Handlers)) /\ WF_partVars(InSession(Broker))
    /\ WF_partVars(InSession(Reconnect))

\* The agent comes to run after every crash, unless it crashed in the very first
\* writing of its key (agent.go 54-88).
NodeComesToRun == part = "keys" => ComesToRun
===============================================================================
