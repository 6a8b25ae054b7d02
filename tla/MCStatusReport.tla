---------------------------- MODULE MCStatusReport ----------------------------
(* The instances of MCEdgeApp for the status messages.                       *)
EXTENDS MCEdgeApp, StatusReport

OneModule == {Version(a, 1, <<web>>)}
SmallManifests == {Version(a, 1, <<web>>), Version(a, 2, <<gui, web>>), Version(b, 1, <<web>>)}
Heartbeat == {{"heartbeat"}}
AnyTeam == {{}, {"heartbeat"}, {"monitor"}}
HarshGui == {gui}
NoneHarsh == {}

\* Bounds: two commands, and a failing call or a container that changes; for the
\* monitor, which reads twice as much, no failing call, and the container that
\* changes is one of the two.
Bounded ==
    IF "monitor" \in Team THEN faults' = 0 /\ commands' + changes' <= 2
    ELSE faults' + changes' <= 1 /\ commands' <= 2
=============================================================================
