----------------------------- MODULE MCLifecycle -----------------------------
(* The instances of MCEdgeApp for the refinement of AppLifecycle.           *)
EXTENDS MCEdgeApp, EdgeAppLifecycle
==============================================================================
