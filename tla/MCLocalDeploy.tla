----------------------------- MODULE MCLocalDeploy -----------------------------
(* The status messages for each team of reporters and, when there is none,    *)
(* starts with --manifest: the two have nothing to do with each other but that *)
(* each is built on EdgeApp.                                                  *)
EXTENDS MCStatusReport, LocalDeploy

PartInit ==
    /\ ReportInit /\ local = None
    /\ stage = IF Team = {} THEN "serving" ELSE "reporting"

Reporting ==
    stage = "reporting" /\ ReportNext /\ UNCHANGED <<local, stage>> /\ Bounded

\* Bound: two commands; a third adds no other way for a record to be left.
Starting ==
    stage # "reporting" /\ LocalNext /\ UNCHANGED reportVars /\ commands' <= 2

PartNext == Reporting \/ Starting

PartSpec == PartInit /\ [][PartNext]_<<reportingVars, local, stage>>
==============================================================================
