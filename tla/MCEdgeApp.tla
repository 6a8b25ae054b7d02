------------------------------ MODULE MCEdgeApp ------------------------------
(***************************************************************************)
(* Small instances of EdgeApp: two apps that share an image; app "a" has   *)
(* two versions, of which the new one keeps one image and drops the other. *)
(***************************************************************************)
EXTENDS EdgeAppProperties

CONSTANTS a, b,                 \* apps
          db, web, gui          \* images

Version(app, time, modules) == [id |-> app, updatedAt |-> time, modules |-> modules]

A1 == Version(a, 1, <<db, web>>)
A2 == Version(a, 2, <<gui, web>>)
B1 == Version(b, 1, <<web>>)

MCApps == {a, b}
MCImages == {db, web, gui}
MCManifests == {A1, A2, B1}

\* One app in two versions, for the runs that need long command sequences.
OneApp == {a}
OneAppManifests == {A1, A2}
NewVersion == {A2}

MCForeignCounts == {0}
\* A third version of a names a module it does not have; b has a secret.
A3 == Version(a, 3, <<web>>)
MoreManifests == {A1, A2, A3, B1}
LastVersion == {A3}
SecretB == {B1}
NoManifests == {}
NoUnstable == {}
UnstableWeb == {web}
==============================================================================
