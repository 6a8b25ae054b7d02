---------------------------- MODULE KnownManifests ----------------------------
(***************************************************************************)
(* The agent's record of its edge apps (internal/manifest/status.go): the  *)
(* map knownManifests in memory and the file known_manifests.jsonl.        *)
(*                                                                         *)
(* A record holds the manifest it was made from and the status of the app. *)
(* The file is written whole, at the end of every operation that writes it *)
(* at all; here the write is one step.                                     *)
(***************************************************************************)
EXTENDS Naturals, Sequences

CONSTANTS
    Manifests,      \* the manifests MAPI may send: [id, updatedAt, modules]
    None            \* no record, no message

VARIABLES
    known,          \* knownManifests: a record or None for every manifest ID
    file            \* the contents of known_manifests.jsonl

storeVars == <<known, file>>

Status == {"Initiated", "Running", "Stopped", "Error", "Executing", "Undeployed"}
Record == [man : Manifests, status : Status]

ModuleImages(man) == {man.modules[k] : k \in DOMAIN man.modules}

IsKnown(a) == known[a] # None
HasStatus(a, s) == IsKnown(a) /\ known[a].status = s

\* An app the agent owes nothing to: no record, or one marked Undeployed.
Inactive(a) == IsKnown(a) => known[a].status = "Undeployed"

GetUsedImages(a) == ModuleImages(known[a].man)

\* AddKnownManifest replaces the record and does not write the file.
AddKnownManifest(man) ==
    /\ known' = [known EXCEPT ![man.id] = [man |-> man, status |-> "Initiated"]]
    /\ UNCHANGED file

\* Variant: the status is set in memory only.
SetStatusUnsaved(a, s) ==
    \/ ~IsKnown(a) /\ UNCHANGED storeVars
    \/ /\ IsKnown(a)
       /\ known' = [known EXCEPT ![a].status = s]
       /\ UNCHANGED file

SetStatus(a, s) ==
    \/ /\ ~IsKnown(a)
       /\ UNCHANGED storeVars
    \/ /\ IsKnown(a)
       /\ known' = [known EXCEPT ![a].status = s]
       /\ file' = known'

DeleteKnownManifest(a) ==
    /\ known' = [known EXCEPT ![a] = None]
    /\ file' = known'

\* SetLastLogRead: the time itself is not modelled, but writing it saves every
\* record, one that AddKnownManifest has just made included.
SetLastLogRead(a) ==
    /\ IsKnown(a)
    /\ file' = known
    /\ UNCHANGED known

\* What a restarted agent knows.
InitKnownManifests ==
    /\ known' = file
    /\ UNCHANGED file
==============================================================================
