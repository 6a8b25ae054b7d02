---------------------------- MODULE ManifestFile ----------------------------
(***************************************************************************)
(* How known_manifests.jsonl is written (internal/manifest/status.go):     *)
(* changed in memory, encoded, truncated and written again, by the handler *)
(* of commands and by the sender of logs, which share neither a lock nor a *)
(* file descriptor.  KnownManifests, and with it EdgeApp, takes a change   *)
(* and its saving for one step; this module shows when that is right and   *)
(* what happens when it is not.                                            *)
(***************************************************************************)
EXTENDS Naturals, Sequences

CONSTANTS
    Apps, Manifests, None,  \* as in EdgeApp
    MaxChanges,     \* bound: changes of the record
    MaxCrashes      \* bound: crashes of the agent

Record(man, s) == [man |-> man, status |-> s]

\* The statuses that are set here, enough to tell records apart.
SomeStatus == {"Initiated", "Running", "Error"}

ASSUME ManifestFileAssumption ==
    /\ \A man \in Manifests : man.id \in Apps /\ \A s \in SomeStatus : Record(man, s) # None
    /\ MaxChanges \in Nat /\ MaxCrashes \in Nat

VARIABLES
    known,          \* knownManifests
    disk,           \* the file: [kind, data]
    writer,         \* the stack of each writer: writeKnownManifestsToFile
    up,             \* whether the agent runs
    before,         \* no part of the program: record and file before the
                    \* change that is being saved
    damaged,        \* no part of the program: the last write did not run alone,
                    \* or a crash tore it
    calm,           \* no part of the program: in this behaviour the writers take
                    \* turns and no crash comes between truncation and write
    changes, crashes    \* counters for the bounds

vars == <<known, disk, writer, up, before, damaged, calm, changes, crashes>>

Writer == {"handler", "logs"}
Resting == [pc |-> "idle", data |-> None, alone |-> TRUE]

Nothing == [a \in Apps |-> None]
File(kind, data) == [kind |-> kind, data |-> data]

\* Variant: a file that does not exist is an error.
ReadableExisting == disk.kind = "whole"

\* InitKnownManifests starts from nothing when there is no file, and fails on
\* contents that are not JSON; an empty file is not.
Readable == disk.kind \in {"absent", "whole"}

Init ==
    /\ known = Nothing /\ before = [known |-> Nothing, file |-> Nothing]
    /\ disk = File("absent", Nothing)
    /\ writer = [w \in Writer |-> Resting]
    /\ up = TRUE /\ damaged = FALSE /\ calm \in BOOLEAN
    /\ changes = 0 /\ crashes = 0

At(w, label) == writer[w].pc = label
AllIdle == \A w \in Writer : At(w, "idle")

------------------------------------------------------------------------------
(* Changes of the record                                                   *)

MayChange(w) ==
    /\ up /\ At(w, "idle") /\ (calm => AllIdle)
    /\ changes < MaxChanges /\ changes' = changes + 1
    /\ UNCHANGED <<disk, up, damaged, calm, crashes>>

\* The writer goes on to write; whoever is writing is not alone any more.
Save(w) ==
    writer' = [v \in Writer |->
        IF v = w THEN [Resting EXCEPT !.pc = "encode", !.alone = AllIdle]
        ELSE [writer[v] EXCEPT !.alone = FALSE]]

\* Variant: the record is made without a status.
AddWithoutStatus(man) ==
    /\ MayChange("handler")
    /\ known' = [known EXCEPT ![man.id] = Record(man, "")]
    /\ before' = IF AllIdle THEN [before EXCEPT !.known = known'] ELSE before
    /\ UNCHANGED writer

AddKnownManifest(man) ==
    /\ MayChange("handler")
    /\ known' = [known EXCEPT ![man.id] = Record(man, "Initiated")]
    /\ before' = IF AllIdle THEN [before EXCEPT !.known = known'] ELSE before
    /\ UNCHANGED writer

\* Variant: the status is set in memory only.
SetStatusUnsaved(a, s) ==
    /\ MayChange("handler") /\ known[a] # None
    /\ known' = [known EXCEPT ![a].status = s]
    /\ before' = IF AllIdle THEN [before EXCEPT !.known = known'] ELSE before
    /\ UNCHANGED writer

SetStatus(a, s) ==
    /\ MayChange("handler") /\ known[a] # None
    /\ known' = [known EXCEPT ![a].status = s]
    /\ Save("handler") /\ UNCHANGED before

DeleteKnownManifest(a) ==
    /\ MayChange("handler")
    /\ known' = [known EXCEPT ![a] = None]
    /\ Save("handler") /\ UNCHANGED before

\* The time itself is not modelled.
SetLastLogRead(a) ==
    /\ MayChange("logs") /\ known[a] # None
    /\ Save("logs") /\ UNCHANGED <<known, before>>

------------------------------------------------------------------------------
(* writeKnownManifestsToFile                                               *)

Writing(w, from, frame) ==
    /\ up /\ At(w, from)
    /\ writer' = [writer EXCEPT ![w] = frame]
    /\ UNCHANGED <<known, up, calm, changes, crashes>>

Encode(w) ==
    /\ Writing(w, "encode", [writer[w] EXCEPT !.pc = "truncate", !.data = known])
    /\ UNCHANGED <<disk, before, damaged>>

\* Variant: the file is not truncated.
OpenUntruncated(w) ==
    /\ Writing(w, "truncate", [writer[w] EXCEPT !.pc = "write"])
    /\ UNCHANGED <<disk, before, damaged>>

Truncate(w) ==
    /\ Writing(w, "truncate", [writer[w] EXCEPT !.pc = "write"])
    /\ disk' = File("empty", None)
    /\ UNCHANGED <<before, damaged>>

\* Each writer writes from the beginning of the file: of what another has
\* written since the truncation a longer end remains.  Lengths are not modelled.
Write(w) ==
    /\ Writing(w, "write", Resting)
    /\ LET new == File("whole", writer[w].data) IN
       disk' \in IF disk.kind = "empty" \/ disk = new THEN {new}
                 ELSE {new, File("mixed", None)}
    /\ before' = [known |-> known, file |-> writer[w].data]
    /\ damaged' = ~writer[w].alone

------------------------------------------------------------------------------
(* The end of the process by whatever cause (a signal, a panic, a map that *)
(* is read and written at once, log.Fatal after a failed write), and its   *)
(* start by systemd, which is tried for ever.                              *)

Crash ==
    /\ up /\ crashes < MaxCrashes /\ crashes' = crashes + 1
    /\ calm => \A w \in Writer : ~At(w, "write")
    /\ damaged' = (damaged \/ \E w \in Writer : At(w, "write"))
    /\ up' = FALSE /\ known' = Nothing
    /\ writer' = [w \in Writer |-> Resting]
    /\ UNCHANGED <<disk, before, calm, changes>>

InitKnownManifests ==
    /\ ~up /\ Readable
    /\ known' = disk.data /\ up' = TRUE
    /\ before' = [known |-> disk.data, file |-> disk.data]
    /\ UNCHANGED <<disk, writer, damaged, calm, changes, crashes>>

Next ==
    \/ \E man \in Manifests : AddKnownManifest(man)
    \/ \E a \in Apps : \E s \in {"Running", "Error"} : SetStatus(a, s)
    \/ \E a \in Apps : DeleteKnownManifest(a) \/ SetLastLogRead(a)
    \/ \E w \in Writer : Encode(w) \/ Truncate(w) \/ Write(w)
    \/ Crash \/ InitKnownManifests

Spec == Init /\ [][Next]_vars

\* systemd starts the agent again (Restart=always of beeta-agent.service).
FairSpec == Spec /\ WF_vars(InitKnownManifests)

------------------------------------------------------------------------------
(* Properties                                                              *)

Entries == {None} \cup {Record(man, s) : man \in Manifests, s \in SomeStatus}
Known == [Apps -> Entries]
Frame == [pc : {"idle", "encode", "truncate", "write"}, data : Known \cup {None},
          alone : BOOLEAN]

\* The types of the record, of the file and of the writers' stacks (status.go).
TypeOK ==
    /\ known \in Known
    /\ disk \in [kind : {"absent", "empty", "whole", "mixed"}, data : Known \cup {None}]
    /\ writer \in [Writer -> Frame]
    /\ {up, damaged, calm} \subseteq BOOLEAN
    /\ before \in [known : Known, file : Known]

\* Whatever overlapped or was torn before, after a write that ran alone the file
\* can be read and holds what memory holds, but for apps that are Initiated
\* (writeKnownManifestsToFile, status.go 123-135).
FileIsCurrent ==
    up /\ AllIdle /\ ~damaged =>
        /\ Readable
        /\ \A a \in Apps : disk.data[a] # known[a] =>
                known[a] # None /\ known[a].status = "Initiated"

\* An agent that crashed starts again, unless the crash or an overlap damaged
\* the file: then it ends at every start (agent.go 49-52).
RestartSucceeds == ~up ~> up \/ damaged

------------------------------------------------------------------------------
(* The refinement of KnownManifests: a change and its saving take effect   *)
(* together, when the write is done; a crash before that undoes both.      *)

Lasting == IF up /\ AllIdle THEN known ELSE before.known
LastingFile == IF disk.kind = "empty" THEN before.file ELSE disk.data

Store == INSTANCE KnownManifests WITH known <- Lasting, file <- LastingFile

StoreStep ==
    \/ \E man \in Manifests : Store!AddKnownManifest(man)
    \/ \E a \in Apps :
        \/ \E s \in Store!Status : Store!SetStatus(a, s)
        \/ Store!DeleteKnownManifest(a) \/ Store!SetLastLogRead(a)
    \/ Store!InitKnownManifests

\* When the writers take turns and no crash comes between truncation and write,
\* the record and its file change as KnownManifests says: a change that is saved
\* takes effect in one step, and a crash on the way undoes it in memory and file
\* alike (status.go 46-113).
ChangesAreAtomic == [][calm => StoreStep]_(Store!storeVars)
==============================================================================
