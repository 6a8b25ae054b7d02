----------------------------- MODULE DataProofs -----------------------------
(***************************************************************************)
(* Proofs about what happens to data.  For ManifestFile: what the file     *)
(* holds after a write that ran alone, when it can be read, and that       *)
(* without overlaps and torn writes the operations are those of            *)
(* KnownManifests.  For LogPipeline: no line is passed over, and none is   *)
(* sent twice but after a crash or at the very end of a window.  For       *)
(* DataParts: what runs side by side keeps its types, the wiring included, *)
(* whose own proofs are in ManifestWiringProofs.                           *)
(***************************************************************************)
EXTENDS DataParts, ManifestWiringProofs

\* The file, or what is to be written, lags behind for Initiated apps only.
Current(data) ==
    \A a \in Apps : data[a] # known[a] => known[a] # None /\ known[a].status = "Initiated"

HasData(w) == writer[w].pc \in {"truncate", "write"}
Alone(w) == ~At(w, "idle") /\ writer[w].alone

\* Readable contents are records, and so is what is to be written.
DataFits ==
    /\ Readable => disk.data \in Known
    /\ \A w \in Writer : HasData(w) => writer[w].data \in Known

\* A writer that is alone has the file to itself, and what it writes is current.
AloneFits ==
    /\ ~up => AllIdle
    /\ \A w \in Writer : Alone(w) =>
          /\ \A v \in Writer \ {w} : At(v, "idle")
          /\ HasData(w) => Current(writer[w].data)
          /\ At(w, "write") => disk.kind = "empty"

\* The file cannot be read only while it is being written, or when the last
\* write was torn by a crash or overlapped by another.
UnreadableOnlyWhenDamaged ==
    ~Readable => damaged \/ \E w \in Writer : At(w, "write")

IInv == TypeOK /\ DataFits /\ AloneFits /\ FileIsCurrent /\ UnreadableOnlyWhenDamaged

------------------------------------------------------------------------------
(* The operations change a record, or begin to save it                     *)

LEMMA KnownUpdate ==
    ASSUME NEW f \in Known, NEW a \in Apps, NEW r \in Entries
    PROVE  [f EXCEPT ![a] = r] \in Known
BY DEF Known

LEMMA NothingIsKnown == None \in Entries /\ Nothing \in Known
BY DEF Nothing, Known, Entries

LEMMA RecordsAreEntries ==
    ASSUME NEW man \in Manifests, NEW s \in SomeStatus
    PROVE  Record(man, s) \in Entries /\ Record(man, s) # None
BY ManifestFileAssumption DEF Entries

\* The status of a record is changed, and it stays a record.
LEMMA StatusUpdate ==
    ASSUME NEW f \in Known, NEW a \in Apps, f[a] # None, NEW s \in SomeStatus
    PROVE  [f EXCEPT ![a].status = s] \in Known
<1>1. f[a] \in Entries
  BY DEF Known
<1>2. PICK man \in Manifests, x \in SomeStatus : f[a] = Record(man, x)
  BY <1>1 DEF Entries
<1>3. [f[a] EXCEPT !.status = s] = Record(man, s)
  BY <1>2 DEF Record
<1>4. [f EXCEPT ![a].status = s] = [f EXCEPT ![a] = Record(man, s)]
  BY <1>3
<1> QED  BY <1>4, KnownUpdate, RecordsAreEntries

LEMMA InitIInv == Init => IInv
<1> SUFFICES ASSUME Init  PROVE IInv
  OBVIOUS
<1>1. Nothing \in Known
  BY NothingIsKnown
<1>2. TypeOK
  BY <1>1 DEF Init, TypeOK, File, Resting, Frame
<1>3. DataFits /\ AloneFits /\ UnreadableOnlyWhenDamaged
  BY <1>1 DEF Init, DataFits, AloneFits, UnreadableOnlyWhenDamaged, Readable, File, Resting,
              HasData, Alone, At
<1>4. FileIsCurrent
  BY DEF Init, FileIsCurrent, Readable, File
<1> QED  BY <1>2, <1>3, <1>4 DEF IInv

\* AddKnownManifest makes a record that is Initiated, and writes nothing
\* (status.go 46-52).
LEMMA AddStep ==
    ASSUME IInv, NEW man \in Manifests, AddKnownManifest(man)
    PROVE  IInv'
<1> USE DEF IInv
<1>0. /\ Record(man, "Initiated") \in Entries /\ Record(man, "Initiated") # None
      /\ man.id \in Apps
  BY RecordsAreEntries, ManifestFileAssumption DEF SomeStatus
<1>1. /\ known' = [known EXCEPT ![man.id] = Record(man, "Initiated")]
      /\ known' \in Known /\ man.id \in Apps /\ Record(man, "Initiated") # None
  BY <1>0, KnownUpdate DEF AddKnownManifest, TypeOK
<1>2. up' = up /\ UNCHANGED <<disk, writer, damaged, calm>>
  BY DEF AddKnownManifest, MayChange
<1>3. TypeOK'
  BY <1>1, <1>2 DEF TypeOK, AddKnownManifest
<1>4. \A data \in Known : Current(data) => Current(data)'
  BY <1>1 DEF Current, Record, Known, TypeOK
<1>5. DataFits'
  BY <1>2 DEF DataFits, HasData, Readable
<1>6. AloneFits'
  <2>1. \A w \in Writer : HasData(w) /\ Current(writer[w].data) => Current(writer[w].data)'
    BY <1>2, <1>4 DEF DataFits
  <2> QED  BY <1>2, <2>1 DEF AloneFits, Alone, At, AllIdle, HasData
<1>7. FileIsCurrent'
  <2>1. Readable /\ Current(disk.data) => Current(disk.data)'
    BY <1>2, <1>4 DEF DataFits
  <2> QED  BY <1>2, <2>1 DEF FileIsCurrent, AllIdle, At, Readable, Current
<1>8. UnreadableOnlyWhenDamaged'
  BY <1>2 DEF UnreadableOnlyWhenDamaged, Readable, At
<1> QED  BY <1>3, <1>5, <1>6, <1>7, <1>8

\* An operation that saves has begun to: nothing is current before it is done.
LEMMA SaveStep ==
    ASSUME IInv, NEW w \in Writer, MayChange(w), Save(w), known' \in Known, before' = before
    PROVE  IInv'
<1> USE DEF IInv
<1>1. up' = up /\ up /\ At(w, "idle") /\ UNCHANGED <<disk, damaged, calm>>
  BY DEF MayChange
<1>2. /\ writer'[w].pc = "encode" /\ (writer'[w].alone => AllIdle)
      /\ \A v \in Writer \ {w} : writer'[v].pc = writer[v].pc /\ ~writer'[v].alone
      /\ \A v \in Writer \ {w} : writer'[v].data = writer[v].data
  <2>1. writer'[w] = [Resting EXCEPT !.pc = "encode", !.alone = AllIdle]
    BY DEF Save
  <2>2. \A v \in Writer \ {w} : writer[v] \in Frame /\ writer'[v] = [writer[v] EXCEPT !.alone = FALSE]
    BY DEF Save, TypeOK
  <2>3. writer'[w].pc = "encode" /\ (writer'[w].alone => AllIdle)
    BY <2>1 DEF Resting
  <2> QED  BY <2>2, <2>3 DEF Frame
<1>3. TypeOK'
  <2>1. \A v \in Writer : writer'[v] \in Frame
    <3>1. [Resting EXCEPT !.pc = "encode", !.alone = AllIdle] \in Frame
      BY DEF Resting, Frame, AllIdle
    <3>2. \A v \in Writer : [writer[v] EXCEPT !.alone = FALSE] \in Frame
      BY DEF TypeOK, Frame
    <3> QED  BY <3>1, <3>2 DEF Save
  <2>2. writer' = [v \in Writer |-> writer'[v]]
    BY DEF Save
  <2>3. writer' \in [Writer -> Frame]
    BY <2>1, <2>2
  <2> QED  BY <1>1, <2>3 DEF TypeOK
<1>4. DataFits'
  BY <1>1, <1>2 DEF DataFits, HasData, Readable
<1>5. AloneFits'
  BY <1>1, <1>2 DEF AloneFits, Alone, At, AllIdle, HasData
<1>6. ~AllIdle'
  BY <1>2 DEF AllIdle, At
<1>7. UnreadableOnlyWhenDamaged'
  BY <1>1, <1>2 DEF UnreadableOnlyWhenDamaged, Readable, At
<1> QED  BY <1>3, <1>4, <1>5, <1>6, <1>7 DEF FileIsCurrent

LEMMA SavingSteps ==
    ASSUME IInv, NEW a \in Apps,
           \/ \E s \in {"Running", "Error"} : SetStatus(a, s)
           \/ DeleteKnownManifest(a) \/ SetLastLogRead(a)
    PROVE  IInv'
<1>1. known' \in Known
  <2>1. ASSUME NEW s \in {"Running", "Error"}, SetStatus(a, s)  PROVE known' \in Known
    BY <2>1, StatusUpdate, KnownUpdate DEF SetStatus, IInv, TypeOK, SomeStatus
  <2>2. CASE DeleteKnownManifest(a)
    BY <2>2, KnownUpdate, NothingIsKnown DEF DeleteKnownManifest, IInv, TypeOK
  <2>3. CASE SetLastLogRead(a)
    BY <2>3 DEF SetLastLogRead, IInv, TypeOK
  <2> QED  BY <2>1, <2>2, <2>3
<1>2. before' = before /\ \E w \in Writer : MayChange(w) /\ Save(w)
  BY DEF SetStatus, DeleteKnownManifest, SetLastLogRead, Writer
<1> QED  BY <1>1, <1>2, SaveStep

------------------------------------------------------------------------------
(* writeKnownManifestsToFile (status.go 123-135)                           *)

LEMMA EncodeStep ==
    ASSUME IInv, NEW w \in Writer, Encode(w)
    PROVE  IInv'
<1> USE DEF IInv
<1>1. /\ At(w, "encode")
      /\ writer' = [writer EXCEPT ![w] = [writer[w] EXCEPT !.pc = "truncate", !.data = known]]
      /\ UNCHANGED <<known, disk, up, before, damaged, calm>>
  BY DEF Encode, Writing
<1>2. /\ writer'[w].pc = "truncate" /\ writer'[w].data = known
      /\ writer'[w].alone = writer[w].alone /\ writer'[w] \in Frame
      /\ \A v \in Writer \ {w} : writer'[v] = writer[v]
  <2>1. writer[w] \in Frame /\ writer'[w] = [writer[w] EXCEPT !.pc = "truncate", !.data = known]
    BY <1>1 DEF TypeOK
  <2>2. \A v \in Writer \ {w} : writer'[v] = writer[v]
    BY <1>1 DEF TypeOK
  <2>3. known \in Known \cup {None}
    BY DEF TypeOK
  <2>4. writer'[w].pc = "truncate" /\ writer'[w].data = known /\ writer'[w].alone = writer[w].alone
    BY <2>1 DEF Frame
  <2>5. writer'[w] \in Frame
    BY <2>1, <2>3 DEF Frame
  <2> QED  BY <2>2, <2>4, <2>5
<1>3. TypeOK'
  BY <1>1, <1>2 DEF TypeOK
<1>4. Current(known)' /\ ~AllIdle'
  BY <1>1, <1>2 DEF Current, AllIdle, At
<1>5. DataFits'
  BY <1>1, <1>2 DEF DataFits, HasData, Readable, TypeOK
<1>6. AloneFits'
  BY <1>1, <1>2, <1>4 DEF AloneFits, Alone, At, AllIdle, HasData, Current
<1>7. UnreadableOnlyWhenDamaged'
  BY <1>1, <1>2 DEF UnreadableOnlyWhenDamaged, Readable, At
<1> QED  BY <1>3, <1>4, <1>5, <1>6, <1>7 DEF FileIsCurrent

LEMMA TruncateStep ==
    ASSUME IInv, NEW w \in Writer, Truncate(w)
    PROVE  IInv'
<1> USE DEF IInv
<1>1. /\ At(w, "truncate") /\ disk' = [kind |-> "empty", data |-> None]
      /\ writer' = [writer EXCEPT ![w] = [writer[w] EXCEPT !.pc = "write"]]
      /\ UNCHANGED <<known, up, before, damaged, calm>>
  BY DEF Truncate, Writing, File
<1>2. /\ writer'[w].pc = "write" /\ writer'[w].data = writer[w].data
      /\ writer'[w].alone = writer[w].alone /\ writer'[w] \in Frame
      /\ \A v \in Writer \ {w} : writer'[v] = writer[v]
  <2>1. writer[w] \in Frame /\ writer'[w] = [writer[w] EXCEPT !.pc = "write"]
    BY <1>1 DEF TypeOK
  <2>2. \A v \in Writer \ {w} : writer'[v] = writer[v]
    BY <1>1 DEF TypeOK
  <2> QED  BY <2>1, <2>2 DEF Frame, TypeOK
<1>3. TypeOK'
  BY <1>1, <1>2 DEF TypeOK
<1>4. ~AllIdle'
  BY <1>2 DEF AllIdle, At
<1>5. DataFits'
  BY <1>1, <1>2 DEF DataFits, HasData, Readable, At
<1>6. AloneFits'
  BY <1>1, <1>2, <1>4 DEF AloneFits, Alone, At, AllIdle, HasData, Current
<1>7. UnreadableOnlyWhenDamaged'
  BY <1>1, <1>2 DEF UnreadableOnlyWhenDamaged, Readable, At
<1> QED  BY <1>3, <1>4, <1>5, <1>6, <1>7 DEF FileIsCurrent

\* A write that ran alone leaves the file whole and current; after any other the
\* file counts as damaged.
LEMMA WriteStep ==
    ASSUME IInv, NEW w \in Writer, Write(w)
    PROVE  IInv'
<1> USE DEF IInv
<1>1. /\ At(w, "write") /\ up
      /\ writer' = [writer EXCEPT ![w] = Resting]
      /\ damaged' \in BOOLEAN /\ (~damaged' => writer[w].alone)
      /\ before' = [known |-> known, file |-> writer[w].data]
      /\ UNCHANGED <<known, up, calm>>
  BY DEF Write, Writing
<1>2. \A v \in Writer : writer'[v] = IF v = w THEN Resting ELSE writer[v]
  BY <1>1 DEF TypeOK
<1>3. /\ disk' \in {[kind |-> "whole", data |-> writer[w].data], [kind |-> "mixed", data |-> None]}
      /\ disk.kind = "empty" => disk' = [kind |-> "whole", data |-> writer[w].data]
  BY DEF Write, File
<1>4. HasData(w) /\ writer[w].data \in Known
  BY <1>1 DEF HasData, At, DataFits
<1>5. TypeOK'
  BY <1>1, <1>2, <1>3, <1>4 DEF TypeOK, Resting, Frame
<1>6. DataFits'
  BY <1>2, <1>3, <1>4 DEF DataFits, HasData, Readable, Resting
<1>7. writer[w].alone =>
          /\ disk' = [kind |-> "whole", data |-> writer[w].data]
          /\ Current(writer[w].data)
  BY <1>1, <1>3, <1>4 DEF AloneFits, Alone, At
<1>8. AloneFits'
  <2>1. ASSUME NEW v \in Writer, Alone(v)'
        PROVE  v # w /\ Alone(v) /\ writer'[v] = writer[v]
    BY <1>2, <2>1 DEF Alone, At, Resting
  <2>2. \A v \in Writer : ~Alone(v)'
    BY <1>1, <2>1 DEF AloneFits, At
  <2> QED  BY <1>1, <2>2 DEF AloneFits
<1>9. FileIsCurrent'
  BY <1>1, <1>7 DEF FileIsCurrent, Readable, Current
<1>10. UnreadableOnlyWhenDamaged'
  BY <1>1, <1>7 DEF UnreadableOnlyWhenDamaged, Readable
<1> QED  BY <1>5, <1>6, <1>8, <1>9, <1>10

------------------------------------------------------------------------------
LEMMA CrashStep ==
    ASSUME IInv, Crash
    PROVE  IInv'
<1> USE DEF IInv
<1>1. /\ up' = FALSE /\ known' = Nothing /\ Nothing \in Known
      /\ writer' = [w \in Writer |-> Resting]
      /\ damaged' = (damaged \/ \E w \in Writer : At(w, "write"))
      /\ UNCHANGED <<disk, before, calm>>
  BY NothingIsKnown DEF Crash
<1>2. \A w \in Writer : writer'[w] = Resting
  BY <1>1
<1>3. TypeOK'
  BY <1>1 DEF TypeOK, Resting, Frame
<1>4. DataFits' /\ AloneFits' /\ FileIsCurrent'
  BY <1>1, <1>2 DEF DataFits, AloneFits, FileIsCurrent, HasData, Alone, At, AllIdle, Readable,
                    Resting
<1>5. UnreadableOnlyWhenDamaged'
  BY <1>1 DEF UnreadableOnlyWhenDamaged, Readable
<1> QED  BY <1>3, <1>4, <1>5

LEMMA RestartStep ==
    ASSUME IInv, InitKnownManifests
    PROVE  IInv'
<1> USE DEF IInv
<1>1. /\ ~up /\ Readable /\ up' = TRUE /\ known' = disk.data /\ disk.data \in Known
      /\ before' = [known |-> disk.data, file |-> disk.data]
      /\ UNCHANGED <<disk, writer, damaged, calm>>
  BY DEF InitKnownManifests, DataFits
<1>2. TypeOK'
  BY <1>1 DEF TypeOK
<1>3. \A w \in Writer : At(w, "idle") /\ At(w, "idle")'
  BY <1>1 DEF AloneFits, AllIdle, At
<1>4. DataFits' /\ AloneFits' /\ UnreadableOnlyWhenDamaged'
  BY <1>1, <1>3 DEF DataFits, AloneFits, UnreadableOnlyWhenDamaged, HasData, Alone, At, AllIdle,
                    Readable
<1>5. FileIsCurrent'
  BY <1>1 DEF FileIsCurrent, Readable
<1> QED  BY <1>2, <1>4, <1>5

LEMMA NextIInv == IInv /\ [Next]_vars => IInv'
<1> SUFFICES ASSUME IInv, [Next]_vars  PROVE IInv'
  OBVIOUS
<1>1. CASE UNCHANGED vars
  BY <1>1 DEF IInv, TypeOK, DataFits, AloneFits, FileIsCurrent, UnreadableOnlyWhenDamaged,
              HasData, Alone, At, AllIdle, Readable, Current, vars
<1>2. CASE Next
  BY <1>2, AddStep, SavingSteps, EncodeStep, TruncateStep, WriteStep, CrashStep, RestartStep
     DEF Next
<1> QED  BY <1>1, <1>2

LEMMA AlwaysIInv == Spec => []IInv
BY InitIInv, NextIInv, PTL DEF Spec

\* After a write that ran alone the file holds what memory holds, but for records
\* just made, whatever overlapped, crashed or was torn before (status.go 123-135).
THEOREM FileStaysCurrent == Spec => []FileIsCurrent
<1>1. IInv => FileIsCurrent
  BY DEF IInv
<1> QED  BY <1>1, AlwaysIInv, PTL

\* A start finds a file it can read, unless the last write before it was torn or
\* overlapped (status.go 95-113).
THEOREM StartReads == Spec => [](~up /\ ~damaged => Readable)
<1>1. IInv => (~up /\ ~damaged => Readable)
  BY DEF IInv, UnreadableOnlyWhenDamaged, AloneFits, AllIdle, At
<1> QED  BY <1>1, AlwaysIInv, PTL

------------------------------------------------------------------------------
(* The refinement of KnownManifests                                        *)

\* The memory is ahead of what lasts by one change that is being saved.
Saving ==
    \E a \in Apps :
        \/ /\ before.known[a] # None
           /\ \/ known = before.known
              \/ \E s \in {"Running", "Error"} : known = [before.known EXCEPT ![a].status = s]
        \/ known = [before.known EXCEPT ![a] = None]

\* Writers that take turns and are not torn write what the memory holds.
CalmFits ==
    calm =>
        /\ ~damaged
        /\ \A w \in Writer : ~At(w, "idle") => writer[w].alone
        /\ \A w \in Writer : HasData(w) => writer[w].data = known
        /\ up /\ AllIdle => before.known = known
        /\ ~AllIdle => Saving

\* The contents that last are those of the file.
FileFits == Readable => before.file = disk.data

RInv == IInv /\ CalmFits /\ FileFits

\* A calm writer is the only one, and it has emptied the file when it writes.
LEMMA OneCalmWriter ==
    ASSUME RInv, calm, NEW w \in Writer, ~At(w, "idle")
    PROVE  /\ writer[w].alone /\ up /\ ~AllIdle /\ ~damaged /\ Saving
           /\ \A v \in Writer \ {w} : At(v, "idle")
           /\ At(w, "write") => disk.kind = "empty"
           /\ ~At(w, "write") => Readable
<1>1. writer[w].alone /\ ~AllIdle /\ ~damaged /\ Saving
  BY DEF RInv, CalmFits, AllIdle
<1>2. /\ \A v \in Writer \ {w} : At(v, "idle")
      /\ At(w, "write") => disk.kind = "empty"
      /\ up
  BY <1>1 DEF RInv, IInv, AloneFits, Alone
<1>3. ~At(w, "write") => Readable
  BY <1>1, <1>2 DEF RInv, IInv, UnreadableOnlyWhenDamaged, At
<1> QED  BY <1>1, <1>2, <1>3

LEMMA InitRInv == Init => RInv
<1> SUFFICES ASSUME Init  PROVE RInv
  OBVIOUS
<1>1. CalmFits
  BY DEF Init, CalmFits, At, AllIdle, HasData, Resting
<1>2. FileFits
  BY DEF Init, FileFits, File
<1> QED  BY <1>1, <1>2, InitIInv DEF RInv

LEMMA FileFitsStep == RInv /\ Next => FileFits'
<1> SUFFICES ASSUME RInv, Next  PROVE FileFits'
  OBVIOUS
<1> USE DEF FileFits, Readable
<1>1. ASSUME before'.file = before.file, disk' = disk  PROVE FileFits'
  BY <1>1 DEF RInv
<1>2. ASSUME NEW man \in Manifests, AddKnownManifest(man)  PROVE FileFits'
  <2>1. before'.file = before.file
    BY <1>2 DEF AddKnownManifest, RInv, IInv, TypeOK
  <2> QED  BY <1>2, <2>1, <1>1 DEF AddKnownManifest, MayChange
<1>3. ASSUME NEW a \in Apps,
             \/ \E s \in {"Running", "Error"} : SetStatus(a, s)
             \/ DeleteKnownManifest(a) \/ SetLastLogRead(a)
      PROVE  FileFits'
  BY <1>1, <1>3 DEF SetStatus, DeleteKnownManifest, SetLastLogRead, MayChange
<1>4. ASSUME NEW w \in Writer, Encode(w) \/ Truncate(w)  PROVE FileFits'
  BY <1>1, <1>4 DEF Encode, Truncate, Writing, File
<1>5. ASSUME NEW w \in Writer, Write(w)  PROVE FileFits'
  <2>1. disk'.kind = "mixed" \/ disk'.data = writer[w].data
    BY <1>5 DEF Write, File
  <2> QED  BY <2>1, <1>5 DEF Write
<1>6. CASE Crash
  BY <1>1, <1>6 DEF Crash
<1>7. CASE InitKnownManifests
  BY <1>7 DEF InitKnownManifests
<1> QED  BY <1>2, <1>3, <1>4, <1>5, <1>6, <1>7 DEF Next

\* A calm change is made while nothing is being saved, and what it leaves to be
\* saved is one change ahead of what lasts.
LEMMA CalmChange ==
    ASSUME RInv, NEW w \in Writer, MayChange(w), Save(w), before' = before,
           calm => Saving'
    PROVE  CalmFits'
<1> SUFFICES ASSUME calm'  PROVE CalmFits'
  BY DEF CalmFits
<1>1. /\ calm /\ AllIdle /\ damaged' = damaged
      /\ ~damaged
  BY DEF MayChange, RInv, CalmFits
<1>2. /\ writer'[w].pc = "encode" /\ writer'[w].alone
      /\ \A v \in Writer \ {w} : writer'[v].pc = "idle"
  <2>1. writer'[w] = [Resting EXCEPT !.pc = "encode", !.alone = AllIdle]
    BY DEF Save
  <2>2. writer'[w].pc = "encode" /\ writer'[w].alone
    BY <1>1, <2>1 DEF Resting
  <2>3. \A v \in Writer \ {w} : writer[v] \in Frame /\ writer'[v] = [writer[v] EXCEPT !.alone = FALSE]
    BY DEF Save, RInv, IInv, TypeOK
  <2>4. \A v \in Writer \ {w} : writer'[v].pc = "idle"
    BY <1>1, <2>3 DEF AllIdle, At, Frame
  <2> QED  BY <2>2, <2>4
<1>3. ~AllIdle' /\ \A v \in Writer : ~HasData(v)'
  BY <1>2 DEF AllIdle, At, HasData
<1> QED  BY <1>1, <1>2, <1>3 DEF CalmFits, At

\* The steps of a write keep what is being saved.
LEMMA CalmWriting ==
    ASSUME RInv, NEW w \in Writer, Encode(w) \/ Truncate(w)
    PROVE  CalmFits'
<1> SUFFICES ASSUME calm'  PROVE CalmFits'
  BY DEF CalmFits
<1>1. calm /\ ~At(w, "idle") /\ UNCHANGED <<known, up, before, damaged>>
  BY DEF Encode, Truncate, Writing, At
<1>2. /\ writer[w].alone /\ ~damaged /\ Saving
      /\ \A v \in Writer \ {w} : At(v, "idle")
  BY <1>1, OneCalmWriter
<1>3. writer \in [Writer -> Frame]
  BY DEF RInv, IInv, TypeOK
<1>4. /\ writer'[w].pc # "idle" /\ writer'[w].alone = writer[w].alone
      /\ writer'[w].data = known
      /\ \A v \in Writer \ {w} : writer'[v] = writer[v]
  <2>1. CASE Encode(w)
    BY <1>3, <2>1 DEF Encode, Writing, Frame
  <2>2. CASE Truncate(w)
    <3>1. writer[w].data = known
      BY <1>1, <2>2 DEF Truncate, Writing, RInv, CalmFits, HasData, At
    <3> QED  BY <1>3, <2>2, <3>1 DEF Truncate, Writing, Frame
  <2> QED  BY <2>1, <2>2
<1>5. ~AllIdle'
  BY <1>4 DEF AllIdle, At
<1>6. \A v \in Writer : ~At(v, "idle")' => writer'[v].alone
  BY <1>2, <1>4 DEF At
<1>7. \A v \in Writer : HasData(v)' => writer'[v].data = known'
  BY <1>1, <1>2, <1>4 DEF At, HasData
<1>8. Saving'
  BY <1>1, <1>2 DEF Saving
<1> QED  BY <1>1, <1>2, <1>5, <1>6, <1>7, <1>8 DEF CalmFits

LEMMA CalmFitsStep == RInv /\ Next => CalmFits'
<1> SUFFICES ASSUME RInv, Next  PROVE CalmFits'
  OBVIOUS
<1>1. ASSUME NEW man \in Manifests, AddKnownManifest(man)  PROVE CalmFits'
  <2> SUFFICES ASSUME calm'  PROVE CalmFits'
    BY DEF CalmFits
  <2>1. calm /\ AllIdle /\ UNCHANGED <<writer, up, damaged>>
    BY <1>1 DEF AddKnownManifest, MayChange
  <2>2. before'.known = known'
    BY <1>1, <2>1 DEF AddKnownManifest, RInv, IInv, TypeOK
  <2> QED  BY <2>1, <2>2 DEF RInv, CalmFits, AllIdle, At, HasData
<1>2. ASSUME NEW a \in Apps,
             \/ \E s \in {"Running", "Error"} : SetStatus(a, s)
             \/ DeleteKnownManifest(a) \/ SetLastLogRead(a)
      PROVE  CalmFits'
  <2>1. calm /\ AllIdle /\ up => before.known = known
    BY DEF RInv, CalmFits
  <2>2. PICK w \in Writer : MayChange(w) /\ Save(w)
    BY <1>2 DEF SetStatus, DeleteKnownManifest, SetLastLogRead, Writer
  <2>3. before' = before
    BY <1>2 DEF SetStatus, DeleteKnownManifest, SetLastLogRead
  <2>4. calm => Saving'
    BY <1>2, <2>1, <2>2, <2>3
       DEF SetStatus, DeleteKnownManifest, SetLastLogRead, Saving, MayChange
  <2> QED  BY <2>2, <2>3, <2>4, CalmChange
<1>3. ASSUME NEW w \in Writer, Write(w)  PROVE CalmFits'
  <2> SUFFICES ASSUME calm'  PROVE CalmFits'
    BY DEF CalmFits
  <2>1. calm /\ ~At(w, "idle") /\ known' = known /\ before'.known = known
    BY <1>3 DEF Write, Writing, At
  <2>2. writer[w].alone /\ \A v \in Writer \ {w} : At(v, "idle")
    BY <2>1, OneCalmWriter
  <2>3. ~damaged'
    BY <1>3, <2>2 DEF Write
  <2>4. \A v \in Writer : writer'[v].pc = "idle"
    BY <1>3, <2>2 DEF Write, Writing, Resting, At, RInv, IInv, TypeOK
  <2> QED  BY <2>1, <2>3, <2>4 DEF CalmFits, At, AllIdle, HasData
<1>4. CASE Crash
  <2>1. up' = FALSE /\ \A w \in Writer : writer'[w] = Resting
    BY <1>4 DEF Crash
  <2>2. calm' => calm /\ ~damaged'
    BY <1>4 DEF Crash, RInv, CalmFits
  <2> QED  BY <2>1, <2>2 DEF CalmFits, At, AllIdle, HasData, Resting
<1>5. CASE InitKnownManifests
  <2>1. before'.known = known' /\ UNCHANGED <<calm, damaged, writer>>
    BY <1>5 DEF InitKnownManifests
  <2>2. \A w \in Writer : At(w, "idle") /\ At(w, "idle")'
    BY <1>5, <2>1 DEF InitKnownManifests, RInv, IInv, AloneFits, AllIdle, At
  <2> QED  BY <2>1, <2>2 DEF RInv, CalmFits, At, AllIdle, HasData
<1>6. ASSUME NEW w \in Writer, Encode(w) \/ Truncate(w)  PROVE CalmFits'
  BY <1>6, CalmWriting
<1> QED  BY <1>1, <1>2, <1>3, <1>4, <1>5, <1>6 DEF Next

LEMMA AlwaysRInv == Spec => []RInv
<1>1. RInv /\ [Next]_vars => RInv'
  <2>1. RInv /\ Next => RInv'
    BY NextIInv, CalmFitsStep, FileFitsStep DEF RInv
  <2>2. RInv /\ UNCHANGED vars => RInv'
    BY NextIInv DEF RInv, CalmFits, FileFits, Saving, HasData, At, AllIdle, Readable, vars
  <2> QED  BY <2>1, <2>2
<1> QED  BY <1>1, InitRInv, PTL DEF Spec

\* What lasts does not change before the write, nor by a crash; then it changes
\* in one step, as KnownManifests says.
LEMMA AddIsAtomic ==
    ASSUME RInv, calm, NEW man \in Manifests, AddKnownManifest(man)
    PROVE  Store!AddKnownManifest(man)
<1>1. AllIdle /\ up /\ AllIdle' /\ up' /\ disk' = disk
  BY DEF AddKnownManifest, MayChange, AllIdle, At
<1>2. known' = [known EXCEPT ![man.id] = Record(man, "Initiated")]
  BY DEF AddKnownManifest
<1>3. before'.file = before.file
  BY DEF AddKnownManifest, RInv, IInv, TypeOK
<1> QED  BY <1>1, <1>2, <1>3 DEF Store!AddKnownManifest, Lasting, LastingFile, Record

LEMMA WriteIsAtomic ==
    ASSUME RInv, calm, NEW w \in Writer, Write(w)
    PROVE  StoreStep
<1>1. ~At(w, "idle") /\ At(w, "write") /\ up
  BY DEF Write, Writing, At
<1>2. /\ \A v \in Writer \ {w} : At(v, "idle")
      /\ disk.kind = "empty" /\ Saving /\ ~AllIdle
  BY <1>1, OneCalmWriter
<1>3. writer[w].data = known
  BY <1>1 DEF RInv, CalmFits, HasData, At
<1>4. disk'.kind = "whole" /\ disk'.data = known
  BY <1>2, <1>3 DEF Write, File
<1>5. up' /\ AllIdle' /\ known' = known
  BY <1>1, <1>2 DEF Write, Writing, AllIdle, At, Resting, RInv, IInv, TypeOK
<1>6. Lasting = before.known /\ Lasting' = known /\ LastingFile' = known
  BY <1>2, <1>4, <1>5 DEF Lasting, LastingFile
<1>7. PICK a \in Apps :
        \/ /\ before.known[a] # None
           /\ \/ known = before.known
              \/ \E s \in {"Running", "Error"} : known = [before.known EXCEPT ![a].status = s]
        \/ known = [before.known EXCEPT ![a] = None]
  BY <1>2 DEF Saving
<1>8. CASE before.known[a] # None /\ known = before.known
  <2>1. Store!SetLastLogRead(a)
    BY <1>6, <1>8 DEF Store!SetLastLogRead, Store!IsKnown
  <2> QED  BY <2>1 DEF StoreStep
<1>9. ASSUME before.known[a] # None, NEW s \in {"Running", "Error"},
             known = [before.known EXCEPT ![a].status = s]
      PROVE  StoreStep
  <2>1. Store!SetStatus(a, s)
    BY <1>6, <1>9 DEF Store!SetStatus, Store!IsKnown
  <2>2. s \in Store!Status
    BY DEF Store!Status
  <2> QED  BY <2>1, <2>2 DEF StoreStep
<1>10. CASE known = [before.known EXCEPT ![a] = None]
  <2>1. Store!DeleteKnownManifest(a)
    BY <1>6, <1>10 DEF Store!DeleteKnownManifest
  <2> QED  BY <2>1 DEF StoreStep
<1> QED  BY <1>7, <1>8, <1>9, <1>10

LEMMA StepIsAtomic == RInv /\ Next /\ calm => StoreStep \/ UNCHANGED Store!storeVars
<1> SUFFICES ASSUME RInv, Next, calm  PROVE StoreStep \/ UNCHANGED <<Lasting, LastingFile>>
  BY DEF Store!storeVars
<1>1. ASSUME NEW man \in Manifests, AddKnownManifest(man)  PROVE StoreStep
  BY <1>1, AddIsAtomic DEF StoreStep
<1>2. ASSUME NEW a \in Apps,
             \/ \E s \in {"Running", "Error"} : SetStatus(a, s)
             \/ DeleteKnownManifest(a) \/ SetLastLogRead(a)
      PROVE  UNCHANGED <<Lasting, LastingFile>>
  <2>1. PICK w \in Writer : MayChange(w) /\ Save(w)
    BY <1>2 DEF SetStatus, DeleteKnownManifest, SetLastLogRead, Writer
  <2>2. before' = before /\ disk' = disk /\ up /\ AllIdle /\ before.known = known
    BY <1>2, <2>1 DEF SetStatus, DeleteKnownManifest, SetLastLogRead, MayChange, RInv, CalmFits
  <2>3. writer'[w] = [Resting EXCEPT !.pc = "encode", !.alone = AllIdle]
    BY <2>1 DEF Save
  <2>4. ~AllIdle'
    BY <2>3 DEF AllIdle, At, Resting
  <2> QED  BY <2>2, <2>4 DEF Lasting, LastingFile
<1>3. ASSUME NEW w \in Writer, Encode(w) \/ Truncate(w)
      PROVE  UNCHANGED <<Lasting, LastingFile>>
  <2>1. /\ ~At(w, "idle") /\ ~At(w, "write") /\ UNCHANGED <<before, up>>
        /\ disk' = disk \/ disk' = File("empty", None)
    BY <1>3 DEF Encode, Truncate, Writing, At
  <2>2. writer'[w].pc # "idle"
    <3>1. writer \in [Writer -> Frame]
      BY DEF RInv, IInv, TypeOK
    <3> QED  BY <1>3, <3>1 DEF Encode, Truncate, Writing, Frame
  <2>3. ~AllIdle /\ ~AllIdle'
    BY <2>1, <2>2 DEF AllIdle, At
  <2>4. Readable /\ before.file = disk.data
    BY <2>1, OneCalmWriter DEF RInv, FileFits
  <2> QED  BY <2>1, <2>3, <2>4 DEF Lasting, LastingFile, File, Readable
<1>4. ASSUME NEW w \in Writer, Write(w)  PROVE StoreStep
  BY <1>4, WriteIsAtomic
<1>5. CASE Crash
  <2>1. UNCHANGED <<disk, before>> /\ up /\ ~up'
    BY <1>5 DEF Crash
  <2>2. AllIdle => before.known = known
    BY <2>1 DEF RInv, CalmFits
  <2> QED  BY <2>1, <2>2 DEF Lasting, LastingFile
<1>6. CASE InitKnownManifests
  <2>1. /\ ~up /\ up' /\ UNCHANGED <<disk, writer>> /\ Readable /\ known' = disk.data
        /\ before' = [known |-> disk.data, file |-> disk.data]
    BY <1>6 DEF InitKnownManifests
  <2>2. AllIdle'
    BY <2>1 DEF RInv, IInv, AloneFits, AllIdle, At
  <2>3. Lasting' = disk.data /\ LastingFile = disk.data /\ LastingFile' = disk.data
    BY <2>1, <2>2 DEF Lasting, LastingFile, Readable
  <2>4. Store!InitKnownManifests
    BY <2>3 DEF Store!InitKnownManifests
  <2> QED  BY <2>4 DEF StoreStep
<1> QED  BY <1>1, <1>2, <1>3, <1>4, <1>5, <1>6 DEF Next

\* Writers that take turns and are not torn change record and file as
\* KnownManifests says, a change and its saving in one step, and a crash on the
\* way undoes it in both (status.go 46-113).
THEOREM ChangesTakeEffectAtOnce == Spec => ChangesAreAtomic
<1>1. RInv /\ [Next]_vars => [calm => StoreStep]_(Store!storeVars)
  <2>1. UNCHANGED vars => UNCHANGED <<Lasting, LastingFile>>
    BY DEF vars, Lasting, LastingFile, AllIdle, At
  <2> QED  BY <2>1, StepIsAtomic DEF Store!storeVars
<1> QED  BY <1>1, AlwaysRInv, PTL DEF Spec, ChangesAreAtomic

------------------------------------------------------------------------------
(* The logs of an app                                                      *)

\* What the types leave open: lines are of containers that were made, a window
\* ends before now, and the file always holds the time that memory holds.
LinesFit ==
    /\ \A l \in lines : l.con \in alive \cup gone /\ l.at <= now
    /\ lastRead = lastReadFile /\ lastRead <= now
    /\ ~SenderAt("sleep") => sender.since <= sender.until /\ sender.until <= now
    /\ ~SenderAt("sleep") => sender.until \in windows
    /\ sender.got \subseteq lines
    /\ \A l \in sender.got : l.at <= sender.until
    /\ \A l \in Line : arrived[l] > 0 => l \in lines

Covered(l) == arrived[l] > 0 \/ l \in dropped \cup cut

\* Where a line of the window is: still to be read, read, or on its way.
Held(l) ==
    CASE SenderAt("list") -> l.at >= sender.since
      [] SenderAt("read") -> (l.con \in sender.todo /\ l.at >= sender.since) \/ l \in sender.got
      [] OTHER      -> FALSE

WindowCovered ==
    ~SenderAt("sleep") =>
        \A l \in lines : l.con \in alive /\ l.at < sender.until => Covered(l) \/ Held(l)

LInv == LogTypeOK /\ LinesFit /\ NothingPassedOver /\ WindowCovered

\* What a reader returns, whole or cut.
LEMMA ReadingEnds ==
    ASSUME LogTypeOK, ReadContainerLogs \/ ReadIsCut
    PROVE  /\ \E c \in sender.todo \cap alive, G \in SUBSET lines :
                /\ sender' = [sender EXCEPT !.todo = @ \ {c}, !.got = @ \cup G]
                /\ \A l \in G : l.con = c /\ InWindow(l)
                /\ \A l \in lines : l.con = c /\ InWindow(l) => l \in G \cup cut'
           /\ SenderAt("read") /\ cut \subseteq cut' /\ cut' \subseteq cut \cup lines
           /\ UNCHANGED <<hostVars, recordVars, arrived, dropped, windows, restarts>>
<1>0. \A l \in lines : l.at \in 1 .. MaxTime - 1
  BY DEF LogTypeOK, Line
<1> USE LogPipelineAssumption
<1>1. CASE ReadContainerLogs
  <2>1. PICK c \in (sender.todo \cap alive) \ Slashless :
          sender' = [sender EXCEPT !.todo = @ \ {c}, !.got = @ \cup WindowOf(c, 0, MaxTime)]
    BY <1>1 DEF ReadContainerLogs
  <2>2. /\ WindowOf(c, 0, MaxTime) \in SUBSET lines
        /\ \A l \in WindowOf(c, 0, MaxTime) : l.con = c /\ InWindow(l)
        /\ \A l \in lines : l.con = c /\ InWindow(l) => l \in WindowOf(c, 0, MaxTime)
    BY <1>0 DEF WindowOf
  <2>3. SenderAt("read") /\ cut' = cut
        /\ UNCHANGED <<hostVars, recordVars, arrived, dropped, windows, restarts>>
    BY <1>1 DEF ReadContainerLogs, sentVars, counters
  <2> QED  BY <2>1, <2>2, <2>3
<1>2. CASE ReadIsCut
  <2>1. PICK c \in (sender.todo \cap alive) \ Slashless, t \in 1 .. MaxTime :
          /\ sender' = [sender EXCEPT !.todo = @ \ {c}, !.got = @ \cup WindowOf(c, 0, t)]
          /\ cut' = cut \cup WindowOf(c, t, MaxTime)
    BY <1>2 DEF ReadIsCut
  <2>2. /\ WindowOf(c, 0, t) \in SUBSET lines /\ WindowOf(c, t, MaxTime) \subseteq lines
        /\ \A l \in WindowOf(c, 0, t) : l.con = c /\ InWindow(l)
        /\ \A l \in lines : l.con = c /\ InWindow(l) =>
                l \in WindowOf(c, 0, t) \cup WindowOf(c, t, MaxTime)
    BY <1>0 DEF WindowOf
  <2>3. SenderAt("read") /\ UNCHANGED <<hostVars, recordVars, arrived, dropped, windows, restarts>>
    BY <1>2 DEF ReadIsCut, Fault
  <2> QED  BY <2>1, <2>2, <2>3
<1> QED  BY <1>1, <1>2

LEMMA InitLInv == LogInit => LInv
BY LogPipelineAssumption DEF LogInit, LInv, LogTypeOK, LinesFit, NothingPassedOver, WindowCovered,
                             SenderAt, Asleep, Line

------------------------------------------------------------------------------
(* The types                                                               *)

LEMMA TypesStep == ASSUME LInv, LogNext  PROVE LogTypeOK'
<1> USE LogPipelineAssumption DEF LInv
<1>1. CASE Tick
  BY <1>1 DEF LogTypeOK, Tick, recordVars, sentVars, counters
<1>2. CASE WriteLine
  <2>1. \A c \in alive : [con |-> c, at |-> now] \in Line
    BY <1>2 DEF LogTypeOK, WriteLine, Line
  <2>2. lines' \subseteq Line
    BY <1>2, <2>1 DEF LogTypeOK, WriteLine
  <2>3. UNCHANGED <<now, alive, gone, lastRead, lastReadFile, sender, arrived, dropped, cut>>
    BY <1>2 DEF WriteLine, recordVars, sentVars
  <2> QED  BY <2>2, <2>3 DEF LogTypeOK
<1>3. CASE Deploy
  BY <1>3 DEF LogTypeOK, Deploy, sentVars, counters
<1>4. CASE Wake
  <2>1. /\ sender' = [pc |-> "list", since |-> lastRead, until |-> now, todo |-> {}, got |-> {}]
        /\ UNCHANGED <<now, alive, gone, lines, lastRead, lastReadFile, arrived, dropped, cut>>
    BY <1>4 DEF Wake, Asleep, hostVars, recordVars, sentVars
  <2>2. lastRead \in 0 .. MaxTime /\ now \in 0 .. MaxTime
    BY DEF LogTypeOK
  <2> QED  BY <2>1, <2>2 DEF LogTypeOK
<1>5. CASE ListContainers
  BY <1>5 DEF LogTypeOK, ListContainers, hostVars, recordVars, sentVars, counters
<1>6. CASE ReadContainerLogs \/ ReadIsCut
  <2>1. PICK c \in sender.todo \cap alive, G \in SUBSET lines :
          sender' = [sender EXCEPT !.todo = @ \ {c}, !.got = @ \cup G]
    BY <1>6, ReadingEnds
  <2>2. /\ cut' \subseteq cut \cup lines
        /\ UNCHANGED <<hostVars, recordVars, arrived, dropped, windows, restarts>>
    BY <1>6, ReadingEnds
  <2> QED  BY <2>1, <2>2 DEF LogTypeOK, hostVars, recordVars
<1>7. CASE ReadFails \/ PublishFails
  BY <1>7 DEF LogTypeOK, ReadFails, PublishFails, Asleep, hostVars, recordVars, sentVars, counters
<1>8. CASE Publish
  BY <1>8 DEF LogTypeOK, Publish, hostVars, recordVars, counters
<1>9. CASE PublishLost
  BY <1>9 DEF LogTypeOK, PublishLost, hostVars, recordVars, counters
<1>10. CASE RecordLogRead
  BY <1>10 DEF LogTypeOK, RecordLogRead, Asleep, hostVars, sentVars, counters
<1>11. CASE CrashRestart
  BY <1>11 DEF LogTypeOK, CrashRestart, Asleep, hostVars, sentVars
<1>12. CASE ModuleNamePanics
  BY <1>12 DEF LogTypeOK, ModuleNamePanics, Asleep, hostVars, sentVars
<1> QED  BY <1>1, <1>2, <1>3, <1>4, <1>5, <1>6, <1>7, <1>8, <1>9, <1>10, <1>11, <1>12
         DEF LogNext, Sender

------------------------------------------------------------------------------
(* The window                                                              *)

LEMMA LinesStep == ASSUME LInv, LogNext  PROVE LinesFit'
<1> USE LogPipelineAssumption DEF LInv
<1>0. now \in Nat /\ \A l \in lines : l \in Line /\ l.at \in Nat /\ l.con \in Containers
  BY DEF LogTypeOK, Line
<1>1. CASE Tick
  BY <1>0, <1>1 DEF LogTypeOK, LinesFit, Tick, SenderAt, recordVars, sentVars, counters
<1>2. CASE WriteLine
  <2>1. PICK c \in alive : lines' = lines \cup {[con |-> c, at |-> now]}
    BY <1>2 DEF WriteLine
  <2> QED  BY <1>0, <1>2, <2>1 DEF LogTypeOK, LinesFit, WriteLine, SenderAt, recordVars, sentVars, counters
<1>3. CASE Deploy
  BY <1>0, <1>3 DEF LogTypeOK, LinesFit, Deploy, SenderAt, sentVars, counters
<1>4. CASE Wake
  BY <1>0, <1>4 DEF LogTypeOK, LinesFit, Wake, Asleep, SenderAt, hostVars, recordVars, sentVars, counters
<1>5. CASE ListContainers
  BY <1>0, <1>5 DEF LogTypeOK, LinesFit, ListContainers, SenderAt, hostVars, recordVars, sentVars, counters
<1>6. CASE ReadContainerLogs \/ ReadIsCut
  <2>1. PICK c \in sender.todo \cap alive, G \in SUBSET lines :
          /\ sender' = [sender EXCEPT !.todo = @ \ {c}, !.got = @ \cup G]
          /\ \A l \in G : InWindow(l)
    BY <1>6, ReadingEnds
  <2>2. SenderAt("read") /\ UNCHANGED <<hostVars, recordVars, arrived, windows>>
    BY <1>6, ReadingEnds
  <2> QED  BY <1>0, <2>1, <2>2 DEF LogTypeOK, LinesFit, InWindow, SenderAt, hostVars, recordVars
<1>7. CASE ReadFails \/ PublishFails
  BY <1>0, <1>7 DEF LogTypeOK, LinesFit, ReadFails, PublishFails, Asleep, SenderAt, hostVars, recordVars,
                    sentVars, counters
<1>8. CASE Publish
  <2>1. \A l \in Line : arrived'[l] > 0 => arrived[l] > 0 \/ l \in sender.got
    BY <1>8 DEF Publish, LogTypeOK
  <2> QED  BY <1>0, <1>8, <2>1 DEF LogTypeOK, LinesFit, Publish, SenderAt, hostVars, recordVars, counters
<1>9. CASE PublishLost
  BY <1>0, <1>9 DEF LogTypeOK, LinesFit, PublishLost, SenderAt, hostVars, recordVars, counters
<1>10. CASE RecordLogRead
  BY <1>0, <1>10 DEF LogTypeOK, LinesFit, RecordLogRead, Asleep, SenderAt, hostVars, sentVars, counters
<1>11. CASE CrashRestart
  BY <1>0, <1>11 DEF LogTypeOK, LinesFit, CrashRestart, Asleep, SenderAt, hostVars, sentVars
<1>12. CASE ModuleNamePanics
  BY <1>0, <1>12 DEF LogTypeOK, LinesFit, ModuleNamePanics, Asleep, SenderAt, hostVars, sentVars
<1> QED  BY <1>1, <1>2, <1>3, <1>4, <1>5, <1>6, <1>7, <1>8, <1>9, <1>10, <1>11, <1>12
         DEF LogNext, Sender

\* A line is covered for good.
LEMMA CoveredStays == ASSUME LInv, LogNext, NEW l \in Line, Covered(l)  PROVE Covered(l)'
<1>1. UNCHANGED <<arrived, dropped>> /\ cut \subseteq cut' => Covered(l)'
  BY DEF Covered
<1>2. CASE Publish
  BY <1>2 DEF Publish, Covered, LInv, LogTypeOK
<1>3. CASE PublishLost
  BY <1>3 DEF PublishLost, Covered
<1>4. CASE Tick \/ WriteLine \/ Deploy \/ CrashRestart \/ ModuleNamePanics
  BY <1>1, <1>4 DEF Tick, WriteLine, Deploy, CrashRestart, ModuleNamePanics, sentVars
<1>5. CASE Wake \/ ListContainers \/ ReadFails \/ PublishFails \/ RecordLogRead
  BY <1>1, <1>5 DEF Wake, ListContainers, ReadFails, PublishFails, RecordLogRead, sentVars
<1>6. CASE ReadContainerLogs \/ ReadIsCut
  BY <1>1, <1>6, ReadingEnds DEF LInv
<1> QED  BY <1>2, <1>3, <1>4, <1>5, <1>6 DEF LogNext, Sender

\* New containers have written nothing, and what is written now is in no window
\* that has ended.
LEMMA HostSteps ==
    ASSUME LInv, Tick \/ WriteLine \/ Deploy, NEW l \in lines', (l.con \in alive)'
    PROVE  /\ l \in Line /\ UNCHANGED <<sender, arrived, dropped, cut>>
           /\ \/ l \in lines /\ l.con \in alive /\ lastRead' = lastRead
              \/ l.at = now /\ lastRead' = lastRead /\ now' = now
<1> USE LogPipelineAssumption DEF LInv
<1>0. l \in Line /\ UNCHANGED <<sender, arrived, dropped, cut>>
  BY TypesStep DEF LogTypeOK, Tick, WriteLine, Deploy, recordVars, sentVars, LogNext
<1>1. CASE Tick
  BY <1>0, <1>1 DEF Tick, recordVars
<1>2. CASE WriteLine
  BY <1>0, <1>2 DEF WriteLine, recordVars
<1>3. CASE Deploy
  BY <1>0, <1>3 DEF Deploy, LinesFit
<1> QED  BY <1>1, <1>2, <1>3

LEMMA WindowHost ==
    ASSUME LInv, Tick \/ WriteLine \/ Deploy
    PROVE  (NothingPassedOver /\ WindowCovered)'
<1> USE LogPipelineAssumption DEF LInv
<1>1. ASSUME NEW l \in lines', (l.con \in alive)', l.at < lastRead'
      PROVE  (Covered(l))'
  <2>1. l.at # now
    BY <1>1, HostSteps DEF LinesFit, LogTypeOK, Line
  <2> QED  BY <1>1, <2>1, HostSteps DEF NothingPassedOver, Covered
<1>2. ASSUME ~SenderAt("sleep")', NEW l \in lines', (l.con \in alive)', l.at < sender'.until
      PROVE  (Covered(l) \/ Held(l))'
  <2>1. sender' = sender /\ ~SenderAt("sleep")
    BY <1>2, HostSteps DEF SenderAt
  <2>2. l.at # now
    BY <1>2, <2>1, HostSteps DEF LinesFit, LogTypeOK, Line
  <2> QED  BY <1>2, <2>1, <2>2, HostSteps DEF WindowCovered, Covered, Held, SenderAt
<1> QED  BY <1>1, <1>2 DEF NothingPassedOver, WindowCovered, Covered

LEMMA WindowSender ==
    ASSUME LInv, Sender \/ CrashRestart
    PROVE  (NothingPassedOver /\ WindowCovered)'
<1> USE LogPipelineAssumption DEF LInv
<1>0. /\ UNCHANGED <<now, alive, gone, lines>> /\ lines \subseteq Line
      /\ \A l \in lines : Covered(l) => Covered(l)'
  <2>1. UNCHANGED <<now, alive, gone, lines>>
    BY DEF Sender, Wake, ListContainers, ReadContainerLogs, ReadIsCut, ModuleNamePanics, ReadFails,
           Publish, PublishLost, PublishFails, RecordLogRead, CrashRestart, hostVars
  <2> QED  BY <2>1, CoveredStays DEF LogTypeOK, LogNext
<1>1. CASE lastRead' = lastRead
  <2>1. NothingPassedOver'
    BY <1>0, <1>1 DEF NothingPassedOver, Covered
  <2>2. CASE Wake
    BY <1>0, <2>1, <2>2 DEF NothingPassedOver, WindowCovered, Covered, Held, Wake, Asleep, SenderAt, LogTypeOK,
                      Line
  <2>3. CASE ListContainers
    BY <1>0, <2>1, <2>3 DEF WindowCovered, Held, ListContainers, SenderAt, LogTypeOK
  <2>4. CASE ReadContainerLogs \/ ReadIsCut
    <3>1. PICK c \in sender.todo \cap alive, G \in SUBSET lines :
            /\ sender' = [sender EXCEPT !.todo = @ \ {c}, !.got = @ \cup G]
            /\ \A l \in lines : l.con = c /\ InWindow(l) => l \in G \cup cut'
      BY <2>4, ReadingEnds
    <3>2. SenderAt("read") /\ UNCHANGED <<hostVars, recordVars, arrived, dropped, windows>>
      BY <2>4, ReadingEnds
    <3>3. sender'.todo = sender.todo \ {c} /\ sender'.got = sender.got \cup G
          /\ sender'.pc = "read" /\ sender'.since = sender.since /\ sender'.until = sender.until
      BY <3>1, <3>2 DEF LogTypeOK, SenderAt
    <3>4. ASSUME NEW l \in lines, l.con \in alive, l.at < sender.until
          PROVE  (Covered(l) \/ Held(l))'
      <4>1. Covered(l) => Covered(l)'
        BY <1>0
      <4>2. sender.since \in Nat /\ sender.until \in Nat /\ l.at \in Nat
        BY <1>0 DEF LogTypeOK, Line
      <4>3. (l.con \in sender.todo /\ l.at >= sender.since) \/ l \in sender.got \/ Covered(l)
        BY <3>2, <3>4 DEF WindowCovered, Held, SenderAt
      <4>4. CASE l.con = c /\ l.at >= sender.since
        <5>1. InWindow(l)
          BY <3>4, <4>2, <4>4 DEF InWindow
        <5>2. l \in G \cup cut'
          BY <3>1, <4>4, <5>1
        <5> QED  BY <3>3, <5>2 DEF Covered, Held, SenderAt
      <4>5. CASE l.con # c \/ ~(l.at >= sender.since)
        BY <3>3, <4>1, <4>3, <4>5 DEF Held, SenderAt
      <4> QED  BY <4>4, <4>5
    <3> QED  BY <1>0, <2>1, <3>3, <3>4 DEF WindowCovered, hostVars
  <2>5. CASE Publish
    BY <1>0, <2>1, <2>5 DEF WindowCovered, Covered, Held, Publish, SenderAt, LogTypeOK
  <2>6. CASE PublishLost
    BY <1>0, <2>1, <2>6 DEF WindowCovered, Covered, Held, PublishLost, SenderAt, LogTypeOK
  <2>7. CASE sender' = Asleep
    BY <2>1, <2>7 DEF WindowCovered, SenderAt, Asleep
  <2> QED  BY <2>1, <2>2, <2>3, <2>4, <2>5, <2>6, <2>7
           DEF Sender, ModuleNamePanics, ReadFails, PublishFails, RecordLogRead, CrashRestart
<1>2. CASE RecordLogRead
  BY <1>0, <1>2 DEF NothingPassedOver, WindowCovered, Covered, Held, RecordLogRead, Asleep, SenderAt,
                    LogTypeOK
<1> QED  BY <1>1, <1>2 DEF Sender, Wake, ListContainers, ReadContainerLogs, ReadIsCut,
                           ModuleNamePanics, ReadFails, Publish, PublishLost, PublishFails,
                           CrashRestart, LinesFit, recordVars

LEMMA LInvStep == ASSUME LInv, [LogNext]_logVars  PROVE LInv'
<1>1. CASE LogNext
  BY <1>1, TypesStep, LinesStep, WindowHost, WindowSender DEF LInv, LogNext
<1>2. CASE UNCHANGED logVars
  BY <1>2 DEF LInv, LogTypeOK, LinesFit, NothingPassedOver, WindowCovered, Covered, Held, SenderAt, logVars
<1> QED  BY <1>1, <1>2

------------------------------------------------------------------------------
(* Nothing is sent twice                                                   *)

Sharp(l) == arrived[l] > 0 /\ l.con \in alive /\ l.at \notin windows

\* Without a crash the lines that arrived are older than the window that is open,
\* or were written at the end of one.
NotAgain ==
    restarts = 0 =>
        /\ \A l \in sender.got : l.at \in windows \/ arrived[l] = 0 \/ SenderAt("record")
        /\ \A l \in Line : Sharp(l) => IF SenderAt("record") THEN l.at < sender.until
                                       ELSE l.at < lastRead
        /\ \A l \in Line : Sharp(l) /\ (SenderAt("list") \/ SenderAt("read")) => l.at < sender.since

OInv == LInv /\ restarts \in Nat /\ SentOnce /\ NotAgain

LEMMA OnceHost ==
    ASSUME OInv, Tick \/ WriteLine \/ Deploy
    PROVE  (SentOnce /\ NotAgain)'
<1>1. /\ UNCHANGED <<sender, arrived, windows, restarts>>
      /\ \A l \in Line : (l.con \in alive)' /\ arrived[l] > 0 =>
            l.con \in alive /\ lastRead' = lastRead
  BY DEF OInv, LInv, LinesFit, Tick, WriteLine, Deploy, sentVars, counters, recordVars
<1> QED  BY <1>1 DEF OInv, SentOnce, NotAgain, Sharp, SenderAt

LEMMA OnceSender ==
    ASSUME OInv, Sender, restarts = 0
    PROVE  (SentOnce /\ NotAgain)'
<1> USE LogPipelineAssumption DEF OInv, LInv, NotAgain, Sharp, SenderAt
<1>0. /\ alive' = alive /\ restarts' = restarts /\ windows \subseteq windows'
      /\ sender.got \subseteq Line
  BY DEF Sender, Wake, ListContainers, ReadContainerLogs, ReadIsCut, ModuleNamePanics, ReadFails,
         Publish, PublishLost, PublishFails, RecordLogRead, Fault, hostVars, counters, LogTypeOK
<1>1. arrived' = arrived => SentOnce'
  BY <1>0 DEF SentOnce
<1>8. \A l \in Line : arrived[l] \in {0, 1, 2} /\ l.at \in Nat
  <2>1. arrived \in [Line -> 0 .. 2]
    BY DEF LogTypeOK
  <2>2. \A l \in Line : l.at \in Nat
    BY DEF Line
  <2> QED  BY <2>1, <2>2
<1>9. /\ sender.since \in Nat /\ sender.until \in Nat /\ lines \subseteq Line
      /\ ~SenderAt("sleep") => sender.since <= sender.until /\ sender.until \in windows
  BY DEF LogTypeOK, LinesFit
<1>2. CASE Wake
  <2>1. UNCHANGED <<arrived, lastRead>> /\ sender'.got = {} /\ sender'.since = lastRead
        /\ sender'.pc = "list" /\ SenderAt("sleep")
    BY <1>2 DEF Wake, Asleep, sentVars, recordVars
  <2> QED  BY <1>0, <1>1, <2>1
<1>3. CASE ListContainers
  <2>1. UNCHANGED <<arrived, lastRead, windows>> /\ sender'.got = sender.got
        /\ sender'.since = sender.since /\ sender'.pc = "read" /\ SenderAt("list")
    BY <1>3 DEF ListContainers, sentVars, recordVars, LogTypeOK
  <2> QED  BY <1>0, <1>1, <2>1
<1>4. CASE ReadContainerLogs \/ ReadIsCut
  <2>1. PICK c \in sender.todo \cap alive, G \in SUBSET lines :
          /\ sender' = [sender EXCEPT !.todo = @ \ {c}, !.got = @ \cup G]
          /\ \A l \in G : l.con = c /\ InWindow(l)
    BY <1>4, ReadingEnds
  <2>2. /\ UNCHANGED <<arrived, lastRead, windows>> /\ SenderAt("read") /\ sender'.pc = "read"
        /\ sender'.since = sender.since /\ sender'.got = sender.got \cup G
    BY <1>4, <2>1, ReadingEnds DEF recordVars, LogTypeOK
  <2>3. \A l \in G : l.at \in windows \/ arrived[l] = 0
    <3>1. \A l \in G : l \in Line /\ l.con \in alive /\ sender.since <= l.at
      BY <1>9, <2>1 DEF InWindow
    <3>2. \A l \in Line : Sharp(l) => l.at < sender.since
      BY <2>2
    <3> QED  BY <1>8, <1>9, <3>1, <3>2
  <2> QED  BY <1>0, <1>1, <2>2, <2>3
<1>5. CASE ReadFails \/ PublishFails \/ ModuleNamePanics
  <2>1. UNCHANGED <<arrived, lastRead, windows>> /\ sender' = Asleep
        /\ (SenderAt("list") \/ SenderAt("read"))
    BY <1>5 DEF ReadFails, PublishFails, ModuleNamePanics, LinesFit, sentVars, recordVars
  <2> QED  BY <1>0, <1>1, <2>1 DEF Asleep
<1>6. CASE Publish \/ PublishLost
  <2>1. /\ lastRead' = lastRead /\ windows' = windows /\ SenderAt("read")
        /\ sender'.pc = "record" /\ sender'.until = sender.until /\ sender'.got = sender.got
    BY <1>6 DEF Publish, PublishLost, recordVars, LogTypeOK
  <2>2. \A l \in Line :
          \/ arrived'[l] = arrived[l]
          \/ l \in sender.got /\ arrived'[l] = arrived[l] + 1
    BY <1>6 DEF Publish, PublishLost
  <2>3. SentOnce'
    BY <1>0, <1>8, <2>1, <2>2 DEF SentOnce
  <2>4. \A l \in sender.got : l.at <= sender.until
    BY DEF LinesFit
  <2>5. \A l \in Line : Sharp(l)' => l.at < sender.until
    BY <1>0, <1>8, <1>9, <2>1, <2>2, <2>4
  <2> QED  BY <1>0, <2>1, <2>3, <2>5
<1>7. CASE RecordLogRead
  <2>1. arrived' = arrived /\ windows' = windows /\ SenderAt("record") /\ sender' = Asleep
        /\ lastRead' = sender.until
    BY <1>7 DEF RecordLogRead, sentVars
  <2> QED  BY <1>0, <1>1, <2>1 DEF Asleep
<1> QED  BY <1>2, <1>3, <1>4, <1>5, <1>6, <1>7 DEF Sender

\* After a crash nothing is promised.
LEMMA OnceStep == ASSUME OInv, LogNext  PROVE (restarts \in Nat /\ SentOnce /\ NotAgain)'
<1>1. CASE Tick \/ WriteLine \/ Deploy
  BY <1>1, OnceHost DEF OInv, Tick, WriteLine, Deploy, counters
<1>2. CASE Sender /\ restarts = 0
  <2>1. restarts' = restarts
    BY <1>2 DEF Sender, Wake, ListContainers, ReadContainerLogs, ReadIsCut, ModuleNamePanics,
                ReadFails, Publish, PublishLost, PublishFails, RecordLogRead, Fault, counters
  <2> QED  BY <1>2, <2>1, OnceSender
<1>3. CASE Sender /\ restarts # 0
  <2>1. restarts' = restarts
    BY <1>3 DEF Sender, Wake, ListContainers, ReadContainerLogs, ReadIsCut, ModuleNamePanics,
                ReadFails, Publish, PublishLost, PublishFails, RecordLogRead, Fault, counters
  <2> QED  BY <1>3, <2>1 DEF OInv, SentOnce, NotAgain
<1>4. CASE CrashRestart
  <2>1. restarts \in Nat /\ restarts' = restarts + 1
    BY <1>4 DEF CrashRestart, OInv
  <2> QED  BY <2>1 DEF SentOnce, NotAgain
<1> QED  BY <1>1, <1>2, <1>3, <1>4 DEF LogNext

LEMMA InitOInv == LogInit => OInv
BY InitLInv DEF LogInit, OInv, SentOnce, NotAgain, Sharp, Asleep

LEMMA NextOInv == OInv /\ [LogNext]_logVars => OInv'
<1>1. OInv /\ LogNext => OInv'
  BY LInvStep, OnceStep DEF OInv
<1>2. OInv /\ UNCHANGED logVars => OInv'
  BY LInvStep DEF OInv, SentOnce, NotAgain, Sharp, SenderAt, logVars
<1> QED  BY <1>1, <1>2

LEMMA AlwaysOInv == LogSpec => []OInv
BY InitOInv, NextOInv, PTL DEF LogSpec

------------------------------------------------------------------------------
\* The types of the record, the sender's frame and the messages, for a clock that
\* goes any length (logs.go).
THEOREM LogTypes == LogSpec => []LogTypeOK
<1>1. OInv => LogTypeOK
  BY DEF OInv, LInv
<1> QED  BY <1>1, AlwaysOInv, PTL

\* What was written before the end of the last window has reached MAPI, was lost
\* with its message or by a reader that ended before it without an error, or its
\* container is gone, for any number of containers, failures, restarts and deployments
\* in between (logs.go 36-70, container.go 161-189).
THEOREM NoLineIsPassedOver == LogSpec => []NothingPassedOver
<1>1. OInv => NothingPassedOver
  BY DEF OInv, LInv
<1> QED  BY <1>1, AlwaysOInv, PTL

\* A line is sent twice only after a crash, or when it was written at the very time
\* a window ended (logs.go 36-70, RecordLogRead in status.go 79-93).
THEOREM LinesAreSentOnce == LogSpec => []SentOnce
<1>1. OInv => SentOnce
  BY DEF OInv
<1> QED  BY <1>1, AlwaysOInv, PTL

------------------------------------------------------------------------------
(* The parts side by side                                                  *)

DataInv == IInv /\ OInv /\ WiringInv

\* A step of one part is a step of it alone, and none of the others.
LEMMA PartsApart ==
    ASSUME [PartNext]_partVars
    PROVE  [Next]_vars /\ [LogNext]_logVars /\ [WiringNext]_wiringVars
BY DEF PartNext, partVars, InFile, InLogs, InWiring

\* The record, its file and their writers, the time up to which logs were sent and
\* the frame of their sender, the arrays of modules and the connections keep their
\* types, whatever overlaps, fails, panics or crashes, for any records, containers
\* and manifests, however large (status.go, logs.go, manifest.go).
THEOREM PartsKeepTheirTypes == PartSpec => []TypesOK
<1>1. PartInit => DataInv
  BY InitIInv, InitOInv, InitWiring DEF PartInit, DataInv
<1>2. DataInv /\ [PartNext]_partVars => DataInv'
  BY PartsApart, NextIInv, NextOInv, WiringStep DEF DataInv
<1>3. DataInv => TypesOK
  BY WiringInvTypes DEF DataInv, IInv, OInv, LInv, TypesOK
<1> QED  BY <1>1, <1>2, <1>3, PTL DEF PartSpec
=============================================================================
