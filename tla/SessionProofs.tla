------------------------------ MODULE SessionProofs ------------------------------
(***********************************************************************************)
(* Theorems about the project session, the imports into its library and the        *)
(* document a save writes: for any paths, media assets and files, any number of    *)
(* edits, saves and lives.                                                         *)
(*                                                                                 *)
(* CleanMeansSaved speaks of the document and the disk; what carries it from the   *)
(* request of a save to the delivery of its completion is SessionInv: what every   *)
(* save has captured (Captured), where its report is (Queued), what it has put on  *)
(* disk (Landed), and that a session without changes since the last save has none  *)
(* since the pending one either (PendingIsCurrent). OneAssetPerFile speaks of the  *)
(* library in memory; opening a project replaces it with what the file lists, so   *)
(* the same has to hold of every document that may come back: the ones saves have  *)
(* captured and the ones on disk. Those are parts of the library of the moment     *)
(* they were captured (InTable).                                                   *)
(*                                                                                 *)
(* A document reads back as what was written because a project never holds a       *)
(* value that a reader would change (Canonical), however the project came about;   *)
(* the theorem says so for any number of edits.                                    *)
(***********************************************************************************)
EXTENDS MediaImport, ProjectDocument, SequenceTheorems, FiniteSetTheorems, TLAPS

-----------------------------------------------------------------------------------
(* The session. *)

IsPending(i) == saves[i].stage # "delivered"

(* The revision of a save identifies the document it captured.                     *)
Captured ==
  /\ savedRevision <= revision
  /\ \A i \in 1..Len(saves) :
       /\ saves[i].revision <= revision
       /\ saves[i].revision = revision => saves[i].doc = doc

(* Every queued completion belongs to a save of its own that has reported.         *)
Queued ==
  /\ Len(saves) <= MaxSaves
  /\ \A k \in 1..Len(completions) : saves[completions[k].save].stage = "reported"
  /\ \A k, m \in 1..Len(completions) : completions[k].save = completions[m].save => k = m

OnePending == \A i, j \in 1..Len(saves) : IsPending(i) /\ IsPending(j) => i = j

PendingIsCurrent ==
  ~Modified => \A i \in 1..Len(saves) : IsPending(i) => saves[i].revision = revision

Landed ==
  /\ \A i \in 1..Len(saves) : saves[i].stage = "renamed" => disk[saves[i].path] = saves[i].doc
  /\ \A k \in 1..Len(completions) : completions[k].succeeded =>
       disk[saves[completions[k].save].path] = saves[completions[k].save].doc

SessionInv ==
  /\ SessionTypeOK /\ Captured /\ Queued
  /\ ~overlapped => OnePending /\ PendingIsCurrent /\ Landed
  /\ CleanMeansSaved /\ CloseJoinsWorkers /\ DocumentsWhole

-----------------------------------------------------------------------------------
(* Sequences of saves and reports.                                                 *)
LEMMA SavesTyped ==
  ASSUME SessionInv
  PROVE  /\ saves \in Seq(Saves) /\ Len(saves) \in Nat /\ Len(saves) <= MaxSaves
         /\ completions \in Seq(Reports) /\ Len(completions) \in Nat
         /\ \A i \in 1..Len(saves) : saves[i] \in Saves
         /\ \A k \in 1..Len(completions) :
              completions[k] \in Reports /\ completions[k].save \in 1..Len(saves)
<1>1. saves \in Seq(Saves) /\ Len(saves) <= MaxSaves /\ completions \in Seq(Reports)
      /\ \A k \in 1..Len(completions) : completions[k].save \in 1..Len(saves)
  BY DEF SessionInv, SessionTypeOK, Queued
<1>2. QED
  BY <1>1, LenProperties, ElementOfSeq

(* A worker moves on to its next stage.                                            *)
LEMMA StageMoves ==
  ASSUME SessionInv, NEW i \in 1..Len(saves), NEW s \in Stages,
         saves' = [saves EXCEPT ![i].stage = s]
  PROVE  /\ saves' \in Seq(Saves) /\ Len(saves') = Len(saves)
         /\ saves'[i] = [saves[i] EXCEPT !.stage = s] /\ saves'[i].stage = s
         /\ \A j \in 1..Len(saves) :
              /\ saves'[j].path = saves[j].path /\ saves'[j].revision = saves[j].revision
              /\ saves'[j].doc = saves[j].doc
              /\ j # i => saves'[j] = saves[j]
<1> DEFINE e == [saves[i] EXCEPT !.stage = s]
<1>1. e \in Saves /\ saves' = [saves EXCEPT ![i] = e] /\ saves[i] \in Saves
  BY SavesTyped DEF Saves
<1> HIDE DEF e
<1>2. /\ saves' \in Seq(Saves) /\ Len(saves') = Len(saves)
      /\ \A j \in 1..Len(saves) : saves'[j] = IF j = i THEN e ELSE saves[j]
  <2> DEFINE f == [saves EXCEPT ![i] = e]
  <2>1. f \in Seq(Saves) /\ Len(f) = Len(saves)
        /\ \A j \in 1..Len(saves) : f[j] = IF j = i THEN e ELSE saves[j]
    BY <1>1, SavesTyped, ExceptSeq
  <2>2. saves' = f
    BY <1>1
  <2> HIDE DEF f
  <2>3. QED
    BY <2>1, <2>2
<1>3. e.stage = s /\ e.path = saves[i].path /\ e.revision = saves[i].revision
      /\ e.doc = saves[i].doc
  BY <1>1 DEF e, Saves
<1>4. QED
  BY <1>2, <1>3 DEF e

LEMMA WorkersFinite ==
  ASSUME SessionInv PROVE IsFiniteSet(InProgress) /\ InProgress \subseteq 1..Len(saves)
<1>1. IsFiniteSet(1..Len(saves))
  BY SavesTyped, FS_Interval
<1>2. QED
  BY <1>1, FS_Subset DEF InProgress

-----------------------------------------------------------------------------------
LEMMA SessionInit == Init => SessionInv
<1> USE SessionAssumption
<1> SUFFICES ASSUME Init PROVE SessionInv
  OBVIOUS
<1>1. SessionTypeOK
  <2>1. <<>> \in Seq(Saves) /\ <<>> \in Seq(Reports) /\ Len(<<>>) = 0
    BY EmptySeq
  <2>2. InProgress = {}
    BY <2>1 DEF Init, InProgress
  <2>3. inFlight = Cardinality(InProgress)
    BY <2>2, FS_EmptySet DEF Init
  <2>4. Blank \in Docs
    BY DEF Blank, Docs
  <2>5. /\ saves \in Seq(Saves) /\ completions \in Seq(Reports)
        /\ \A k \in 1..Len(completions) : completions[k].save \in 1..Len(saves)
    BY <2>1 DEF Init
  <2>6. doc \in Docs /\ disk \in [Paths -> Docs \cup {Absent, Torn}]
    BY <2>4 DEF Init
  <2>7. /\ library \subseteq Assets /\ revision \in Nat /\ savedRevision \in Nat
        /\ documentPath \in Paths \cup {NoPath} /\ version \in 0..MaxVersions
        /\ lives \in 1..MaxLives
    BY DEF Init
  <2>8. overlapped \in BOOLEAN /\ up \in BOOLEAN
    BY Zenon DEF Init
  <2>9. QED
    BY <2>3, <2>5, <2>6, <2>7, <2>8 DEF SessionTypeOK
<1>2. Captured /\ Queued /\ OnePending /\ PendingIsCurrent /\ Landed
  BY DEF Init, Captured, Queued, OnePending, PendingIsCurrent, Landed
<1>3. CleanMeansSaved /\ CloseJoinsWorkers /\ DocumentsWhole
  BY DEF Init, CleanMeansSaved, CloseJoinsWorkers, DocumentsWhole
<1>4. QED
  BY <1>1, <1>2, <1>3 DEF SessionInv

(* The document changes, and the revision with it.                                 *)
LEMMA EditPreserves ==
  ASSUME SessionInv, NEW assets \in SUBSET Assets, EditTo(assets) PROVE SessionInv'
<1> USE SessionAssumption DEF SessionInv
<1>1. /\ doc' \in Docs /\ version' \in 0..MaxVersions /\ revision' = revision + 1
      /\ revision \in Nat /\ savedRevision \in Nat
      /\ UNCHANGED <<library, savedRevision, documentPath, saves, queue, disk, overlapped, up,
                     lives>>
  BY DEF EditTo, SessionTypeOK, Docs
<1>2. SessionTypeOK'
  BY <1>1 DEF SessionTypeOK, InProgress, queue
<1>3. Captured' /\ Queued'
  BY <1>1, SavesTyped DEF Captured, Queued, queue, Saves
<1>4. Modified'
  BY <1>1 DEF Modified, Captured
<1>5. ~overlapped' => OnePending' /\ PendingIsCurrent' /\ Landed'
  BY <1>1, <1>4 DEF OnePending, PendingIsCurrent, Landed, IsPending, queue
<1>6. CleanMeansSaved' /\ CloseJoinsWorkers' /\ DocumentsWhole'
  BY <1>1, <1>4 DEF CleanMeansSaved, CloseJoinsWorkers, DocumentsWhole
<1>7. QED
  BY <1>2, <1>3, <1>5, <1>6

(* Another project takes the place of this one: what is pending overlaps it.       *)
LEMMA ReplacePreserves ==
  ASSUME SessionInv, up, NoteOverlap,
         doc' \in Docs, library' \in SUBSET Assets, documentPath' \in Paths \cup {NoPath},
         documentPath' # NoPath => disk[documentPath'] = doc',
         version' \in 0..MaxVersions,
         revision' = revision + 1, savedRevision' = revision + 1,
         UNCHANGED <<saves, queue, disk, up, lives>>
  PROVE  SessionInv'
<1> USE SessionAssumption DEF SessionInv
<1>1. SessionTypeOK'
  BY DEF SessionTypeOK, InProgress, queue, NoteOverlap, Pending
<1>2. Captured' /\ Queued'
  BY SavesTyped DEF Captured, Queued, queue, Saves, SessionTypeOK
<1>3. ~overlapped' => ~overlapped /\ \A i \in 1..Len(saves) : ~IsPending(i)
  BY DEF NoteOverlap, Pending, IsPending
<1>4. ~overlapped' => OnePending' /\ PendingIsCurrent' /\ Landed'
  BY <1>3 DEF OnePending, PendingIsCurrent, Landed, IsPending, queue
<1>5. CleanMeansSaved' /\ CloseJoinsWorkers' /\ DocumentsWhole'
  BY DEF CleanMeansSaved, CloseJoinsWorkers, DocumentsWhole
<1>6. QED
  BY <1>1, <1>2, <1>4, <1>5

LEMMA CreatePreserves == ASSUME SessionInv, CreateProject PROVE SessionInv'
<1>1. doc' \in Docs /\ version' \in 0..MaxVersions /\ library' \in SUBSET Assets
  BY SessionAssumption DEF CreateProject, Docs, SessionInv, SessionTypeOK
<1>2. QED
  BY <1>1, ReplacePreserves DEF CreateProject

LEMMA OpenPreserves == ASSUME SessionInv, NEW p \in Paths, OpenProject(p) PROVE SessionInv'
<1>1. doc' \in Docs /\ version' \in 0..MaxVersions /\ library' \in SUBSET Assets
  BY DEF OpenProject, Docs, SessionInv, SessionTypeOK
<1>2. QED
  BY <1>1, ReplacePreserves DEF OpenProject

LEMMA RequestPreserves == ASSUME SessionInv, NEW p \in Paths, RequestSave(p) PROVE SessionInv'
<1> USE SessionAssumption DEF SessionInv
<1> DEFINE s == [path |-> p, revision |-> revision, doc |-> doc, stage |-> "writing"]
           n == Len(saves)
<1>1. /\ saves' = Append(saves, s) /\ inFlight' = inFlight + 1 /\ up /\ n < MaxSaves
      /\ UNCHANGED <<memory, completions, disk, version, up, lives>>
  BY DEF RequestSave
<1>2. s \in Saves /\ Working(s) /\ s.stage = "writing" /\ s.revision = revision /\ s.doc = doc
  BY DEF Saves, Stages, Working, SessionTypeOK
<1> HIDE DEF s
<1>3. /\ saves' \in Seq(Saves) /\ Len(saves') = n + 1 /\ n \in Nat /\ saves'[n + 1] = s
      /\ \A i \in 1..n : saves'[i] = saves[i]
  BY <1>1, <1>2, SavesTyped, AppendProperties
<1>4. \A i \in 1..(n + 1) : (i \in 1..n /\ saves'[i] = saves[i]) \/ (i = n + 1 /\ saves'[i] = s)
  BY <1>3
<1>5. inFlight' = Cardinality(InProgress')
  <2>1. n + 1 \notin InProgress /\ InProgress' = InProgress \cup {n + 1}
    BY <1>2, <1>3 DEF InProgress
  <2>2. QED
    BY <1>1, <2>1, WorkersFinite, FS_AddElement DEF SessionTypeOK
<1>6. SessionTypeOK'
  <2>1. overlapped' \in BOOLEAN
    BY Zenon DEF RequestSave, NoteOverlap, SessionTypeOK
  <2>2. \A k \in 1..Len(completions) : completions[k].save \in 1..(n + 1)
    BY <1>3, SavesTyped
  <2>3. QED
    BY <1>1, <1>3, <1>5, <2>1, <2>2 DEF SessionTypeOK, memory
<1>7. Captured' /\ Queued'
  <2>1. Captured'
    BY <1>1, <1>2, <1>3, <1>4, SavesTyped DEF Captured, memory, SessionTypeOK
  <2>2. \A k \in 1..Len(completions) : saves'[completions[k].save] = saves[completions[k].save]
    BY <1>3, SavesTyped
  <2>3. Queued'
    BY <1>1, <1>3, <2>2, SavesTyped DEF Queued, memory
  <2>4. QED
    BY <2>1, <2>3
<1>8. ~overlapped' => ~overlapped /\ \A i \in 1..n : saves[i].stage = "delivered"
  BY DEF RequestSave, NoteOverlap, Pending
<1>9. ~overlapped' => OnePending' /\ PendingIsCurrent' /\ Landed'
  <2> SUFFICES ASSUME ~overlapped' PROVE OnePending' /\ PendingIsCurrent' /\ Landed'
    OBVIOUS
  <2>1. OnePending' /\ PendingIsCurrent'
    BY <1>1, <1>2, <1>3, <1>4, <1>8 DEF OnePending, PendingIsCurrent, IsPending, memory
  <2>2. Landed'
    BY <1>1, <1>2, <1>3, <1>4, <1>8, SavesTyped DEF Landed
  <2>3. QED
    BY <2>1, <2>2
<1>10. CleanMeansSaved' /\ CloseJoinsWorkers' /\ DocumentsWhole'
  BY <1>1, <1>8 DEF CleanMeansSaved, CloseJoinsWorkers, DocumentsWhole, Modified, memory
<1>11. QED
  BY <1>6, <1>7, <1>9, <1>10

(* A worker that has not reported goes on: it writes, fails, or renames.           *)
LEMMA WorkPreserves ==
  ASSUME SessionInv, NEW i \in 1..Len(saves), NEW s \in {"written", "failed", "renamed"},
         Working(saves[i]), saves' = [saves EXCEPT ![i].stage = s],
         UNCHANGED <<memory, queue, version, overlapped, up, lives>>,
         disk' = IF s = "renamed" THEN [disk EXCEPT ![saves[i].path] = saves[i].doc] ELSE disk,
         s # "renamed" \/ saves[i].stage = "written"
  PROVE  SessionInv'
<1> USE SessionAssumption DEF SessionInv
<1>1. /\ saves' \in Seq(Saves) /\ Len(saves') = Len(saves) /\ saves'[i].stage = s
      /\ \A j \in 1..Len(saves) :
           /\ saves'[j].path = saves[j].path /\ saves'[j].revision = saves[j].revision
           /\ saves'[j].doc = saves[j].doc
           /\ j # i => saves'[j] = saves[j]
  BY StageMoves DEF Stages
<1>2. InProgress' = InProgress
  BY <1>1 DEF InProgress, Working
<1>3. saves[i] \in Saves /\ saves[i].path \in Paths /\ saves[i].doc \in Docs
  BY SavesTyped DEF Saves
<1>4. disk' \in [Paths -> Docs \cup {Absent, Torn}]
  BY <1>3 DEF SessionTypeOK
<1>5. SessionTypeOK'
  BY <1>1, <1>2, <1>4 DEF SessionTypeOK, memory, queue
<1>6. \A k \in 1..Len(completions) : completions[k].save \in 1..Len(saves) \ {i}
  BY SavesTyped DEF Queued, Working
<1>7. Captured' /\ Queued'
  BY <1>1, <1>6 DEF Captured, Queued, memory, queue
<1>8. ASSUME ~overlapped' PROVE OnePending' /\ PendingIsCurrent' /\ Landed' /\ CleanMeansSaved'
  <2>1. OnePending /\ PendingIsCurrent /\ Landed /\ IsPending(i)
    BY <1>8 DEF IsPending, Working
  <2>2. \A j \in 1..Len(saves) : IsPending(j)' <=> IsPending(j)
    BY <1>1, <2>1 DEF IsPending
  <2>3. OnePending' /\ PendingIsCurrent'
    BY <1>1, <2>1, <2>2 DEF OnePending, PendingIsCurrent, Modified, memory
  <2>4. completions = <<>> \/ \A k \in 1..Len(completions) : FALSE
    BY <1>6, <2>1 DEF OnePending, Queued, IsPending
  <2>5. Landed'
    <3>1. \A j \in 1..Len(saves) : saves'[j].stage = "renamed" => j = i
      BY <1>1, <2>1 DEF OnePending, IsPending
    <3>2. s = "renamed" => disk'[saves[i].path] = saves[i].doc
      BY <1>3 DEF SessionTypeOK
    <3>3. QED
      BY <1>1, <2>4, <3>1, <3>2, SavesTyped DEF Landed, queue
  <2>6. CleanMeansSaved'
    <3>1. ~Modified => saves[i].doc = doc
      BY <2>1 DEF PendingIsCurrent, Captured
    <3>2. QED
      BY <1>3, <3>1 DEF CleanMeansSaved, Modified, memory, SessionTypeOK
  <2>7. QED
    BY <2>3, <2>5, <2>6
<1>9. CleanMeansSaved' /\ DocumentsWhole'
  BY <1>3, <1>8 DEF CleanMeansSaved, DocumentsWhole, SessionTypeOK
<1>10. CloseJoinsWorkers'
  BY DEF CloseJoinsWorkers
<1>11. QED
  BY <1>5, <1>7, <1>8, <1>9, <1>10

LEMMA ReportPreserves ==
  ASSUME SessionInv, NEW i \in 1..Len(saves), Report(i) PROVE SessionInv'
<1> USE SessionAssumption DEF SessionInv
<1> DEFINE r == [save |-> i, succeeded |-> saves[i].stage = "renamed"]
           n == Len(completions)
<1>1. /\ saves[i].stage \in {"renamed", "failed"}
      /\ completions' = Append(completions, r) /\ inFlight' = inFlight - 1
      /\ saves' = [saves EXCEPT ![i].stage = "reported"]
      /\ UNCHANGED <<memory, disk, version, overlapped, up, lives>>
  BY DEF Report
<1>2. /\ saves' \in Seq(Saves) /\ Len(saves') = Len(saves) /\ saves'[i].stage = "reported"
      /\ \A j \in 1..Len(saves) :
           /\ saves'[j].path = saves[j].path /\ saves'[j].revision = saves[j].revision
           /\ saves'[j].doc = saves[j].doc
           /\ j # i => saves'[j] = saves[j]
  BY <1>1, StageMoves DEF Stages
<1>3. r \in Reports /\ r.save = i
  BY SavesTyped DEF Reports
<1> HIDE DEF r
<1>4. /\ completions' \in Seq(Reports) /\ Len(completions') = n + 1 /\ n \in Nat
      /\ completions'[n + 1] = r
      /\ \A k \in 1..n : completions'[k] = completions[k]
  BY <1>1, <1>3, SavesTyped, AppendProperties
<1>5. \A k \in 1..(n + 1) : \/ k \in 1..n /\ completions'[k] = completions[k]
                            \/ k = n + 1 /\ completions'[k] = r
  BY <1>4
<1>6. \A k \in 1..n : completions[k].save \in 1..Len(saves) \ {i}
  BY <1>1, SavesTyped DEF Queued
<1>7. inFlight' = Cardinality(InProgress')
  <2>1. i \in InProgress /\ InProgress' = InProgress \ {i}
    BY <1>1, <1>2 DEF InProgress, Working
  <2>2. QED
    BY <1>1, <2>1, WorkersFinite, FS_RemoveElement DEF SessionTypeOK
<1>8. SessionTypeOK'
  <2>1. \A k \in 1..Len(completions') : completions'[k].save \in 1..Len(saves')
    BY <1>2, <1>3, <1>4, <1>5, <1>6
  <2>2. QED
    BY <1>1, <1>2, <1>4, <1>7, <2>1 DEF SessionTypeOK, memory
<1>9. Captured'
  BY <1>1, <1>2 DEF Captured, memory
<1>10. Queued'
  <2>1. \A k \in 1..(n + 1) : saves'[completions'[k].save].stage = "reported"
    <3> TAKE k \in 1..(n + 1)
    <3>1. CASE k = n + 1
      BY <1>2, <1>3, <1>4, <3>1
    <3>2. CASE k # n + 1
      <4>1. k \in 1..n /\ completions'[k] = completions[k]
        BY <1>4, <3>2
      <4>2. QED
        BY <1>2, <1>6, <4>1 DEF Queued
    <3>3. QED
      BY <3>1, <3>2
  <2>2. \A k, m \in 1..(n + 1) : completions'[k].save = completions'[m].save => k = m
    BY <1>3, <1>4, <1>5, <1>6 DEF Queued
  <2>3. QED
    BY <1>2, <1>4, <2>1, <2>2, SavesTyped DEF Queued
<1>11. ASSUME ~overlapped' PROVE OnePending' /\ PendingIsCurrent' /\ Landed'
  <2>1. OnePending /\ PendingIsCurrent /\ Landed
    BY <1>1, <1>11
  <2>2. \A j \in 1..Len(saves) : IsPending(j)' <=> IsPending(j)
    BY <1>1, <1>2 DEF IsPending
  <2>3. OnePending' /\ PendingIsCurrent'
    BY <1>1, <1>2, <2>1, <2>2 DEF OnePending, PendingIsCurrent, Modified, memory
  <2>4. r.succeeded => disk'[saves[i].path] = saves[i].doc
    BY <1>1, <2>1 DEF Landed, r
  <2>5. \A k \in 1..n : completions[k].succeeded =>
          disk'[saves'[completions[k].save].path] = saves'[completions[k].save].doc
    BY <1>1, <1>2, <1>6, <2>1 DEF Landed
  <2>6. \A k \in 1..Len(completions') : completions'[k].succeeded =>
          disk'[saves'[completions'[k].save].path] = saves'[completions'[k].save].doc
    BY <1>2, <1>3, <1>4, <1>5, <2>4, <2>5
  <2>7. \A j \in 1..Len(saves') : saves'[j].stage = "renamed" => disk'[saves'[j].path] = saves'[j].doc
    BY <1>1, <1>2, <2>1 DEF Landed
  <2>8. QED
    BY <2>3, <2>6, <2>7 DEF Landed
<1>12. CleanMeansSaved' /\ DocumentsWhole'
  BY <1>1 DEF CleanMeansSaved, DocumentsWhole, Modified, memory
<1>13. CloseJoinsWorkers'
  BY <1>1, <1>2 DEF CloseJoinsWorkers, Working
<1>14. QED
  BY <1>8, <1>9, <1>10, <1>11, <1>12, <1>13

LEMMA DeliverPreserves == ASSUME SessionInv, Deliver PROVE SessionInv'
<1> USE SessionAssumption DEF SessionInv
<1> DEFINE done == Head(completions)
           i    == done.save
           n    == Len(completions)
<1>1. /\ up /\ completions # <<>> /\ n \in Nat \ {0} /\ done = completions[1]
      /\ completions' \in Seq(Reports) /\ Len(completions') = n - 1
      /\ \A k \in 1..(n - 1) : completions'[k] = completions[k + 1]
      /\ i \in 1..Len(saves) /\ saves[i].stage = "reported"
  <2>1. completions \in Seq(Reports) /\ completions # <<>> /\ up /\ completions' = Tail(completions)
    BY SavesTyped DEF Deliver
  <2>2. n \in Nat \ {0} /\ done = completions[1] /\ 1 \in 1..n
    BY <2>1, EmptySeq
  <2>3. QED
    BY <2>1, <2>2, SavesTyped, HeadTailProperties DEF Queued
<1>2. /\ saves' = [saves EXCEPT ![i].stage = "delivered"]
      /\ IF done.succeeded
         THEN /\ documentPath' = saves[i].path
              /\ savedRevision' = IF revision = saves[i].revision THEN saves[i].revision
                                  ELSE savedRevision
         ELSE UNCHANGED <<documentPath, savedRevision>>
      /\ UNCHANGED <<doc, library, revision, inFlight, disk, version, overlapped, up, lives>>
  BY DEF Deliver
<1> HIDE DEF done, i, n
<1>3. /\ saves' \in Seq(Saves) /\ Len(saves') = Len(saves) /\ saves'[i].stage = "delivered"
      /\ \A j \in 1..Len(saves) :
           /\ saves'[j].path = saves[j].path /\ saves'[j].revision = saves[j].revision
           /\ saves'[j].doc = saves[j].doc
           /\ j # i => saves'[j] = saves[j]
  BY <1>1, <1>2, StageMoves DEF Stages
<1>4. saves[i] \in Saves /\ saves[i].path \in Paths /\ saves[i].revision \in Nat
  BY <1>1, SavesTyped DEF Saves
<1>5. \A k \in 1..(n - 1) : /\ k + 1 \in 1..n /\ k + 1 # 1
                            /\ completions'[k].save \in 1..Len(saves) \ {i}
                            /\ saves[completions'[k].save].stage = "reported"
  <2>1. ASSUME NEW k \in 1..(n - 1) PROVE k + 1 \in 1..n /\ k + 1 # 1 /\ 1 \in 1..n
    BY <1>1
  <2>2. \A k \in 1..n : /\ completions[k].save \in 1..Len(saves)
                        /\ saves[completions[k].save].stage = "reported"
                        /\ completions[k].save = completions[1].save => k = 1
    BY <1>1, SavesTyped DEF Queued, n
  <2> TAKE k \in 1..(n - 1)
  <2>3. completions'[k] = completions[k + 1] /\ completions[1].save = i
    BY <1>1 DEF i
  <2>4. QED
    BY <2>1, <2>2, <2>3
<1>6. InProgress' = InProgress
  BY <1>1, <1>3 DEF InProgress, Working
<1>7. SessionTypeOK'
  <2>1. savedRevision' \in Nat /\ documentPath' \in Paths \cup {NoPath}
    BY <1>2, <1>4 DEF SessionTypeOK
  <2>2. \A k \in 1..Len(completions') : completions'[k].save \in 1..Len(saves')
    BY <1>1, <1>3, <1>5
  <2>3. QED
    BY <1>1, <1>2, <1>3, <1>6, <2>1, <2>2 DEF SessionTypeOK
<1>8. Captured'
  BY SMTT(30), <1>1, <1>2, <1>3, <1>4 DEF Captured, SessionTypeOK
<1>9. Queued'
  <2>1. \A k \in 1..Len(completions') : saves'[completions'[k].save].stage = "reported"
    <3> SUFFICES ASSUME NEW k \in 1..(n - 1)
                 PROVE  saves'[completions'[k].save].stage = "reported"
      BY <1>1
    <3>1. /\ completions'[k].save \in 1..Len(saves) \ {i}
          /\ saves[completions'[k].save].stage = "reported"
      BY <1>5
    <3> DEFINE j == completions'[k].save
    <3>2. saves'[j] = saves[j]
      BY <1>3, <3>1
    <3>3. QED
      BY <3>1, <3>2
  <2>2. \A k, m \in 1..Len(completions') : completions'[k].save = completions'[m].save => k = m
    <3> SUFFICES ASSUME NEW k \in 1..(n - 1), NEW m \in 1..(n - 1),
                        completions[k + 1].save = completions[m + 1].save
                 PROVE  k = m
      BY <1>1
    <3>1. k + 1 = m + 1
      BY <1>5 DEF Queued, n
    <3>2. QED
      BY <1>1, <3>1
  <2>3. QED
    BY <1>3, <2>1, <2>2 DEF Queued
<1>10. ASSUME ~overlapped' PROVE OnePending' /\ PendingIsCurrent' /\ Landed' /\ CleanMeansSaved'
  <2>1. OnePending /\ PendingIsCurrent /\ Landed /\ IsPending(i)
    BY <1>1, <1>2, <1>10 DEF IsPending
  <2>2. \A j \in 1..Len(saves) : saves'[j].stage = "delivered"
    BY <1>1, <1>3, <2>1 DEF OnePending, IsPending
  <2>3. OnePending' /\ PendingIsCurrent'
    BY <1>3, <2>2 DEF OnePending, PendingIsCurrent, IsPending
  <2>4. \A k \in 1..Len(completions') : FALSE
    BY <1>1, <1>3, <1>5, <2>2
  <2>5. Landed'
    BY <1>3, <2>2, <2>4 DEF Landed
  <2>6. done.succeeded => disk[saves[i].path] = saves[i].doc
    BY <1>1, <2>1 DEF Landed, i, n
  <2>7. CleanMeansSaved'
    <3>1. CASE done.succeeded /\ revision = saves[i].revision
      BY <1>1, <1>2, <2>6, <3>1 DEF CleanMeansSaved, Captured
    <3>2. CASE done.succeeded /\ revision # saves[i].revision
      BY <1>1, <1>2, <2>1, <3>2 DEF CleanMeansSaved, PendingIsCurrent, Modified
    <3>3. CASE ~done.succeeded
      BY <1>2, <3>3 DEF CleanMeansSaved, Modified
    <3>4. QED
      BY <3>1, <3>2, <3>3
  <2>8. QED
    BY <2>3, <2>5, <2>7
<1>11. CleanMeansSaved' /\ DocumentsWhole'
  BY <1>2, <1>10 DEF CleanMeansSaved, DocumentsWhole
<1>12. CloseJoinsWorkers'
  BY <1>1, <1>2 DEF CloseJoinsWorkers
<1>13. QED
  BY <1>7, <1>8, <1>9, <1>10, <1>11, <1>12

LEMMA ClosePreserves == ASSUME SessionInv, Close PROVE SessionInv'
<1> USE SessionAssumption DEF SessionInv
<1>1. UNCHANGED <<memory, saves, queue, disk, version, overlapped, lives>> /\ up' = FALSE
  BY DEF Close
<1>2. InProgress = {}
  BY WorkersFinite, FS_EmptySet DEF Close, SessionTypeOK
<1>3. SessionTypeOK'
  BY <1>1 DEF SessionTypeOK, InProgress, memory, queue
<1>4. Captured' /\ Queued'
  BY <1>1 DEF Captured, Queued, memory, queue
<1>5. ~overlapped' => OnePending' /\ PendingIsCurrent' /\ Landed'
  BY <1>1 DEF OnePending, PendingIsCurrent, Landed, IsPending, Modified, memory, queue
<1>6. CloseJoinsWorkers'
  BY <1>1, <1>2 DEF CloseJoinsWorkers, InProgress
<1>7. CleanMeansSaved' /\ DocumentsWhole'
  BY <1>1 DEF CleanMeansSaved, DocumentsWhole
<1>8. QED
  BY <1>3, <1>4, <1>5, <1>6, <1>7

(* The memory of the saves is gone.                                                *)
LEMMA SavesForgotten ==
  ASSUME saves' = <<>>, completions' = <<>>, inFlight' = 0
  PROVE  /\ saves' \in Seq(Saves) /\ completions' \in Seq(Reports)
         /\ inFlight' = Cardinality(InProgress')
         /\ \A k \in 1..Len(completions') : completions'[k].save \in 1..Len(saves')
         /\ Queued' /\ OnePending' /\ PendingIsCurrent' /\ Landed' /\ CloseJoinsWorkers'
         /\ \A i \in 1..Len(saves') : FALSE
<1> USE SessionAssumption
<1>1. <<>> \in Seq(Saves) /\ <<>> \in Seq(Reports) /\ Len(<<>>) = 0
  BY EmptySeq
<1>2. inFlight' = Cardinality(InProgress')
  BY <1>1, FS_EmptySet DEF InProgress
<1>3. Queued' /\ OnePending' /\ PendingIsCurrent' /\ Landed' /\ CloseJoinsWorkers'
  BY <1>1 DEF Queued, OnePending, PendingIsCurrent, Landed, CloseJoinsWorkers
<1>4. QED
  BY <1>1, <1>2, <1>3

LEMMA CrashPreserves == ASSUME SessionInv, Crash PROVE SessionInv'
<1> USE SessionAssumption DEF SessionInv
<1>1. /\ saves' = <<>> /\ completions' = <<>> /\ inFlight' = 0 /\ up' = FALSE
      /\ UNCHANGED <<memory, disk, version, overlapped, lives>>
  BY DEF Crash
<1>2. /\ saves' \in Seq(Saves) /\ completions' \in Seq(Reports)
      /\ inFlight' = Cardinality(InProgress')
      /\ \A k \in 1..Len(completions') : completions'[k].save \in 1..Len(saves')
      /\ Queued' /\ OnePending' /\ PendingIsCurrent' /\ Landed' /\ CloseJoinsWorkers'
      /\ \A i \in 1..Len(saves') : FALSE
  BY <1>1, SavesForgotten
<1>3. SessionTypeOK'
  BY <1>1, <1>2 DEF SessionTypeOK, memory
<1>4. Captured'
  BY <1>1, <1>2 DEF Captured, memory
<1>5. CleanMeansSaved' /\ DocumentsWhole'
  BY <1>1 DEF CleanMeansSaved, DocumentsWhole
<1>6. QED
  BY <1>2, <1>3, <1>4, <1>5

LEMMA StartPreserves == ASSUME SessionInv, Start PROVE SessionInv'
<1> USE SessionAssumption DEF SessionInv
<1>1. /\ saves' = <<>> /\ completions' = <<>> /\ inFlight' = 0
      /\ doc' = Blank /\ library' = {} /\ revision' = 0 /\ savedRevision' = 0
      /\ documentPath' = NoPath /\ lives' = lives + 1 /\ lives < MaxLives
      /\ UNCHANGED <<disk, version>>
  BY DEF Start
<1>2. up' \in BOOLEAN /\ overlapped' \in BOOLEAN
  BY Zenon DEF Start
<1>3. /\ saves' \in Seq(Saves) /\ completions' \in Seq(Reports)
      /\ inFlight' = Cardinality(InProgress')
      /\ \A k \in 1..Len(completions') : completions'[k].save \in 1..Len(saves')
      /\ Queued' /\ OnePending' /\ PendingIsCurrent' /\ Landed' /\ CloseJoinsWorkers'
      /\ \A i \in 1..Len(saves') : FALSE
  BY <1>1, SavesForgotten
<1>4. doc' \in Docs
  BY <1>1 DEF Blank, Docs
<1>5. SessionTypeOK'
  BY <1>1, <1>2, <1>3, <1>4 DEF SessionTypeOK
<1>6. Captured'
  BY <1>1, <1>3 DEF Captured
<1>7. CleanMeansSaved' /\ DocumentsWhole'
  BY <1>1 DEF CleanMeansSaved, DocumentsWhole
<1>8. QED
  BY <1>3, <1>5, <1>6, <1>7

LEMMA SessionStep == SessionInv /\ [Next]_sessionVars => SessionInv'
<1> SUFFICES ASSUME SessionInv, [Next]_sessionVars PROVE SessionInv'
  OBVIOUS
<1>1. ASSUME NEW assets \in SUBSET Assets, EditTo(assets) PROVE SessionInv'
  BY <1>1, EditPreserves
<1>2. CASE Edit
  BY <1>1, <1>2 DEF Edit, SessionInv, SessionTypeOK, Docs
<1>3. ASSUME NEW a \in Assets, PlaceClip(a) PROVE SessionInv'
  <2>1. doc.assets \cup {a} \in SUBSET Assets
    BY DEF SessionInv, SessionTypeOK, Docs
  <2>2. QED
    BY <1>1, <1>3, <2>1 DEF PlaceClip
<1>4. CASE CreateProject
  BY <1>4, CreatePreserves
<1>5. ASSUME NEW p \in Paths, OpenProject(p) \/ RequestSave(p) PROVE SessionInv'
  BY <1>5, OpenPreserves, RequestPreserves
<1>6. ASSUME NEW i \in 1..Len(saves), Work(i) PROVE SessionInv'
  <2>1. CASE Report(i)
    BY <2>1, ReportPreserves
  <2>2. CASE WriteTemporary(i)
    BY <2>2, WorkPreserves DEF WriteTemporary, Working
  <2>3. CASE SaveFails(i)
    BY <2>3, WorkPreserves DEF SaveFails, Working
  <2>4. CASE Rename(i)
    BY <2>4, WorkPreserves DEF Rename, Working
  <2>5. QED
    BY <1>6, <2>1, <2>2, <2>3, <2>4 DEF Work
<1>7. CASE Deliver
  BY <1>7, DeliverPreserves
<1>8. CASE Close \/ Crash \/ Start
  BY <1>8, ClosePreserves, CrashPreserves, StartPreserves
<1>9. CASE UNCHANGED sessionVars
  <2> USE <1>9 DEF sessionVars, memory, queue, SessionInv
  <2>1. SessionTypeOK' /\ Captured' /\ Queued'
    BY DEF SessionTypeOK, Captured, Queued, InProgress
  <2>2. ~overlapped' => OnePending' /\ PendingIsCurrent' /\ Landed'
    BY DEF OnePending, PendingIsCurrent, Landed, IsPending, Modified
  <2>3. CleanMeansSaved' /\ CloseJoinsWorkers' /\ DocumentsWhole'
    BY DEF CleanMeansSaved, CloseJoinsWorkers, DocumentsWhole, Modified
  <2>4. QED
    BY <2>1, <2>2, <2>3
<1>10. QED
  BY <1>2, <1>3, <1>4, <1>5, <1>6, <1>7, <1>8, <1>9 DEF Next

THEOREM SessionInvariant == Spec => []SessionInv
  BY SessionInit, SessionStep, PTL DEF Spec

(* Type correctness, and the count the destructor waits on is exact.               *)
THEOREM SessionTyped == Spec => []SessionTypeOK
<1>1. SessionInv => SessionTypeOK
  BY DEF SessionInv
<1>2. QED
  BY <1>1, SessionInvariant, PTL

(* A session that says it is saved is: as long as saves and project loads do not   *)
(* overlap, its path holds its document (ProjectSession.hpp:22-30).                *)
THEOREM SessionSaved == Spec => []CleanMeansSaved
<1>1. SessionInv => CleanMeansSaved
  BY DEF SessionInv
<1>2. QED
  BY <1>1, SessionInvariant, PTL

(* No path ever holds part of a document (ProjectSaveService.hpp:19-27).           *)
THEOREM SessionWhole == Spec => []DocumentsWhole
<1>1. SessionInv => DocumentsWhole
  BY DEF SessionInv
<1>2. QED
  BY <1>1, SessionInvariant, PTL

(* No worker outlives the session (ProjectSession.cpp, the destructor).            *)
THEOREM SessionJoins == Spec => []CloseJoinsWorkers
<1>1. SessionInv => CloseJoinsWorkers
  BY DEF SessionInv
<1>2. QED
  BY <1>1, SessionInvariant, PTL

-----------------------------------------------------------------------------------
(* Imports. *)

(* A list of assets names a file once, and knows only ids that were handed out.    *)
Catalogue(assets) ==
  /\ \A a, b \in assets : a.file = b.file => a = b
  /\ \A a \in assets : a.id < nextId

InTable ==
  /\ Catalogue(library)
  /\ \A i \in 1..Len(saves) : Catalogue(saves[i].doc.assets)
  /\ \A p \in Paths : disk[p] \in Docs => Catalogue(disk[p].assets)

ImportInv == SessionInv /\ ImportTypeOK /\ InTable /\ LibraryCoversDocument

-----------------------------------------------------------------------------------
(* A part of a catalogue is one, and ids that are handed out later change nothing. *)
LEMMA PartOfCatalogue ==
  ASSUME NEW S, NEW T, T \subseteq S, Catalogue(S) PROVE Catalogue(T)
BY DEF Catalogue

LEMMA OlderCatalogue ==
  ASSUME NEW S \in SUBSET FileAssets, Catalogue(S), nextId \in Nat,
         nextId' = nextId \/ nextId' = nextId + 1
  PROVE  Catalogue(S)'
BY DEF Catalogue, FileAssets

LEMMA ImportStarts == ImportInit => ImportInv
<1> SUFFICES ASSUME ImportInit PROVE ImportInv
  OBVIOUS
<1>1. SessionInv
  BY SessionInit DEF ImportInit
<1>2. ImportTypeOK
  BY <1>1, ImportAssumption DEF ImportInit, ImportTypeOK, SessionInv, Init, NothingImported
<1>3. InTable /\ LibraryCoversDocument
  BY SessionAssumption DEF ImportInit, Init, InTable, Catalogue, LibraryCoversDocument, Blank
<1>4. QED
  BY <1>1, <1>2, <1>3 DEF ImportInv

(* The session does not mind an asset that enters the library: the revision        *)
(* counts on, as for an edit.                                                      *)
LEMMA ImportAssetPreserves ==
  ASSUME SessionInv, NEW a \in Assets, ImportAsset(a) PROVE SessionInv'
<1> USE SessionAssumption DEF SessionInv
<1>1. /\ library' \subseteq Assets /\ revision' = revision + 1
      /\ revision \in Nat /\ savedRevision \in Nat
      /\ UNCHANGED <<doc, savedRevision, documentPath, saves, queue, disk, version, overlapped,
                     up, lives>>
  BY DEF ImportAsset, SessionTypeOK
<1>2. SessionTypeOK'
  BY <1>1 DEF SessionTypeOK, InProgress, queue
<1>3. Captured' /\ Queued'
  BY <1>1, SavesTyped DEF Captured, Queued, queue, Saves
<1>4. Modified'
  BY <1>1 DEF Modified, Captured
<1>5. ~overlapped' => OnePending' /\ PendingIsCurrent' /\ Landed'
  BY <1>1, <1>4 DEF OnePending, PendingIsCurrent, Landed, IsPending, queue
<1>6. CleanMeansSaved' /\ CloseJoinsWorkers' /\ DocumentsWhole'
  BY <1>1, <1>4 DEF CleanMeansSaved, CloseJoinsWorkers, DocumentsWhole
<1>7. QED
  BY <1>2, <1>3, <1>5, <1>6

(* What a session knows of its documents.                                          *)
LEMMA DocumentsTyped ==
  ASSUME ImportInv
  PROVE  /\ library \in SUBSET FileAssets /\ doc.assets \in SUBSET FileAssets
         /\ \A i \in 1..Len(saves) : saves[i].doc \in Docs
                                     /\ saves[i].doc.assets \in SUBSET FileAssets
         /\ \A p \in Paths : disk[p] \in Docs => disk[p].assets \in SUBSET FileAssets
         /\ nextId \in Nat /\ Len(saves) \in Nat
BY SMTT(30), ImportAssumption, SavesTyped DEF ImportInv, SessionInv, SessionTypeOK, Docs, Saves, ImportTypeOK

-----------------------------------------------------------------------------------
(* A file that the library does not list becomes an asset with a new id.           *)
LEMMA ImportNewPreserves ==
  ASSUME ImportInv, NEW f \in Files, ImportNew(f) PROVE ImportInv'
<1> DEFINE a == [id |-> nextId, file |-> f]
<1>1. /\ a \in FileAssets /\ nextId \in 1..MaxIds /\ nextId' = nextId + 1
      /\ library' = library \cup {a} /\ \A b \in library : b.file # f
      /\ UNCHANGED <<doc, saves, disk, up>>
      /\ imported' = [imported EXCEPT ![f] = a] /\ answer' = a
  BY ImportAssumption DEF ImportNew, ImportAsset, ImportInv, ImportTypeOK, FileAssets, Registered
<1>2. SessionInv'
  BY <1>1, ImportAssumption, ImportAssetPreserves DEF ImportNew, ImportInv
<1>3. InTable'
  <2>1. Catalogue(library)'
    BY <1>1, DocumentsTyped DEF ImportInv, InTable, Catalogue, FileAssets
  <2>2. /\ \A i \in 1..Len(saves) : Catalogue(saves[i].doc.assets)'
        /\ \A p \in Paths : disk[p] \in Docs => Catalogue(disk[p].assets)'
    BY <1>1, DocumentsTyped DEF ImportInv, InTable, Catalogue, FileAssets
  <2>3. QED
    BY <1>1, <2>1, <2>2 DEF InTable
<1>4. ImportTypeOK'
  BY <1>1, <1>2, <1>3, ImportAssumption
  DEF ImportInv, ImportTypeOK, SessionInv, InTable, Catalogue
<1>5. LibraryCoversDocument'
  BY <1>1 DEF ImportInv, LibraryCoversDocument
<1>6. QED
  BY <1>2, <1>3, <1>4, <1>5 DEF ImportInv

LEMMA ImportKnownPreserves ==
  ASSUME ImportInv, NEW f \in Files, ImportKnown(f) PROVE ImportInv'
<1>1. UNCHANGED <<sessionVars, imported, nextId>>
  BY DEF ImportKnown
<1>2. SessionInv'
  BY <1>1, SessionStep DEF ImportInv, sessionVars
<1>3. InTable' /\ LibraryCoversDocument'
  BY <1>1 DEF ImportInv, InTable, Catalogue, LibraryCoversDocument, sessionVars, memory, queue
<1>4. answer' \in FileAssets \cup {NoAsset}
  BY DocumentsTyped DEF ImportKnown, Registered, ImportInv, ImportTypeOK
<1>5. ImportTypeOK'
  BY <1>1, <1>2, <1>4 DEF ImportInv, ImportTypeOK, SessionInv, sessionVars, memory, queue
<1>6. QED
  BY <1>2, <1>3, <1>5 DEF ImportInv

(* A step of the session replaces the library by what a document lists, or by      *)
(* nothing; puts into a document what the library lists; and captures, writes or   *)
(* forgets documents as they are.                                                  *)
LEMMA SessionKeepsCatalogues ==
  ASSUME ImportInv, Next, UNCHANGED nextId PROVE InTable' /\ LibraryCoversDocument'
<1> USE DEF ImportInv
<1>1. \A S : Catalogue(S)' <=> Catalogue(S)
  BY DEF Catalogue
<1>2. up => Catalogue(doc.assets)
  BY PartOfCatalogue DEF InTable, LibraryCoversDocument
<1>3. CASE /\ UNCHANGED <<library, saves, disk>> /\ (up' => doc'.assets \subseteq library)
  BY <1>1, <1>3 DEF InTable, LibraryCoversDocument, Catalogue
<1>4. CASE Edit \/ \E a \in Assets : PlaceClip(a)
  BY <1>3, <1>4 DEF Edit, PlaceClip, EditTo, LibraryCoversDocument
<1>5. CASE Deliver \/ Close
  <2>1. UNCHANGED <<doc, library, disk>> /\ (up' => up) /\ Len(saves') = Len(saves)
        /\ \A i \in 1..Len(saves) : saves'[i].doc = saves[i].doc
    <3>1. CASE Deliver
      <4>1. Head(completions).save \in 1..Len(saves) /\ "delivered" \in Stages
        BY <3>1, SavesTyped, HeadTailProperties DEF Deliver, Stages
      <4>2. QED
        BY <3>1, <4>1, StageMoves DEF Deliver
    <3>2. CASE Close
      BY <3>2 DEF Close, memory
    <3>3. QED
      BY <1>5, <3>1, <3>2
  <2>2. QED
    BY <2>1 DEF InTable, LibraryCoversDocument, Catalogue
<1>6. CASE CreateProject \/ Start
  BY <1>6, <1>1 DEF CreateProject, Start, InTable, LibraryCoversDocument, Catalogue, Blank
<1>7. CASE Crash
  BY <1>7, <1>1 DEF Crash, InTable, LibraryCoversDocument, Catalogue, memory
<1>8. ASSUME NEW p \in Paths, OpenProject(p) PROVE InTable' /\ LibraryCoversDocument'
  BY <1>8, <1>1 DEF OpenProject, InTable, LibraryCoversDocument
<1>9. ASSUME NEW p \in Paths, RequestSave(p) PROVE InTable' /\ LibraryCoversDocument'
  <2> DEFINE s == [path |-> p, revision |-> revision, doc |-> doc, stage |-> "writing"]
  <2>1. /\ Len(saves') = Len(saves) + 1
        /\ \A i \in 1..Len(saves') : saves'[i] = IF i = Len(saves) + 1 THEN s ELSE saves[i]
    <3>1. s \in Saves /\ saves' = Append(saves, s)
      BY <1>9 DEF RequestSave, SessionInv, SessionTypeOK, Saves, Stages
    <3>2. QED
      BY <3>1, SavesTyped, AppendProperties
  <2>2. UNCHANGED <<doc, library, disk, up>> /\ up
    BY <1>9 DEF RequestSave, memory
  <2>3. \A i \in 1..Len(saves') : Catalogue(saves'[i].doc.assets)
    BY <2>1, <2>2, <1>2, SavesTyped DEF InTable
  <2>4. QED
    BY <2>2, <2>3, <1>1 DEF InTable, LibraryCoversDocument
<1>10. ASSUME NEW i \in 1..Len(saves), Work(i) PROVE InTable' /\ LibraryCoversDocument'
  <2>1. Len(saves') = Len(saves) /\ UNCHANGED <<doc, library, up>>
        /\ \A j \in 1..Len(saves) : saves'[j].doc = saves[j].doc
    BY <1>10, StageMoves
    DEF Work, WriteTemporary, SaveFails, Rename, Report, Stages, memory
  <2>2. \A p \in Paths : disk'[p] = disk[p] \/ disk'[p] = saves[i].doc
    BY <1>10 DEF Work, WriteTemporary, SaveFails, Rename, Report, SessionInv, SessionTypeOK
  <2>3. QED
    BY <2>1, <2>2, <1>1 DEF InTable, LibraryCoversDocument
<1>11. QED
  BY <1>4, <1>5, <1>6, <1>7, <1>8, <1>9, <1>10 DEF Next

LEMMA OtherPreserves == ASSUME ImportInv, OtherStep PROVE ImportInv'
<1>1. Next /\ UNCHANGED nextId
  BY DEF OtherStep
<1>2. SessionInv'
  BY <1>1, SessionStep DEF ImportInv
<1>3. InTable' /\ LibraryCoversDocument'
  BY <1>1, SessionKeepsCatalogues
<1>4. ImportTypeOK'
  BY <1>1, <1>2, <1>3
  DEF OtherStep, ImportInv, ImportTypeOK, SessionInv, InTable, Catalogue, NothingImported
<1>5. QED
  BY <1>2, <1>3, <1>4 DEF ImportInv

LEMMA ImportStep == ImportInv /\ [ImportNext]_importVars => ImportInv'
<1> SUFFICES ASSUME ImportInv, [ImportNext]_importVars PROVE ImportInv'
  OBVIOUS
<1>1. CASE UNCHANGED importVars
  <2>1. SessionInv'
    BY <1>1, SessionStep DEF ImportInv, importVars
  <2>2. QED
    BY <1>1, <2>1 DEF ImportInv, importVars, sessionVars, memory, queue, ImportTypeOK, SessionInv,
                      InTable, Catalogue, LibraryCoversDocument
<1>2. CASE OtherStep
  BY <1>2, OtherPreserves
<1>3. CASE \E f \in Files : ImportNew(f) \/ ImportKnown(f)
  BY <1>3, ImportNewPreserves, ImportKnownPreserves
<1>4. QED
  BY <1>1, <1>2, <1>3 DEF ImportNext

-----------------------------------------------------------------------------------
(* However files are imported and projects created, saved, opened and lost: the     *)
(* library lists a file once, and has every asset of the document.                 *)
THEOREM ImportsSound == ImportSpec => []LibrarySound
<1>1. ImportInv => LibrarySound
  BY DEF ImportInv, LibrarySound, InTable, Catalogue, OneAssetPerFile
<1>2. QED
  BY <1>1, ImportStarts, ImportStep, PTL DEF ImportSpec

(* Imports do not disturb what a session promises of its saves: a project that is  *)
(* not modified is the one its file holds.                                         *)
THEOREM ImportsKeepSaved == ImportSpec => []CleanMeansSaved
<1>1. ImportInv => CleanMeansSaved
  BY DEF ImportInv, SessionInv
<1>2. QED
  BY <1>1, ImportStarts, ImportStep, PTL DEF ImportSpec

-----------------------------------------------------------------------------------
(* The document. *)

(* Values no reader leaves in a project and no edit puts there.                    *)
Refused == {Null, Illegible, "unsorted", "wide", "invalid"}

Shapes == {{}, {"track"}, {"track", "clip"}}

(* A project as the program holds it: what the reader would make of anything in it *)
(* is what it is.                                                                   *)
Canonical(p) ==
  /\ p = [version |-> p.version, has |-> p.has, fields |-> p.fields]
  /\ p.version \in 0..Current /\ p.has \in Shapes
  /\ p.fields = [k \in Fields(p.has) |-> p.fields[k]]
  /\ \A k \in Fields(p.has) : p.fields[k] \notin Refused
  /\ Catalogued(p)

DocumentInv ==
  /\ Canonical(project)
  /\ changes \in 0..MaxDocumentEdits
  /\ \/ file = <<>> /\ saved = <<>>
     \/ \E p : /\ Canonical(p) /\ saved = <<p>> /\ file = <<SerializeProject(p)>>

-----------------------------------------------------------------------------------
LEMMA AssetsAreKept == \A has : "assets" \in Fields(has)
BY DEF Fields, HeadFields

(* Of the fields a writer leaves out or writes as null, a reader knows the default. *)
LEMMA OmittedReads ==
  /\ Optional("resourcePath")
  /\ \A k \in Nullable : Optional(k) \/ k \in Nullable
<1>1. MinorOf["resourcePath"] = 5 /\ "resourcePath" \in DOMAIN MinorOf
  BY DEF MinorOf
<1>2. QED
  BY <1>1 DEF Optional, Since

(* ProjectStore: what was written reads back as what it was written from.          *)
LEMMA WrittenReadsBack ==
  ASSUME NEW p, Canonical(p), Finite(p)
  PROVE  DeserializeProject(SerializeProject(p)) = {p}
<1> DEFINE d == SerializeProject(p)
           body == [k \in Fields(p.has) \ Omitted(p) |-> WriteField(k, p.fields[k])]
<1>1. /\ d.magic = TRUE /\ d.label = p.version /\ d.wellFormed = Finite(p)
      /\ d.has = p.has /\ d.body = body
  BY DEF SerializeProject
<1> HIDE DEF d
<1>2. DOMAIN body = Fields(p.has) \ Omitted(p)
      /\ \A k \in DOMAIN body : body[k] = IF k \in Nullable /\ p.fields[k] = "plain" THEN Null ELSE p.fields[k]
  BY DEF WriteField
<1>3. Omitted(p) \subseteq {"resourcePath"}
      /\ ("resourcePath" \in Omitted(p) => p.fields["resourcePath"] = "plain")
  BY DEF Omitted
<1> HIDE DEF body
<1>4. ASSUME NEW k \in Fields(p.has) PROVE FieldReads(d, k) /\ ReadField(d, k) = p.fields[k]
  <2>1. p.fields[k] \notin Refused
    BY DEF Canonical
  <2>2. CASE k \notin DOMAIN body
    <3>1. k = "resourcePath" /\ p.fields[k] = "plain"
      BY <1>2, <1>3, <2>2
    <3>2. ~Present(d, k)
      BY <1>1, <2>2 DEF Present
    <3>3. QED
      BY <1>1, <2>2, <3>1, <3>2, OmittedReads DEF FieldReads, ReadField
  <2>3. CASE k \in DOMAIN body /\ body[k] = Null
    <3>1. k \in Nullable /\ p.fields[k] = "plain"
      BY <1>2, <2>1, <2>3 DEF Refused
    <3>2. ~Present(d, k)
      BY <1>1, <2>3 DEF Present
    <3>3. QED
      BY <1>1, <2>3, <3>1, <3>2 DEF FieldReads, ReadField
  <2>4. CASE k \in DOMAIN body /\ body[k] # Null
    <3>1. body[k] = p.fields[k]
      BY <1>2, <2>4
    <3>2. Present(d, k)
      BY <1>1, <2>4 DEF Present
    <3>3. QED
      BY <1>1, <2>1, <2>4, <3>1, <3>2 DEF FieldReads, ReadField, Decode, Refused
  <2>5. QED
    BY <2>2, <2>3, <2>4
<1>5. Parses(d) /\ d.magic /\ IsSupported(d.label)
  <2>1. p.version <= Current
    BY DEF Canonical, Current
  <2>2. QED
    BY <1>1, <2>1 DEF Parses, IsSupported
<1>6. [k \in Fields(d.has) |-> ReadField(d, k)] = p.fields
  <2>1. [k \in Fields(d.has) |-> ReadField(d, k)] = [k \in Fields(p.has) |-> p.fields[k]]
    BY <1>1, <1>4
  <2>2. QED
    BY <2>1 DEF Canonical
<1>7. [version |-> d.label, has |-> d.has, fields |-> [k \in Fields(d.has) |-> ReadField(d, k)]] = p
  BY <1>1, <1>6 DEF Canonical
<1>8. \A k \in Fields(d.has) : FieldReads(d, k)
  BY <1>1, <1>4
<1>9. QED
  BY <1>5, <1>7, <1>8 DEF DeserializeProject, d

(* Whatever document is opened: what openProject() accepts is canonical.           *)
LEMMA OpenedIsCanonical ==
  ASSUME NEW d, d.label \in Nat, d.has \in Shapes, NEW p \in Opened(d)
  PROVE  Canonical(p)
<1>1. p \in DeserializeProject(d) /\ ValidateProject(p) /\ Catalogued(p)
  BY DEF Opened
<1>2. /\ p = [version |-> d.label, has |-> d.has, fields |-> [k \in Fields(d.has) |-> ReadField(d, k)]]
      /\ IsSupported(d.label) /\ \A k \in Fields(d.has) : FieldReads(d, k)
  BY <1>1 DEF DeserializeProject
<1>3. /\ p.version = d.label /\ p.has = d.has
      /\ p.fields = [k \in Fields(d.has) |-> ReadField(d, k)]
  BY <1>2
<1>4. ASSUME NEW k \in Fields(d.has) PROVE p.fields[k] \notin Refused
  <2>1. FieldReads(d, k) /\ p.fields[k] = ReadField(d, k)
    BY <1>2, <1>3
  <2>2. p.fields[k] # "invalid"
    BY <1>1, <1>3 DEF ValidateProject, ValidateClip
  <2>3. CASE Present(d, k)
    BY <2>1, <2>2, <2>3 DEF FieldReads, Present, ReadField, Decode, Refused, Null, Illegible
  <2>4. CASE ~Present(d, k)
    BY <2>1, <2>4 DEF ReadField, Refused, Null, Illegible
  <2>5. QED
    BY <2>3, <2>4
<1>5. p.version \in 0..Current
  BY <1>2, <1>3 DEF IsSupported, Current
<1>6. p = [version |-> p.version, has |-> p.has, fields |-> p.fields]
  BY <1>2, <1>3
<1>7. QED
  BY <1>1, <1>3, <1>4, <1>5, <1>6 DEF Canonical

(* Documents from elsewhere have a version and one of the shapes.                  *)
LEMMA ForeignShapes == \A d \in Foreign : d.label \in Nat /\ d.has \in Shapes
<1>1. ASSUME NEW d \in Older
      PROVE  /\ d.label \in Nat /\ d.has \in Shapes
             /\ d = [magic |-> d.magic, label |-> d.label, wellFormed |-> d.wellFormed,
                     has |-> d.has, body |-> d.body]
  <2>1. PICK m \in 0..Newer, kind \in Kinds, has \in Shapes : d = WrittenBy(m, kind, has)
    BY DEF Older, Shapes
  <2> DEFINE body == [k \in {k \in Fields(has) : Since(k) <= m} |-> Chosen(k, kind)]
  <2>2. d = [magic |-> TRUE, label |-> m, wellFormed |-> TRUE, has |-> has, body |-> body]
    BY <2>1 DEF WrittenBy
  <2> HIDE DEF body
  <2>3. QED
    BY <2>2 DEF Newer
<1>2. \A d \in Honest : d.label \in Nat /\ d.has \in Shapes
  BY <1>1 DEF Honest
<1>3. ASSUME NEW d \in Honest, NEW e \in Tampered(d) PROVE e.label = d.label /\ e.has = d.has
  <2>1. d = [magic |-> d.magic, label |-> d.label, wellFormed |-> d.wellFormed, has |-> d.has, body |-> d.body]
    BY <1>1 DEF Honest
  <2>2. \/ \E k \in DOMAIN d.body : e = Without(d, k)
        \/ \E k \in DOMAIN d.body, v \in {Null, Illegible} : e = [d EXCEPT !.body[k] = v]
        \/ \E k \in DOMAIN d.body : \E v \in Unusual(k) : e = [d EXCEPT !.body[k] = v]
        \/ e = [d EXCEPT !.magic = FALSE] \/ e = [d EXCEPT !.wellFormed = FALSE]
    <3> DEFINE Missing == {Without(d, k) : k \in DOMAIN d.body}
               Spoilt  == {[d EXCEPT !.body[k] = v] : k \in DOMAIN d.body, v \in {Null, Illegible}}
               Odd(k)  == {[d EXCEPT !.body[k] = v] : v \in Unusual(k)}
               Broken  == {[d EXCEPT !.magic = FALSE], [d EXCEPT !.wellFormed = FALSE]}
    <3>1. e \in Missing \cup Spoilt \cup (UNION {Odd(k) : k \in DOMAIN d.body}) \cup Broken
      BY DEF Tampered
    <3>2. e \in Missing \/ e \in Spoilt \/ (\E k \in DOMAIN d.body : e \in Odd(k)) \/ e \in Broken
      <4> HIDE DEF Missing, Spoilt, Odd, Broken
      <4>1. QED
        BY <3>1
    <3>3. QED
      BY <3>2
  <2>3. \A k, v : [d EXCEPT !.body[k] = v].label = d.label /\ [d EXCEPT !.body[k] = v].has = d.has
    BY <2>1
  <2>4. \A k : Without(d, k).label = d.label /\ Without(d, k).has = d.has
    BY <2>1 DEF Without
  <2>5. /\ [d EXCEPT !.magic = FALSE].label = d.label /\ [d EXCEPT !.magic = FALSE].has = d.has
        /\ [d EXCEPT !.wellFormed = FALSE].label = d.label /\ [d EXCEPT !.wellFormed = FALSE].has = d.has
    BY <2>1
  <2>6. CASE \E k \in DOMAIN d.body : e = Without(d, k)
    BY <2>6, <2>4
  <2>7. CASE \E k, v : e = [d EXCEPT !.body[k] = v]
    BY <2>7, <2>3
  <2>8. CASE e = [d EXCEPT !.magic = FALSE] \/ e = [d EXCEPT !.wellFormed = FALSE]
    BY <2>8, <2>5
  <2>9. QED
    BY Zenon, <2>2, <2>6, <2>7, <2>8
<1>4. QED
  BY <1>2, <1>3 DEF Foreign

-----------------------------------------------------------------------------------
LEMMA DocumentStarts == DocumentInit => DocumentInv
<1> SUFFICES ASSUME DocumentInit PROVE DocumentInv
  OBVIOUS
<1>1. Fields({}) = HeadFields /\ {} \in Shapes
  BY DEF Fields, Shapes
<1>2. /\ project.version = Current /\ project.has = {}
      /\ project.fields = [k \in HeadFields |-> IF k = "settings" THEN "set" ELSE "plain"]
      /\ project = [version |-> project.version, has |-> project.has, fields |-> project.fields]
  BY DEF DocumentInit, BlankProject
<1>3. Canonical(project)
  BY <1>1, <1>2, AssetsAreKept DEF Canonical, Current, Refused, Null, Illegible, Catalogued
<1>4. QED
  BY <1>3, DocumentAssumption DEF DocumentInit, DocumentInv

LEMMA OpenKeeps ==
  ASSUME DocumentInv, NEW d, d.label \in Nat, d.has \in Shapes, OpenDocument(d)
  PROVE  DocumentInv'
<1>1. Canonical(project)'
  <2>1. CASE Opens(d)
    <3>1. project' \in Opened(d)
      BY <2>1 DEF OpenDocument
    <3>2. Canonical(project')
      BY <3>1, OpenedIsCanonical
    <3>3. QED
      BY <3>2 DEF Canonical, Catalogued
  <2>2. CASE ~Opens(d)
    BY <2>2 DEF OpenDocument, DocumentInv, Canonical, Catalogued
  <2>3. QED
    BY <2>1, <2>2
<1>2. QED
  BY <1>1, DocumentAssumption DEF OpenDocument, DocumentInv

(* An edit that leaves a canonical project with its fields.                        *)
LEMMA EditKeeps ==
  ASSUME DocumentInv, NEW has \in Shapes, NEW fields,
         Edited([project EXCEPT !.has = has, !.fields = fields]),
         fields = [k \in Fields(has) |-> fields[k]],
         \A k \in Fields(has) : fields[k] \notin Refused \ {"invalid"},
         fields["assets"] \notin {"twice", "nil"}
  PROVE  DocumentInv'
<1> DEFINE p == [project EXCEPT !.has = has, !.fields = fields]
<1>1. /\ project = [version |-> project.version, has |-> project.has, fields |-> project.fields]
      /\ project.version \in 0..Current
  BY DEF DocumentInv, Canonical
<1>2. p = [version |-> project.version, has |-> has, fields |-> fields]
  <2>1. p = [[project EXCEPT !.has = has] EXCEPT !.fields = fields]
    OBVIOUS
  <2>2. [project EXCEPT !.has = has] = [version |-> project.version, has |-> has, fields |-> project.fields]
    BY <1>1
  <2>3. \A a, b, c, f : [[version |-> a, has |-> b, fields |-> c] EXCEPT !.fields = f]
                           = [version |-> a, has |-> b, fields |-> f]
    OBVIOUS
  <2>4. [[version |-> project.version, has |-> has, fields |-> project.fields] EXCEPT !.fields = fields]
          = [version |-> project.version, has |-> has, fields |-> fields]
    BY <2>3
  <2> HIDE DEF p
  <2>5. QED
    BY <2>1, <2>2, <2>4
<1>3. p.version = project.version /\ p.has = has /\ p.fields = fields
  BY <1>2
<1>4. ValidateClip(p) /\ project' = p /\ changes' = changes + 1 /\ changes < MaxDocumentEdits
      /\ UNCHANGED <<file, saved>>
  BY DEF Edited
<1> HIDE DEF p
<1>5. \A k \in Fields(has) : fields[k] \notin Refused
  <2>1. \A k \in Fields(has) : k \in DOMAIN fields
    OBVIOUS
  <2>2. \A k \in Fields(has) : fields[k] # "invalid"
    BY <2>1, <1>3, <1>4 DEF ValidateClip
  <2>3. QED
    BY <2>2
<1>6. Canonical(p)
  BY <1>1, <1>2, <1>3, <1>5 DEF Canonical, Catalogued
<1>7. Canonical(project)'
  BY <1>4, <1>6 DEF Canonical, Catalogued
<1>8. changes' \in 0..MaxDocumentEdits
  BY <1>4, DocumentAssumption DEF DocumentInv
<1>9. QED
  BY <1>4, <1>7, <1>8 DEF DocumentInv

LEMMA AddDocumentTrackKeeps ==
  ASSUME DocumentInv, NEW kind \in Kinds, AddDocumentTrack(kind) PROVE DocumentInv'
<1> DEFINE has == project.has \cup {"track"}
           fields == [k \in Fields({"track"}) |->
                        IF k = "kind" THEN kind
                        ELSE IF k = "trackName" THEN "plain" ELSE project.fields[k]]
<1>1. project.has = {} /\ has = {"track"} /\ has \in Shapes
  BY DEF DocumentInv, Canonical, Shapes, AddDocumentTrack
<1>2. Fields({"track"}) = HeadFields \cup TrackFields /\ Fields({}) = HeadFields
  BY DEF Fields
<1>3. \A k \in HeadFields : project.fields[k] \notin Refused
  BY <1>1, <1>2 DEF DocumentInv, Canonical
<1>4. \A k \in Fields({"track"}) : fields[k] \notin Refused
  BY <1>2, <1>3 DEF TrackFields, Kinds, Refused, Null, Illegible
<1>5. fields["assets"] \notin {"twice", "nil"}
  <2>1. "assets" \in Fields({"track"}) /\ project.fields["assets"] \notin {"twice", "nil"}
    BY AssetsAreKept DEF DocumentInv, Canonical, Catalogued
  <2>2. QED
    BY <2>1
<1>6. Edited([project EXCEPT !.has = has, !.fields = fields])
  BY DEF AddDocumentTrack
<1>7. fields = [k \in Fields(has) |-> fields[k]]
  BY <1>1
<1> HIDE DEF has, fields
<1>8. QED
  BY <1>1, <1>4, <1>5, <1>6, <1>7, EditKeeps

LEMMA AddDocumentClipKeeps ==
  ASSUME DocumentInv, NEW content \in Kinds, NEW asset \in {Media, Nil}, AddDocumentClip(content, asset)
  PROVE  DocumentInv'
<1> DEFINE has == project.has \cup {"clip"}
           fields == [k \in Fields({"track", "clip"}) |->
                        IF k \in ClipFields THEN PlacedClip(content, asset)[k]
                        ELSE IF k = "assets" THEN AssetsWith(asset) ELSE project.fields[k]]
<1>1. project.has = {"track"} /\ has = {"track", "clip"} /\ has \in Shapes
  BY DEF DocumentInv, Canonical, Shapes, AddDocumentClip
<1>2. /\ Fields({"track", "clip"}) = HeadFields \cup TrackFields \cup ClipFields
      /\ Fields({"track"}) = HeadFields \cup TrackFields
  BY DEF Fields
<1>3. \A k \in HeadFields \cup TrackFields : project.fields[k] \notin Refused
  BY <1>1, <1>2 DEF DocumentInv, Canonical
<1>4. project.fields["assets"] \notin {"twice", "nil"}
  BY DEF DocumentInv, Canonical, Catalogued
<1>5. AssetsWith(asset) \notin {"twice", "nil"} /\ AssetsWith(asset) \notin Refused
  <2>1. project.fields["assets"] \notin Refused
    BY <1>3 DEF HeadFields
  <2>2. QED
    BY <1>4, <2>1 DEF AssetsWith, Media, Refused, Null, Illegible
<1>6. \A k \in ClipFields : PlacedClip(content, asset)[k] \in {asset, "set", "plain"}
  BY DEF PlacedClip
<1>7. \A k \in ClipFields : PlacedClip(content, asset)[k] \notin Refused
  BY <1>6 DEF Media, Nil, Refused, Null, Illegible
<1>8. \A k \in Fields({"track", "clip"}) : fields[k] \notin Refused
  BY <1>2, <1>3, <1>5, <1>7
<1>9. fields["assets"] \notin {"twice", "nil"}
  BY <1>5, AssetsAreKept DEF ClipFields
<1>10. Edited([project EXCEPT !.has = has, !.fields = fields])
  BY DEF AddDocumentClip
<1>11. fields = [k \in Fields(has) |-> fields[k]]
  BY <1>1
<1> HIDE DEF has, fields
<1>12. QED
  BY <1>1, <1>8, <1>9, <1>10, <1>11, EditKeeps

LEMMA SetFieldKeeps ==
  ASSUME DocumentInv, NEW k \in DOMAIN project.fields, NEW v \in Settable(k), SetField(k, v)
  PROVE  DocumentInv'
<1> DEFINE fields == [project.fields EXCEPT ![k] = v]
<1>1. /\ project = [version |-> project.version, has |-> project.has, fields |-> project.fields]
      /\ project.has \in Shapes /\ project.fields = [x \in Fields(project.has) |-> project.fields[x]]
      /\ \A x \in Fields(project.has) : project.fields[x] \notin Refused
      /\ project.fields["assets"] \notin {"twice", "nil"}
  BY DEF DocumentInv, Canonical, Catalogued
<1>2. DOMAIN project.fields = Fields(project.has)
  BY <1>1
<1>3. v \in {"set", "plain", "infinite", "invalid"} /\ k # "assets"
  BY DEF Settable, Fixed
<1>4. fields = [x \in Fields(project.has) |-> fields[x]]
  BY <1>1, <1>2
<1>5. \A x \in Fields(project.has) : fields[x] \notin Refused \ {"invalid"}
  BY <1>1, <1>2, <1>3 DEF Refused, Null, Illegible
<1>6. fields["assets"] \notin {"twice", "nil"}
  BY <1>1, <1>2, <1>3
<1>7. Edited([project EXCEPT !.has = project.has, !.fields = fields])
  <2>1. [project EXCEPT !.has = project.has, !.fields = fields] = [project EXCEPT !.fields = fields]
    BY <1>1
  <2>2. [project EXCEPT !.fields[k] = v] = [project EXCEPT !.fields = fields]
    BY <1>1
  <2>3. QED
    BY <2>1, <2>2 DEF SetField
<1> HIDE DEF fields
<1>8. QED
  BY <1>1, <1>4, <1>5, <1>6, <1>7, EditKeeps

LEMMA DocumentStep == DocumentInv /\ [DocumentNext]_documentVars => DocumentInv'
<1> SUFFICES ASSUME DocumentInv, [DocumentNext]_documentVars PROVE DocumentInv'
  OBVIOUS
<1>1. CASE UNCHANGED documentVars
  BY <1>1 DEF documentVars, DocumentInv, Canonical, Catalogued
<1>2. CASE \E d \in Foreign : OpenDocument(d)
  BY <1>2, ForeignShapes, OpenKeeps
<1>3. CASE file # <<>> /\ OpenDocument(file[1])
  <2>1. PICK p : Canonical(p) /\ file = <<SerializeProject(p)>>
    BY <1>3 DEF DocumentInv
  <2>2. file[1].label = p.version /\ file[1].has = p.has
    BY <2>1 DEF SerializeProject
  <2>3. file[1].label \in Nat /\ file[1].has \in Shapes
    BY <2>1, <2>2 DEF Canonical, Current
  <2>4. QED
    BY <1>3, <2>3, OpenKeeps
<1>4. CASE SaveDocument
  BY <1>4 DEF SaveDocument, DocumentInv, Canonical, Catalogued
<1>5. QED
  BY <1>1, <1>2, <1>3, <1>4, AddDocumentTrackKeeps, AddDocumentClipKeeps, SetFieldKeeps
  DEF DocumentNext

LEMMA DocumentInvSound == DocumentInv => DocumentsSound
<1> SUFFICES ASSUME DocumentInv PROVE DocumentsSound
  OBVIOUS
<1>1. DocumentTypeOK
  <2>1. /\ project.version \in 0..Current /\ project.has \in Shapes
        /\ DOMAIN project.fields = Fields(project.has) /\ changes \in 0..MaxDocumentEdits
    BY DEF DocumentInv, Canonical
  <2>2. Len(file) <= 1 /\ Len(saved) = Len(file)
    <3>1. CASE file = <<>> /\ saved = <<>>
      BY <3>1
    <3>2. CASE \E p : saved = <<p>> /\ file = <<SerializeProject(p)>>
      BY <3>2
    <3>3. QED
      BY <3>1, <3>2 DEF DocumentInv
  <2>3. QED
    BY <2>1, <2>2 DEF Shapes, DocumentTypeOK
<1>2. ASSUME saved # <<>>, Finite(saved[1])
      PROVE  Canonical(saved[1]) /\ file = <<SerializeProject(saved[1])>>
             /\ DeserializeProject(file[1]) = {saved[1]}
  BY <1>2, WrittenReadsBack DEF DocumentInv
<1>3. ASSUME saved # <<>>, Finite(saved[1]), KindsAgree(saved[1]), Resolves(saved[1])
      PROVE  Opened(file[1]) = {saved[1]}
  <2>1. DeserializeProject(file[1]) = {saved[1]} /\ Canonical(saved[1])
    BY <1>2, <1>3
  <2>2. ValidateProject(saved[1]) /\ Catalogued(saved[1])
    <3>1. IsSupported(saved[1].version)
      BY <2>1 DEF Canonical, IsSupported, Current
    <3>2. DOMAIN saved[1].fields = Fields(saved[1].has)
      BY <2>1 DEF Canonical
    <3>3. ValidateClip(saved[1])
      BY <2>1, <3>2 DEF Canonical, ValidateClip, Refused
    <3>4. QED
      BY <2>1, <3>1, <3>3, <1>3 DEF Canonical, ValidateProject
  <2>3. QED
    BY <2>1, <2>2 DEF Opened
<1>4. QED
  BY <1>1, <1>2, <1>3 DEF DocumentsSound, ReadsBack, SoundProjectsReopen

(* However a project came about: what is written reads back as what was saved, and  *)
(* is refused only for the reasons named.                                           *)
THEOREM DocumentsAreSound == DocumentSpec => []DocumentsSound
<1>1. QED
  BY DocumentStarts, DocumentStep, DocumentInvSound, PTL DEF DocumentSpec
==================================================================================
