------------------------------- MODULE ProjectSession ------------------------------
(***********************************************************************************)
(* services/ProjectSession and services/ProjectSaveService: which project is      *)
(* open, where it lives on disk and whether it has unsaved changes, with saves    *)
(* that run on worker threads and report back through a queue the owning thread   *)
(* drains.  The process may crash at any step and be started again.               *)
(*                                                                                 *)
(* A document is a version (every edit makes a new one) and the media assets its  *)
(* asset table lists.  The engine's edits are abstracted to "a new version".      *)
(***********************************************************************************)
EXTENDS Integers, Sequences, FiniteSets

CONSTANTS
  Paths,        \* file names a project may be saved under
  Assets,       \* media assets
  NoPath,       \* documentPath_ without a value
  Absent,       \* contents of a path where no file exists
  Torn,         \* contents of a file that was only partly written
  MaxRevision,  \* bound: the revision counter in one run of the program
  MaxVersions,  \* bound: document versions made in one behaviour
  MaxSaves,     \* bound: saves requested in one run of the program
  MaxLives      \* bound: times the program is started

VARIABLES
  doc,            \* engine_.snapshot()
  library,        \* mediaLibrary_: the assets it lists
  revision, savedRevision,
  documentPath,
  saves,          \* the save workers, in the order they were requested
  completions,    \* completions_: [save, succeeded], pushed by the workers
  inFlight,       \* inFlightSaves_
  disk,           \* what each path holds
  version,        \* newest document version made so far
  overlapped,     \* history variable: a save, create or open met a pending save
  up, lives       \* is the program running, and how often it was started

memory == <<doc, library, revision, savedRevision, documentPath>>
queue == <<completions, inFlight>>
sessionVars == <<memory, saves, queue, disk, version, overlapped, up, lives>>

Docs == [version : 0..MaxVersions, assets : SUBSET Assets]
Stages == {"writing", "written", "renamed", "failed", "reported", "delivered"}
Saves == [path : Paths, revision : Nat, doc : Docs, stage : Stages]
Reports == [save : 1..MaxSaves, succeeded : BOOLEAN]

ASSUME SessionAssumption ==
  /\ NoPath \notin Paths /\ Absent \notin Docs /\ Torn \notin Docs \cup {Absent}
  /\ MaxRevision \in Nat /\ MaxVersions \in Nat /\ MaxSaves \in Nat /\ MaxLives \in Nat \ {0}

Modified == revision # savedRevision

(* A save worker has not yet reported, or its report has not been delivered.       *)
Working(s) == s.stage \in {"writing", "written", "renamed", "failed"}
InProgress == {i \in 1..Len(saves) : Working(saves[i])}
Pending == \E i \in 1..Len(saves) : saves[i].stage # "delivered"

(* project.save waits for its completion (no composition installs the hook that    *)
(* would not), so on the owning thread nothing meets a pending save but edits; a   *)
(* second thread, or a caller of requestSave() that does not wait, may start       *)
(* another save or replace the project.                                            *)
NoteOverlap == overlapped' = (overlapped \/ Pending)

Blank == [version |-> 0, assets |-> {}]

Init ==
  /\ doc = Blank /\ library = {}
  /\ revision = 0 /\ savedRevision = 0
  /\ documentPath = NoPath
  /\ saves = <<>> /\ completions = <<>> /\ inFlight = 0
  /\ disk = [p \in Paths |-> Absent]
  /\ version = 0 /\ overlapped = FALSE
  /\ up = TRUE /\ lives = 1

-----------------------------------------------------------------------------------
(* Plausible mistakes in the operations below; each one is caught by a run.        *)

(* A completion that clears the modified flag whatever was edited meanwhile.       *)
DeliverUnguarded ==
  /\ up /\ completions # <<>>
  /\ LET done == Head(completions) IN
     /\ saves' = [saves EXCEPT ![done.save].stage = "delivered"]
     /\ IF done.succeeded
        THEN documentPath' = saves[done.save].path /\ savedRevision' = revision
        ELSE UNCHANGED <<documentPath, savedRevision>>
  /\ completions' = Tail(completions)
  /\ UNCHANGED <<doc, library, revision, inFlight, disk, version, overlapped, up, lives>>

(* Writing over the destination instead of a sibling file.                         *)
WriteInPlace(i) ==
  /\ saves[i].stage = "writing"
  /\ saves' = [saves EXCEPT ![i].stage = "written"]
  /\ disk' = [disk EXCEPT ![saves[i].path] = Torn]
  /\ UNCHANGED <<memory, queue, version, overlapped, up, lives>>

(* A worker whose completion is lost when the write failed.                        *)
ReportOnlySuccess(i) ==
  /\ saves[i].stage = "renamed"
  /\ completions' = Append(completions, [save |-> i, succeeded |-> TRUE])
  /\ inFlight' = inFlight - 1
  /\ saves' = [saves EXCEPT ![i].stage = "reported"]
  /\ UNCHANGED <<memory, disk, version, overlapped, up, lives>>

(* openProject() that leaves the previous project's media library in place.        *)
OpenKeepsLibrary(p) ==
  /\ up /\ NoteOverlap
  /\ disk[p] \in Docs /\ revision < MaxRevision
  /\ doc' = disk[p] /\ documentPath' = p
  /\ revision' = revision + 1 /\ savedRevision' = revision + 1
  /\ UNCHANGED <<library, saves, queue, disk, version, up, lives>>

-----------------------------------------------------------------------------------
(* An edit through the engine: its observer advances the revision.                 *)
EditTo(assets) ==
  /\ up
  /\ version < MaxVersions /\ revision < MaxRevision
  /\ version' = version + 1
  /\ doc' = [version |-> version + 1, assets |-> assets]
  /\ revision' = revision + 1
  /\ UNCHANGED <<library, savedRevision, documentPath, saves, queue, disk, overlapped, up,
                 lives>>

Edit == EditTo(doc.assets)

(* Placing a clip registers its asset in the document (AddClipCommand).            *)
PlaceClip(a) == a \in library /\ EditTo(doc.assets \cup {a})

(* An asset enters the media library outside the engine, followed by              *)
(* markModified(): an operation of the session that MediaImport performs.          *)
ImportAsset(a) ==
  /\ up /\ a \notin library /\ revision < MaxRevision
  /\ library' = library \cup {a}
  /\ revision' = revision + 1
  /\ UNCHANGED <<doc, savedRevision, documentPath, saves, queue, disk, version,
                 overlapped, up, lives>>

CreateProject ==
  /\ up /\ NoteOverlap
  /\ version < MaxVersions /\ revision < MaxRevision
  /\ version' = version + 1
  /\ doc' = [version |-> version + 1, assets |-> {}]
  /\ library' = {}
  /\ documentPath' = NoPath
  /\ revision' = revision + 1 /\ savedRevision' = revision + 1
  /\ UNCHANGED <<saves, queue, disk, up, lives>>

(* openProject(): every failure, a missing or damaged file included, comes before  *)
(* the first assignment.  Success replaces the document, the library and the path. *)
OpenProject(p) ==
  /\ up /\ NoteOverlap
  /\ disk[p] \in Docs /\ revision < MaxRevision
  /\ doc' = disk[p]
  /\ library' = disk[p].assets
  /\ documentPath' = p
  /\ revision' = revision + 1 /\ savedRevision' = revision + 1
  /\ UNCHANGED <<saves, queue, disk, version, up, lives>>

(* requestSave(): the document and the revision are captured, a worker starts, and *)
(* the call returns.                                                               *)
RequestSave(p) ==
  /\ up /\ NoteOverlap
  /\ Len(saves) < MaxSaves
  /\ saves' = Append(saves, [path |-> p, revision |-> revision, doc |-> doc,
                             stage |-> "writing"])
  /\ inFlight' = inFlight + 1
  /\ UNCHANGED <<memory, completions, disk, version, up, lives>>

(* The worker writes a sibling temporary file.  A missing directory or a failed    *)
(* write removes it again.                                                         *)
WriteTemporary(i) ==
  /\ saves[i].stage = "writing"
  /\ saves' = [saves EXCEPT ![i].stage = "written"]
  /\ UNCHANGED <<memory, queue, disk, version, overlapped, up, lives>>

SaveFails(i) ==
  /\ saves[i].stage \in {"writing", "written"}
  /\ saves' = [saves EXCEPT ![i].stage = "failed"]
  /\ UNCHANGED <<memory, queue, disk, version, overlapped, up, lives>>

(* The rename replaces the destination in one step.                                *)
Rename(i) ==
  /\ saves[i].stage = "written"
  /\ saves' = [saves EXCEPT ![i].stage = "renamed"]
  /\ disk' = [disk EXCEPT ![saves[i].path] = saves[i].doc]
  /\ UNCHANGED <<memory, queue, version, overlapped, up, lives>>

(* Under completionMutex_ the worker queues its completion and gives up its place. *)
Report(i) ==
  /\ saves[i].stage \in {"renamed", "failed"}
  /\ completions' = Append(completions,
                           [save |-> i, succeeded |-> saves[i].stage = "renamed"])
  /\ inFlight' = inFlight - 1
  /\ saves' = [saves EXCEPT ![i].stage = "reported"]
  /\ UNCHANGED <<memory, disk, version, overlapped, up, lives>>

(* pumpSaveCompletions(), for one completion: the calls deliver a queue in order,  *)
(* and delivering two completions in one call or in two successive calls is the    *)
(* same.  Success always records the path, and clears the modified flag only when  *)
(* nothing changed since the request.                                              *)
Deliver ==
  /\ up /\ completions # <<>>
  /\ LET done == Head(completions)
         s    == saves[done.save] IN
     /\ saves' = [saves EXCEPT ![done.save].stage = "delivered"]
     /\ IF done.succeeded
        THEN /\ documentPath' = s.path
             /\ savedRevision' = IF revision = s.revision THEN s.revision ELSE savedRevision
        ELSE UNCHANGED <<documentPath, savedRevision>>
  /\ completions' = Tail(completions)
  /\ UNCHANGED <<doc, library, revision, inFlight, disk, version, overlapped, up, lives>>

(* ~ProjectSession(): waits until no save is in flight, joins the workers, and     *)
(* drops whatever completions are still queued.                                    *)
Close ==
  /\ up /\ inFlight = 0
  /\ up' = FALSE
  /\ UNCHANGED <<memory, saves, queue, disk, version, overlapped, lives>>

(* The process dies: its threads and its memory are gone, the disk stays.          *)
Crash ==
  /\ up /\ up' = FALSE
  /\ saves' = <<>> /\ completions' = <<>> /\ inFlight' = 0
  /\ UNCHANGED <<memory, disk, version, overlapped, lives>>

Start ==
  /\ ~up /\ lives < MaxLives
  /\ doc' = Blank /\ library' = {}
  /\ revision' = 0 /\ savedRevision' = 0 /\ documentPath' = NoPath
  /\ saves' = <<>> /\ completions' = <<>> /\ inFlight' = 0
  /\ up' = TRUE /\ lives' = lives + 1
  /\ overlapped' = FALSE
  /\ UNCHANGED <<disk, version>>

Work(i) == WriteTemporary(i) \/ SaveFails(i) \/ Rename(i) \/ Report(i)

Next ==
  \/ Edit
  \/ \E a \in Assets : PlaceClip(a)
  \/ CreateProject
  \/ \E p \in Paths : OpenProject(p) \/ RequestSave(p)
  \/ \E i \in 1..Len(saves) : Work(i)
  \/ Deliver
  \/ Close
  \/ Crash
  \/ Start

(* Worker threads run; the owner keeps pumping, as awaitSaveCompletions() does.    *)
Fairness ==
  /\ \A i \in 1..MaxSaves : WF_sessionVars(i <= Len(saves) /\ Work(i))
  /\ WF_sessionVars(Deliver)

Spec == Init /\ [][Next]_sessionVars /\ Fairness

-----------------------------------------------------------------------------------
(* Types, and the count waitForPendingSaves() waits on is the number of workers    *)
(* that have not reported.                                                         *)
SessionTypeOK ==
  /\ doc \in Docs /\ library \subseteq Assets
  /\ revision \in Nat /\ savedRevision \in Nat
  /\ documentPath \in Paths \cup {NoPath}
  /\ saves \in Seq(Saves)
  /\ completions \in Seq(Reports)
  /\ \A k \in 1..Len(completions) : completions[k].save \in 1..Len(saves)
  /\ disk \in [Paths -> Docs \cup {Absent, Torn}]
  /\ version \in 0..MaxVersions /\ overlapped \in BOOLEAN /\ up \in BOOLEAN /\ lives \in 1..MaxLives
  /\ inFlight = Cardinality(InProgress)

(* A project that is not modified and has a path is the one that path holds        *)
(* (ProjectSession.hpp:22-30): with edits during the write, failed writes, crashes *)
(* and any mix of saving, opening and creating, as long as no save or project load *)
(* meets a save that is still pending.                                             *)
CleanMeansSaved ==
  up /\ ~overlapped /\ ~Modified /\ documentPath # NoPath => disk[documentPath] = doc

(* No crash, failure or overlap of saves ever leaves a partly written document     *)
(* where a project was or will be (ProjectSaveService.hpp:19-27).                  *)
DocumentsWhole == \A p \in Paths : disk[p] # Torn

(* Once the destructor has returned no worker thread is left running.              *)
CloseJoinsWorkers == ~up => \A i \in 1..Len(saves) : ~Working(saves[i])

(* Every requested save is answered, unless the program ends first.                *)
SavesAnswered ==
  \A i \in 1..MaxSaves :
    (i <= Len(saves)) ~> (~up \/ (i <= Len(saves) /\ saves[i].stage = "delivered"))
====================================================================================
