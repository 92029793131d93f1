------------------------------- MODULE FileActions -------------------------------
(***********************************************************************************)
(* ui/ProjectFileActions with the prompts of the main window, and project.save as *)
(* a tool call of two surfaces.                                                    *)
(*                                                                                 *)
(* A prompt is modal: the handler that shows it stays on the main thread's stack   *)
(* until it is answered, while the endpoint's thread edits, creates, opens and     *)
(* saves on the same session.  A save call asks for a worker, waits until NO save  *)
(* is in flight, and delivers whatever completions are queued, its own and those   *)
(* of the other surface.  What a worker does to the file is one step here;         *)
(* ProjectSession has it in full.  Versions stand for documents.                   *)
(***********************************************************************************)
EXTENDS Integers, Sequences, SequencesExt, FiniteSets

CONSTANTS
  Files,         \* paths the pickers offer
  NoFile,        \* documentPath_ without a value
  MaxChanges,    \* bound: edits, new projects and projects opened
  MaxFileSaves,  \* bound: saves requested
  MaxGestures    \* bound: file actions the user begins

ASSUME FileAssumption ==
  /\ NoFile \notin Files
  /\ MaxChanges \in Nat \ {0} /\ MaxFileSaves \in Nat /\ MaxGestures \in Nat

VARIABLES
  session,      \* ProjectSession: [doc, revision, saved, path]
  stored,       \* what each file holds, 0 for no document
  jobs,         \* save workers: [file, doc, revision, stage]
  reports,      \* completions_: the jobs that ended, in order
  captured,     \* the jobs whose completion was delivered to the call
  call,         \* per surface: [at, job, batch, count], the call of project.save
  answer,       \* per surface: how its last call of project.save ended
  window,       \* [at, action]: which prompt is open, and for which menu action
  edited,       \* history variable: versions made by edits
  excused,      \* history variable: versions discarded by the user, or made by the
                \* endpoint while a file action was under way
  made, gestures  \* bound the changes and the file actions

fileVars == <<session, stored, jobs, reports, captured, call, answer, window, edited, excused,
              made, gestures>>

Surfaces == {"gui", "mcp"}
Versions == 1..MaxChanges
Resting == [at |-> "none", job |-> 0, batch |-> <<>>, count |-> 0]
Idle == [at |-> "idle", action |-> "none"]

FilesInit ==
  /\ session = [doc |-> 1, revision |-> 0, saved |-> 0, path |-> NoFile]
  /\ stored = [f \in Files |-> 0]
  /\ jobs = <<>> /\ reports = <<>> /\ captured = {}
  /\ call = [s \in Surfaces |-> Resting] /\ answer = [s \in Surfaces |-> "none"]
  /\ window = Idle
  /\ edited = {} /\ excused = {} /\ made = 1 /\ gestures = 0

Changed == session.revision # session.saved
Busy == window # Idle

-----------------------------------------------------------------------------------
(* The session's own calls, whoever makes them.                                    *)
NewVersion(doc) ==
  /\ made < MaxChanges /\ made' = made + 1 /\ doc = made + 1

EditTo(doc) ==
  /\ NewVersion(doc)
  /\ session' = [session EXCEPT !.doc = doc, !.revision = @ + 1]
  /\ edited' = edited \cup {doc}

Create(doc) ==
  /\ NewVersion(doc)
  /\ session' = [doc |-> doc, revision |-> session.revision + 1,
                 saved |-> session.revision + 1, path |-> NoFile]
  /\ UNCHANGED edited

(* A file that is missing or unreadable leaves the session as it is.               *)
Load(f) ==
  /\ IF stored[f] = 0
     THEN UNCHANGED <<session, made>>
     ELSE /\ made < MaxChanges /\ made' = made + 1
          /\ session' = [doc |-> stored[f], revision |-> session.revision + 1,
                         saved |-> session.revision + 1, path |-> f]
  /\ UNCHANGED edited

Ask(surface, file) ==
  /\ Len(jobs) < MaxFileSaves
  /\ jobs' = Append(jobs, [file |-> file, doc |-> session.doc, revision |-> session.revision,
                           stage |-> "writing"])
  /\ call' = [call EXCEPT ![surface] = [Resting EXCEPT !.at = "waiting", !.job = Len(jobs) + 1]]
  /\ answer' = [answer EXCEPT ![surface] = "none"]

(* A worker: writes, renames and queues its completion, or fails and queues that.  *)
WorkerEnds(i, stage) ==
  /\ jobs[i].stage = "writing"
  /\ jobs' = [jobs EXCEPT ![i].stage = stage]
  /\ stored' = IF stage = "written" THEN [stored EXCEPT ![jobs[i].file] = jobs[i].doc] ELSE stored
  /\ reports' = Append(reports, i)
  /\ UNCHANGED <<session, captured, call, answer, window, edited, excused, made, gestures>>

InFlight == {i \in DOMAIN jobs : jobs[i].stage = "writing"}

(* Mistake: the batch is copied out of the queue instead of swapped with it.       *)
TakeCopying(s) ==
  /\ call[s].at = "waiting" /\ call[s].job \notin captured
  /\ InFlight = {}
  /\ call' = [call EXCEPT ![s].at = "delivering", ![s].batch = reports, ![s].count = Len(reports)]
  /\ UNCHANGED reports

(* awaitSaveCompletions(): waitForPendingSaves(), then the queue is swapped out.   *)
TakeReports(s) ==
  /\ call[s].at = "waiting" /\ call[s].job \notin captured
  /\ InFlight = {}
  /\ call' = [call EXCEPT ![s].at = "delivering", ![s].batch = reports, ![s].count = Len(reports)]
  /\ reports' = <<>>

Take(s) ==
  /\ TakeReports(s)
  /\ UNCHANGED <<session, stored, jobs, captured, answer, window, edited, excused, made, gestures>>

(* pumpSaveCompletions(), one completion: it may be the other surface's.           *)
Settled(job) ==
  IF job.stage # "written" THEN session
  ELSE [session EXCEPT !.path = job.file,
                       !.saved = IF session.revision = job.revision THEN job.revision ELSE @]

DeliverReport(s) ==
  /\ call[s].at = "delivering" /\ call[s].batch # <<>>
  /\ session' = Settled(jobs[Head(call[s].batch)])
  /\ captured' = captured \cup {Head(call[s].batch)}
  /\ call' = [call EXCEPT ![s].batch = Tail(@)]
  /\ UNCHANGED <<stored, jobs, reports, answer, window, edited, excused, made, gestures>>

(* The loop of the tool ends when its own completion came, or when a delivery of   *)
(* nothing did not bring it; a call that took longer than the executor's budget is *)
(* answered as failed although the file is written.                                *)
Ended(s) ==
  \/ call[s].at = "waiting" /\ call[s].job \in captured
  \/ call[s].at = "delivering" /\ call[s].batch = <<>> /\ call[s].job \in captured

AnswerSave(s) ==
  /\ Ended(s)
  /\ \E a \in IF jobs[call[s].job].stage = "written" THEN {"ok", "late"} ELSE {"failed"} :
       answer' = [answer EXCEPT ![s] = a]
  /\ call' = [call EXCEPT ![s] = Resting]
  /\ UNCHANGED <<session, stored, jobs, reports, captured, window, edited, excused, made, gestures>>

(* project.save "awaits exactly its own completion" (ProjectTools.cpp), yet the     *)
(* other surface's call may hold it: the call that finds nothing gives up.         *)
NotDelivered(s) ==
  /\ call[s].at = "delivering" /\ call[s].batch = <<>> /\ call[s].job \notin captured
  /\ IF call[s].count = 0
     THEN call' = [call EXCEPT ![s] = Resting] /\ answer' = [answer EXCEPT ![s] = "lost"]
     ELSE call' = [call EXCEPT ![s].at = "waiting"] /\ UNCHANGED answer
  /\ UNCHANGED <<session, stored, jobs, reports, captured, window, edited, excused, made, gestures>>

-----------------------------------------------------------------------------------
(* The endpoint: one call after the other, whatever the window shows.              *)
Excuse == excused' = IF Busy /\ session' # session THEN excused \cup {session'.doc} ELSE excused

Endpoint ==
  /\ call["mcp"] = Resting
  /\ \/ /\ (\E doc \in Versions : EditTo(doc) \/ Create(doc)) \/ \E f \in Files : Load(f)
        /\ Excuse
        /\ UNCHANGED <<stored, jobs, reports, captured, call, answer, window, gestures>>
     \/ /\ \E f \in IF session.path = NoFile THEN Files ELSE {session.path} : Ask("mcp", f)
        /\ UNCHANGED <<session, stored, reports, captured, window, edited, excused, made, gestures>>

-----------------------------------------------------------------------------------
(* The user, while no prompt and no call is open.                                  *)
GuiEdits ==
  /\ ~Busy
  /\ \E doc \in Versions : EditTo(doc)
  /\ UNCHANGED <<stored, jobs, reports, captured, call, answer, window, excused, gestures>>

(* save(): with a path the tool is called, else the destination is asked for.      *)
SaveOrAsk(action) ==
  IF session.path = NoFile
  THEN /\ window' = [at |-> "destination", action |-> action]
       /\ UNCHANGED <<jobs, call, answer>>
  ELSE /\ window' = [at |-> "saving", action |-> action]
       /\ Ask("gui", session.path)

MenuSave ==
  /\ ~Busy /\ gestures < MaxGestures /\ gestures' = gestures + 1
  /\ \/ SaveOrAsk("save")
     \/ window' = [at |-> "destination", action |-> "save"] /\ UNCHANGED <<jobs, call, answer>>
  /\ UNCHANGED <<session, stored, reports, captured, edited, excused, made>>

(* resolvePendingIfModified().                                                     *)
Menu(action) ==
  /\ ~Busy /\ gestures < MaxGestures /\ gestures' = gestures + 1
  /\ window' = [at |-> IF Changed THEN "question" ELSE "replacing", action |-> action]
  /\ UNCHANGED <<session, stored, jobs, reports, captured, call, answer, edited, excused, made>>

Discard ==
  /\ window.at = "question"
  /\ window' = [window EXCEPT !.at = "replacing"]
  /\ excused' = excused \cup {session.doc}
  /\ UNCHANGED <<session, stored, jobs, reports, captured, call, answer, edited, made, gestures>>

SaveFirst ==
  /\ window.at = "question"
  /\ SaveOrAsk(window.action)
  /\ UNCHANGED <<session, stored, reports, captured, edited, excused, made, gestures>>

(* Cancel, or any picker closed without a choice.                                  *)
Dismiss ==
  /\ window.at \in {"question", "destination", "replacing"}
  /\ window.at = "replacing" => window.action = "open"
  /\ window' = Idle /\ excused' = {}
  /\ UNCHANGED <<session, stored, jobs, reports, captured, call, answer, edited, made, gestures>>

Destination(f) ==
  /\ window.at = "destination"
  /\ window' = [window EXCEPT !.at = "saving"]
  /\ Ask("gui", f)
  /\ UNCHANGED <<session, stored, reports, captured, edited, excused, made, gestures>>

(* Mistake: the pending action goes on whatever the save answered.                 *)
GoesOnRegardless == window.action # "save"

(* The pending action goes on only over a save that was answered with success.     *)
GoesOn == answer["gui"] = "ok" /\ window.action # "save"

Saved ==
  /\ window.at = "saving" /\ call["gui"] = Resting
  /\ IF GoesOn
     THEN window' = [window EXCEPT !.at = "replacing"] /\ UNCHANGED excused
     ELSE window' = Idle /\ excused' = {}
  /\ UNCHANGED <<session, stored, jobs, reports, captured, call, answer, edited, made, gestures>>

(* loadFromPath() with the file that was picked, or createProject().               *)
Replace ==
  /\ window.at = "replacing"
  /\ IF window.action = "open" THEN \E f \in Files : Load(f) ELSE \E doc \in Versions : Create(doc)
  /\ window' = Idle /\ excused' = {}
  /\ UNCHANGED <<stored, jobs, reports, captured, call, answer, gestures>>

Window ==
  \/ GuiEdits \/ MenuSave \/ Menu("open") \/ Menu("new")
  \/ Discard \/ SaveFirst \/ Dismiss \/ (\E f \in Files : Destination(f)) \/ Saved \/ Replace

FilesNext ==
  \/ Window \/ Endpoint
  \/ \E i \in DOMAIN jobs, stage \in {"written", "failed"} : WorkerEnds(i, stage)
  \/ \E s \in Surfaces : Take(s) \/ DeliverReport(s) \/ AnswerSave(s) \/ NotDelivered(s)

FilesSpec == FilesInit /\ [][FilesNext]_fileVars

-----------------------------------------------------------------------------------
FilesTypeOK ==
  /\ session \in [doc : Versions, revision : Nat, saved : Nat, path : Files \cup {NoFile}]
  /\ stored \in [Files -> Versions \cup {0}]
  /\ jobs \in Seq([file : Files, doc : Versions, revision : Nat,
                   stage : {"writing", "written", "failed"}])
  /\ reports \in Seq(DOMAIN jobs) /\ captured \subseteq DOMAIN jobs
  /\ call \in [Surfaces -> [at : {"none", "waiting", "delivering"}, job : 0..Len(jobs),
                            batch : Seq(DOMAIN jobs), count : Nat]]
  /\ answer \in [Surfaces -> {"none", "ok", "late", "failed", "lost"}]
  /\ window \in [at : {"idle", "question", "destination", "saving", "replacing"},
                 action : {"none", "save", "open", "new"}]
  /\ edited \subseteq Versions /\ excused \subseteq Versions
  /\ made \in Versions /\ gestures \in 0..MaxGestures

(* When the window comes to replace the project (ProjectFileActions.hpp:14-20),    *)
(* what it replaces was written by a save, was never edited, was given up by the   *)
(* user at the question, or was made by the endpoint after the user began: with    *)
(* saves of both surfaces under way, failing, late and delivered by one another.   *)
Landed == {jobs[i].doc : i \in {i \in DOMAIN jobs : jobs[i].stage = "written"}}
ReplacesNothingUnasked ==
  window.at = "replacing" => session.doc \in Landed \cup (Versions \ edited) \cup excused

(* A completion is in the queue, in the hands of one call or delivered, and once:  *)
(* two threads that await at the same time neither lose nor repeat one.            *)
Underway == reports \o call["gui"].batch \o call["mcp"].batch
EveryReportOnce ==
  /\ IsInjective(Underway)
  /\ ToSet(Underway) = {i \in DOMAIN jobs : jobs[i].stage # "writing"} \ captured

FileActionsSound == ReplacesNothingUnasked /\ EveryReportOnce
===================================================================================
