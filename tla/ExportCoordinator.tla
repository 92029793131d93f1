----------------------------- MODULE ExportCoordinator ----------------------------
(***********************************************************************************)
(* services/ExportCoordinator: one export at a time, rendered by a worker thread  *)
(* from a snapshot of the project, reporting through queues that a caller drains  *)
(* with pump().  Two callers share it: the export dialog, which pumps from a      *)
(* timer, and the timeline.export tool, which runs on the MCP accept thread and   *)
(* waits under a budget.  Both export to the same path, the case in which they    *)
(* can disturb each other.                                                         *)
(***********************************************************************************)
EXTENDS Integers, Sequences, SequencesExt

CONSTANTS
  Callers,      \* which of "dialog" and "tool" are used
  TotalFrames,  \* frames of the timeline at the requested frame rate
  MaxExports,   \* bound: exports begun
  MaxEdits,     \* bound: edits of the project
  Absent        \* no file at the output path, or no queued outcome

ASSUME ExportAssumption ==
  /\ Callers \subseteq {"dialog", "tool"}
  /\ TotalFrames \in Nat \ {0} /\ MaxExports \in Nat /\ MaxEdits \in Nat
  /\ Absent \notin [export : 1..MaxExports, result : {"ok", "failed", "cancelled"}]

VARIABLES
  project,          \* version of the live project
  file,             \* the output path: Absent or [export, version, whole]
  running, cancelRequested,
  current,          \* the export that was started last; 0 before the first
  snapshots,        \* version each export was given
  worker,           \* worker thread: [stage, rendered, result, committed]
  lastPercent,      \* lastPercent_, as a number of frames; -1 before the first report
  progressQueue,    \* reports queued: [export, frames]
  outcomeQueue,     \* Absent or the queued outcome: [export, result]
  completionSink,   \* who gets the outcome when it is pumped
  delivered,        \* results that pump() delivered, by export
  shown,            \* the report delivered last
  dialog,           \* form state, timer, and whether onPump() is between pump and test
  tool              \* stage of the tool call, the export it began, its last answer

exportVars == <<project, file, running, cancelRequested, current, snapshots, worker, lastPercent,
                progressQueue, outcomeQueue, completionSink, delivered, shown, dialog, tool>>
callers == <<dialog, tool>>
queues == <<progressQueue, outcomeQueue, completionSink, delivered, shown>>
flags == <<running, cancelRequested>>

Exports == 1..MaxExports
Results == {"ok", "failed", "cancelled"}
Idle == [stage |-> "none", rendered |-> 0, result |-> "failed", committed |-> FALSE]

Init ==
  /\ project = 0 /\ file = Absent
  /\ running = FALSE /\ cancelRequested = FALSE
  /\ current = 0 /\ snapshots = [e \in Exports |-> 0]
  /\ worker = Idle /\ lastPercent = -1
  /\ progressQueue = <<>> /\ outcomeQueue = Absent /\ completionSink = "none"
  /\ delivered = [e \in Exports |-> "none"]
  /\ shown = [export |-> 0, frames |-> 0]
  /\ dialog = [form |-> "ready", snapshot |-> 0, timer |-> FALSE, testing |-> FALSE]
  /\ tool = [stage |-> "idle", snapshot |-> 0, export |-> 0, answer |-> "none"]

(* offerProgress(): never below an earlier report.                                 *)
Report(frames) ==
  LET clamped == IF frames < lastPercent THEN lastPercent ELSE frames IN
  /\ lastPercent' = clamped
  /\ progressQueue' = Append(progressQueue, [export |-> current, frames |-> clamped])

-----------------------------------------------------------------------------------
(* Plausible mistakes in the operations below; each one is caught by a run.        *)

(* A begin() that leaves the previous export's reports in the queue.               *)
StartKeepingReports(sink, snapshot) ==
  /\ worker.stage = "none" /\ current < MaxExports
  /\ current' = current + 1
  /\ snapshots' = [snapshots EXCEPT ![current + 1] = snapshot]
  /\ outcomeQueue' = Absent /\ completionSink' = sink
  /\ lastPercent' = -1
  /\ cancelRequested' = FALSE /\ running' = TRUE
  /\ worker' = [Idle EXCEPT !.stage = "selecting"]
  /\ UNCHANGED <<project, file, progressQueue, delivered, shown>>

(* A finishExport() that forgets the flag when the export did not succeed.         *)
StopWhenSuccessful ==
  /\ worker.stage = "queued"
  /\ worker' = [worker EXCEPT !.stage = "returning"]
  /\ running' = (worker.result # "ok")
  /\ UNCHANGED <<project, file, cancelRequested, current, snapshots, lastPercent, queues, callers>>

(* An export without the guard.                                                    *)
ReturnUnguarded ==
  /\ worker.stage = "returning"
  /\ worker' = Idle
  /\ UNCHANGED <<project, file, flags, current, snapshots, lastPercent, queues, callers>>

-----------------------------------------------------------------------------------
(* The live project is edited while exports run.                                   *)
Edit ==
  /\ project < MaxEdits /\ project' = project + 1
  /\ UNCHANGED <<file, flags, current, snapshots, worker, lastPercent, queues, callers>>

(* begin(), first part: refused while an export is running or when the destination *)
(* exists and the request does not acknowledge it; otherwise the project is copied.*)
(* A refusal changes nothing and is not a step.                                    *)
Admitted(overwrite) ==
  /\ ~running /\ current < MaxExports
  /\ file = Absent \/ overwrite

(* begin(), second part: the previous worker is joined, everything it left is      *)
(* dropped, and the new worker starts.  No lock is held over it in the code: two   *)
(* callers past the test of the flag may be in it at once, and what they then do   *)
(* to the thread object has no defined outcome.  Here the second one waits for the *)
(* first worker to be joined, so the two are one after the other.                  *)
StartExport(sink, snapshot) ==
  /\ worker.stage = "none" /\ current < MaxExports
  /\ current' = current + 1
  /\ snapshots' = [snapshots EXCEPT ![current + 1] = snapshot]
  /\ progressQueue' = <<>> /\ outcomeQueue' = Absent /\ completionSink' = sink
  /\ lastPercent' = -1
  /\ cancelRequested' = FALSE /\ running' = TRUE
  /\ worker' = [Idle EXCEPT !.stage = "selecting"]
  /\ UNCHANGED <<project, file, delivered, shown>>

-----------------------------------------------------------------------------------
(* The worker.                                                                     *)

(* Ends with this result; only a finished file is committed.                       *)
Ending(result) == worker' = [worker EXCEPT !.stage = "ending", !.result = result]

(* No encoder, no GPU context, or the engine rejects the request: the output path  *)
(* has not been touched.                                                           *)
SetUpFails ==
  /\ worker.stage = "selecting" /\ Ending("failed")
  /\ UNCHANGED <<project, file, flags, current, snapshots, lastPercent, queues, callers>>

(* The encoder opens the output file, truncating what was there; 0% is reported.   *)
OpenOutput ==
  /\ worker.stage = "selecting"
  /\ worker' = [worker EXCEPT !.stage = "rendering"]
  /\ file' = [export |-> current, version |-> snapshots[current], whole |-> FALSE]
  /\ Report(0)
  /\ UNCHANGED <<project, flags, current, snapshots, outcomeQueue, completionSink, delivered,
                 shown, callers>>

(* One frame: the cancel flag is looked at first.  Whether a report is due is the  *)
(* clock's business.                                                               *)
RenderFrame ==
  /\ worker.stage = "rendering" /\ worker.rendered < TotalFrames /\ ~cancelRequested
  /\ worker' = [worker EXCEPT !.rendered = @ + 1]
  /\ \/ Report(worker.rendered + 1)
     \/ UNCHANGED <<lastPercent, progressQueue>>
  /\ UNCHANGED <<project, file, flags, current, snapshots, outcomeQueue, completionSink, delivered,
                 shown, callers>>

(* Cancellation, seen at the top of a frame, or a failure to open, render, encode  *)
(* or finish: the engine removes the output.                                       *)
RenderStops ==
  /\ \/ /\ worker.stage = "rendering" /\ worker.rendered < TotalFrames /\ cancelRequested
        /\ Ending("cancelled")
     \/ /\ \/ worker.stage = "selecting"
           \/ worker.stage = "rendering" /\ (~cancelRequested \/ worker.rendered = TotalFrames)
        /\ Ending("failed")
  /\ file' = Absent
  /\ UNCHANGED <<project, flags, current, snapshots, lastPercent, queues, callers>>

(* The trailer is written, 100% is reported whatever the clock says, and the guard *)
(* commits.                                                                        *)
FinishOutput ==
  /\ worker.stage = "rendering" /\ worker.rendered = TotalFrames
  /\ file' = [export |-> current, version |-> snapshots[current], whole |-> TRUE]
  /\ Report(TotalFrames)
  /\ worker' = [worker EXCEPT !.stage = "ending", !.result = "ok", !.committed = TRUE]
  /\ UNCHANGED <<project, flags, current, snapshots, outcomeQueue, completionSink, delivered,
                 shown, callers>>

(* finishExport(): the outcome is queued under the mutex, then the running flag is *)
(* cleared.                                                                        *)
QueueOutcome ==
  /\ worker.stage = "ending"
  /\ worker' = [worker EXCEPT !.stage = "queued"]
  /\ outcomeQueue' = [export |-> current, result |-> worker.result]
  /\ UNCHANGED <<project, file, flags, current, snapshots, lastPercent, progressQueue,
                 completionSink, delivered, shown, callers>>

StopRunning ==
  /\ worker.stage = "queued"
  /\ worker' = [worker EXCEPT !.stage = "returning"]
  /\ running' = FALSE
  /\ UNCHANGED <<project, file, cancelRequested, current, snapshots, lastPercent, queues, callers>>

(* runExport() returns: the output guard removes whatever is at the path unless it *)
(* was committed.                                                                  *)
Return ==
  /\ worker.stage = "returning"
  /\ worker' = Idle
  /\ file' = IF worker.committed THEN file ELSE Absent
  /\ UNCHANGED <<project, flags, current, snapshots, lastPercent, queues, callers>>

Work == \/ SetUpFails \/ OpenOutput \/ RenderFrame \/ RenderStops \/ FinishOutput
        \/ QueueOutcome \/ StopRunning \/ Return

-----------------------------------------------------------------------------------
(* pump(): empties both queues and delivers what was in them.                      *)
Pump ==
  /\ progressQueue' = <<>> /\ outcomeQueue' = Absent
  /\ shown' = IF progressQueue = <<>> THEN shown ELSE Last(progressQueue)
  /\ delivered' = IF outcomeQueue = Absent THEN delivered
                  ELSE [delivered EXCEPT ![outcomeQueue.export] = outcomeQueue.result]
  /\ UNCHANGED completionSink

Pumped == progressQueue # <<>> \/ outcomeQueue # Absent

(* ExportDialog: start, cancel, and the timer's onPump().  A delivered completion  *)
(* stops the timer and enables the form again (reportCompletion).                  *)
ForDialog == outcomeQueue # Absent /\ completionSink = "dialog"
Completed(d) == [d EXCEPT !.form = IF ForDialog THEN "ready" ELSE @,
                          !.timer = @ /\ ~ForDialog]

DialogAdmit ==
  /\ "dialog" \in Callers /\ dialog.form = "ready" /\ ~dialog.testing
  /\ \E overwrite \in BOOLEAN : Admitted(overwrite)
  /\ dialog' = [dialog EXCEPT !.form = "starting", !.snapshot = project]
  /\ UNCHANGED <<project, file, flags, current, snapshots, worker, lastPercent, queues, tool>>

DialogStart ==
  /\ dialog.form = "starting"
  /\ StartExport("dialog", dialog.snapshot)
  /\ dialog' = [dialog EXCEPT !.form = "exporting", !.timer = TRUE, !.snapshot = 0]
  /\ UNCHANGED tool

DialogCancel ==
  /\ dialog.form = "exporting" /\ cancelRequested' = TRUE
  /\ UNCHANGED <<project, file, running, current, snapshots, worker, lastPercent, queues, callers>>

DialogPump ==
  /\ dialog.timer /\ ~dialog.testing
  /\ Pump
  /\ dialog' = [Completed(dialog) EXCEPT !.testing = TRUE]
  /\ UNCHANGED <<project, file, flags, current, snapshots, worker, lastPercent, tool>>

DialogTest ==
  /\ dialog.testing
  /\ dialog' = [dialog EXCEPT !.testing = FALSE, !.timer = @ /\ running]
  /\ UNCHANGED <<project, file, flags, current, snapshots, worker, lastPercent, queues, tool>>

(* timeline.export: begin, a bounded wait, and on a timeout a cancellation and a   *)
(* second bounded wait whose result is ignored.                                    *)
ToolAdmit ==
  /\ "tool" \in Callers /\ tool.stage = "idle"
  /\ \E overwrite \in BOOLEAN : Admitted(overwrite)
  /\ tool' = [tool EXCEPT !.stage = "starting", !.snapshot = project]
  /\ UNCHANGED <<project, file, flags, current, snapshots, worker, lastPercent, queues, dialog>>

ToolStart ==
  /\ tool.stage = "starting"
  /\ StartExport("tool", tool.snapshot)
  /\ tool' = [tool EXCEPT !.stage = "waiting", !.snapshot = 0, !.export = current + 1]
  /\ UNCHANGED dialog

(* awaitCompletion(): the condition of waitForCompletion(), then the join.         *)
Awaited == (outcomeQueue # Absent \/ ~running) /\ worker.stage = "none"

ToolAnswers(answer) == tool' = [tool EXCEPT !.stage = "idle", !.answer = answer]

(* Something was delivered: the answer is the last outcome delivered for the       *)
(* current export, or an internal error when there is none.                        *)
ToolReceives ==
  /\ tool.stage = "waiting" /\ Awaited /\ Pumped
  /\ Pump
  /\ ToolAnswers(IF delivered'[current] = "none" THEN "internal" ELSE delivered'[current])
  /\ dialog' = Completed(dialog)
  /\ UNCHANGED <<project, file, flags, current, snapshots, worker, lastPercent>>

(* Nothing was delivered, or the budget ran out while the export is running.       *)
ToolCancels ==
  /\ tool.stage = "waiting"
  /\ \/ Awaited /\ ~Pumped
     \/ outcomeQueue = Absent /\ running
  /\ tool' = [tool EXCEPT !.stage = "cancelling"]
  /\ cancelRequested' = TRUE
  /\ UNCHANGED <<project, file, running, current, snapshots, worker, lastPercent, queues, dialog>>

ToolGivesUp ==
  /\ tool.stage = "cancelling"
  /\ \/ /\ Awaited /\ Pump
        /\ dialog' = Completed(dialog)
     \/ /\ outcomeQueue = Absent /\ running
        /\ UNCHANGED <<queues, dialog>>
  /\ ToolAnswers("timeout")
  /\ UNCHANGED <<project, file, flags, current, snapshots, worker, lastPercent>>

Next ==
  \/ Edit
  \/ Work
  \/ DialogAdmit \/ DialogStart \/ DialogCancel \/ DialogPump \/ DialogTest
  \/ ToolAdmit \/ ToolStart \/ ToolReceives \/ ToolCancels \/ ToolGivesUp

(* The worker runs, begin() goes on to start what it admitted, and the dialog's    *)
(* timer fires as long as it is armed.                                             *)
Fairness ==
  /\ WF_exportVars(Work)
  /\ WF_exportVars(DialogStart) /\ WF_exportVars(ToolStart)
  /\ WF_exportVars(DialogPump) /\ WF_exportVars(DialogTest)

Spec == Init /\ [][Next]_exportVars /\ Fairness

-----------------------------------------------------------------------------------
(* Types.                                                                          *)
ExportTypeOK ==
  /\ project \in 0..MaxEdits
  /\ file \in [export : Exports, version : 0..MaxEdits, whole : BOOLEAN] \cup {Absent}
  /\ running \in BOOLEAN /\ cancelRequested \in BOOLEAN
  /\ current \in 0..MaxExports /\ snapshots \in [Exports -> 0..MaxEdits]
  /\ worker \in [stage : {"none", "selecting", "rendering", "ending", "queued", "returning"},
                 rendered : 0..TotalFrames, result : Results, committed : BOOLEAN]
  /\ lastPercent \in -1..TotalFrames
  /\ progressQueue \in Seq([export : Exports, frames : 0..TotalFrames])
  /\ outcomeQueue \in [export : Exports, result : Results] \cup {Absent}
  /\ completionSink \in Callers \cup {"none"}
  /\ delivered \in [Exports -> Results \cup {"none"}]
  /\ shown \in [export : 0..MaxExports, frames : 0..TotalFrames]
  /\ dialog \in [form : {"ready", "starting", "exporting"}, snapshot : 0..MaxEdits,
                 timer : BOOLEAN, testing : BOOLEAN]
  /\ tool \in [stage : {"idle", "starting", "waiting", "cancelling"}, snapshot : 0..MaxEdits,
               export : 0..MaxExports,
               answer : Results \cup {"none", "internal", "timeout"}]

(* Once a worker has ended, the path holds a whole file or nothing, and nothing if *)
(* its export did not succeed (ExportCoordinator.hpp:41-46).                       *)
NothingButWholeFiles ==
  worker.stage = "none" /\ current # 0 =>
    \/ file = Absent
    \/ file.whole /\ file.export = current

(* Whoever sees running() == false finds the outcome, unless it has been delivered *)
(* already (ExportProgress.cpp:52-53).                                             *)
OutcomeBeforeIdle ==
  ~running /\ current # 0 => outcomeQueue # Absent \/ delivered[current] # "none"

(* A success is a file with all of the project as it was when begin() was called,  *)
(* whatever was edited since (Requirement 7.2), and it stays until the next export.*)
SuccessIsTheSnapshot ==
  \A e \in Exports :
    delivered[e] = "ok" /\ (e = current => worker.stage = "none") =>
      e < current \/ file = [export |-> e, version |-> snapshots[e], whole |-> TRUE]

(* What pump() delivers is in order: only reports of the export that was started   *)
(* last, never a lower figure than before, and 100% ahead of a success (7.3, 7.4). *)
ReportsInOrder ==
  LET reports == <<shown>> \o progressQueue
      last    == Last(reports) IN
  /\ \A i \in 2..Len(reports) :
       /\ reports[i].export = current
       /\ reports[i - 1].export = current => reports[i - 1].frames <= reports[i].frames
  /\ outcomeQueue # Absent /\ outcomeQueue.result = "ok" =>
       last = [export |-> current, frames |-> TotalFrames]

(* Every export ends, so that a further one can begin.                             *)
ExportsEnd == \A e \in Exports : (running /\ current = e) ~> ~(running /\ current = e)

(* What a caller may rely on once an export ended: nothing but whole files *)
(* of the document as it was, with the outcome there before the idle flag. *)
ExportsSound == NothingButWholeFiles /\ SuccessIsTheSnapshot /\ OutcomeBeforeIdle
====================================================================================
