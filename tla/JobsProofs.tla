-------------------------------- MODULE JobsProofs --------------------------------
(***********************************************************************************)
(* Theorems about the long-running jobs: exports, for any number of them, any      *)
(* length of the timeline, any number of edits and either caller; the generative   *)
(* backends' exchanges with a provider, for any timeouts and lengths of the        *)
(* answers; generated media and their placement, for any threads, media, budgets   *)
(* and any number of jobs and edits.                                               *)
(*                                                                                 *)
(* The export worker writes the file, the outcome and the flag one after the       *)
(* other, and a caller may look at them, drain the queues or begin again between   *)
(* any two of these steps. What each stage of the worker has already done is       *)
(* Phases and Written; what that leaves in the queues, or with whoever drained     *)
(* them, is Outcomes and Reported.                                                 *)
(*                                                                                 *)
(* An exchange is believed only as far as it came: the certificate was proved      *)
(* before anything was written (HostProved), and what the answer on its way says   *)
(* was so at the provider when it was written and remains so (AnswerIsTrue).       *)
(*                                                                                 *)
(* A clip finds its media after any undo and redo because both histories lead      *)
(* from document to document (Trail), the library covers every document that undo  *)
(* can bring back (Covers), and what a placement brought to the library is used    *)
(* by no document before it (Exclusive).                                           *)
(*                                                                                 *)
(* What a part of the process holds was declared before it, and what its           *)
(* constructor was given was made before it too, or DiesFirst names it (Orders);   *)
(* so the components in existence are always the first that were made, or all but  *)
(* the last that were declared. What a thread reaches is closed under what is      *)
(* held (Closed), and nothing of it was declared after the component that joins    *)
(* the thread.                                                                     *)
(***********************************************************************************)
EXTENDS ExportCoordinator, GenerativeHttp, Generation, AppLifecycle, SequenceLemmas

-----------------------------------------------------------------------------------
(* Exports. *)

Setting == {"selecting", "rendering"}
Closing == {"ending", "queued", "returning"}
Ended   == {"queued", "returning", "none"}

(* What is known from the stage of the worker, and from those of the callers.      *)
Phases ==
  /\ running <=> worker.stage \in {"selecting", "rendering", "ending", "queued"}
  /\ worker.stage # "none" => current # 0
  /\ worker.stage \in Setting => ~worker.committed
  /\ worker.stage \in Closing => (worker.committed <=> worker.result = "ok")
  /\ dialog.form = "starting" => "dialog" \in Callers
  /\ tool.stage = "starting" => "tool" \in Callers
  /\ tool.stage \in {"waiting", "cancelling"} => current # 0

TheSnapshot == [export |-> current, version |-> snapshots[current], whole |-> TRUE]

Written ==
  /\ worker.stage \in Closing /\ worker.committed => file = TheSnapshot /\ lastPercent = TotalFrames
  /\ worker.stage = "none" /\ current # 0 => file = Absent \/ file = TheSnapshot

(* The last export succeeded and nothing has touched its file.                     *)
Kept ==
  /\ worker.stage \in Ended /\ (worker.stage # "none" => worker.committed)
  /\ file = TheSnapshot /\ lastPercent = TotalFrames

Outcomes ==
  /\ outcomeQueue # Absent =>
       /\ outcomeQueue.export = current /\ current # 0 /\ worker.stage \in Ended
       /\ outcomeQueue.result = "ok" => Kept
  /\ \A e \in Exports : delivered[e] # "none" => e <= current
  /\ current # 0 /\ delivered[current] = "ok" => Kept
  /\ worker.stage \in Ended /\ current # 0 => outcomeQueue # Absent \/ delivered[current] # "none"

Latest == IF progressQueue = <<>> THEN shown ELSE progressQueue[Len(progressQueue)]

(* The queue rises to the last report, above what was shown.                       *)
Reported ==
  /\ \A i \in 1..Len(progressQueue) : progressQueue[i].export = current
                                      /\ progressQueue[i].frames <= lastPercent
  /\ \A i, j \in 1..Len(progressQueue) : i <= j => progressQueue[i].frames <= progressQueue[j].frames
  /\ shown.export <= current
  /\ current # 0 /\ shown.export = current =>
       /\ shown.frames <= lastPercent
       /\ \A i \in 1..Len(progressQueue) : shown.frames <= progressQueue[i].frames
  /\ lastPercent # -1 => Latest = [export |-> current, frames |-> lastPercent]
  /\ lastPercent = -1 => progressQueue = <<>>

ExportInv == ExportTypeOK /\ Phases /\ Written /\ Outcomes /\ Reported

-----------------------------------------------------------------------------------
(* The records of the state, by name.                                              *)
Outputs  == [export : Exports, version : 0..MaxEdits, whole : BOOLEAN]
Ends     == [export : Exports, result : Results]
Told     == [export : Exports, frames : 0..TotalFrames]
Dialogs  == [form : {"ready", "starting", "exporting"}, snapshot : 0..MaxEdits,
             timer : BOOLEAN, testing : BOOLEAN]
ToolRuns == [stage : {"idle", "starting", "waiting", "cancelling"}, snapshot : 0..MaxEdits,
             export : 0..MaxExports, answer : Results \cup {"none", "internal", "timeout"}]
Workers ==
  [stage : {"none", "selecting", "rendering", "ending", "queued", "returning"},
   rendered : 0..TotalFrames, result : Results, committed : BOOLEAN]

TypedParts ==
    /\ project \in 0..MaxEdits /\ file \in Outputs \cup {Absent}
    /\ running \in BOOLEAN /\ cancelRequested \in BOOLEAN
    /\ current \in 0..MaxExports /\ snapshots \in [Exports -> 0..MaxEdits]
    /\ worker \in Workers /\ lastPercent \in -1..TotalFrames
    /\ progressQueue \in Seq(Told) /\ outcomeQueue \in Ends \cup {Absent}
    /\ completionSink \in Callers \cup {"none"}
    /\ delivered \in [Exports -> Results \cup {"none"}]
    /\ shown \in [export : 0..MaxExports, frames : 0..TotalFrames]
    /\ dialog \in Dialogs /\ tool \in ToolRuns

LEMMA TypeByParts == ExportTypeOK <=> TypedParts
BY DEF TypedParts, ExportTypeOK, Outputs, Ends, Told, Dialogs, ToolRuns, Workers

LEMMA ExportInvInit == Init => ExportInv
<1> SUFFICES ASSUME Init PROVE ExportInv
  OBVIOUS
<1> USE ExportAssumption DEF Init
<1>1. <<>> \in Seq(Told) /\ Len(<<>>) = 0
  BY EmptySeq
<1>2. ExportTypeOK
  <2>1. worker \in Workers
    BY DEF Workers, Idle, Results
  <2>2. dialog \in Dialogs
    BY DEF Dialogs
  <2>3. tool \in ToolRuns
    BY DEF ToolRuns
  <2>4. shown \in [export : 0..MaxExports, frames : 0..TotalFrames]
    OBVIOUS
  <2>5. /\ snapshots \in [Exports -> 0..MaxEdits]
        /\ delivered \in [Exports -> Results \cup {"none"}]
    OBVIOUS
  <2>6. lastPercent \in -1..TotalFrames /\ project \in 0..MaxEdits /\ current \in 0..MaxExports
    OBVIOUS
  <2> QED
    BY <1>1, <2>1, <2>2, <2>3, <2>4, <2>5, <2>6, TypeByParts DEF TypedParts
<1>3. Phases /\ Written /\ Outcomes /\ Reported
  BY <1>1 DEF Phases, Written, Outcomes, Reported, Idle, Setting, Closing, Ended, Exports
<1> QED
  BY <1>2, <1>3 DEF ExportInv

-----------------------------------------------------------------------------------
(* Types, step by step.                                                            *)
LEMMA ReportType ==
  ASSUME ExportTypeOK, current # 0, NEW frames \in 0..TotalFrames, Report(frames)
  PROVE  /\ lastPercent' \in 0..TotalFrames
         /\ progressQueue' \in Seq([export : Exports, frames : 0..TotalFrames])
         /\ progressQueue' = Append(progressQueue, [export |-> current, frames |-> lastPercent'])
         /\ lastPercent' >= lastPercent /\ lastPercent' >= frames
         /\ frames >= lastPercent => lastPercent' = frames
<1> USE ExportAssumption DEF ExportTypeOK
<1>1. lastPercent' \in 0..TotalFrames /\ lastPercent' >= lastPercent /\ lastPercent' >= frames
      /\ (frames >= lastPercent => lastPercent' = frames)
  BY SMTT(30) DEF Report
<1>2. [export |-> current, frames |-> lastPercent'] \in [export : Exports, frames : 0..TotalFrames]
  BY <1>1 DEF Exports
<1> QED
  BY <1>1, <1>2, AppendProperties DEF Report

LEMMA WorkerType == ExportTypeOK /\ Work => worker' \in Workers
<1> SUFFICES ASSUME worker \in Workers, Work PROVE worker' \in Workers
  BY TypeByParts DEF TypedParts
<1> USE ExportAssumption DEF Workers, Results, Ending
<1>1. CASE SetUpFails \/ RenderStops
  BY <1>1 DEF SetUpFails, RenderStops
<1>2. CASE OpenOutput \/ FinishOutput
  BY <1>2 DEF OpenOutput, FinishOutput
<1>3. CASE RenderFrame
  BY <1>3 DEF RenderFrame
<1>4. CASE QueueOutcome
  BY <1>4 DEF QueueOutcome
<1>5. CASE StopRunning
  BY <1>5 DEF StopRunning
<1>6. CASE Return
  BY <1>6 DEF Return, Idle
<1> QED
  BY <1>1, <1>2, <1>3, <1>4, <1>5, <1>6 DEF Work

LEMMA WorkType == ExportTypeOK /\ Phases /\ Work => ExportTypeOK'
<1> SUFFICES ASSUME ExportTypeOK, Phases, Work PROVE ExportTypeOK'
  OBVIOUS
<1>1. worker' \in Workers /\ worker \in Workers
  BY WorkerType, TypeByParts DEF TypedParts
<1>2. UNCHANGED <<project, cancelRequested, current, snapshots, completionSink, delivered, shown,
                  dialog, tool>>
  BY DEF Work, SetUpFails, OpenOutput, RenderFrame, RenderStops, FinishOutput, QueueOutcome,
         StopRunning, Return, flags, queues, callers
<1>3. running' \in BOOLEAN
  BY TypeByParts DEF TypedParts, Work, SetUpFails, OpenOutput, RenderFrame, RenderStops, FinishOutput,
         QueueOutcome, StopRunning, Return, flags
<1>4. worker.stage # "none" => current \in Exports
  BY ExportAssumption, TypeByParts DEF TypedParts, Exports, Phases
<1>5. file' \in Outputs \cup {Absent}
  <2>1. worker.stage # "none" =>
          /\ [export |-> current, version |-> snapshots[current], whole |-> FALSE] \in Outputs
          /\ [export |-> current, version |-> snapshots[current], whole |-> TRUE] \in Outputs
    BY <1>4, TypeByParts DEF TypedParts, Outputs
  <2> QED
    BY <2>1, TypeByParts DEF TypedParts, Work, SetUpFails, OpenOutput, RenderFrame, RenderStops, FinishOutput,
         QueueOutcome, StopRunning, Return
<1>6. outcomeQueue' \in Ends \cup {Absent}
  <2>1. worker.stage # "none" => [export |-> current, result |-> worker.result] \in Ends
    BY <1>1, <1>4 DEF Ends, Workers
  <2> QED
    BY <2>1, TypeByParts DEF TypedParts, Work, SetUpFails, OpenOutput, RenderFrame, RenderStops, FinishOutput,
         QueueOutcome, StopRunning, Return, queues
<1>7. lastPercent' \in -1..TotalFrames /\ progressQueue' \in Seq(Told)
  <2> DEFINE Goal == lastPercent' \in -1..TotalFrames /\ progressQueue' \in Seq(Told)
  <2>1. ASSUME NEW frames \in 0..TotalFrames, worker.stage # "none", Report(frames)
        PROVE  Goal
    <3>1. lastPercent' \in 0..TotalFrames /\ progressQueue' \in Seq(Told)
      BY <2>1, <1>4, ReportType DEF Phases, Told
    <3> QED
      BY <3>1, ExportAssumption
  <2>2. CASE UNCHANGED <<lastPercent, progressQueue>>
    BY <2>2, TypeByParts DEF TypedParts
  <2>3. OpenOutput => 0 \in 0..TotalFrames /\ worker.stage # "none" /\ Report(0)
    BY ExportAssumption DEF OpenOutput
  <2>4. FinishOutput => TotalFrames \in 0..TotalFrames /\ worker.stage # "none" /\ Report(TotalFrames)
    BY ExportAssumption DEF FinishOutput
  <2>5. RenderFrame => \/ /\ worker.rendered + 1 \in 0..TotalFrames /\ worker.stage # "none"
                         /\ Report(worker.rendered + 1)
                      \/ UNCHANGED <<lastPercent, progressQueue>>
    BY <1>1, ExportAssumption DEF RenderFrame, Workers
  <2>6. SetUpFails \/ RenderStops \/ QueueOutcome \/ StopRunning \/ Return =>
          UNCHANGED <<lastPercent, progressQueue>>
    BY DEF SetUpFails, RenderStops, QueueOutcome, StopRunning, Return, queues
  <2> QED
    BY <2>1, <2>2, <2>3, <2>4, <2>5, <2>6 DEF Work
<1>8. TypedParts'
  BY <1>1, <1>2, <1>3, <1>5, <1>6, <1>7, TypeByParts DEF TypedParts
<1> QED
  BY <1>8 DEF TypedParts, ExportTypeOK, Outputs, Ends, Told, Dialogs, ToolRuns, Workers

LEMMA StartType ==
  ASSUME ExportTypeOK, NEW sink \in Callers, NEW snapshot \in 0..MaxEdits,
         StartExport(sink, snapshot), dialog' \in Dialogs, tool' \in ToolRuns
  PROVE  ExportTypeOK'
<1>1. current' \in Exports /\ snapshots' \in [Exports -> 0..MaxEdits]
  BY ExportAssumption, TypeByParts DEF TypedParts, StartExport, Exports
<1>2. worker' \in Workers
  <2>1. worker' = [stage |-> "selecting", rendered |-> 0, result |-> "failed", committed |-> FALSE]
    BY DEF StartExport, Idle
  <2> QED
    BY <2>1, ExportAssumption DEF Workers, Results
<1>3. lastPercent' \in -1..TotalFrames /\ current' \in 0..MaxExports
  BY <1>1, ExportAssumption DEF StartExport, Exports
<1>4. <<>> \in Seq(Told)
  BY EmptySeq
<1>5. TypedParts'
  BY <1>1, <1>2, <1>3, <1>4, TypeByParts DEF TypedParts, StartExport
<1> QED
  BY <1>5 DEF TypedParts, ExportTypeOK, Outputs, Ends, Told, Dialogs, ToolRuns, Workers

LEMMA PumpType ==
  ASSUME ExportTypeOK, Outcomes, Pump
  PROVE  /\ progressQueue' \in Seq(Told) /\ outcomeQueue' \in Ends \cup {Absent}
         /\ delivered' \in [Exports -> Results \cup {"none"}]
         /\ shown' \in [export : 0..MaxExports, frames : 0..TotalFrames]
         /\ UNCHANGED completionSink
         /\ shown' = Latest
<1>1. shown' = Latest
  BY DEF Pump, Latest, Last
<1>2. <<>> \in Seq(Told)
  BY EmptySeq
<1>3. progressQueue # <<>> => progressQueue[Len(progressQueue)] \in Told
  BY EmptySeq, ElementOfSeq, LenProperties, TypeByParts DEF TypedParts
<1>4. shown' \in [export : 0..MaxExports, frames : 0..TotalFrames]
  <2>1. shown \in [export : 0..MaxExports, frames : 0..TotalFrames]
    BY TypeByParts DEF TypedParts
  <2>2. \A t \in Told : t \in [export : 0..MaxExports, frames : 0..TotalFrames]
    BY ExportAssumption DEF Told, Exports
  <2>3. QED
    BY <1>1, <1>3, <2>1, <2>2 DEF Latest
<1>5. outcomeQueue # Absent => outcomeQueue.export \in Exports /\ outcomeQueue.result \in Results
  BY TypeByParts DEF TypedParts, Ends
<1>6. delivered' \in [Exports -> Results \cup {"none"}]
  BY <1>5, TypeByParts DEF TypedParts, Pump
<1> QED
  BY <1>1, <1>2, <1>4, <1>6 DEF Pump

LEMMA CompletedType == ASSUME NEW d \in Dialogs PROVE Completed(d) \in Dialogs
BY DEF Completed, Dialogs

LEMMA CallerType ==
  ASSUME ExportTypeOK, Phases, Outcomes, Next, ~Work
  PROVE  ExportTypeOK'
<1> USE DEF flags, queues, callers
<1>1. dialog \in Dialogs /\ tool \in ToolRuns /\ project \in 0..MaxEdits
      /\ dialog.snapshot \in 0..MaxEdits /\ tool.snapshot \in 0..MaxEdits
  BY TypeByParts DEF TypedParts, Dialogs, ToolRuns
<1>2. CASE DialogStart
  <2>1. dialog' \in Dialogs /\ tool' \in ToolRuns /\ "dialog" \in Callers
    <3>1. dialog' = [form |-> "exporting", snapshot |-> 0, timer |-> TRUE, testing |-> dialog.testing]
      BY <1>1, <1>2 DEF DialogStart, Dialogs
    <3>2. dialog.testing \in BOOLEAN /\ 0 \in 0..MaxEdits
      BY <1>1, ExportAssumption DEF Dialogs
    <3>3. dialog' \in Dialogs
      BY <3>1, <3>2 DEF Dialogs
    <3>4. "dialog" \in Callers /\ tool' = tool
      BY <1>2 DEF DialogStart, Phases
    <3> QED
      BY <1>1, <3>3, <3>4
  <2> QED
    BY <1>1, <1>2, <2>1, StartType DEF DialogStart
<1>3. CASE ToolStart
  <2>1. current + 1 \in 0..MaxExports
    BY <1>3, ExportAssumption, TypeByParts DEF TypedParts, ToolStart, StartExport
  <2>2. dialog' \in Dialogs /\ tool' \in ToolRuns /\ "tool" \in Callers
    <3>1. tool' = [stage |-> "waiting", snapshot |-> 0, export |-> current + 1, answer |-> tool.answer]
      BY <1>1, <1>3 DEF ToolStart, ToolRuns
    <3> QED
      BY <1>1, <1>3, <2>1, <3>1, ExportAssumption DEF ToolStart, ToolRuns, Phases
  <2> QED
    BY <1>1, <1>3, <2>2, StartType DEF ToolStart
<1>4. ASSUME Edit \/ DialogAdmit \/ DialogCancel \/ DialogTest \/ ToolAdmit \/ ToolCancels
      PROVE  TypedParts'
  <2>1. UNCHANGED <<file, running, current, snapshots, worker, lastPercent, progressQueue,
                    outcomeQueue, completionSink, delivered, shown>>
    BY <1>4 DEF Edit, DialogAdmit, DialogCancel, DialogTest, ToolAdmit, ToolCancels
  <2>2. project' \in 0..MaxEdits
    BY <1>1, <1>4, ExportAssumption
    DEF Edit, DialogAdmit, DialogCancel, DialogTest, ToolAdmit, ToolCancels
  <2>5. cancelRequested' \in BOOLEAN
    <3>1. cancelRequested \in BOOLEAN
      BY TypeByParts DEF TypedParts
    <3> QED
      BY <1>4, <3>1 DEF Edit, DialogAdmit, DialogCancel, DialogTest, ToolAdmit, ToolCancels
  <2>3. dialog' \in Dialogs
    <3>1. running \in BOOLEAN
      BY TypeByParts DEF TypedParts
    <3> QED
      BY <1>1, <1>4, <3>1
      DEF Edit, DialogAdmit, DialogCancel, DialogTest, ToolAdmit, ToolCancels, Dialogs
  <2>4. tool' \in ToolRuns
    BY <1>1, <1>4
    DEF Edit, DialogAdmit, DialogCancel, DialogTest, ToolAdmit, ToolCancels, ToolRuns
  <2> QED
    BY <2>1, <2>2, <2>3, <2>4, <2>5, TypeByParts DEF TypedParts
<1>5. ASSUME DialogPump \/ ToolReceives \/ ToolGivesUp
      PROVE  TypedParts'
  <2>1. UNCHANGED <<project, file, running, cancelRequested, current, snapshots, worker, lastPercent>>
    BY <1>5 DEF DialogPump, ToolReceives, ToolGivesUp
  <2>2. dialog' \in Dialogs
    BY <1>1, <1>5, CompletedType DEF DialogPump, ToolReceives, ToolGivesUp, Dialogs
  <2>3. /\ progressQueue' \in Seq(Told) /\ outcomeQueue' \in Ends \cup {Absent}
        /\ delivered' \in [Exports -> Results \cup {"none"}]
        /\ shown' \in [export : 0..MaxExports, frames : 0..TotalFrames]
        /\ UNCHANGED completionSink
    BY <1>5, PumpType, TypeByParts DEF TypedParts, DialogPump, ToolReceives, ToolGivesUp
  <2>4. tool' \in ToolRuns
    <3>1. tool.stage \in {"waiting", "cancelling"} => delivered'[current] \in Results \cup {"none"}
      BY <2>3, TypeByParts, ExportAssumption DEF TypedParts, Phases, Exports
    <3> QED
      BY <1>1, <1>5, <3>1
      DEF DialogPump, ToolReceives, ToolGivesUp, ToolAnswers, ToolRuns, Results
  <2> QED
    BY <2>1, <2>2, <2>3, <2>4, TypeByParts DEF TypedParts
<1> QED
  <2>1. TypedParts' => ExportTypeOK'
    BY DEF TypedParts, ExportTypeOK, Outputs, Ends, Told, Dialogs, ToolRuns, Workers
  <2> QED
    BY <1>2, <1>3, <1>4, <1>5, <2>1 DEF Next

-----------------------------------------------------------------------------------
(* The worker's steps.                                                             *)
LEMMA WorkPhases == ExportInv /\ Work => Phases' /\ Written' /\ Outcomes'
<1> SUFFICES ASSUME ExportInv, Work PROVE Phases' /\ Written' /\ Outcomes'
  OBVIOUS
<1> USE ExportAssumption
    DEF Phases, Written, Outcomes, Kept, TheSnapshot, Setting, Closing, Ended, flags, queues, callers
<1>1. worker \in Workers /\ worker.stage # "none" /\ current # 0 /\ current \in Exports
      /\ Phases /\ Written /\ Outcomes /\ lastPercent <= TotalFrames
  BY TypeByParts DEF ExportInv, TypedParts, Exports, Work, SetUpFails, OpenOutput, RenderFrame,
     RenderStops, FinishOutput, QueueOutcome, StopRunning, Return
<1>2. CASE SetUpFails \/ OpenOutput \/ RenderFrame \/ RenderStops
  <2>1. /\ worker.stage \in Setting /\ worker'.stage \in {"rendering", "ending"}
        /\ worker'.result # "ok" \/ worker'.stage = "rendering"
        /\ ~worker'.committed
        /\ UNCHANGED <<running, current, snapshots, outcomeQueue, delivered, dialog, tool>>
    BY <1>1, <1>2
    DEF SetUpFails, OpenOutput, RenderFrame, RenderStops, Ending, Workers
  <2> QED
    BY <1>1, <2>1
<1>3. CASE FinishOutput
  <2>1. /\ worker.stage = "rendering" /\ worker'.stage = "ending" /\ worker'.result = "ok"
        /\ worker'.committed /\ file' = TheSnapshot
        /\ UNCHANGED <<running, current, snapshots, outcomeQueue, delivered, dialog, tool>>
    BY <1>1, <1>3 DEF FinishOutput, Workers
  <2>2. lastPercent' = TotalFrames
    BY <1>1, <1>3, ReportType DEF FinishOutput, ExportInv
  <2> QED
    BY <1>1, <2>1, <2>2
<1>4. CASE QueueOutcome
  <2>1. /\ worker.stage = "ending" /\ worker'.stage = "queued"
        /\ worker'.result = worker.result /\ worker'.committed = worker.committed
        /\ outcomeQueue' = [export |-> current, result |-> worker.result]
        /\ UNCHANGED <<running, current, snapshots, delivered, dialog, tool, file, lastPercent>>
    BY <1>1, <1>4 DEF QueueOutcome, Workers
  <2>2. outcomeQueue' # Absent
    BY <1>1, <2>1 DEF Workers, Results, Exports
  <2> QED
    BY <1>1, <2>1, <2>2
<1>5. CASE StopRunning
  <2>1. /\ worker.stage = "queued" /\ worker'.stage = "returning" /\ running' = FALSE
        /\ worker'.result = worker.result /\ worker'.committed = worker.committed
        /\ UNCHANGED <<current, snapshots, outcomeQueue, delivered, dialog, tool, file, lastPercent>>
    BY <1>1, <1>5 DEF StopRunning, Workers
  <2> QED
    BY <1>1, <2>1
<1>6. CASE Return
  <2>1. /\ worker.stage = "returning" /\ worker'.stage = "none"
        /\ file' = IF worker.committed THEN file ELSE Absent
        /\ UNCHANGED <<running, current, snapshots, outcomeQueue, delivered, dialog, tool, lastPercent>>
    BY <1>6 DEF Return, Idle
  <2> QED
    BY <1>1, <2>1
<1> QED
  BY <1>2, <1>3, <1>4, <1>5, <1>6 DEF Work

LEMMA ReportKeepsOrder ==
  ASSUME ExportTypeOK, Reported, current # 0, UNCHANGED <<current, shown>>,
         NEW frames \in 0..TotalFrames, Report(frames)
  PROVE  Reported'
<1> DEFINE n == Len(progressQueue)
<1>1. /\ lastPercent' \in 0..TotalFrames /\ lastPercent' >= lastPercent
      /\ progressQueue' = Append(progressQueue, [export |-> current, frames |-> lastPercent'])
  BY ReportType
<1>2. progressQueue \in Seq(Told) /\ n \in Nat /\ lastPercent \in -1..TotalFrames
      /\ shown \in [export : 0..MaxExports, frames : 0..TotalFrames]
      /\ current \in Exports
  BY TypeByParts, LenProperties, ExportAssumption DEF TypedParts, Exports
<1>3. [export |-> current, frames |-> lastPercent'] \in Told
  BY <1>1, <1>2 DEF Told
<1>4. /\ Len(progressQueue') = n + 1
      /\ \A i \in 1..n : progressQueue'[i] = progressQueue[i]
      /\ progressQueue'[n + 1] = [export |-> current, frames |-> lastPercent']
  BY <1>1, <1>2, <1>3, AppendProperties
<1>5. \A i \in 1..Len(progressQueue') : i \in 1..n \/ i = n + 1
  BY <1>2, <1>4
<1>6. \A i \in 1..n : progressQueue[i].frames \in Nat /\ progressQueue[i].frames <= lastPercent'
  <2>1. \A i \in 1..n : progressQueue[i] \in Told
    BY <1>2, ElementOfSeq
  <2> QED
    BY <1>1, <1>2, <2>1, ExportAssumption DEF Reported, Told
<1>7. \A i \in 1..Len(progressQueue') :
        progressQueue'[i].export = current' /\ progressQueue'[i].frames <= lastPercent'
  BY <1>1, <1>4, <1>5, <1>6, ExportAssumption DEF Reported
<1>8. \A i, j \in 1..Len(progressQueue') :
        i <= j => progressQueue'[i].frames <= progressQueue'[j].frames
  <2> SUFFICES ASSUME NEW i \in 1..Len(progressQueue'), NEW j \in 1..Len(progressQueue'), i <= j
               PROVE  progressQueue'[i].frames <= progressQueue'[j].frames
    OBVIOUS
  <2>1. CASE j \in 1..n
    <3>1. i \in 1..n
      BY <1>2, <1>4, <2>1
    <3> QED
      BY <1>4, <2>1, <3>1 DEF Reported
  <2>2. CASE j = n + 1
    BY <1>4, <1>7, <2>2
  <2> QED
    BY <1>5, <2>1, <2>2
<1>9. current' # 0 /\ shown'.export = current' =>
        /\ shown'.frames <= lastPercent'
        /\ \A i \in 1..Len(progressQueue') : shown'.frames <= progressQueue'[i].frames
  <2> SUFFICES ASSUME shown.export = current
               PROVE  /\ shown.frames <= lastPercent'
                      /\ \A i \in 1..Len(progressQueue') : shown.frames <= progressQueue'[i].frames
    OBVIOUS
  <2>1. shown.frames <= lastPercent'
    BY <1>1, <1>2, ExportAssumption DEF Reported
  <2> QED
    BY <1>4, <1>5, <2>1 DEF Reported
<1>10. progressQueue' # <<>> /\ Latest' = [export |-> current', frames |-> lastPercent']
  <2>1. progressQueue' # <<>>
    BY <1>2, <1>4, EmptySeq
  <2> QED
    BY <1>4, <2>1 DEF Latest
<1>11. lastPercent' # -1
  BY <1>1
<1> QED
  BY <1>7, <1>8, <1>9, <1>10, <1>11 DEF Reported

LEMMA QuietKeepsOrder ==
  ASSUME Reported, UNCHANGED <<progressQueue, shown, current, lastPercent>>
  PROVE  Reported'
BY DEF Reported, Latest

LEMMA WorkReports == ExportInv /\ Work => Reported'
<1> SUFFICES ASSUME ExportInv, Work PROVE Reported'
  OBVIOUS
<1> USE DEF flags, queues, callers
<1>1. worker \in Workers /\ worker.stage # "none" /\ current # 0
  BY TypeByParts DEF ExportInv, TypedParts, Phases, Work, SetUpFails, OpenOutput, RenderFrame,
     RenderStops, FinishOutput, QueueOutcome, StopRunning, Return
<1>2. CASE OpenOutput
  <2>1. Report(0) /\ 0 \in 0..TotalFrames /\ UNCHANGED <<current, shown>>
    BY <1>2, ExportAssumption DEF OpenOutput
  <2> QED
    BY <1>1, <2>1, ReportKeepsOrder DEF ExportInv
<1>3. CASE FinishOutput
  <2>1. Report(TotalFrames) /\ TotalFrames \in 0..TotalFrames /\ UNCHANGED <<current, shown>>
    BY <1>3, ExportAssumption DEF FinishOutput
  <2> QED
    BY <1>1, <2>1, ReportKeepsOrder DEF ExportInv
<1>4. CASE RenderFrame
  <2>1. worker.rendered + 1 \in 0..TotalFrames /\ UNCHANGED <<current, shown>>
    BY <1>1, <1>4, ExportAssumption DEF RenderFrame, Workers
  <2>2. CASE Report(worker.rendered + 1)
    BY <1>1, <2>1, <2>2, ReportKeepsOrder DEF ExportInv
  <2>3. CASE UNCHANGED <<lastPercent, progressQueue>>
    BY <2>1, <2>3, QuietKeepsOrder DEF ExportInv
  <2> QED
    BY <1>4, <2>2, <2>3 DEF RenderFrame
<1>5. CASE SetUpFails \/ RenderStops \/ QueueOutcome \/ StopRunning \/ Return
  <2>1. UNCHANGED <<progressQueue, shown, current, lastPercent>>
    BY <1>5 DEF SetUpFails, RenderStops, QueueOutcome, StopRunning, Return
  <2> QED
    BY <2>1, QuietKeepsOrder DEF ExportInv
<1> QED
  BY <1>2, <1>3, <1>4, <1>5 DEF Work

-----------------------------------------------------------------------------------
(* The callers' steps.                                                             *)
LEMMA StartInv ==
  ASSUME ExportInv, NEW sink, NEW snapshot, StartExport(sink, snapshot),
         tool'.stage = "starting" => "tool" \in Callers,
         dialog'.form = "starting" => "dialog" \in Callers
  PROVE  Phases' /\ Written' /\ Outcomes' /\ Reported'
<1>1. /\ worker.stage = "none" /\ current \in Nat /\ current' = current + 1
      /\ worker'.stage = "selecting" /\ ~worker'.committed /\ running' = TRUE
      /\ progressQueue' = <<>> /\ outcomeQueue' = Absent /\ lastPercent' = -1
      /\ UNCHANGED <<file, delivered, shown>>
  BY TypeByParts, ExportAssumption DEF ExportInv, TypedParts, StartExport, Idle
<1>2. \A e \in Exports : e \in Nat /\ (delivered[e] # "none" => e <= current)
  BY ExportAssumption DEF ExportInv, Outcomes, Exports
<1>3. current' \in Exports
  BY <1>1, ExportAssumption, TypeByParts DEF ExportInv, TypedParts, StartExport, Exports
<1>4. Phases' /\ Written' /\ Outcomes'
  <2>1. delivered'[current'] = "none"
    BY <1>1, <1>2, <1>3
  <2>2. Outcomes'
    <3>1. \A e \in Exports : delivered'[e] # "none" => e <= current'
      BY <1>1, <1>2
    <3> QED
      BY <1>1, <2>1, <3>1 DEF Outcomes, Ended
  <2> QED
    BY <1>1, <2>2 DEF Phases, Written, Setting, Closing
<1>5. Reported'
  <2>1. Len(progressQueue') = 0 /\ shown.export \in Nat /\ shown.export <= current
    BY <1>1, EmptySeq, TypeByParts DEF ExportInv, TypedParts, Reported
  <2> QED
    BY <1>1, <2>1 DEF Reported
<1> QED
  BY <1>4, <1>5

LEMMA PumpInv ==
  ASSUME ExportInv, Pump, UNCHANGED <<running, file, current, snapshots, worker, lastPercent>>
  PROVE  Written' /\ Outcomes' /\ Reported'
<1>1. /\ progressQueue' = <<>> /\ outcomeQueue' = Absent /\ Len(progressQueue') = 0
      /\ delivered' = IF outcomeQueue = Absent THEN delivered
                      ELSE [delivered EXCEPT ![outcomeQueue.export] = outcomeQueue.result]
  BY EmptySeq DEF Pump
<1>2. shown' = Latest
  BY PumpType DEF ExportInv
<1>3. Written'
  BY DEF ExportInv, Written, TheSnapshot
<1>4. Outcomes'
  <2>1. delivered \in [Exports -> Results \cup {"none"}] /\ current \in 0..MaxExports
    BY TypeByParts DEF ExportInv, TypedParts
  <2>2. CASE outcomeQueue = Absent
    BY <1>1, <2>2 DEF ExportInv, Outcomes, Kept, TheSnapshot
  <2>3. CASE outcomeQueue # Absent
    <3>1. /\ outcomeQueue.export = current /\ current \in Exports /\ outcomeQueue.result \in Results
          /\ (outcomeQueue.result = "ok" => Kept)
      BY <2>1, <2>3, TypeByParts DEF ExportInv, TypedParts, Outcomes, Ends
    <3>2. delivered'[current] = outcomeQueue.result /\ delivered'[current] # "none"
      BY <1>1, <2>1, <2>3, <3>1 DEF Results
    <3>3. \A e \in Exports : delivered'[e] # "none" => e <= current
      BY <1>1, <2>1, <2>3, <3>1, ExportAssumption DEF ExportInv, Outcomes, Exports
    <3>4. Kept => Kept'
      BY DEF Kept, TheSnapshot
    <3> QED
      BY <1>1, <3>1, <3>2, <3>3, <3>4 DEF Outcomes
  <2> QED
    BY <2>2, <2>3
<1>5. Reported'
  <2>1. Latest' = shown'
    BY <1>1 DEF Latest
  <2>2. current \in Nat /\ shown.export \in Nat /\ (lastPercent # -1 => Latest = [export |-> current, frames |-> lastPercent])
        /\ shown.export <= current /\ lastPercent \in Int
    BY TypeByParts, ExportAssumption DEF ExportInv, TypedParts, Reported
  <2>3. CASE lastPercent # -1
    <3>1. shown'.export = current /\ shown'.frames = lastPercent
      BY <1>2, <2>2, <2>3
    <3> QED
      BY <1>1, <1>2, <2>1, <2>2, <2>3, <3>1 DEF Reported
  <2>4. CASE lastPercent = -1
    <3>1. shown' = shown
      BY <1>2, <2>4 DEF ExportInv, Reported, Latest
    <3> QED
      BY <1>1, <2>2, <2>4, <3>1 DEF ExportInv, Reported
  <2> QED
    BY <2>3, <2>4
<1> QED
  BY <1>3, <1>4, <1>5

LEMMA CallerInv ==
  ASSUME ExportInv, Next, ~Work
  PROVE  Phases' /\ Written' /\ Outcomes' /\ Reported'
<1> USE DEF flags, queues, callers
<1>1. dialog \in Dialogs /\ tool \in ToolRuns /\ Phases /\ Written /\ Outcomes /\ Reported
  BY TypeByParts DEF ExportInv, TypedParts
<1>2. CASE DialogStart
  <2>1. dialog'.form = "exporting" /\ tool' = tool
    BY <1>1, <1>2 DEF DialogStart, Dialogs
  <2> QED
    BY <1>1, <1>2, <2>1, StartInv DEF DialogStart, Phases
<1>3. CASE ToolStart
  <2>1. tool'.stage = "waiting" /\ dialog' = dialog
    BY <1>1, <1>3 DEF ToolStart, ToolRuns
  <2> QED
    BY <1>1, <1>3, <2>1, StartInv DEF ToolStart, Phases
<1>4. ASSUME Edit \/ DialogAdmit \/ DialogCancel \/ DialogTest \/ ToolAdmit \/ ToolCancels
      PROVE  Phases' /\ Written' /\ Outcomes' /\ Reported'
  <2>1. UNCHANGED <<file, running, current, snapshots, worker, lastPercent, progressQueue,
                    outcomeQueue, completionSink, delivered, shown>>
    BY <1>4 DEF Edit, DialogAdmit, DialogCancel, DialogTest, ToolAdmit, ToolCancels
  <2>2. /\ dialog'.form = "starting" => dialog.form = "starting" \/ "dialog" \in Callers
        /\ tool'.stage = "starting" => tool.stage = "starting" \/ "tool" \in Callers
        /\ tool'.stage \in {"waiting", "cancelling"} => tool.stage \in {"waiting", "cancelling"}
    <3>1. CASE Edit \/ DialogCancel
      BY <3>1 DEF Edit, DialogCancel
    <3>2. CASE DialogAdmit \/ DialogTest
      BY <1>1, <3>2 DEF DialogAdmit, DialogTest, Dialogs
    <3>3. CASE ToolAdmit \/ ToolCancels
      BY <1>1, <3>3 DEF ToolAdmit, ToolCancels, ToolRuns
    <3> QED
      BY <1>4, <3>1, <3>2, <3>3
  <2>3. Phases'
    BY <1>1, <2>1, <2>2 DEF Phases, Setting, Closing
  <2>4. Written' /\ Outcomes'
    BY <1>1, <2>1 DEF Written, Outcomes, Kept, TheSnapshot
  <2> QED
    BY <1>1, <2>1, <2>3, <2>4, QuietKeepsOrder
<1>5. ASSUME DialogPump \/ ToolReceives \/ ToolGivesUp
      PROVE  Phases' /\ Written' /\ Outcomes' /\ Reported'
  <2>1. UNCHANGED <<file, running, current, snapshots, worker, lastPercent>>
    BY <1>5 DEF DialogPump, ToolReceives, ToolGivesUp
  <2>2. /\ dialog'.form = "starting" => dialog.form = "starting"
        /\ tool'.stage = "starting" => tool.stage = "starting"
        /\ tool'.stage \in {"waiting", "cancelling"} => tool.stage \in {"waiting", "cancelling"}
    <3>1. tool' = tool \/ tool'.stage = "idle"
      BY <1>1, <1>5 DEF DialogPump, ToolReceives, ToolGivesUp, ToolAnswers, ToolRuns
    <3>2. Completed(dialog) \in Dialogs /\ (Completed(dialog).form = "starting" => dialog.form = "starting")
      BY <1>1, CompletedType DEF Completed, Dialogs
    <3>3. dialog'.form \in {dialog.form, Completed(dialog).form}
      BY <1>1, <1>5, <3>2 DEF DialogPump, ToolReceives, ToolGivesUp, Dialogs
    <3> QED
      BY <3>1, <3>2, <3>3
  <2>3. Phases'
    BY <1>1, <2>1, <2>2 DEF Phases, Setting, Closing
  <2>4. Pump \/ UNCHANGED <<progressQueue, outcomeQueue, delivered, shown>>
    BY <1>5 DEF DialogPump, ToolReceives, ToolGivesUp
  <2>5. CASE Pump
    BY <2>1, <2>3, <2>5, PumpInv
  <2>6. CASE UNCHANGED <<progressQueue, outcomeQueue, delivered, shown>>
    <3>1. Written' /\ Outcomes'
      BY <1>1, <2>1, <2>6 DEF Written, Outcomes, Kept, TheSnapshot
    <3> QED
      BY <1>1, <2>1, <2>3, <2>6, <3>1, QuietKeepsOrder
  <2> QED
    BY <2>4, <2>5, <2>6
<1> QED
  BY <1>2, <1>3, <1>4, <1>5 DEF Next

LEMMA ExportInvNext == ExportInv /\ [Next]_exportVars => ExportInv'
<1> SUFFICES ASSUME ExportInv, [Next]_exportVars PROVE ExportInv'
  OBVIOUS
<1>1. CASE Work
  BY <1>1, WorkType, WorkPhases, WorkReports DEF ExportInv
<1>2. CASE Next /\ ~Work
  BY <1>2, CallerType, CallerInv DEF ExportInv
<1>3. CASE UNCHANGED exportVars
  <2>1. ExportTypeOK'
    BY <1>3 DEF ExportInv, ExportTypeOK, exportVars
  <2>2. Phases' /\ Written' /\ Outcomes' /\ Reported'
    BY <1>3
    DEF ExportInv, Phases, Written, Outcomes, Reported, Kept, TheSnapshot, Latest, exportVars
  <2> QED
    BY <2>1, <2>2 DEF ExportInv
<1> QED
  BY <1>1, <1>2, <1>3

LEMMA ExportInvHolds == Spec => []ExportInv
BY ExportInvInit, ExportInvNext, PTL DEF Spec

-----------------------------------------------------------------------------------
(* Type correctness of the coordinator, its worker and its two callers.            *)
THEOREM ExportsTyped == Spec => []ExportTypeOK
<1>1. ExportInv => ExportTypeOK
  BY DEF ExportInv
<1> QED
  BY <1>1, ExportInvHolds, PTL

(* Once an export ended the path holds a whole file of its snapshot or nothing, a  *)
(* delivered success is that file, and the outcome is there before the flag is     *)
(* down: for any number of exports, frames and edits.                              *)
THEOREM ExportsKeepTheirPromise == Spec => []ExportsSound
<1>1. ExportInv => ExportsSound
  <2> SUFFICES ASSUME ExportInv PROVE ExportsSound
    OBVIOUS
  <2>1. current \in 0..MaxExports /\ worker \in Workers
    BY TypeByParts DEF ExportInv, TypedParts
  <2>2. NothingButWholeFiles
    BY DEF ExportInv, Written, TheSnapshot, NothingButWholeFiles
  <2>3. SuccessIsTheSnapshot
    <3> SUFFICES ASSUME NEW e \in Exports, delivered[e] = "ok",
                        ~(e < current)
                 PROVE  file = [export |-> e, version |-> snapshots[e], whole |-> TRUE]
      BY DEF SuccessIsTheSnapshot
    <3>1. e = current /\ current # 0
      BY <2>1, ExportAssumption DEF ExportInv, Outcomes, Exports
    <3> QED
      BY <3>1 DEF ExportInv, Outcomes, Kept, TheSnapshot
  <2>4. OutcomeBeforeIdle
    BY <2>1 DEF ExportInv, OutcomeBeforeIdle, Phases, Outcomes, Ended, Workers
  <2> QED
    BY <2>2, <2>3, <2>4 DEF ExportsSound
<1> QED
  BY <1>1, ExportInvHolds, PTL

(* Reports reach the callers in order, from the export that was started last, and  *)
(* 100% before a success: for any number of exports and frames, whoever pumps.     *)
THEOREM ExportsReportInOrder == Spec => []ReportsInOrder
<1>1. ExportInv => ReportsInOrder
  <2> SUFFICES ASSUME ExportInv PROVE ReportsInOrder
    OBVIOUS
  <2> DEFINE n == Len(progressQueue)
             reports == <<shown>> \o progressQueue
             AnyReport == [export : 0..MaxExports, frames : 0..TotalFrames]
  <2>1. /\ progressQueue \in Seq(AnyReport) /\ shown \in AnyReport /\ n \in Nat
        /\ current \in 0..MaxExports
    <3>1. Told \subseteq AnyReport
      BY ExportAssumption DEF Told, Exports
    <3> QED
      BY <3>1, TypeByParts, SeqMonotonic, LenProperties DEF ExportInv, TypedParts
  <2>2. /\ reports \in Seq(AnyReport) /\ Len(reports) = n + 1 /\ reports[1] = shown
        /\ \A i \in 2..n + 1 : reports[i] = progressQueue[i - 1]
    <3>1. <<shown>> \in Seq(AnyReport) /\ Len(<<shown>>) = 1 /\ <<shown>>[1] = shown
      BY <2>1
    <3> HIDE DEF AnyReport
    <3> QED
      BY <2>1, <3>1, ConcatProperties
  <2>3. ASSUME NEW i \in 2..Len(reports)
        PROVE  /\ reports[i].export = current
               /\ reports[i - 1].export = current => reports[i - 1].frames <= reports[i].frames
    <3>1. i - 1 \in 1..n /\ reports[i] = progressQueue[i - 1]
      BY <2>1, <2>2
    <3>2. reports[i].export = current
      BY <3>1 DEF ExportInv, Reported
    <3>3. progressQueue[i - 1] \in Told
      BY <3>1, TypeByParts, ElementOfSeq DEF ExportInv, TypedParts
    <3>4. CASE i = 2
      <4>1. reports[i - 1] = shown /\ current # 0
        BY <2>2, <3>1, <3>2, <3>3, <3>4, ExportAssumption DEF Told, Exports
      <4> QED
        BY <3>1, <3>2, <4>1 DEF ExportInv, Reported
    <3>5. CASE i # 2
      <4>1. /\ i \in 2..n + 1 /\ n \in Nat
            /\ \A j \in 2..n + 1 : reports[j] = progressQueue[j - 1]
        BY <2>1, <2>2
      <4> HIDE DEF n, reports
      <4>2. /\ i - 2 \in 1..n /\ i - 1 \in 2..n + 1
            /\ i - 2 <= i - 1 /\ (i - 1) - 1 = i - 2
        BY <3>5, <4>1
      <4>3. reports[i - 1] = progressQueue[i - 2]
        BY <4>1, <4>2
      <4> QED
        BY <3>1, <3>2, <4>2, <4>3 DEF ExportInv, Reported, n
    <3> QED
      BY <3>4, <3>5
  <2>4. ASSUME outcomeQueue # Absent, outcomeQueue.result = "ok"
        PROVE  reports[Len(reports)] = [export |-> current, frames |-> TotalFrames]
    <3>1. lastPercent = TotalFrames /\ lastPercent # -1
      BY <2>4, ExportAssumption DEF ExportInv, Outcomes, Kept
    <3>2. Latest = [export |-> current, frames |-> TotalFrames]
      BY <3>1 DEF ExportInv, Reported
    <3>3. reports[n + 1] = Latest
      <4>1. CASE n = 0
        BY <2>1, <2>2, <4>1, EmptySeq DEF Latest
      <4>2. CASE n # 0
        BY <2>1, <2>2, <4>2, EmptySeq DEF Latest
      <4> QED
        BY <4>1, <4>2
    <3> QED
      BY <2>2, <3>2, <3>3
  <2> QED
    BY <2>3, <2>4 DEF ReportsInOrder, Last
<1> QED
  BY <1>1, ExportInvHolds, PTL

-----------------------------------------------------------------------------------
(* Exchanges with a provider. *)

Places    == {"idle", "resolve", "connect", "handshake", "write", "read"}
Kinds     == {"submit", "poll", "fetch", "cancel"}
JobStates == {"none", "running", "succeeded", "failed", "forgotten"}
Values    == JobStates \cup {"submitted", "media", "odd"}
Exchanges == [at : Places, kind : Kinds \cup {"none"}, job : {0} \cup JobIds,
              left : 0..ConnectTicks + IoTicks]
Answers   == [status : {"none", "2xx", "404", "409", "5xx"}, job : {0} \cup JobIds, value : Values]
Peers     == [certificate : {"none", "good", "other"}, sent : 0..Pieces, closed : BOOLEAN,
              answer : Answers]
Codes     == {"none", "Io", "Timeout", "PermissionDenied", "NotFound", "FailedPrecondition",
              "InvalidArgument", "Internal"}
ExchangeOutcomes  == [ok : BOOLEAN, code : Codes, kind : Kinds \cup {"none"}, job : {0} \cup JobIds,
              value : Values]

(* The records behind HttpTypeOK, and how far an answer can have come.             *)
HttpRecords ==
  /\ exchange \in Exchanges /\ peer \in Peers /\ outcome \in ExchangeOutcomes
  /\ read \in 0..Pieces /\ held \subseteq JobIds /\ requests \in 0..MaxRequests
  /\ providerJobs \in [JobIds -> JobStates]

AnswerArrives ==
  /\ read <= peer.sent
  /\ peer.sent > 0 => peer.answer.status # "none"
  /\ peer.answer.status # "none" => At("read")
  /\ ~At("idle") <=> exchange.kind \in Kinds

(* The provider numbers its jobs in turn, and an unanswered request has one left.  *)
JobsInTurn ==
  \E n \in 0..requests :
    /\ \A id \in JobIds : providerJobs[id] # "none" <=> id <= n
    /\ ~At("idle") /\ peer.answer.status = "none" => n < requests

(* The request goes on only with the host, and only about a job that is held.      *)
HostProved == VerifyCertificate /\ exchange.at \in {"write", "read"} => peer.certificate = "good"
AboutHeldJob == ~At("idle") /\ exchange.kind # "submit" => exchange.job \in held

(* What an answer on its way says is so at the provider.                           *)
Truthful(known, kind, job, answer) ==
  /\ kind = "cancel" /\ answer.status \in {"2xx", "404", "409"} => known[job] # "running"
  /\ answer.status = "2xx" /\ answer.value # "odd" =>
       /\ kind \in Kinds \ {"cancel"} => answer.job \in JobIds /\ known[answer.job] # "none"
       /\ kind = "poll" /\ answer.value \in {"succeeded", "failed"} =>
            known[answer.job] \in {answer.value, "forgotten"}
       /\ kind = "fetch" => known[answer.job] \in {"succeeded", "forgotten"}

AnswerIsTrue == peer.answer.status # "none" => Truthful(providerJobs, exchange.kind, exchange.job, peer.answer)

(* The outcome stays true, for the job it is about exists.                          *)
OutcomeStays ==
  outcome.ok => /\ outcome.kind \in Kinds
                /\ outcome.job \in JobIds /\ providerJobs[outcome.job] # "none"

HttpInv ==
  /\ HttpRecords /\ AnswerArrives /\ JobsInTurn /\ HostProved /\ AboutHeldJob /\ AnswerIsTrue
  /\ OutcomeStays /\ CredentialOnlyToTheHost /\ OutcomeIsTrue /\ HeldJobsExist

-----------------------------------------------------------------------------------
LEMMA HttpStarts == HttpInit => HttpInv
<1> SUFFICES ASSUME HttpInit PROVE HttpInv
  OBVIOUS
<1> USE HttpAssumption DEF HttpInit
<1>1. exchange \in Exchanges
  BY DEF NoExchange, Exchanges, Places
<1>2. peer.answer \in Answers /\ peer.answer.status = "none" /\ peer.sent = 0
  BY DEF Nobody, AnswerOf, Answers, Values, JobStates
<1>3. peer \in Peers
  BY <1>2 DEF Nobody, Peers, Pieces
<1>4. outcome \in ExchangeOutcomes
  BY DEF ExchangeOutcomes, Codes, Values, JobStates
<1>5. HttpRecords
  BY <1>1, <1>3, <1>4 DEF HttpRecords, JobIds, JobStates, Pieces
<1>6. AnswerArrives /\ JobsInTurn
  BY <1>2 DEF AnswerArrives, JobsInTurn, At, NoExchange, JobIds, Kinds
<1>7. HostProved /\ AboutHeldJob /\ AnswerIsTrue
  BY <1>2 DEF HostProved, AboutHeldJob, AnswerIsTrue, At, NoExchange
<1>8. OutcomeStays /\ OutcomeIsTrue /\ CredentialOnlyToTheHost /\ HeldJobsExist
  BY DEF OutcomeStays, OutcomeIsTrue, CredentialOnlyToTheHost, HeldJobsExist
<1>9. QED
  BY <1>5, <1>6, <1>7, <1>8 DEF HttpInv

LEMMA NobodyTyped ==
  /\ NoExchange \in Exchanges /\ Nobody \in Peers
  /\ Nobody.answer.status = "none" /\ Nobody.sent = 0 /\ Nobody.answer \in Answers
  /\ NoExchange.at = "idle" /\ NoExchange.kind = "none"
<1> USE HttpAssumption
<1>1. Nobody.answer \in Answers /\ Nobody.answer.status = "none" /\ Nobody.sent = 0
  BY DEF Nobody, AnswerOf, Answers, Values, JobStates
<1>2. Nobody \in Peers
  BY <1>1 DEF Nobody, Peers, Pieces
<1>3. NoExchange \in Exchanges /\ NoExchange.at = "idle" /\ NoExchange.kind = "none"
  BY DEF NoExchange, Exchanges, Places
<1>4. QED
  BY <1>1, <1>2, <1>3

(* An exchange ends.                                                               *)
LEMMA ReturnKeeps ==
  ASSUME HttpInv, NEW result \in ExchangeOutcomes, SendReturns(result), UNCHANGED <<providerJobs, requests>>,
         held' \subseteq JobIds, HeldJobsExist', CredentialOnlyToTheHost', OutcomeStays', OutcomeIsTrue'
  PROVE  HttpInv'
<1> USE HttpAssumption
<1>1. exchange' = NoExchange /\ peer' = Nobody /\ read' = 0 /\ outcome' = result
  BY DEF SendReturns
<1>2. HttpRecords'
  BY <1>1, NobodyTyped DEF HttpInv, HttpRecords, Pieces
<1>3. AnswerArrives' /\ HostProved' /\ AboutHeldJob' /\ AnswerIsTrue'
  BY <1>1, NobodyTyped DEF AnswerArrives, HostProved, AboutHeldJob, AnswerIsTrue, At, Kinds
<1>4. JobsInTurn'
  BY <1>1, NobodyTyped DEF HttpInv, JobsInTurn, At
<1>5. QED
  BY <1>2, <1>3, <1>4 DEF HttpInv

LEMMA FailKeeps ==
  ASSUME HttpInv, NEW code \in Codes, Fail(code), UNCHANGED <<providerJobs, requests, held>>,
         CredentialOnlyToTheHost'
  PROVE  HttpInv'
<1> DEFINE result == Returned(FALSE, code, "none")
<1>1. SendReturns(result) /\ outcome' = result /\ result.ok = FALSE
  BY DEF Fail, SendReturns, Returned
<1>2. result \in ExchangeOutcomes
  BY DEF HttpInv, HttpRecords, Returned, ExchangeOutcomes, Exchanges, Values, JobStates
<1>3. OutcomeStays' /\ OutcomeIsTrue' /\ HeldJobsExist' /\ held' \subseteq JobIds
  BY <1>1 DEF HttpInv, HttpRecords, OutcomeStays, OutcomeIsTrue, HeldJobsExist
<1>4. QED
  BY <1>1, <1>2, <1>3, ReturnKeeps

(* Steps that leave the provider, the held jobs and the outcome alone.             *)
LEMMA ExchangeKeeps ==
  ASSUME HttpInv, UNCHANGED <<outcome, held, providerJobs, requests>>,
         exchange' \in Exchanges, peer' \in Peers, read' \in 0..Pieces,
         exchange'.kind = exchange.kind, exchange'.job = exchange.job,
         exchange'.at = "idle" <=> exchange.at = "idle",
         AnswerArrives',
         peer'.answer = peer.answer \/ (peer.answer.status = "none" /\ peer'.answer = Nobody.answer),
         HostProved', CredentialOnlyToTheHost'
  PROVE  HttpInv'
<1>1. HttpRecords'
  BY DEF HttpInv, HttpRecords
<1>2. JobsInTurn'
  <2>1. peer.answer.status = "none" <=> peer'.answer.status = "none"
    BY NobodyTyped
  <2>2. QED
    BY <2>1 DEF HttpInv, JobsInTurn, At
<1>3. AboutHeldJob' /\ OutcomeStays' /\ OutcomeIsTrue' /\ HeldJobsExist'
  BY DEF HttpInv, AboutHeldJob, OutcomeStays, OutcomeIsTrue, HeldJobsExist, At
<1>4. AnswerIsTrue'
  BY NobodyTyped DEF HttpInv, AnswerIsTrue, Truthful
<1>5. QED
  BY <1>1, <1>2, <1>3, <1>4 DEF HttpInv
-----------------------------------------------------------------------------------
LEMMA RequestKeeps ==
  ASSUME HttpInv, NEW kind \in Kinds, NEW job \in JobIds, NEW url, Request(kind, job, url)
  PROVE  HttpInv'
<1> USE HttpAssumption
<1>1. /\ At("idle") /\ requests < MaxRequests /\ requests' = requests + 1
      /\ kind # "submit" => job \in held
      /\ UNCHANGED <<peer, read, held, providerJobs, credentialAt>>
  BY DEF Request
<1>2. requests' \in 0..MaxRequests /\ requests \in 0..MaxRequests
  BY <1>1 DEF HttpInv, HttpRecords
<1>3. peer.answer.status = "none" /\ exchange.kind \notin Kinds
  BY <1>1 DEF HttpInv, AnswerArrives, At
<1>4. JobsInTurn'
  <2>1. PICK n \in 0..requests : \A id \in JobIds : providerJobs[id] # "none" <=> id <= n
    BY DEF HttpInv, JobsInTurn
  <2>2. n \in 0..requests' /\ n < requests'
    BY <1>1, <1>2, <2>1
  <2>3. QED
    BY <1>1, <2>1, <2>2 DEF JobsInTurn
<1>5. HostProved' /\ CredentialOnlyToTheHost' /\ HeldJobsExist'
  <2>1. exchange'.at \notin {"write", "read"}
    BY <1>1 DEF Request, At
  <2>2. QED
    BY <1>1, <2>1 DEF HttpInv, HostProved, CredentialOnlyToTheHost, HeldJobsExist
<1>6. AnswerIsTrue'
  BY <1>1, <1>3 DEF AnswerIsTrue
<1>7. CASE url = "https"
  <2>1. exchange' = [at |-> "resolve", kind |-> kind, job |-> job, left |-> 0] /\ outcome' = outcome
    BY <1>7 DEF Request
  <2>2. exchange' \in Exchanges /\ exchange'.at = "resolve" /\ exchange'.kind = kind /\ exchange'.job = job
    BY <2>1 DEF Exchanges, Places
  <2>3. HttpRecords'
    BY <1>1, <1>2, <2>1, <2>2 DEF HttpInv, HttpRecords
  <2>4. AnswerArrives'
    BY <1>1, <1>3, <2>2 DEF HttpInv, AnswerArrives, At
  <2>5. AboutHeldJob'
    BY <1>1, <2>2 DEF AboutHeldJob
  <2>6. OutcomeStays' /\ OutcomeIsTrue'
    BY <1>1, <2>1 DEF HttpInv, OutcomeStays, OutcomeIsTrue
  <2>7. QED
    BY <1>4, <1>5, <1>6, <2>3, <2>4, <2>5, <2>6 DEF HttpInv
<1>8. CASE url # "https"
  <2>1. exchange' = exchange /\ outcome' \in ExchangeOutcomes /\ outcome'.ok = FALSE
    <3>1. PICK code \in Codes : outcome' = [ok |-> FALSE, code |-> code, kind |-> kind, job |-> job, value |-> "none"]
      BY <1>8 DEF Request, Codes
    <3>2. QED
      BY <1>8, <3>1 DEF Request, ExchangeOutcomes, Values, JobStates
  <2>2. HttpRecords'
    BY <1>1, <1>2, <2>1 DEF HttpInv, HttpRecords
  <2>3. AnswerArrives' /\ AboutHeldJob'
    BY <1>1, <2>1 DEF HttpInv, AnswerArrives, AboutHeldJob, At
  <2>4. OutcomeStays' /\ OutcomeIsTrue'
    BY <2>1 DEF OutcomeStays, OutcomeIsTrue
  <2>5. QED
    BY <1>4, <1>5, <1>6, <2>2, <2>3, <2>4 DEF HttpInv
<1>9. QED
  BY <1>7, <1>8

(* The connection is made, or the exchange ends without one.                       *)
LEMMA ResolveKeeps == ASSUME HttpInv, NEW found \in BOOLEAN, Resolve(found) PROVE HttpInv'
<1> USE HttpAssumption
<1>1. CASE found
  <2>1. exchange' = [exchange EXCEPT !.at = "connect", !.left = ConnectTicks] /\ At("resolve")
        /\ UNCHANGED <<peer, read, outcome, held, providerJobs, credentialAt, requests>>
    BY <1>1 DEF Resolve
  <2>2. exchange \in Exchanges /\ peer \in Peers /\ read \in 0..Pieces /\ ConnectTicks \in 0..ConnectTicks + IoTicks
    BY DEF HttpInv, HttpRecords
  <2>3. exchange' \in Exchanges /\ exchange'.kind = exchange.kind /\ exchange'.job = exchange.job /\ exchange'.at = "connect"
    BY <2>1, <2>2 DEF Exchanges, Places
  <2>4. AnswerArrives' /\ HostProved' /\ CredentialOnlyToTheHost'
    BY <2>1, <2>3 DEF HttpInv, AnswerArrives, HostProved, CredentialOnlyToTheHost, At
  <2>5. QED
    BY <2>1, <2>2, <2>3, <2>4, ExchangeKeeps DEF At
<1>2. CASE ~found
  BY <1>2, FailKeeps DEF Resolve, Codes, HttpInv, CredentialOnlyToTheHost
<1>3. QED
  BY <1>1, <1>2

LEMMA ConnectKeeps ==
  ASSUME HttpInv, NEW certificate \in {"good", "other"}, Connect(certificate) PROVE HttpInv'
<1> USE HttpAssumption
<1>1. /\ exchange' = [exchange EXCEPT !.at = "handshake", !.left = IoTicks] /\ At("connect")
      /\ peer' = [Nobody EXCEPT !.certificate = certificate]
      /\ UNCHANGED <<read, outcome, held, providerJobs, credentialAt, requests>>
  BY DEF Connect
<1>2. exchange \in Exchanges /\ read \in 0..Pieces
  BY DEF HttpInv, HttpRecords
<1>3. exchange' \in Exchanges /\ exchange'.kind = exchange.kind /\ exchange'.job = exchange.job /\ exchange'.at = "handshake"
  <2>1. IoTicks \in 0..ConnectTicks + IoTicks
    OBVIOUS
  <2>2. QED
    BY <1>1, <1>2, <2>1 DEF Exchanges, Places
<1>4. peer' \in Peers /\ peer'.answer = Nobody.answer /\ peer'.sent = 0
  BY <1>1, NobodyTyped DEF Peers
<1>5. peer.answer.status = "none" /\ read = 0 /\ exchange.kind \in Kinds
  <2>1. exchange.at = "connect" /\ peer.sent \in 0..4 /\ read \in 0..4
    BY <1>1, <1>2 DEF At, HttpInv, HttpRecords, Peers, Pieces
  <2>2. QED
    BY <2>1 DEF HttpInv, AnswerArrives, At
<1>6. AnswerArrives' /\ HostProved' /\ CredentialOnlyToTheHost'
  <2>1. read' = 0 /\ peer'.sent = 0 /\ peer'.answer.status = "none" /\ credentialAt' = credentialAt
    BY <1>1, <1>4, <1>5, NobodyTyped
  <2>2. QED
    BY <1>3, <1>5, <2>1 DEF HttpInv, AnswerArrives, HostProved, CredentialOnlyToTheHost, At
<1>7. QED
  BY <1>1, <1>2, <1>3, <1>4, <1>5, <1>6, ExchangeKeeps DEF At

LEMMA BreakKeeps ==
  ASSUME HttpInv, ConnectFails \/ HandshakeBreaks \/ WaitTimesOut \/ WriteBreaks PROVE HttpInv'
<1>1. PICK code \in Codes : Fail(code)
  BY DEF ConnectFails, HandshakeBreaks, WaitTimesOut, WriteBreaks, Codes
<1>2. UNCHANGED <<providerJobs, requests, held>> /\ CredentialOnlyToTheHost'
  BY DEF ConnectFails, HandshakeBreaks, WaitTimesOut, WriteBreaks, HttpInv, HostProved, CredentialOnlyToTheHost, At
<1>3. QED
  BY <1>1, <1>2, FailKeeps

LEMMA HandshakeKeeps == ASSUME HttpInv, Handshake PROVE HttpInv'
<1>1. CASE VerifyCertificate /\ peer.certificate # "good"
  BY <1>1, FailKeeps DEF Handshake, Codes, HttpInv, CredentialOnlyToTheHost
<1>2. CASE ~(VerifyCertificate /\ peer.certificate # "good")
  <2>1. exchange' = [exchange EXCEPT !.at = "write"] /\ At("handshake")
        /\ UNCHANGED <<peer, read, outcome, held, providerJobs, credentialAt, requests>>
    BY <1>2 DEF Handshake
  <2>2. exchange \in Exchanges /\ peer \in Peers /\ read \in 0..Pieces
    BY DEF HttpInv, HttpRecords
  <2>3. exchange' \in Exchanges /\ exchange'.kind = exchange.kind /\ exchange'.job = exchange.job /\ exchange'.at = "write"
    BY <2>1, <2>2 DEF Exchanges, Places
  <2>4. AnswerArrives' /\ HostProved' /\ CredentialOnlyToTheHost'
    BY <1>2, <2>1, <2>3 DEF HttpInv, AnswerArrives, HostProved, CredentialOnlyToTheHost, At
  <2>5. QED
    BY <2>1, <2>2, <2>3, <2>4, ExchangeKeeps DEF At
<1>3. QED
  BY <1>1, <1>2

(* Only a server whose certificate was accepted is written to.                     *)
LEMMA WriteKeeps == ASSUME HttpInv, WriteRequest PROVE HttpInv'
<1>1. exchange' = [exchange EXCEPT !.at = "read"] /\ At("write")
      /\ credentialAt' = credentialAt \cup {peer.certificate}
      /\ UNCHANGED <<peer, read, outcome, held, providerJobs, requests>>
  BY DEF WriteRequest
<1>2. exchange \in Exchanges /\ peer \in Peers /\ read \in 0..Pieces
  BY DEF HttpInv, HttpRecords
<1>3. exchange' \in Exchanges /\ exchange'.kind = exchange.kind /\ exchange'.job = exchange.job /\ exchange'.at = "read"
  BY <1>1, <1>2 DEF Exchanges, Places
<1>4. AnswerArrives' /\ HostProved' /\ CredentialOnlyToTheHost'
  BY <1>1, <1>3 DEF HttpInv, AnswerArrives, HostProved, CredentialOnlyToTheHost, At
<1>5. QED
  BY <1>1, <1>2, <1>3, <1>4, ExchangeKeeps DEF At

LEMMA PiecesKeep == ASSUME HttpInv, ReadPiece \/ PieceArrives \/ PeerCloses PROVE HttpInv'
<1> USE DEF Pieces
<1>1. exchange \in Exchanges /\ peer \in Peers /\ read \in 0..Pieces /\ peer.sent \in 0..Pieces
  BY DEF HttpInv, HttpRecords, Peers
<1>2. ~At("idle") /\ UNCHANGED <<exchange, outcome, held, providerJobs, requests, credentialAt>>
  BY DEF ReadPiece, PieceArrives, PeerCloses, At
<1>3. CASE ReadPiece
  <2>1. peer' = peer /\ read' = read + 1 /\ read < peer.sent
    BY <1>3 DEF ReadPiece
  <2>2. AnswerArrives' /\ HostProved' /\ CredentialOnlyToTheHost' /\ read' \in 0..Pieces
    BY <1>1, <1>2, <2>1 DEF HttpInv, AnswerArrives, HostProved, CredentialOnlyToTheHost, At
  <2>3. QED
    BY <1>1, <1>2, <2>1, <2>2, ExchangeKeeps
<1>4. CASE PieceArrives \/ PeerCloses
  <2>1. read' = read /\ peer' \in Peers /\ peer'.answer = peer.answer /\ peer'.certificate = peer.certificate
        /\ peer'.sent >= peer.sent /\ (peer'.sent > 0 => peer.answer.status # "none")
    <3>1. \/ peer' = [peer EXCEPT !.sent = @ + 1] /\ peer.sent < 4 /\ peer.answer.status # "none"
          \/ peer' = [peer EXCEPT !.closed = TRUE]
      BY <1>4 DEF PieceArrives, PeerCloses
    <3>2. read' = read
      BY <1>4 DEF PieceArrives, PeerCloses
    <3>3. peer.sent > 0 => peer.answer.status # "none"
      BY DEF HttpInv, AnswerArrives
    <3>4. CASE peer' = [peer EXCEPT !.sent = @ + 1] /\ peer.sent < 4 /\ peer.answer.status # "none"
      <4>1. peer.sent + 1 \in 0..4
        BY <1>1, <3>4
      <4>2. QED
        BY <1>1, <3>2, <3>4, <4>1 DEF Peers
    <3>5. CASE peer' = [peer EXCEPT !.closed = TRUE]
      <4>1. peer' \in Peers /\ peer'.sent = peer.sent /\ peer'.answer = peer.answer /\ peer'.certificate = peer.certificate
        BY <1>1, <3>5 DEF Peers
      <4>2. QED
        BY <1>1, <3>2, <3>3, <4>1
    <3>6. QED
      BY <3>1, <3>4, <3>5
  <2>2. AnswerArrives' /\ HostProved' /\ CredentialOnlyToTheHost'
    <3>1. peer'.sent \in 0..Pieces
      BY <2>1 DEF Peers
    <3>2. QED
      BY <1>1, <1>2, <2>1, <3>1 DEF HttpInv, AnswerArrives, HostProved, CredentialOnlyToTheHost, At
  <2>3. QED
    BY <1>1, <1>2, <2>1, <2>2, ExchangeKeeps
<1>5. QED
  BY <1>3, <1>4

LEMMA TickKeeps == ASSUME HttpInv, TickPasses PROVE HttpInv'
<1> USE HttpAssumption
<1>1. exchange \in Exchanges /\ peer \in Peers /\ read \in 0..Pieces /\ exchange.left > 0
      /\ exchange' = [exchange EXCEPT !.left = @ - 1]
      /\ UNCHANGED <<peer, read, outcome, held, providerJobs, credentialAt, requests>>
  BY DEF HttpInv, HttpRecords, TickPasses
<1>2. exchange' \in Exchanges /\ exchange'.kind = exchange.kind /\ exchange'.job = exchange.job /\ exchange'.at = exchange.at
  BY <1>1 DEF Exchanges
<1>3. AnswerArrives' /\ HostProved' /\ CredentialOnlyToTheHost'
  BY <1>1, <1>2 DEF HttpInv, AnswerArrives, HostProved, CredentialOnlyToTheHost, At
<1>4. QED
  BY <1>1, <1>2, <1>3, ExchangeKeeps

LEMMA CodesOfStatus == \A status \in {"404", "409", "5xx"} : CodeOf(status) \in Codes
BY Zenon DEF CodeOf, Codes

(* What the client makes of an answer says no more than the answer.                *)
LEMMA EndKeeps == ASSUME HttpInv, EndOfStream PROVE HttpInv'
<1> USE DEF Pieces
<1> DEFINE answer  == peer.answer
           result  == Read(answer)
           Refused == result.ok = FALSE /\ result \in ExchangeOutcomes
           Gone    == /\ exchange.kind = "cancel" /\ answer.status \in {"2xx", "404", "409"} /\ read # 0
                      /\ result = Returned(TRUE, "none", "none")
           Done    == /\ exchange.kind # "cancel" /\ answer.status = "2xx" /\ answer.value # "odd" /\ read # 0
                      /\ result = [Returned(TRUE, "none", answer.value) EXCEPT !.job = answer.job]
<1>1. /\ SendReturns(result) /\ outcome' = result
      /\ held' = IF result.ok /\ exchange.kind = "submit" THEN held \cup {result.job} ELSE held
      /\ UNCHANGED <<providerJobs, credentialAt, requests>>
      /\ At("read") /\ read = peer.sent
  BY DEF EndOfStream, SendReturns
<1>2. /\ exchange \in Exchanges /\ exchange.kind \in Kinds /\ answer \in Answers
      /\ read # 0 => answer.status # "none"
  <2>1. exchange \in Exchanges /\ peer \in Peers /\ read \in 0..4
    BY DEF HttpInv, HttpRecords
  <2>2. QED
    BY <1>1, <2>1 DEF HttpInv, AnswerArrives, At, Peers
<1>3. CASE Refused
  <2>1. held' = held
    BY <1>1, <1>3
  <2>2. OutcomeStays' /\ OutcomeIsTrue' /\ HeldJobsExist' /\ held' \subseteq JobIds /\ CredentialOnlyToTheHost'
    BY <1>1, <1>3, <2>1 DEF HttpInv, HttpRecords, OutcomeStays, OutcomeIsTrue, HeldJobsExist, CredentialOnlyToTheHost
  <2>3. QED
    BY <1>1, <1>3, <2>2, ReturnKeeps
<1>4. CASE Gone
  <2>1. result \in ExchangeOutcomes /\ result.kind = "cancel" /\ result.job = exchange.job
    BY <1>2, <1>4 DEF Returned, ExchangeOutcomes, Exchanges, Codes, Values, JobStates
  <2>2. exchange.job \in held /\ providerJobs[exchange.job] # "running"
    BY <1>1, <1>2, <1>4 DEF HttpInv, AboutHeldJob, AnswerIsTrue, Truthful, At
  <2>3. exchange.job \in JobIds /\ providerJobs[exchange.job] # "none"
    BY <2>2 DEF HttpInv, HttpRecords, HeldJobsExist
  <2>4. held' = held
    BY <1>1, <1>4
  <2>5. OutcomeStays' /\ OutcomeIsTrue' /\ HeldJobsExist' /\ held' \subseteq JobIds /\ CredentialOnlyToTheHost'
    BY <1>1, <2>1, <2>2, <2>3, <2>4
    DEF HttpInv, HttpRecords, OutcomeStays, OutcomeIsTrue, HeldJobsExist, CredentialOnlyToTheHost, Kinds
  <2>6. QED
    BY <1>1, <2>1, <2>5, ReturnKeeps
<1>5. CASE Done
  <2>1. result \in ExchangeOutcomes /\ result.kind = exchange.kind /\ result.job = answer.job
        /\ result.value = answer.value /\ result.ok = TRUE
    BY <1>2, <1>5 DEF Returned, ExchangeOutcomes, Exchanges, Answers, Codes
  <2>2. Truthful(providerJobs, exchange.kind, exchange.job, answer)
    BY <1>5 DEF HttpInv, AnswerIsTrue
  <2>3. answer.job \in JobIds /\ providerJobs[answer.job] # "none"
    BY <1>2, <1>5, <2>2 DEF Truthful
  <2>4. held' \subseteq JobIds /\ HeldJobsExist' /\ CredentialOnlyToTheHost' /\ held \subseteq held'
        /\ (exchange.kind = "submit" => answer.job \in held')
    BY <1>1, <2>1, <2>3 DEF HttpInv, HttpRecords, HeldJobsExist, CredentialOnlyToTheHost
  <2>5. OutcomeStays' /\ OutcomeIsTrue'
    BY <1>1, <1>2, <1>5, <2>1, <2>2, <2>3, <2>4 DEF OutcomeStays, OutcomeIsTrue, Truthful, Kinds
  <2>6. QED
    BY <1>1, <2>1, <2>4, <2>5, ReturnKeeps
<1>6. Refused \/ Gone \/ Done
  <2>1. \A code \in Codes : /\ Returned(FALSE, code, "none") \in ExchangeOutcomes
                            /\ Returned(FALSE, code, "none").ok = FALSE
    BY <1>2 DEF Returned, ExchangeOutcomes, Exchanges, Values, JobStates
  <2>2. CASE read = 0
    BY <2>1, <2>2 DEF Read, Codes
  <2>3. CASE read # 0 /\ exchange.kind = "cancel" /\ answer.status \in {"2xx", "404", "409"}
    BY <2>3 DEF Read
  <2>4. CASE /\ read # 0 /\ ~(exchange.kind = "cancel" /\ answer.status \in {"2xx", "404", "409"})
             /\ answer.status # "2xx"
    <3>1. answer.status \in {"404", "409", "5xx"}
      BY <1>2, <2>4 DEF Answers
    <3>2. CodeOf(answer.status) \in Codes
      BY <3>1, CodesOfStatus
    <3>3. result = Returned(FALSE, CodeOf(answer.status), "none")
      BY <2>4 DEF Read
    <3>4. QED
      BY <2>1, <3>2, <3>3
  <2>5. CASE read # 0 /\ exchange.kind # "cancel" /\ answer.status = "2xx"
    BY <2>1, <2>5 DEF Read, Codes
  <2>6. QED
    BY <2>2, <2>3, <2>4, <2>5
<1>7. QED
  BY <1>3, <1>4, <1>5, <1>6

-----------------------------------------------------------------------------------
(* The provider acts on a request: what it answers is so.                          *)
LEMMA PerformedIs ==
  ASSUME NEW kind, NEW job
  PROVE  /\ kind = "submit" =>
              Performed(kind, job) = [jobs   |-> [providerJobs EXCEPT ![NewJob] = "running"],
                                      answer |-> AnswerOf("2xx", NewJob, "submitted")]
         /\ kind = "poll" /\ providerJobs[job] = "forgotten" =>
              Performed(kind, job) = [jobs |-> providerJobs, answer |-> AnswerOf("404", job, "none")]
         /\ kind = "poll" /\ providerJobs[job] # "forgotten" =>
              Performed(kind, job) = [jobs |-> providerJobs, answer |-> AnswerOf("2xx", job, providerJobs[job])]
         /\ kind = "fetch" /\ providerJobs[job] = "succeeded" =>
              Performed(kind, job) = [jobs |-> providerJobs, answer |-> AnswerOf("2xx", job, "media")]
         /\ kind = "fetch" /\ providerJobs[job] # "succeeded" =>
              Performed(kind, job) = [jobs |-> providerJobs, answer |-> AnswerOf("404", job, "none")]
         /\ kind = "cancel" /\ providerJobs[job] = "running" =>
              Performed(kind, job) = [jobs   |-> [providerJobs EXCEPT ![job] = "failed"],
                                      answer |-> AnswerOf("2xx", job, "none")]
         /\ kind = "cancel" /\ providerJobs[job] # "running" =>
              \E status \in {"404", "409"} :
                Performed(kind, job) = [jobs |-> providerJobs, answer |-> AnswerOf(status, job, "none")]
<1>1. kind = "submit" =>
        Performed(kind, job) = [jobs   |-> [providerJobs EXCEPT ![NewJob] = "running"],
                                answer |-> AnswerOf("2xx", NewJob, "submitted")]
  BY Zenon DEF Performed
<1>2. kind = "poll" /\ providerJobs[job] = "forgotten" =>
        Performed(kind, job) = [jobs |-> providerJobs, answer |-> AnswerOf("404", job, "none")]
  BY Zenon DEF Performed
<1>3. kind = "poll" /\ providerJobs[job] # "forgotten" =>
        Performed(kind, job) = [jobs |-> providerJobs, answer |-> AnswerOf("2xx", job, providerJobs[job])]
  BY Zenon DEF Performed
<1>4. kind = "fetch" /\ providerJobs[job] = "succeeded" =>
        Performed(kind, job) = [jobs |-> providerJobs, answer |-> AnswerOf("2xx", job, "media")]
  BY Zenon DEF Performed
<1>5. kind = "fetch" /\ providerJobs[job] # "succeeded" =>
        Performed(kind, job) = [jobs |-> providerJobs, answer |-> AnswerOf("404", job, "none")]
  BY Zenon DEF Performed
<1>6. kind = "cancel" /\ providerJobs[job] = "running" =>
        Performed(kind, job) = [jobs   |-> [providerJobs EXCEPT ![job] = "failed"],
                                answer |-> AnswerOf("2xx", job, "none")]
  BY Zenon DEF Performed
<1>7. ASSUME kind = "cancel", providerJobs[job] # "running"
      PROVE  \E status \in {"404", "409"} :
                Performed(kind, job) = [jobs |-> providerJobs, answer |-> AnswerOf(status, job, "none")]
  <2>1. Performed(kind, job) =
          [jobs |-> providerJobs, answer |-> AnswerOf(IF providerJobs[job] = "forgotten" THEN "404" ELSE "409", job, "none")]
    BY Zenon, <1>7 DEF Performed
  <2>2. QED
    BY <2>1
<1>8. QED
  BY <1>1, <1>2, <1>3, <1>4, <1>5, <1>6, <1>7

(* The jobs of the provider only move on.                                          *)
LEMMA JobsMoveOn ==
  ASSUME HttpInv, UNCHANGED <<exchange, read, outcome, held, credentialAt, requests>>,
         providerJobs' \in [JobIds -> JobStates],
         \A id \in JobIds :
           /\ providerJobs[id] # "none" => providerJobs'[id] # "none"
           /\ providerJobs[id] \in {"succeeded", "failed"} => providerJobs'[id] \in {providerJobs[id], "forgotten"}
           /\ providerJobs[id] = "forgotten" => providerJobs'[id] = "forgotten"
  PROVE  OutcomeStays' /\ OutcomeIsTrue' /\ HeldJobsExist' /\ CredentialOnlyToTheHost'
<1>1. held \subseteq JobIds /\ providerJobs \in [JobIds -> JobStates]
  BY DEF HttpInv, HttpRecords
<1>2. HeldJobsExist' /\ CredentialOnlyToTheHost' /\ OutcomeStays'
  BY <1>1 DEF HttpInv, HeldJobsExist, CredentialOnlyToTheHost, OutcomeStays
<1>3. OutcomeIsTrue'
  <2>1. CASE outcome.ok
    <3>1. outcome.job \in JobIds /\ providerJobs[outcome.job] # "none" /\ OutcomeIsTrue
      BY <2>1 DEF HttpInv, OutcomeStays
    <3>2. QED
      BY <1>1, <2>1, <3>1 DEF OutcomeIsTrue, JobStates
  <2>2. CASE ~outcome.ok
    BY <2>2 DEF OutcomeIsTrue
  <2>3. QED
    BY <2>1, <2>2
<1>4. QED
  BY <1>2, <1>3

LEMMA MovesKeep ==
  ASSUME HttpInv, NEW id \in JobIds, NEW to \in {"succeeded", "failed", "forgotten"}, JobMoves(id, to)
  PROVE  HttpInv'
<1>1. /\ providerJobs' = [providerJobs EXCEPT ![id] = to]
      /\ \/ providerJobs[id] = "running" /\ to \in {"succeeded", "failed"}
         \/ providerJobs[id] \in {"succeeded", "failed"} /\ to = "forgotten"
      /\ UNCHANGED <<exchange, peer, read, outcome, held, credentialAt, requests>>
  BY DEF JobMoves, exchangeVars
<1>2. providerJobs \in [JobIds -> JobStates] /\ exchange \in Exchanges
  BY DEF HttpInv, HttpRecords
<1>3. providerJobs' \in [JobIds -> JobStates]
  BY <1>1, <1>2 DEF JobStates
<1>4. \A other \in JobIds :
        /\ providerJobs[other] # "none" <=> providerJobs'[other] # "none"
        /\ providerJobs[other] \in {"succeeded", "failed"} => providerJobs'[other] \in {providerJobs[other], "forgotten"}
        /\ providerJobs[other] = "forgotten" => providerJobs'[other] = "forgotten"
  BY <1>1, <1>2
<1>5. HttpRecords' /\ AnswerArrives' /\ HostProved' /\ AboutHeldJob'
  BY <1>1, <1>3 DEF HttpInv, HttpRecords, AnswerArrives, HostProved, AboutHeldJob, At
<1>6. JobsInTurn'
  BY <1>1, <1>4 DEF HttpInv, JobsInTurn, At
<1>7. AnswerIsTrue'
  <2>1. SUFFICES ASSUME peer.answer.status # "none" PROVE AnswerIsTrue'
    BY <1>1 DEF AnswerIsTrue
  <2>2. exchange.at # "idle" /\ exchange.kind \in Kinds /\ Truthful(providerJobs, exchange.kind, exchange.job, peer.answer)
    BY <2>1 DEF HttpInv, AnswerArrives, AnswerIsTrue, At
  <2>3. exchange.kind = "cancel" => exchange.job \in JobIds /\ providerJobs[exchange.job] # "none"
    BY <2>2 DEF HttpInv, HttpRecords, AboutHeldJob, HeldJobsExist, At
  <2>4. QED
    BY <1>1, <1>4, <2>2, <2>3 DEF AnswerIsTrue, Truthful
<1>8. QED
  BY <1>1, <1>3, <1>4, <1>5, <1>6, <1>7, JobsMoveOn DEF HttpInv

(* A provider has an identifier left for a job that is submitted.                  *)
LEMMA NewJobIsNext ==
  ASSUME HttpInv, Unanswered
  PROVE  /\ NewJob \in JobIds /\ providerJobs[NewJob] = "none"
         /\ \E n \in 0..requests :
              /\ n < requests /\ NewJob = n + 1
              /\ \A id \in JobIds : providerJobs[id] # "none" <=> id <= n
<1> USE HttpAssumption
<1>1. PICK n \in 0..requests : n < requests /\ \A id \in JobIds : providerJobs[id] # "none" <=> id <= n
  BY DEF HttpInv, JobsInTurn, Unanswered, At
<1>2. requests \in 0..MaxRequests
  BY DEF HttpInv, HttpRecords
<1>3. n + 1 \in JobIds /\ \A id \in JobIds : providerJobs[id] = "none" <=> n + 1 <= id
  BY <1>1, <1>2 DEF JobIds
<1>4. NewJob = n + 1
  <2>1. \A id \in JobIds : id \in Int
    BY DEF JobIds
  <2>2. \A id \in JobIds : (providerJobs[id] = "none" /\ \A other \in JobIds : providerJobs[other] = "none" => id <= other)
                            <=> id = n + 1
    BY <1>3, <2>1
  <2>3. QED
    BY <1>3, <2>2 DEF NewJob
<1>5. QED
  BY <1>1, <1>3, <1>4

LEMMA AnswerKeeps == ASSUME HttpInv, ProviderAnswers PROVE HttpInv'
<1> USE HttpAssumption
<1> DEFINE kind == exchange.kind
           job  == exchange.job
           answer == peer'.answer
           Moved == /\ providerJobs' \in [JobIds -> JobStates]
                    /\ \A id \in JobIds :
                         /\ providerJobs[id] # "none" => providerJobs'[id] # "none"
                         /\ providerJobs[id] \in {"succeeded", "failed"} => providerJobs'[id] \in {providerJobs[id], "forgotten"}
                         /\ providerJobs[id] = "forgotten" => providerJobs'[id] = "forgotten"
           Numbered == \E n \in 0..requests : \A id \in JobIds : providerJobs'[id] # "none" <=> id <= n
           AnswerTrue == answer \in Answers /\ answer.status # "none" /\ Truthful(providerJobs', kind, job, answer)
<1>1. /\ providerJobs' = Performed(kind, job).jobs
      /\ peer' = [peer EXCEPT !.answer = Performed(kind, job).answer]
      /\ UNCHANGED <<exchange, read, outcome, held, credentialAt, requests>>
      /\ Unanswered /\ At("read") /\ peer.answer.status = "none"
  BY DEF ProviderAnswers, Unanswered
<1>2. /\ exchange \in Exchanges /\ peer \in Peers /\ providerJobs \in [JobIds -> JobStates] /\ held \subseteq JobIds
      /\ kind \in Kinds
  BY <1>1 DEF HttpInv, HttpRecords, AnswerArrives, At
<1>3. answer = Performed(kind, job).answer
  BY <1>1, <1>2 DEF Peers
<1>4. kind # "submit" => job \in held /\ job \in JobIds /\ providerJobs[job] # "none"
  BY <1>1, <1>2 DEF HttpInv, AboutHeldJob, HeldJobsExist, At
<1>5. ASSUME kind = "submit" PROVE Moved /\ Numbered /\ AnswerTrue
  <2>1. providerJobs' = [providerJobs EXCEPT ![NewJob] = "running"] /\ answer = AnswerOf("2xx", NewJob, "submitted")
    <3>1. Performed(kind, job) = [jobs   |-> [providerJobs EXCEPT ![NewJob] = "running"],
                                  answer |-> AnswerOf("2xx", NewJob, "submitted")]
      BY <1>5, PerformedIs
    <3>2. QED
      BY <1>1, <1>3, <3>1
  <2>2. NewJob \in JobIds /\ providerJobs[NewJob] = "none"
    BY <1>1, NewJobIsNext
  <2>3. Moved
    BY <1>2, <2>1, <2>2 DEF JobStates
  <2>4. Numbered
    <3>1. PICK n \in 0..requests :
            n < requests /\ NewJob = n + 1 /\ \A id \in JobIds : providerJobs[id] # "none" <=> id <= n
      BY <1>1, NewJobIsNext
    <3>2. n + 1 \in 0..requests
      BY <3>1 DEF HttpInv, HttpRecords
    <3>3. \A id \in JobIds : providerJobs'[id] # "none" <=> id <= n + 1
      BY <1>2, <2>1, <2>2, <3>1 DEF JobIds
    <3>4. QED
      BY <3>2, <3>3
  <2>5. AnswerTrue
    <3>1. answer.status = "2xx" /\ answer.value = "submitted" /\ answer.job = NewJob /\ answer \in Answers
      BY <2>1, <2>2 DEF AnswerOf, Answers, Values
    <3>2. providerJobs'[NewJob] = "running"
      BY <1>2, <2>1, <2>2
    <3>3. Truthful(providerJobs', kind, job, answer)
      BY <1>1, <1>5, <2>2, <3>1, <3>2 DEF Truthful
    <3>4. QED
      BY <3>1, <3>3
  <2>6. QED
    BY <2>3, <2>4, <2>5
<1>6. ASSUME kind # "submit", providerJobs' = providerJobs PROVE Moved /\ Numbered /\ AnswerTrue
  <2>1. Moved /\ Numbered
    BY <1>1, <1>2, <1>6 DEF HttpInv, JobsInTurn, JobStates
  <2>2. PICK status \in {"2xx", "404", "409"}, value \in Values :
          /\ answer = AnswerOf(status, job, value)
          /\ kind = "poll" /\ status = "2xx" => value = providerJobs[job]
          /\ kind = "fetch" /\ status = "2xx" => providerJobs[job] = "succeeded"
          /\ kind = "cancel" => providerJobs[job] # "running"
    <3>1. "none" \in Values /\ "media" \in Values /\ providerJobs[job] \in Values
      BY <1>2, <1>4, <1>6 DEF Values, JobStates
    <3>2. CASE kind = "poll"
      BY <1>3, <3>1, <3>2, PerformedIs
    <3>3. CASE kind = "fetch"
      BY <1>3, <3>1, <3>3, PerformedIs
    <3>4. CASE kind = "cancel"
      <4>1. providerJobs[job] # "running"
        <5>1. SUFFICES ASSUME providerJobs[job] = "running" PROVE FALSE
          OBVIOUS
        <5>2. providerJobs' = [providerJobs EXCEPT ![job] = "failed"]
          <6>1. Performed(kind, job) = [jobs   |-> [providerJobs EXCEPT ![job] = "failed"],
                                        answer |-> AnswerOf("2xx", job, "none")]
            BY <3>4, <5>1, PerformedIs
          <6>2. QED
            BY <1>1, <6>1
        <5>3. QED
          BY <1>2, <1>4, <1>6, <5>1, <5>2
      <4>2. PICK status \in {"404", "409"} :
              Performed(kind, job) = [jobs |-> providerJobs, answer |-> AnswerOf(status, job, "none")]
        BY <3>4, <4>1, PerformedIs
      <4>3. QED
        BY <1>3, <3>1, <3>4, <4>1, <4>2
    <3>5. QED
      BY <1>2, <1>6, <3>2, <3>3, <3>4 DEF Kinds
  <2>3. AnswerTrue
    <3>1. answer.status = status /\ answer.value = value /\ answer.job = job /\ answer \in Answers
      BY <1>4, <1>6, <2>2 DEF AnswerOf, Answers
    <3>2. QED
      BY <1>4, <1>6, <2>2, <3>1 DEF Truthful, Values, JobStates
  <2>4. QED
    BY <2>1, <2>3
<1>7. ASSUME kind = "cancel", providerJobs[job] = "running" PROVE Moved /\ Numbered /\ AnswerTrue
  <2>1. Performed(kind, job) = [jobs   |-> [providerJobs EXCEPT ![job] = "failed"],
                                answer |-> AnswerOf("2xx", job, "none")]
    BY <1>7, PerformedIs
  <2>2. providerJobs' = [providerJobs EXCEPT ![job] = "failed"] /\ answer = AnswerOf("2xx", job, "none")
    BY <1>1, <1>3, <2>1
  <2>3. Moved
    BY <1>2, <1>7, <2>2 DEF JobStates
  <2>4. Numbered
    <3>1. \A id \in JobIds : providerJobs'[id] # "none" <=> providerJobs[id] # "none"
      BY <1>2, <1>7, <2>2
    <3>2. QED
      BY <3>1 DEF HttpInv, JobsInTurn
  <2>5. AnswerTrue
    <3>1. answer.status = "2xx" /\ answer \in Answers /\ providerJobs'[job] = "failed"
      BY <1>2, <1>4, <1>7, <2>2 DEF AnswerOf, Answers, Values, JobStates
    <3>2. QED
      BY <1>7, <3>1 DEF Truthful
  <2>6. QED
    BY <2>3, <2>4, <2>5
<1>8. Moved /\ Numbered /\ AnswerTrue
  <2>1. kind # "submit" /\ ~(kind = "cancel" /\ providerJobs[job] = "running") => providerJobs' = providerJobs
    BY <1>1, <1>2, PerformedIs DEF Kinds
  <2>2. QED
    BY <1>5, <1>6, <1>7, <2>1
<1>9. OutcomeStays' /\ OutcomeIsTrue' /\ HeldJobsExist' /\ CredentialOnlyToTheHost'
  BY <1>1, <1>8, JobsMoveOn
<1>10. HttpRecords' /\ peer'.sent = peer.sent /\ peer'.certificate = peer.certificate
  <2>1. peer' \in Peers /\ peer'.sent = peer.sent /\ peer'.certificate = peer.certificate
    BY <1>1, <1>2, <1>3, <1>8 DEF Peers
  <2>2. QED
    BY <1>1, <1>8, <2>1 DEF HttpInv, HttpRecords
<1>11. AnswerArrives' /\ HostProved' /\ AboutHeldJob' /\ AnswerIsTrue' /\ JobsInTurn'
  <2>1. AnswerArrives' /\ HostProved' /\ AboutHeldJob'
    BY <1>1, <1>8, <1>10 DEF HttpInv, AnswerArrives, HostProved, AboutHeldJob, At
  <2>2. AnswerIsTrue' /\ JobsInTurn'
    BY <1>1, <1>8 DEF AnswerIsTrue, JobsInTurn
  <2>3. QED
    BY <2>1, <2>2
<1>12. QED
  BY <1>9, <1>10, <1>11 DEF HttpInv

LEMMA RefuseKeeps ==
  ASSUME HttpInv, NEW status \in {"5xx", "2xx"}, ProviderRefuses(AnswerOf(status, 0, "odd"))
  PROVE  HttpInv'
<1> DEFINE answer == AnswerOf(status, 0, "odd")
<1>1. /\ peer' = [peer EXCEPT !.answer = answer] /\ At("read") /\ peer.answer.status = "none"
      /\ status = "2xx" => exchange.kind # "cancel"
      /\ UNCHANGED <<exchange, read, outcome, held, providerJobs, credentialAt, requests>>
  BY DEF ProviderRefuses, Unanswered, AnswerOf
<1>2. answer \in Answers /\ answer.status = status /\ answer.value = "odd"
  BY DEF AnswerOf, Answers, Values
<1>3. peer' \in Peers /\ peer'.answer = answer /\ peer'.sent = peer.sent /\ peer'.certificate = peer.certificate
  BY <1>1, <1>2 DEF HttpInv, HttpRecords, Peers
<1>4. HttpRecords' /\ AnswerArrives' /\ HostProved' /\ AboutHeldJob'
  BY <1>1, <1>2, <1>3 DEF HttpInv, HttpRecords, AnswerArrives, HostProved, AboutHeldJob, At
<1>5. AnswerIsTrue' /\ JobsInTurn'
  BY <1>1, <1>2, <1>3 DEF HttpInv, AnswerIsTrue, Truthful, JobsInTurn, At
<1>6. OutcomeStays' /\ OutcomeIsTrue' /\ HeldJobsExist' /\ CredentialOnlyToTheHost'
  BY <1>1 DEF HttpInv, OutcomeStays, OutcomeIsTrue, HeldJobsExist, CredentialOnlyToTheHost
<1>7. QED
  BY <1>4, <1>5, <1>6 DEF HttpInv

LEMMA HttpStep == HttpInv /\ [HttpNext]_httpVars => HttpInv'
<1> SUFFICES ASSUME HttpInv, [HttpNext]_httpVars PROVE HttpInv'
  OBVIOUS
<1>1. CASE HttpNext
  <2>1. ClientStep => HttpInv'
    BY ResolveKeeps, BreakKeeps, HandshakeKeeps, WriteKeeps, PiecesKeep, EndKeeps DEF ClientStep
  <2>2. (\E kind \in Kinds, job \in JobIds, url \in {"https", "http", "none"} : Request(kind, job, url)) => HttpInv'
    BY RequestKeeps
  <2>3. QED
    BY <1>1, <2>1, <2>2, ConnectKeeps, BreakKeeps, HandshakeKeeps, AnswerKeeps, RefuseKeeps, PiecesKeep,
       MovesKeep, TickKeeps DEF HttpNext, Kinds
<1>2. CASE UNCHANGED httpVars
  BY <1>2 DEF HttpInv, httpVars, exchangeVars, HttpRecords, AnswerArrives, JobsInTurn, HostProved, AboutHeldJob,
              AnswerIsTrue, OutcomeStays, CredentialOnlyToTheHost, OutcomeIsTrue, HeldJobsExist, At
<1>3. QED
  BY <1>1, <1>2

(* An answer is believed only from a host whose certificate was proved, what a      *)
(* request's outcome says of the job is so at the provider, and a job the client    *)
(* holds exists there: for any timeouts and any number of requests.                 *)
THEOREM HttpIsSound == HttpSpec => []HttpSound
<1>1. HttpInv => HttpSound
  BY DEF HttpInv, HttpSound, HttpTypeOK, HttpRecords, Exchanges, Places, Peers, JobStates
<1>2. QED
  BY HttpStarts, HttpStep, <1>1, PTL DEF HttpSpec

-----------------------------------------------------------------------------------
(* Generated media. *)

Docs == [tracks : SUBSET Tracks, clips : SUBSET Clips, assets : SUBSET Assets]

AssetsOf(d) == {c.asset : c \in d.clips}

(* A document the engine accepts, every clip of which finds its media in the table.*)
DocSound(d) ==
  /\ d \in Docs
  /\ \A c \in d.clips : c.track \in d.tracks /\ c.asset \in d.assets
  /\ \A c, e \in d.clips : c.track = e.track /\ c.slot = e.slot => c = e

(* Command c leads from one document to another.                                   *)
Leads(c, before, after) ==
  \/ /\ c.kind = "place" /\ c.clip.track \in before.tracks /\ ~Overlaps(before, c.clip)
     /\ c.added <=> c.clip.asset \notin before.assets
     /\ after = [before EXCEPT !.clips = @ \cup {c.clip}, !.assets = @ \cup {c.clip.asset}]
  \/ /\ c.kind = "drop" /\ c.track \in before.tracks
     /\ c.clips = {e \in before.clips : e.track = c.track}
     /\ after = [before EXCEPT !.tracks = @ \ {c.track}, !.clips = @ \ c.clips]

(* Entry i of a history h has the document d[i] on its far side, and towards the   *)
(* present d[i + 1], or the present document x for the newest entry.               *)
Joined(dir, c, near, far) == IF dir = "undo" THEN Leads(c, far, near) ELSE Leads(c, near, far)

Trail(dir, h, d, x) ==
  /\ Len(d) = Len(h)
  /\ \A i \in 1..Len(h) :
       /\ DocSound(d[i])
       /\ Joined(dir, h[i], IF i = Len(h) THEN x ELSE d[i + 1], d[i])

(* The library covers the document and all that undo can bring back.               *)
Covers(lib, d, x) ==
  /\ AssetsOf(x) \subseteq lib
  /\ \A i \in 1..Len(d) : AssetsOf(d[i]) \subseteq lib

(* The media a placement brought to the library is used by nothing before it.      *)
Exclusive(h, d) ==
  \A i \in 1..Len(h) : h[i].kind = "place" /\ h[i].imported =>
    \A j \in 1..i : h[i].clip.asset \notin AssetsOf(d[j])

HistoriesInv ==
  /\ undo \in Seq(Commands) /\ redo \in Seq(Commands)
  /\ DocSound(doc) /\ library \subseteq Assets
  /\ \E past, future \in Seq(Docs) :
       /\ Trail("undo", undo, past, doc) /\ Trail("redo", redo, future, doc)
       /\ Covers(library, past, doc) /\ Exclusive(undo, past)

-----------------------------------------------------------------------------------
LEMMA Joining ==
  ASSUME NEW S, NEW s \in Seq(S), NEW e \in S
  PROVE  /\ Len(s) \in Nat /\ Append(s, e) \in Seq(S) /\ Len(Append(s, e)) = Len(s) + 1
         /\ \A i \in 1..Len(s) : Append(s, e)[i] = s[i]
         /\ Append(s, e)[Len(s) + 1] = e
OBVIOUS

LEMMA Shortening ==
  ASSUME NEW S, NEW s \in Seq(S), Len(s) # 0
  PROVE  /\ Len(s) \in Nat \ {0} /\ Front(s) \in Seq(S) /\ Len(Front(s)) = Len(s) - 1
         /\ \A i \in 1..(Len(s) - 1) : Front(s)[i] = s[i]
         /\ Last(s) = s[Len(s)] /\ Last(s) \in S
<1>1. Len(s) \in Nat \ {0}
  OBVIOUS
<1>2. Last(s) = s[Len(s)] /\ Last(s) \in S
  BY <1>1 DEF Last
<1>3. Front(s) = SubSeq(s, 1, Len(s) - 1)
  BY DEF Front
<1> DEFINE n == Len(s) - 1
<1>4. n \in Nat /\ n <= Len(s)
  BY <1>1
<1>5. SubSeq(s, 1, n) \in Seq(S) /\ Len(SubSeq(s, 1, n)) = n /\ \A i \in 1..n : SubSeq(s, 1, n)[i] = s[i]
  BY SMTT(30), <1>4, SubSeqProperties
<1>6. QED
  BY <1>1, <1>2, <1>3, <1>5

(* A trail grows by a command, and gives its newest one up.                        *)
LEMMA TrailGrows ==
  ASSUME NEW dir, NEW h \in Seq(Commands), NEW d \in Seq(Docs), NEW x, NEW y, NEW c \in Commands,
         Trail(dir, h, d, x), DocSound(x), Joined(dir, c, y, x)
  PROVE  Trail(dir, Append(h, c), Append(d, x), y) /\ Append(d, x) \in Seq(Docs)
<1> DEFINE h2 == Append(h, c)
           d2 == Append(d, x)
<1>1. x \in Docs
  BY DEF DocSound
<1>2. Len(h) \in Nat /\ Len(h2) = Len(h) + 1 /\ h2[Len(h) + 1] = c
      /\ \A i \in 1..Len(h) : h2[i] = h[i]
  BY Joining
<1>3. d2 \in Seq(Docs) /\ Len(d) = Len(h) /\ Len(d2) = Len(h) + 1 /\ d2[Len(h) + 1] = x
      /\ \A i \in 1..Len(h) : d2[i] = d[i]
  BY <1>1, Joining DEF Trail
<1> HIDE DEF h2, d2
<1>4. ASSUME NEW i \in 1..Len(h2)
      PROVE  DocSound(d2[i]) /\ Joined(dir, h2[i], IF i = Len(h2) THEN y ELSE d2[i + 1], d2[i])
  <2>1. CASE i = Len(h) + 1
    BY <1>2, <1>3, <2>1
  <2>2. CASE i = Len(h)
    <3>1. d2[i + 1] = x /\ i # Len(h2) /\ h2[i] = h[i] /\ d2[i] = d[i] /\ i \in 1..Len(h)
      BY <1>2, <1>3, <2>2
    <3>2. DocSound(d[i]) /\ Joined(dir, h[i], x, d[i])
      BY <2>2, <3>1 DEF Trail
    <3>3. QED
      BY <3>1, <3>2
  <2>3. CASE i < Len(h)
    <3>1. i \in 1..Len(h) /\ i + 1 \in 1..Len(h) /\ i # Len(h2)
      BY <1>2, <2>3
    <3>2. d2[i + 1] = d[i + 1] /\ h2[i] = h[i] /\ d2[i] = d[i]
      BY <1>2, <1>3, <3>1
    <3>3. DocSound(d[i]) /\ Joined(dir, h[i], d[i + 1], d[i])
      BY <2>3, <3>1 DEF Trail
    <3>4. QED
      BY <3>1, <3>2, <3>3
  <2>4. QED
    BY <1>2, <2>1, <2>2, <2>3
<1>5. QED
  BY <1>2, <1>3, <1>4 DEF Trail, h2, d2

LEMMA TrailShrinks ==
  ASSUME NEW dir, NEW h \in Seq(Commands), NEW d \in Seq(Docs), NEW x, Trail(dir, h, d, x), Len(h) # 0
  PROVE  /\ Len(d) = Len(h) /\ Last(d) = d[Len(h)] /\ DocSound(Last(d))
         /\ Joined(dir, Last(h), x, Last(d))
         /\ Trail(dir, Front(h), Front(d), Last(d)) /\ Front(d) \in Seq(Docs)
<1> DEFINE n == Len(h)
           h2 == Front(h)
           d2 == Front(d)
<1>1. n \in Nat \ {0} /\ Len(h2) = n - 1 /\ Last(h) = h[n] /\ \A i \in 1..(n - 1) : h2[i] = h[i]
  BY Shortening
<1>2. Len(d) = n
  BY DEF Trail
<1>3. Len(d2) = n - 1 /\ Last(d) = d[n] /\ d2 \in Seq(Docs) /\ \A i \in 1..(n - 1) : d2[i] = d[i]
  BY <1>2, Shortening
<1>4. \A i \in 1..n : DocSound(d[i]) /\ Joined(dir, h[i], IF i = n THEN x ELSE d[i + 1], d[i])
  BY DEF Trail
<1> HIDE DEF h2, d2, n
<1>5. n \in 1..n
  BY <1>1
<1>6. DocSound(Last(d)) /\ Joined(dir, Last(h), x, Last(d))
  BY <1>1, <1>3, <1>4, <1>5
<1>7. ASSUME NEW i \in 1..Len(h2)
      PROVE  DocSound(d2[i]) /\ Joined(dir, h2[i], IF i = Len(h2) THEN Last(d) ELSE d2[i + 1], d2[i])
  <2>1. i \in 1..n /\ i # n /\ i \in 1..(n - 1)
    BY <1>1
  <2>2. DocSound(d2[i]) /\ Joined(dir, h2[i], d[i + 1], d2[i])
    BY <1>1, <1>3, <1>4, <2>1
  <2>3. d[i + 1] = IF i = Len(h2) THEN Last(d) ELSE d2[i + 1]
    <3>1. CASE i = n - 1
      BY <1>1, <1>3, <3>1
    <3>2. CASE i # n - 1
      <4>1. i + 1 \in 1..(n - 1)
        BY <1>1, <2>1, <3>2
      <4>2. QED
        BY <1>1, <1>3, <3>2, <4>1
    <3>3. QED
      BY <3>1, <3>2
  <2>4. QED
    BY <2>2, <2>3
<1>8. QED
  BY <1>1, <1>2, <1>3, <1>6, <1>7 DEF Trail, n, h2, d2

-----------------------------------------------------------------------------------
(* What a command does to a document, and what its revert gives back.              *)
LEMMA LeadsOn ==
  ASSUME NEW c \in Commands, NEW before, NEW after, DocSound(before), Leads(c, before, after)
  PROVE  /\ DocSound(after)
         /\ c.kind = "place" => AssetsOf(after) = AssetsOf(before) \cup {c.clip.asset}
         /\ c.kind = "drop" => AssetsOf(after) \subseteq AssetsOf(before)
         /\ c.kind \in {"place", "drop"}
<1>1. before \in Docs
  BY DEF DocSound
<1>2. CASE c.kind = "place"
  <2>1. c.clip \in Clips /\ c.clip.asset \in Assets
    BY <1>2 DEF Commands, Clips
  <2>2. after = [tracks |-> before.tracks, clips |-> before.clips \cup {c.clip},
                 assets |-> before.assets \cup {c.clip.asset}]
    BY <1>1, <1>2 DEF Leads, Docs
  <2>3. after \in Docs
    BY <1>1, <2>1, <2>2 DEF Docs
  <2>4. DocSound(after)
    BY <1>2, <2>2, <2>3 DEF Leads, DocSound, Overlaps
  <2>5. AssetsOf(after) = AssetsOf(before) \cup {c.clip.asset}
    BY <2>2 DEF AssetsOf
  <2>6. QED
    BY <1>2, <2>4, <2>5
<1>3. CASE c.kind = "drop"
  <2>1. after = [tracks |-> before.tracks \ {c.track}, clips |-> before.clips \ c.clips,
                 assets |-> before.assets]
    BY <1>1, <1>3 DEF Leads, Docs
  <2>2. after \in Docs
    BY <1>1, <2>1 DEF Docs
  <2>3. c.clips = {e \in before.clips : e.track = c.track}
    BY <1>3 DEF Leads
  <2>4. DocSound(after)
    BY <2>1, <2>2, <2>3 DEF DocSound
  <2>5. AssetsOf(after) \subseteq AssetsOf(before)
    BY <2>1 DEF AssetsOf
  <2>6. QED
    BY <1>3, <2>4, <2>5
<1>4. QED
  BY <1>2, <1>3 DEF Leads

LEMMA LeadsBack ==
  ASSUME NEW c \in Commands, NEW before, DocSound(before), Leads(c, before, doc), doc \in Docs
  PROVE  /\ c.kind = "place" => Reverted(c) = before
         /\ c.kind = "drop" => before = [doc EXCEPT !.tracks = @ \cup {c.track}, !.clips = @ \cup c.clips]
<1>1. before \in Docs /\ before = [tracks |-> before.tracks, clips |-> before.clips, assets |-> before.assets]
  BY DEF DocSound, Docs
<1>2. ASSUME c.kind = "place" PROVE Reverted(c) = before
  <2>1. /\ doc.tracks = before.tracks /\ doc.clips = before.clips \cup {c.clip}
        /\ doc.assets = before.assets \cup {c.clip.asset}
    BY <1>1, <1>2 DEF Leads, Docs
  <2>2. c.clip \notin before.clips
    BY <1>2 DEF Leads, Overlaps
  <2>3. doc.clips \ {c.clip} = before.clips
    BY <2>1, <2>2
  <2>4. (IF c.added THEN doc.assets \ {c.clip.asset} ELSE doc.assets) = before.assets
    BY <1>2, <2>1 DEF Leads
  <2>5. Reverted(c) = [tracks |-> doc.tracks, clips |-> doc.clips \ {c.clip},
                       assets |-> IF c.added THEN doc.assets \ {c.clip.asset} ELSE doc.assets]
    <3> DEFINE cl == doc.clips \ {c.clip}
               as == IF c.added THEN doc.assets \ {c.clip.asset} ELSE doc.assets
    <3>1. Reverted(c) = [doc EXCEPT !.clips = cl, !.assets = as]
      BY DEF Reverted
    <3> HIDE DEF cl, as
    <3>2. Reverted(c) = [tracks |-> doc.tracks, clips |-> cl, assets |-> as]
      BY <3>1 DEF Docs
    <3>3. QED
      BY <3>2 DEF cl, as
  <2>6. QED
    BY <1>1, <2>1, <2>3, <2>4, <2>5
<1>3. ASSUME c.kind = "drop"
      PROVE  before = [doc EXCEPT !.tracks = @ \cup {c.track}, !.clips = @ \cup c.clips]
  <2>1. /\ doc.tracks = before.tracks \ {c.track} /\ doc.clips = before.clips \ c.clips
        /\ doc.assets = before.assets /\ c.track \in before.tracks
        /\ c.clips = {e \in before.clips : e.track = c.track}
    BY <1>1, <1>3 DEF Leads, Docs
  <2>2. doc.tracks \cup {c.track} = before.tracks /\ doc.clips \cup c.clips = before.clips
    BY <2>1
  <2>3. [doc EXCEPT !.tracks = @ \cup {c.track}, !.clips = @ \cup c.clips]
        = [tracks |-> doc.tracks \cup {c.track}, clips |-> doc.clips \cup c.clips, assets |-> doc.assets]
    <3> DEFINE tr == doc.tracks \cup {c.track}
               cl == doc.clips \cup c.clips
    <3>1. [doc EXCEPT !.tracks = @ \cup {c.track}, !.clips = @ \cup c.clips]
          = [doc EXCEPT !.tracks = tr, !.clips = cl]
      OBVIOUS
    <3> HIDE DEF tr, cl
    <3>2. [doc EXCEPT !.tracks = tr, !.clips = cl] = [tracks |-> tr, clips |-> cl, assets |-> doc.assets]
      <4>1. [doc EXCEPT !.tracks = tr] = [tracks |-> tr, clips |-> doc.clips, assets |-> doc.assets]
        BY DEF Docs
      <4>2. [doc EXCEPT !.tracks = tr, !.clips = cl] = [[doc EXCEPT !.tracks = tr] EXCEPT !.clips = cl]
        OBVIOUS
      <4>3. [[tracks |-> tr, clips |-> doc.clips, assets |-> doc.assets] EXCEPT !.clips = cl]
            = [tracks |-> tr, clips |-> cl, assets |-> doc.assets]
        OBVIOUS
      <4>4. QED
        BY <4>1, <4>2, <4>3
    <3>3. QED
      BY <3>1, <3>2 DEF tr, cl
  <2>4. QED
    BY <1>1, <2>1, <2>2, <2>3
<1>4. QED
  BY <1>2, <1>3
-----------------------------------------------------------------------------------
(* The four things that are done to the histories.                                 *)
LEMMA CoversMore ==
  ASSUME NEW d \in Seq(Docs), NEW x \in Docs, NEW y, NEW lib, NEW more, Covers(lib, d, x),
         AssetsOf(y) \subseteq lib \cup more
  PROVE  Covers(lib \cup more, Append(d, x), y)
<1>1. Len(Append(d, x)) = Len(d) + 1 /\ Append(d, x)[Len(d) + 1] = x /\ Len(d) \in Nat
      /\ \A i \in 1..Len(d) : Append(d, x)[i] = d[i]
  BY Joining
<1> DEFINE d2 == Append(d, x)
<1> HIDE DEF d2
<1>2. ASSUME NEW i \in 1..Len(d2) PROVE AssetsOf(d2[i]) \subseteq lib
  <2>1. i \in 1..Len(d) \/ i = Len(d) + 1
    BY <1>1 DEF d2
  <2>2. QED
    BY <1>1, <2>1 DEF Covers, d2
<1>3. QED
  BY <1>2 DEF Covers, d2

(* A command that was carried out now, whoever gave it.                            *)
LEMMA RecordKeeps ==
  ASSUME HistoriesInv, NEW c \in Commands, NEW more \in SUBSET Assets,
         Leads(c, doc, doc'), AssetsOf(doc') \subseteq library \cup more,
         library' = library \cup more, undo' = Append(undo, c),
         c.kind = "place" /\ c.imported => c.clip.asset \notin library,
         redo' \in Seq(Commands),
         NEW later \in Seq(Docs), Trail("redo", redo', later, doc')
  PROVE  HistoriesInv'
<1>1. PICK past \in Seq(Docs) :
         Trail("undo", undo, past, doc) /\ Covers(library, past, doc) /\ Exclusive(undo, past)
  BY DEF HistoriesInv
<1>2. undo \in Seq(Commands) /\ DocSound(doc) /\ doc \in Docs /\ library \subseteq Assets
  BY DEF HistoriesInv, DocSound
<1> DEFINE longer == Append(past, doc)
<1>3. Trail("undo", undo', longer, doc') /\ longer \in Seq(Docs)
  <2>1. Joined("undo", c, doc', doc)
    BY DEF Joined
  <2>2. QED
    BY <1>1, <1>2, <2>1, TrailGrows
<1>4. Covers(library', longer, doc')
  BY <1>1, <1>2, CoversMore
<1>5. Exclusive(undo', longer)
  <2>1. Len(past) = Len(undo) /\ Len(undo) \in Nat
    BY <1>1, <1>2, Joining DEF Trail
  <2>2. /\ Len(undo') = Len(undo) + 1 /\ undo'[Len(undo) + 1] = c
        /\ \A i \in 1..Len(undo) : undo'[i] = undo[i]
    BY <1>2, Joining
  <2>3. /\ Len(longer) = Len(undo) + 1 /\ longer[Len(undo) + 1] = doc
        /\ \A i \in 1..Len(undo) : longer[i] = past[i]
    BY <1>2, <2>1, Joining
  <2> HIDE DEF longer
  <2>4. ASSUME NEW i \in 1..Len(undo'), undo'[i].kind = "place", undo'[i].imported, NEW j \in 1..i
        PROVE  undo'[i].clip.asset \notin AssetsOf(longer[j])
    <3>1. CASE i = Len(undo) + 1
      <4>1. undo'[i] = c /\ c.clip.asset \notin library
        BY <2>2, <2>4, <3>1
      <4>2. j \in 1..Len(past) \/ j = Len(undo) + 1
        BY <2>1, <3>1
      <4>3. AssetsOf(longer[j]) \subseteq library
        BY <1>1, <2>1, <2>3, <4>2 DEF Covers
      <4>4. QED
        BY <4>1, <4>3
    <3>2. CASE i # Len(undo) + 1
      <4>1. i \in 1..Len(undo) /\ j \in 1..Len(undo)
        BY <2>1, <2>2, <3>2
      <4>2. undo'[i] = undo[i] /\ longer[j] = past[j]
        BY <2>2, <2>3, <4>1
      <4>3. QED
        BY <1>1, <2>4, <4>1, <4>2 DEF Exclusive
    <3>3. QED
      BY <3>1, <3>2
  <2>5. QED
    BY <2>4 DEF Exclusive
<1>6. DocSound(doc') /\ undo' \in Seq(Commands) /\ library' \subseteq Assets
  BY <1>2, LeadsOn, Joining
<1>7. QED
  BY <1>3, <1>4, <1>5, <1>6 DEF HistoriesInv

(* The library grows and nothing else happens.                                     *)
LEMMA LibraryGrows ==
  ASSUME HistoriesInv, NEW more \in SUBSET Assets, library' = library \cup more,
         UNCHANGED <<doc, undo, redo>>
  PROVE  HistoriesInv'
<1>1. PICK past \in Seq(Docs), future \in Seq(Docs) :
         /\ Trail("undo", undo, past, doc) /\ Trail("redo", redo, future, doc)
         /\ Covers(library, past, doc) /\ Exclusive(undo, past)
  BY DEF HistoriesInv
<1>2. Covers(library', past, doc)
  BY <1>1 DEF Covers
<1>3. library' \subseteq Assets
  BY DEF HistoriesInv
<1>4. QED
  BY <1>1, <1>2, <1>3 DEF HistoriesInv

LEMMA UndoKeeps == ASSUME HistoriesInv, UndoTop PROVE HistoriesInv'
<1>1. CASE undo = <<>>
  BY <1>1 DEF UndoTop, HistoriesInv, editing
<1>2. CASE undo # <<>>
  <2> DEFINE c == Last(undo)
  <2>1. PICK past \in Seq(Docs), future \in Seq(Docs) :
          /\ Trail("undo", undo, past, doc) /\ Trail("redo", redo, future, doc)
          /\ Covers(library, past, doc) /\ Exclusive(undo, past)
    BY DEF HistoriesInv
  <2>2. undo \in Seq(Commands) /\ redo \in Seq(Commands) /\ DocSound(doc) /\ doc \in Docs
        /\ library \subseteq Assets
    BY DEF HistoriesInv, DocSound
  <2>3. Len(undo) # 0
    BY <1>2, <2>2, EmptySeq
  <2> DEFINE before == Last(past)
  <2>4. /\ Len(past) = Len(undo) /\ before = past[Len(undo)] /\ DocSound(before)
        /\ Joined("undo", c, doc, before)
        /\ Trail("undo", Front(undo), Front(past), before) /\ Front(past) \in Seq(Docs)
    BY <2>1, <2>2, <2>3, TrailShrinks
  <2>5. Leads(c, before, doc)
    BY <2>4 DEF Joined
  <2>6. /\ Len(undo) \in Nat \ {0} /\ Front(undo) \in Seq(Commands) /\ Len(Front(undo)) = Len(undo) - 1
        /\ c = undo[Len(undo)] /\ c \in Commands
        /\ \A i \in 1..(Len(undo) - 1) : Front(undo)[i] = undo[i]
    BY <2>2, <2>3, Shortening
  <2>7. /\ Len(Front(past)) = Len(undo) - 1
        /\ \A i \in 1..(Len(undo) - 1) : Front(past)[i] = past[i]
    BY <2>3, <2>4, Shortening
  <2>8. /\ undo' = Front(undo) /\ redo' = Append(redo, c)
        /\ c.kind = "place" => doc' = Reverted(c) /\ library' = LibraryAfter(c)
        /\ c.kind # "place" => /\ doc' = [doc EXCEPT !.tracks = @ \cup {c.track}, !.clips = @ \cup c.clips]
                               /\ library' = library
    BY <1>2 DEF UndoTop
  <2> HIDE DEF c, before
  <2>9. c.kind \in {"place", "drop"}
    BY <2>5 DEF Leads
  <2>10. doc' = before
    BY <2>2, <2>4, <2>5, <2>6, <2>8, <2>9, LeadsBack
  <2>11. Trail("redo", redo', Append(future, doc), doc') /\ Append(future, doc) \in Seq(Docs)
    <3>1. Joined("redo", c, doc', doc)
      BY <2>5, <2>10 DEF Joined
    <3>2. QED
      BY <2>1, <2>2, <2>6, <2>8, <3>1, TrailGrows
  <2>12. \A j \in 1..Len(undo) : AssetsOf(past[j]) \subseteq library'
    <3>1. \A j \in 1..Len(undo) : AssetsOf(past[j]) \subseteq library
      BY <2>1, <2>4 DEF Covers
    <3>2. CASE c.kind = "place" /\ c.imported
      <4>1. library' = library \ {c.clip.asset}
        BY <2>8, <3>2 DEF LibraryAfter
      <4>2. Len(undo) \in 1..Len(undo)
        BY <2>6
      <4>3. \A j \in 1..Len(undo) : c.clip.asset \notin AssetsOf(past[j])
        BY <2>1, <2>6, <3>2, <4>2 DEF Exclusive
      <4>4. QED
        BY <3>1, <4>1, <4>3
    <3>3. CASE ~(c.kind = "place" /\ c.imported)
      BY <2>8, <3>1, <3>3 DEF LibraryAfter
    <3>4. QED
      BY <3>2, <3>3
  <2>13. Covers(library', Front(past), doc')
    <3>1. AssetsOf(doc') \subseteq library'
      <4>1. Len(undo) \in 1..Len(undo)
        BY <2>6
      <4>2. QED
        BY <2>4, <2>10, <2>12, <4>1
    <3>2. ASSUME NEW i \in 1..Len(Front(past)) PROVE AssetsOf(Front(past)[i]) \subseteq library'
      <4>1. i \in 1..(Len(undo) - 1) /\ i \in 1..Len(undo)
        BY <2>6, <2>7
      <4>2. QED
        BY <2>7, <2>12, <4>1
    <3>3. QED
      BY <3>1, <3>2 DEF Covers
  <2>14. Exclusive(undo', Front(past))
    <3>1. ASSUME NEW i \in 1..Len(undo'), undo'[i].kind = "place", undo'[i].imported, NEW j \in 1..i
          PROVE  undo'[i].clip.asset \notin AssetsOf(Front(past)[j])
      <4>1. i \in 1..(Len(undo) - 1) /\ j \in 1..(Len(undo) - 1) /\ i \in 1..Len(undo)
        BY <2>6, <2>8
      <4>2. undo'[i] = undo[i] /\ Front(past)[j] = past[j]
        BY <2>6, <2>7, <2>8, <4>1
      <4>3. QED
        BY <2>1, <3>1, <4>1, <4>2 DEF Exclusive
    <3>2. QED
      BY <3>1 DEF Exclusive
  <2>15. library' \subseteq Assets /\ undo' \in Seq(Commands) /\ redo' \in Seq(Commands) /\ DocSound(doc')
    BY <2>2, <2>4, <2>6, <2>8, <2>9, <2>10, Joining DEF LibraryAfter
  <2>16. Trail("undo", undo', Front(past), doc')
    BY <2>4, <2>8, <2>10
  <2>17. QED
    BY <2>4, <2>11, <2>13, <2>14, <2>15, <2>16 DEF HistoriesInv
<1>3. QED
  BY <1>1, <1>2
(* A clip placed where none is leads on; it was imported if the library lacked it. *)
LEMMA PlacementLeads ==
  ASSUME NEW clip \in Clips, clip.track \in doc.tracks, ~Overlaps(doc, clip), doc \in Docs
  PROVE  /\ Placement(clip) \in Commands /\ Leads(Placement(clip), doc, Placed(clip))
         /\ Placement(clip).kind = "place" /\ Placement(clip).clip = clip
         /\ Placement(clip).imported <=> clip.asset \notin library
<1> DEFINE c == Placement(clip)
<1>1. c = [kind |-> "place", clip |-> clip, added |-> clip.asset \notin doc.assets,
           imported |-> clip.asset \notin library]
  BY DEF Placement
<1>2. (clip.asset \notin doc.assets) \in BOOLEAN /\ (clip.asset \notin library) \in BOOLEAN
  OBVIOUS
<1> HIDE DEF c
<1>3. c \in Commands
  BY <1>1, <1>2 DEF Commands
<1>4. c.kind = "place" /\ c.clip = clip /\ (c.added <=> clip.asset \notin doc.assets)
      /\ (c.imported <=> clip.asset \notin library)
  BY <1>1
<1>5. Leads(c, doc, Placed(clip))
  BY <1>4 DEF Leads, Placed
<1>6. QED
  BY <1>3, <1>4, <1>5 DEF c

LEMMA PlaceKeeps ==
  ASSUME HistoriesInv, NEW clip \in Clips, clip.track \in doc.tracks, ~Overlaps(doc, clip),
         doc' = Placed(clip), library' = library \cup {clip.asset},
         undo' = Append(undo, Placement(clip)), redo' \in Seq(Commands),
         NEW later \in Seq(Docs), Trail("redo", redo', later, doc')
  PROVE  HistoriesInv'
<1> DEFINE c == Placement(clip)
<1>1. DocSound(doc) /\ doc \in Docs /\ AssetsOf(doc) \subseteq library
  BY DEF HistoriesInv, DocSound, Covers
<1>2. c \in Commands /\ Leads(c, doc, doc') /\ c.kind = "place" /\ c.clip = clip
      /\ (c.imported <=> clip.asset \notin library)
  BY <1>1, PlacementLeads
<1>3. AssetsOf(doc') = AssetsOf(doc) \cup {clip.asset}
  BY <1>1, <1>2, LeadsOn
<1>4. clip.asset \in Assets
  BY DEF Clips
<1>5. undo' = Append(undo, c)
  OBVIOUS
<1> HIDE DEF c
<1>6. {clip.asset} \in SUBSET Assets /\ AssetsOf(doc') \subseteq library \cup {clip.asset}
  BY <1>1, <1>3, <1>4
<1>7. c.kind = "place" /\ c.imported => c.clip.asset \notin library
  BY <1>2
<1>8. QED
  BY <1>2, <1>5, <1>6, <1>7, RecordKeeps

LEMMA NoTrail == ASSUME NEW dir, NEW x PROVE Trail(dir, <<>>, <<>>, x) /\ <<>> \in Seq(Docs) /\ <<>> \in Seq(Commands)
<1>1. Len(<<>>) = 0 /\ <<>> \in Seq(Docs) /\ <<>> \in Seq(Commands)
  OBVIOUS
<1>2. QED
  BY <1>1 DEF Trail

LEMMA RedoKeeps == ASSUME HistoriesInv, RedoTop PROVE HistoriesInv'
<1> DEFINE c == Last(redo)
<1>1. PICK future \in Seq(Docs) : Trail("redo", redo, future, doc)
  BY DEF HistoriesInv
<1>2. redo \in Seq(Commands) /\ DocSound(doc) /\ doc \in Docs /\ AssetsOf(doc) \subseteq library
      /\ library \subseteq Assets
  BY DEF HistoriesInv, DocSound, Covers
<1>3. Len(redo) # 0
  BY <1>2, EmptySeq DEF RedoTop
<1>4. Front(redo) \in Seq(Commands) /\ c \in Commands
  BY <1>2, <1>3, Shortening
<1>5. /\ Joined("redo", c, doc, Last(future))
      /\ Trail("redo", Front(redo), Front(future), Last(future)) /\ Front(future) \in Seq(Docs)
  BY <1>1, <1>2, <1>3, TrailShrinks
<1>6. Leads(c, doc, Last(future))
  BY <1>5 DEF Joined
<1>7. /\ redo' = Front(redo)
      /\ c.kind = "place" => /\ doc' = Placed(c.clip) /\ library' = library \cup {c.clip.asset}
                             /\ undo' = Append(undo, Placement(c.clip))
      /\ c.kind # "place" => /\ doc' = [doc EXCEPT !.tracks = @ \ {c.track}, !.clips = @ \ c.clips]
                             /\ undo' = Append(undo, c) /\ library' = library
  BY DEF RedoTop
<1> HIDE DEF c
<1>8. doc' = Last(future)
  BY <1>6, <1>7 DEF Leads, Placed
<1>9. Trail("redo", redo', Front(future), doc') /\ redo' \in Seq(Commands)
  BY <1>4, <1>5, <1>7, <1>8
<1>10. CASE c.kind = "place"
  <2>1. c.clip \in Clips /\ c.clip.track \in doc.tracks /\ ~Overlaps(doc, c.clip)
    BY <1>4, <1>6, <1>10 DEF Leads, Commands
  <2>2. QED
    BY <1>5, <1>7, <1>9, <1>10, <2>1, PlaceKeeps
<1>11. CASE c.kind # "place"
  <2>1. Leads(c, doc, doc') /\ c.kind = "drop"
    BY <1>6, <1>8, <1>11 DEF Leads
  <2>2. AssetsOf(doc') \subseteq AssetsOf(doc)
    BY <1>2, <1>4, <2>1, LeadsOn
  <2>3. library' = library \cup {} /\ AssetsOf(doc') \subseteq library \cup {}
    BY <1>2, <1>7, <1>11, <2>2
  <2>4. {} \in SUBSET Assets
    OBVIOUS
  <2>5. undo' = Append(undo, c)
    BY <1>7, <1>11
  <2>6. QED
    BY <1>4, <1>5, <1>9, <1>11, <2>1, <2>3, <2>4, <2>5, RecordKeeps
<1>12. QED
  BY <1>10, <1>11

LEMMA DeleteKeeps == ASSUME HistoriesInv, NEW track \in Tracks, DeleteTrack(track) PROVE HistoriesInv'
<1> DEFINE gone == {c \in doc.clips : c.track = track}
           c == [kind |-> "drop", track |-> track, clips |-> gone]
<1>1. DocSound(doc) /\ doc \in Docs /\ AssetsOf(doc) \subseteq library
  BY DEF HistoriesInv, DocSound, Covers
<1>2. /\ track \in doc.tracks /\ doc' = [doc EXCEPT !.tracks = @ \ {track}, !.clips = @ \ gone]
      /\ undo' = Append(undo, c) /\ redo' = <<>> /\ library' = library
  BY DEF DeleteTrack, Recorded
<1>3. gone \in SUBSET Clips
  BY <1>1 DEF Docs
<1>4. c \in Commands /\ c.kind = "drop" /\ c.track = track /\ c.clips = gone
  <2> HIDE DEF gone
  <2>1. QED
    BY <1>3 DEF Commands
<1>5. gone = {e \in doc.clips : e.track = track}
  OBVIOUS
<1> HIDE DEF c, gone
<1>6. Leads(c, doc, doc')
  BY <1>2, <1>4, <1>5 DEF Leads
<1>7. AssetsOf(doc') \subseteq AssetsOf(doc)
  BY <1>1, <1>4, <1>6, LeadsOn
<1>8. library' = library \cup {} /\ AssetsOf(doc') \subseteq library \cup {} /\ {} \in SUBSET Assets
  BY <1>1, <1>2, <1>7
<1>9. Trail("redo", redo', <<>>, doc') /\ <<>> \in Seq(Docs) /\ redo' \in Seq(Commands)
  BY <1>2, NoTrail
<1>10. QED
  BY <1>2, <1>4, <1>6, <1>8, <1>9, RecordKeeps

LEMMA EmptyIsSound ==
  ASSUME doc = NewDoc, library = {}, undo = <<>>, redo = <<>> PROVE HistoriesInv
<1>1. DocSound(doc) /\ AssetsOf(doc) = {}
  BY DEF NewDoc, DocSound, Docs, AssetsOf
<1>2. Trail("undo", undo, <<>>, doc) /\ Trail("redo", redo, <<>>, doc) /\ <<>> \in Seq(Docs)
      /\ undo \in Seq(Commands) /\ redo \in Seq(Commands)
  BY NoTrail
<1>3. Len(<<>>) = 0
  OBVIOUS
<1>4. Covers(library, <<>>, doc) /\ Exclusive(undo, <<>>)
  BY <1>1, <1>3 DEF Covers, Exclusive
<1>5. library \subseteq Assets
  OBVIOUS
<1>6. QED
  BY <1>1, <1>2, <1>4, <1>5 DEF HistoriesInv

LEMMA OpenKeeps == ASSUME OpenProject PROVE HistoriesInv'
<1>1. (doc = NewDoc)' /\ (library = {})' /\ (undo = <<>>)' /\ (redo = <<>>)'
  BY DEF OpenProject, NewDoc
<1>2. DocSound(doc') /\ AssetsOf(doc') = {}
  BY <1>1 DEF NewDoc, DocSound, Docs, AssetsOf
<1>3. Trail("undo", undo', <<>>, doc') /\ Trail("redo", redo', <<>>, doc') /\ <<>> \in Seq(Docs)
      /\ undo' \in Seq(Commands) /\ redo' \in Seq(Commands)
  BY <1>1, NoTrail
<1>4. Len(<<>>) = 0
  OBVIOUS
<1>5. Covers(library', <<>>, doc') /\ Exclusive(undo', <<>>)
  BY <1>1, <1>2, <1>4 DEF Covers, Exclusive
<1>6. library' \subseteq Assets
  BY <1>1
<1>7. QED
  BY <1>2, <1>3, <1>5, <1>6 DEF HistoriesInv

-----------------------------------------------------------------------------------
(* The jobs.  A call holds its job until it gives it up or the job has ended, and  *)
(* no other call ever holds it.                                                    *)
JobRecords == [phase : {"pending", "running", "succeeded", "failed"},
               cancelled : BOOLEAN, age : 0..Budget]
Statuses   == {"running", "succeeded", "failed", "stopped"}
Final      == {"succeeded", "failed"}

Resters == [at : {"idle"}, job : {NoJob}]
Askers  == [at : {"submitting", "polling", "asked", "ended"}, job : Nat, track : Tracks,
            slot : Slots, polls : Nat]
Placers == [at : {"placing", "placed", "done"}, job : Nat, clip : Clips]

CallTyped(c, js) ==
  \/ c \in Resters
  \/ /\ c \in Askers
     /\ c.at = "submitting" => c.job = NoJob
     /\ c.at # "submitting" => c.job \in 1..Len(js)
     /\ c.at = "ended" => js[c.job].phase \in Final
  \/ c \in Placers /\ c.job \in 1..Len(js) /\ js[c.job].phase \in Final

JobsInv ==
  /\ jobs \in Seq(JobRecords) /\ provider \in Seq(Statuses)
  /\ Len(provider) = Len(jobs) /\ broken \subseteq 1..Len(jobs)
  /\ DOMAIN call = Generators
  /\ \A t \in Generators : CallTyped(call[t], jobs)
  /\ \A t, u \in Generators : call[t].job = call[u].job => t = u \/ call[t].job = NoJob
  /\ \A j \in 1..Len(jobs) :
       jobs[j].phase \in Final \/ j \in broken \/ \E t \in Generators : call[t].job = j

(* What one call makes of its own job leaves the others' alone.                    *)
LEMMA CallMoves ==
  ASSUME JobsInv, NEW t \in Generators, NEW c, call' = [call EXCEPT ![t] = c],
         jobs' \in Seq(JobRecords), Len(jobs') = Len(jobs),
         \A j \in 1..Len(jobs) : j # call[t].job => jobs'[j].phase = jobs[j].phase,
         provider' \in Seq(Statuses), Len(provider') = Len(provider),
         broken \subseteq broken', broken' \subseteq 1..Len(jobs),
         CallTyped(c, jobs'),
         \/ c.job = call[t].job
         \/ /\ c.job = NoJob
            /\ call[t].job # NoJob => jobs'[call[t].job].phase \in Final \/ call[t].job \in broken'
  PROVE  JobsInv'
<1>1. DOMAIN call' = Generators /\ call'[t] = c /\ \A u \in Generators \ {t} : call'[u] = call[u]
  BY DEF JobsInv
<1>2. ASSUME NEW u \in Generators PROVE CallTyped(call'[u], jobs')
  <2>1. CASE u = t
    BY <1>1, <2>1
  <2>2. CASE u # t
    <3>1. call'[u] = call[u] /\ CallTyped(call[u], jobs)
      BY <1>1, <2>2 DEF JobsInv
    <3>2. call[u].job \in 1..Len(jobs) => jobs'[call[u].job].phase = jobs[call[u].job].phase
      <4>1. ASSUME call[u].job \in 1..Len(jobs) PROVE call[u].job # call[t].job
        BY <2>2, <4>1 DEF JobsInv, NoJob
      <4>2. QED
        BY <4>1
    <3>3. QED
      BY <3>1, <3>2 DEF CallTyped
  <2>3. QED
    BY <2>1, <2>2
<1>3. ASSUME NEW u \in Generators, NEW v \in Generators, call'[u].job = call'[v].job
      PROVE  u = v \/ call'[u].job = NoJob
  BY <1>1, <1>3 DEF JobsInv
<1>4. ASSUME NEW j \in 1..Len(jobs')
      PROVE  jobs'[j].phase \in Final \/ j \in broken' \/ \E u \in Generators : call'[u].job = j
  <2>1. CASE j = call[t].job
    BY <1>1, <2>1 DEF NoJob
  <2>2. CASE j # call[t].job
    <3>1. jobs'[j].phase = jobs[j].phase /\ j \in 1..Len(jobs)
      BY <2>2
    <3>2. CASE jobs[j].phase \in Final \/ j \in broken
      BY <3>1, <3>2
    <3>3. ASSUME NEW u \in Generators, call[u].job = j PROVE call'[u].job = j
      BY <1>1, <2>2, <3>3
    <3>4. QED
      BY <3>1, <3>2, <3>3 DEF JobsInv
  <2>3. QED
    BY <2>1, <2>2
<1>5. QED
  BY <1>1, <1>2, <1>3, <1>4 DEF JobsInv

LEMMA AskersAre ==
  ASSUME JobsInv, NEW t \in Generators, call[t].at \in {"submitting", "polling", "asked", "ended"}
  PROVE  /\ call[t] \in Askers
         /\ call[t].at = "submitting" => call[t].job = NoJob
         /\ call[t].at # "submitting" => call[t].job \in 1..Len(jobs)
         /\ call[t].at = "ended" => jobs[call[t].job].phase \in Final
BY DEF JobsInv, CallTyped, Resters, Placers

LEMMA PlacersAre ==
  ASSUME JobsInv, NEW t \in Generators, call[t].at \in {"placing", "placed", "done"}
  PROVE  call[t] \in Placers /\ call[t].job \in 1..Len(jobs) /\ jobs[call[t].job].phase \in Final
BY DEF JobsInv, CallTyped, Resters, Askers

LEMMA RestingTyped == ASSUME NEW js PROVE CallTyped(Resting, js) /\ Resting.job = NoJob
BY DEF Resting, CallTyped, Resters

(* A call that moves on by itself, and one that returns.                           *)
LEMMA GoKeeps ==
  ASSUME JobsInv, NEW t \in Generators, NEW c, call' = [call EXCEPT ![t] = c],
         UNCHANGED client, CallTyped(c, jobs), c.job = call[t].job
  PROVE  JobsInv'
<1>1. jobs \in Seq(JobRecords) /\ provider \in Seq(Statuses) /\ broken \subseteq 1..Len(jobs)
  BY DEF JobsInv
<1>2. UNCHANGED <<jobs, provider, broken>>
  BY DEF client
<1>3. QED
  BY <1>1, <1>2, CallMoves

LEMMA GiveBackKeeps ==
  ASSUME JobsInv, NEW t \in Generators, GiveBack(t), UNCHANGED <<jobs, provider>>,
         broken \subseteq broken', broken' \subseteq 1..Len(jobs),
         call[t].job # NoJob => jobs[call[t].job].phase \in Final \/ call[t].job \in broken'
  PROVE  JobsInv'
<1>1. jobs \in Seq(JobRecords) /\ provider \in Seq(Statuses)
  BY DEF JobsInv
<1>2. call' = [call EXCEPT ![t] = Resting] /\ CallTyped(Resting, jobs') /\ Resting.job = NoJob
  BY RestingTyped DEF GiveBack
<1>3. QED
  BY <1>1, <1>2, CallMoves

LEMMA CancelKeeps ==
  ASSUME JobsInv, NEW t \in Generators, call[t].at \in {"polling", "asked"},
         Cancel(call[t].job), GiveBack(t)
  PROVE  JobsInv'
<1> DEFINE j == call[t].job
           r == [jobs[j] EXCEPT !.cancelled = TRUE, !.phase = "failed"]
<1>1. jobs \in Seq(JobRecords) /\ provider \in Seq(Statuses) /\ Len(provider) = Len(jobs)
      /\ j \in 1..Len(jobs) /\ broken \subseteq 1..Len(jobs)
  BY AskersAre DEF JobsInv
<1>2. jobs[j] \in JobRecords
  BY <1>1
<1>3. r \in JobRecords /\ r.phase \in Final
  BY <1>2 DEF JobRecords, Final
<1>4. jobs' = [jobs EXCEPT ![j] = r] /\ broken' = broken
  BY DEF Cancel
<1>5. provider' \in Seq(Statuses) /\ Len(provider') = Len(provider)
  BY <1>1 DEF Cancel, Statuses
<1> HIDE DEF r
<1>6. jobs' \in Seq(JobRecords) /\ Len(jobs') = Len(jobs) /\ jobs'[j] = r
      /\ \A k \in 1..Len(jobs) : k # j => jobs'[k].phase = jobs[k].phase
  BY <1>1, <1>3, <1>4
<1>7. call' = [call EXCEPT ![t] = Resting] /\ CallTyped(Resting, jobs') /\ Resting.job = NoJob
  BY RestingTyped DEF GiveBack
<1>8. QED
  BY <1>1, <1>3, <1>4, <1>5, <1>6, <1>7, CallMoves

LEMMA SubmitKeeps == ASSUME JobsInv, NEW t \in Generators, Submit(t) PROVE JobsInv'
<1> DEFINE job == [phase |-> "pending", cancelled |-> FALSE, age |-> 0]
           n == Len(jobs) + 1
           c == [call[t] EXCEPT !.at = "polling", !.job = n]
<1>1. /\ jobs' = Append(jobs, job) /\ provider' = Append(provider, "running") /\ broken' = broken
      /\ call' = [call EXCEPT ![t].at = "polling", ![t].job = Len(jobs')]
      /\ call[t].at = "submitting"
  BY DEF Submit
<1>2. jobs \in Seq(JobRecords) /\ provider \in Seq(Statuses) /\ Len(provider) = Len(jobs)
      /\ broken \subseteq 1..Len(jobs) /\ Len(jobs) \in Nat
  BY Joining DEF JobsInv
<1>3. job \in JobRecords /\ "running" \in Statuses
  BY GenerationAssumption DEF JobRecords, Statuses
<1> HIDE DEF job
<1>4. jobs' \in Seq(JobRecords) /\ Len(jobs') = n /\ \A j \in 1..Len(jobs) : jobs'[j] = jobs[j]
  BY <1>1, <1>2, <1>3, Joining
<1>5. provider' \in Seq(Statuses) /\ Len(provider') = n
  BY <1>1, <1>2, <1>3, Joining
<1>6. call' = [call EXCEPT ![t] = c]
  BY <1>1, <1>4
<1>7. c \in Askers /\ c.job = n /\ c.at = "polling"
  <2>1. call[t] \in Askers /\ n \in Nat
    BY <1>1, <1>2, AskersAre
  <2> HIDE DEF n
  <2>2. QED
    BY <2>1 DEF Askers
<1> HIDE DEF c
<1>8. DOMAIN call' = Generators /\ call'[t] = c /\ \A u \in Generators \ {t} : call'[u] = call[u]
  BY <1>6 DEF JobsInv
<1>9. ASSUME NEW u \in Generators PROVE CallTyped(call'[u], jobs')
  <2>1. CASE u = t
    BY <1>2, <1>4, <1>7, <1>8, <2>1 DEF CallTyped
  <2>2. CASE u # t
    <3>1. call'[u] = call[u] /\ CallTyped(call[u], jobs)
      BY <1>8, <2>2 DEF JobsInv
    <3>2. QED
      BY <1>2, <1>4, <3>1 DEF CallTyped
  <2>3. QED
    BY <2>1, <2>2
<1>10. ASSUME NEW u \in Generators, u # t PROVE call'[u].job # n
  <2>1. call'[u] = call[u] /\ CallTyped(call[u], jobs)
    BY <1>8, <1>10 DEF JobsInv
  <2>2. QED
    BY <1>2, <2>1 DEF CallTyped, Resters, NoJob
<1>11. ASSUME NEW u \in Generators, NEW v \in Generators, call'[u].job = call'[v].job
       PROVE  u = v \/ call'[u].job = NoJob
  BY <1>7, <1>8, <1>10, <1>11 DEF JobsInv
<1>12. ASSUME NEW j \in 1..Len(jobs')
       PROVE  jobs'[j].phase \in Final \/ j \in broken' \/ \E u \in Generators : call'[u].job = j
  <2>1. CASE j = n
    BY <1>7, <1>8, <2>1
  <2>2. CASE j # n
    <3>1. j \in 1..Len(jobs) /\ jobs'[j] = jobs[j]
      BY <1>2, <1>4, <2>2
    <3>2. ASSUME NEW u \in Generators, call[u].job = j PROVE call'[u].job = j
      <4>1. u # t
        <5>1. call[t].job = NoJob
          BY <1>1, AskersAre
        <5>2. QED
          BY <3>1, <3>2, <5>1 DEF NoJob
      <4>2. QED
        BY <1>8, <3>2, <4>1
    <3>3. QED
      BY <1>1, <3>1, <3>2 DEF JobsInv
  <2>3. QED
    BY <2>1, <2>2
<1>13. broken' \subseteq 1..Len(jobs')
  BY <1>1, <1>2, <1>4
<1>14. QED
  BY <1>4, <1>5, <1>8, <1>9, <1>11, <1>12, <1>13 DEF JobsInv

LEMMA AnswersKeep == ASSUME JobsInv, NEW t \in Generators, Answered(t) PROVE JobsInv'
<1> DEFINE j == call[t].job
           verdict == Phase(provider[j])
           r == [jobs[j] EXCEPT !.phase = verdict]
<1>1. jobs \in Seq(JobRecords) /\ provider \in Seq(Statuses) /\ Len(provider) = Len(jobs)
      /\ j \in 1..Len(jobs) /\ call[t] \in Askers /\ call[t].at = "asked"
      /\ broken \subseteq 1..Len(jobs)
  BY AskersAre DEF JobsInv, Answered
<1>2. jobs[j] \in JobRecords
  BY <1>1
<1>3. verdict \in {"running", "succeeded", "failed"}
  BY DEF Phase
<1> HIDE DEF verdict
<1>4. r \in JobRecords /\ r.phase = verdict
  BY <1>2, <1>3 DEF JobRecords
<1>5. \/ verdict \in Final /\ jobs' = [jobs EXCEPT ![j] = r] /\ GoTo(t, "ended")
         /\ UNCHANGED <<provider, broken>>
      \/ Cancel(j) /\ GiveBack(t)
      \/ /\ jobs' = [jobs EXCEPT ![j] = r] /\ UNCHANGED <<provider, broken>>
         /\ call' = [call EXCEPT ![t].at = "polling", ![t].polls = @ + 1]
  BY DEF Answered, Final, verdict
<1> HIDE DEF r
<1>6. ASSUME jobs' = [jobs EXCEPT ![j] = r]
      PROVE  /\ jobs' \in Seq(JobRecords) /\ Len(jobs') = Len(jobs) /\ jobs'[j] = r
             /\ \A k \in 1..Len(jobs) : k # j => jobs'[k].phase = jobs[k].phase
  BY <1>1, <1>4, <1>6
<1>7. CASE verdict \in Final /\ jobs' = [jobs EXCEPT ![j] = r] /\ GoTo(t, "ended")
           /\ UNCHANGED <<provider, broken>>
  <2> DEFINE c == [call[t] EXCEPT !.at = "ended"]
  <2>1. call' = [call EXCEPT ![t] = c]
    BY <1>7 DEF GoTo
  <2>2. c \in Askers /\ c.job = j /\ c.at = "ended"
    BY <1>1 DEF Askers
  <2> HIDE DEF c
  <2>3. CallTyped(c, jobs')
    BY <1>1, <1>4, <1>6, <1>7, <2>2 DEF CallTyped
  <2>4. QED
    BY <1>1, <1>6, <1>7, <2>1, <2>2, <2>3, CallMoves
<1>8. CASE Cancel(j) /\ GiveBack(t)
  BY <1>1, <1>8, CancelKeeps
<1>9. CASE /\ jobs' = [jobs EXCEPT ![j] = r] /\ UNCHANGED <<provider, broken>>
           /\ call' = [call EXCEPT ![t].at = "polling", ![t].polls = @ + 1]
  <2> DEFINE c == [call[t] EXCEPT !.at = "polling", !.polls = @ + 1]
  <2>1. call' = [call EXCEPT ![t] = c]
    BY <1>9
  <2>2. c \in Askers /\ c.job = j /\ c.at = "polling"
    <3>1. call[t].polls + 1 \in Nat
      BY <1>1 DEF Askers
    <3>2. [call[t] EXCEPT !.at = "polling"] \in Askers
      BY <1>1 DEF Askers
    <3>3. [[call[t] EXCEPT !.at = "polling"] EXCEPT !.polls = call[t].polls + 1] \in Askers
      BY <3>1, <3>2 DEF Askers
    <3>4. c.job = j /\ c.at = "polling"
      BY <1>1 DEF Askers
    <3>5. c = [[call[t] EXCEPT !.at = "polling"] EXCEPT !.polls = call[t].polls + 1]
      OBVIOUS
    <3>6. QED
      BY <3>3, <3>4, <3>5
  <2> HIDE DEF c
  <2>3. CallTyped(c, jobs')
    BY <1>1, <1>6, <1>9, <2>2 DEF CallTyped
  <2>4. QED
    BY <1>1, <1>6, <1>9, <2>1, <2>2, <2>3, CallMoves
<1>10. QED
  BY <1>5, <1>7, <1>8, <1>9

(* Every step of a call.                                                           *)
LEMMA CallStepKeepsJobs == ASSUME JobsInv, NEW t \in Generators, CallStep(t) PROVE JobsInv'
<1>1. broken \subseteq broken /\ broken \subseteq 1..Len(jobs)
  BY DEF JobsInv
<1>2. CASE Submit(t)
  BY <1>2, SubmitKeeps
<1>3. CASE SubmitFails(t)
  BY <1>1, <1>3, AskersAre, GiveBackKeeps DEF SubmitFails, client
<1>4. CASE Ask(t)
  <2> DEFINE c == [call[t] EXCEPT !.at = "asked"]
  <2>1. call[t] \in Askers /\ call[t].job \in 1..Len(jobs)
    BY <1>4, AskersAre DEF Ask
  <2>2. c \in Askers /\ c.job = call[t].job /\ c.at = "asked"
    BY <2>1 DEF Askers
  <2>3. call' = [call EXCEPT ![t] = c] /\ UNCHANGED client
    BY <1>4 DEF Ask, GoTo
  <2> HIDE DEF c
  <2>4. CallTyped(c, jobs)
    BY <2>1, <2>2 DEF CallTyped
  <2>5. QED
    BY <2>2, <2>3, <2>4, GoKeeps
<1>5. CASE TimesOut(t) \/ GivesUp(t)
  BY <1>5, CancelKeeps DEF TimesOut, GivesUp
<1>6. CASE Answered(t)
  BY <1>6, AnswersKeep
<1>7. CASE PollFails(t)
  <2>1. call[t].job \in 1..Len(jobs)
    BY <1>7, AskersAre DEF PollFails
  <2>2. QED
    BY <1>1, <1>7, <2>1, GiveBackKeeps DEF PollFails
<1>8. ASSUME NEW asset \in Assets, Fetch(t, asset) PROVE JobsInv'
  <2> DEFINE c == [at |-> "placing", job |-> call[t].job,
                   clip |-> [asset |-> asset, track |-> call[t].track, slot |-> call[t].slot]]
  <2>1. call[t] \in Askers /\ call[t].job \in 1..Len(jobs) /\ jobs[call[t].job].phase \in Final
    BY <1>8, AskersAre DEF Fetch
  <2>2. c \in Placers /\ c.job = call[t].job
    BY <2>1 DEF Askers, Placers, Clips
  <2>3. call' = [call EXCEPT ![t] = c] /\ UNCHANGED client
    BY <1>8 DEF Fetch
  <2> HIDE DEF c
  <2>4. CallTyped(c, jobs)
    BY <2>1, <2>2 DEF CallTyped
  <2>5. QED
    BY <2>2, <2>3, <2>4, GoKeeps
<1>9. CASE FetchFails(t)
  BY <1>1, <1>9, AskersAre, GiveBackKeeps DEF FetchFails, client
<1>10. CASE PlaceRefused(t) \/ PlaceOverlaps(t) \/ Answer(t) \/ Overran(t)
  BY <1>1, <1>10, PlacersAre, GiveBackKeeps DEF PlaceRefused, PlaceOverlaps, Answer, Overran, client
<1>11. ASSUME NEW at \in {"placed", "done"}, call[t].at \in {"placing", "placed"}, GoTo(t, at), UNCHANGED client
       PROVE  JobsInv'
  <2> DEFINE c == [call[t] EXCEPT !.at = at]
  <2>1. call[t] \in Placers /\ call[t].job \in 1..Len(jobs) /\ jobs[call[t].job].phase \in Final
    BY <1>11, PlacersAre
  <2>2. c \in Placers /\ c.job = call[t].job
    BY <2>1 DEF Placers
  <2>3. call' = [call EXCEPT ![t] = c]
    BY <1>11 DEF GoTo
  <2> HIDE DEF c
  <2>4. CallTyped(c, jobs)
    BY <2>1, <2>2 DEF CallTyped
  <2>5. QED
    BY <1>11, <2>2, <2>3, <2>4, GoKeeps
<1>12. CASE Place(t) \/ Catalogue(t)
  BY <1>11, <1>12 DEF Place, Catalogue
<1>13. QED
  BY <1>2, <1>3, <1>4, <1>5, <1>6, <1>7, <1>8, <1>9, <1>10, <1>12 DEF CallStep

LEMMA GenerateKeeps ==
  ASSUME JobsInv, NEW t \in Generators, NEW track \in Tracks, NEW slot \in Slots, Generate(t, track, slot)
  PROVE  JobsInv'
<1> DEFINE c == [at |-> "submitting", job |-> NoJob, track |-> track, slot |-> slot, polls |-> 0]
<1>1. call' = [call EXCEPT ![t] = c] /\ UNCHANGED client /\ call[t].at = "idle"
  BY DEF Generate
<1>2. c \in Askers /\ c.job = NoJob /\ c.at = "submitting"
  BY DEF Askers, NoJob
<1>3. call[t].job = NoJob
  BY <1>1 DEF JobsInv, CallTyped, Resters, Askers, Placers
<1> HIDE DEF c
<1>4. CallTyped(c, jobs)
  BY <1>2 DEF CallTyped
<1>5. QED
  BY <1>1, <1>2, <1>3, <1>4, GoKeeps

LEMMA ProvideKeeps == ASSUME JobsInv, NEW j \in DOMAIN provider, Provide(j) PROVE JobsInv'
<1>1. provider \in Seq(Statuses)
  BY DEF JobsInv
<1>2. PICK ends \in {"succeeded", "failed"} : provider' = [provider EXCEPT ![j] = ends]
  BY DEF Provide
<1>3. provider' \in Seq(Statuses) /\ Len(provider') = Len(provider)
  BY <1>1, <1>2 DEF Statuses
<1>4. UNCHANGED <<jobs, broken, call>>
  BY DEF Provide
<1>5. QED
  BY <1>3, <1>4 DEF JobsInv

LEMMA TimeKeeps == ASSUME JobsInv, TimePasses PROVE JobsInv'
<1> DEFINE Older(r) == [r EXCEPT !.age = IF @ < Budget THEN @ + 1 ELSE @]
<1>1. jobs \in Seq(JobRecords) /\ UNCHANGED <<provider, broken, call>>
      /\ jobs' = [j \in DOMAIN jobs |-> Older(jobs[j])]
  BY DEF JobsInv, TimePasses, client
<1>2. ASSUME NEW r \in JobRecords PROVE Older(r) \in JobRecords /\ Older(r).phase = r.phase
  BY GenerationAssumption DEF JobRecords
<1> HIDE DEF Older
<1>3. /\ jobs' \in Seq(JobRecords) /\ Len(jobs') = Len(jobs)
      /\ \A j \in 1..Len(jobs) : jobs'[j].phase = jobs[j].phase
  <2>1. Len(jobs) \in Nat /\ DOMAIN jobs = 1..Len(jobs) /\ \A j \in 1..Len(jobs) : jobs[j] \in JobRecords
    BY <1>1, Joining
  <2>2. jobs' = [j \in 1..Len(jobs) |-> Older(jobs[j])]
    BY <1>1, <2>1
  <2>3. \A j \in 1..Len(jobs) : Older(jobs[j]) \in JobRecords /\ Older(jobs[j]).phase = jobs[j].phase
    BY <1>2, <2>1
  <2>4. jobs' \in [1..Len(jobs) -> JobRecords]
    BY <2>2, <2>3
  <2>5. jobs' \in Seq(JobRecords) /\ Len(jobs') = Len(jobs)
    BY <2>1, <2>2, <2>4
  <2>6. QED
    BY <2>2, <2>3, <2>5
<1>4. ASSUME NEW u \in Generators PROVE CallTyped(call'[u], jobs')
  BY <1>1, <1>3 DEF JobsInv, CallTyped
<1>5. QED
  BY <1>1, <1>3, <1>4 DEF JobsInv

-----------------------------------------------------------------------------------
PlacementsInv == HistoriesInv /\ JobsInv

LEMMA SameHistories == ASSUME HistoriesInv, UNCHANGED editing PROVE HistoriesInv'
BY DEF HistoriesInv, editing

LEMMA SameJobs == ASSUME JobsInv, UNCHANGED <<client, call>> PROVE JobsInv'
BY DEF JobsInv, client

LEMMA CallStepKeepsHistories ==
  ASSUME PlacementsInv, NEW t \in Generators, CallStep(t) PROVE HistoriesInv'
<1>1. HistoriesInv /\ JobsInv
  BY DEF PlacementsInv
<1>2. CASE Submit(t) \/ SubmitFails(t) \/ Ask(t) \/ TimesOut(t) \/ Answered(t) \/ PollFails(t)
           \/ GivesUp(t) \/ (\E asset \in Assets : Fetch(t, asset)) \/ FetchFails(t)
           \/ PlaceRefused(t) \/ Answer(t)
  BY <1>1, <1>2, SameHistories
     DEF Submit, SubmitFails, Ask, TimesOut, Answered, PollFails, GivesUp, Fetch, FetchFails,
         PlaceRefused, Answer
<1>3. ASSUME PlaceOverlaps(t) \/ Catalogue(t) PROVE HistoriesInv'
  <2>1. call[t].at \in {"placing", "placed"}
    BY <1>3 DEF PlaceOverlaps, Catalogue
  <2>2. call[t].clip.asset \in Assets
    BY <1>1, <2>1, PlacersAre DEF Placers, Clips
  <2>3. library' = library \cup {call[t].clip.asset} /\ UNCHANGED <<doc, undo, redo>>
    BY <1>3 DEF PlaceOverlaps, Catalogue
  <2>4. QED
    BY <1>1, <2>2, <2>3, LibraryGrows
<1>4. CASE Place(t)
  <2> DEFINE clip == call[t].clip
  <2>1. call[t].at = "placing" /\ ~Refusable(clip) /\ ~Overlaps(doc, clip) /\ doc' = Placed(clip)
        /\ library' = library \cup {clip.asset} /\ undo' = Append(undo, Placement(clip)) /\ redo' = <<>>
    BY <1>4 DEF Place, Recorded
  <2>2. clip \in Clips /\ clip.track \in doc.tracks
    BY <1>1, <2>1, PlacersAre DEF Placers, Refusable
  <2>3. Trail("redo", redo', <<>>, doc') /\ <<>> \in Seq(Docs) /\ redo' \in Seq(Commands)
    BY <2>1, NoTrail
  <2> HIDE DEF clip
  <2>4. QED
    BY <1>1, <2>1, <2>2, <2>3, PlaceKeeps
<1>5. CASE Overran(t)
  BY <1>1, <1>5, UndoKeeps DEF Overran
<1>6. QED
  BY <1>2, <1>3, <1>4, <1>5 DEF CallStep

LEMMA PlacementsStart == GenerationInit => PlacementsInv
<1> SUFFICES ASSUME GenerationInit PROVE PlacementsInv
  OBVIOUS
<1>1. HistoriesInv
  BY EmptyIsSound DEF GenerationInit
<1>2. /\ jobs = <<>> /\ provider = <<>> /\ broken = {} /\ call = [t \in Generators |-> Resting]
  BY DEF GenerationInit
<1>3. <<>> \in Seq(JobRecords) /\ <<>> \in Seq(Statuses) /\ Len(<<>>) = 0
  OBVIOUS
<1>4. \A t \in Generators : call[t] = Resting
  BY <1>2
<1>5. JobsInv
  BY <1>2, <1>3, <1>4, RestingTyped DEF JobsInv
<1>6. QED
  BY <1>1, <1>5 DEF PlacementsInv

LEMMA PlacementsStep == PlacementsInv /\ [GenerationNext]_generationVars => PlacementsInv'
<1> SUFFICES ASSUME PlacementsInv, [GenerationNext]_generationVars PROVE PlacementsInv'
  OBVIOUS
<1>1. HistoriesInv /\ JobsInv
  BY DEF PlacementsInv
<1>2. ASSUME NEW t \in Generators, CallStep(t) PROVE PlacementsInv'
  BY <1>1, <1>2, CallStepKeepsHistories, CallStepKeepsJobs DEF PlacementsInv
<1>3. ASSUME NEW t \in Generators, NEW track \in Tracks, NEW slot \in Slots, Generate(t, track, slot)
      PROVE  PlacementsInv'
  <2>1. UNCHANGED editing
    BY <1>3 DEF Generate
  <2>2. QED
    BY <1>1, <1>3, <2>1, GenerateKeeps, SameHistories DEF PlacementsInv
<1>4. ASSUME NEW j \in DOMAIN provider, Provide(j) PROVE PlacementsInv'
  <2>1. UNCHANGED editing
    BY <1>4 DEF Provide
  <2>2. QED
    BY <1>1, <1>4, <2>1, ProvideKeeps, SameHistories DEF PlacementsInv
<1>5. CASE TimePasses
  <2>1. UNCHANGED editing
    BY <1>5 DEF TimePasses
  <2>2. QED
    BY <1>1, <1>5, <2>1, TimeKeeps, SameHistories DEF PlacementsInv
<1>6. ASSUME NEW track \in Tracks, DeleteTrack(track) PROVE PlacementsInv'
  <2>1. UNCHANGED <<client, call>>
    BY <1>6 DEF DeleteTrack
  <2>2. QED
    BY <1>1, <1>6, <2>1, DeleteKeeps, SameJobs DEF PlacementsInv
<1>7. CASE UserUndo \/ UserRedo \/ OpenProject
  <2>1. UNCHANGED <<client, call>>
    BY <1>7 DEF UserUndo, UserRedo, OpenProject
  <2>2. HistoriesInv'
    BY <1>1, <1>7, UndoKeeps, RedoKeeps, OpenKeeps DEF UserUndo, UserRedo
  <2>3. QED
    BY <1>1, <2>1, <2>2, SameJobs DEF PlacementsInv
<1>8. CASE UNCHANGED generationVars
  BY <1>1, <1>8, SameHistories, SameJobs DEF PlacementsInv, generationVars
<1>9. QED
  BY <1>2, <1>3, <1>4, <1>5, <1>6, <1>7, <1>8 DEF GenerationNext

LEMMA PlacementsInvSound == PlacementsInv => PlacementsSound
<1> SUFFICES ASSUME PlacementsInv PROVE PlacementsSound
  OBVIOUS
<1>1. HistoriesInv /\ JobsInv
  BY DEF PlacementsInv
<1>2. DocSound(doc) /\ AssetsOf(doc) \subseteq library /\ library \subseteq Assets
      /\ undo \in Seq(Commands) /\ redo \in Seq(Commands)
  BY <1>1 DEF HistoriesInv, Covers
<1>3. TimelineSound /\ ClipsResolve
  BY <1>2 DEF DocSound, TimelineSound, ClipsResolve, AssetsOf
<1>4. jobs \in Seq(JobRecords) /\ DOMAIN jobs = 1..Len(jobs) /\ provider \in Seq(Statuses)
      /\ Len(provider) = Len(jobs) /\ broken \subseteq DOMAIN jobs
  BY <1>1 DEF JobsInv
<1>5. NoJobForgotten
  BY <1>1, <1>4 DEF JobsInv, NoJobForgotten, Final
<1>6. \A t \in Generators : call[t].job \in {NoJob} \cup DOMAIN jobs
  <2>1. ASSUME NEW t \in Generators PROVE call[t].job \in {NoJob} \cup DOMAIN jobs
    <3>1. CallTyped(call[t], jobs)
      BY <1>1 DEF JobsInv
    <3>2. QED
      BY <1>4, <3>1 DEF CallTyped, Resters
  <2>2. QED
    BY <2>1
<1>7. GenerationTypeOK
  BY <1>2, <1>4, <1>6 DEF GenerationTypeOK, DocSound, Docs, JobRecords, Statuses
<1>8. QED
  BY <1>3, <1>5, <1>7 DEF PlacementsSound

(* However the provider behaves and whatever is edited, undone or opened meanwhile: *)
(* the document stays one the engine accepts, every clip finds its media, and a    *)
(* job that nobody waits for has ended, was given up, or was lost with a request.  *)
THEOREM PlacementsAreSound == GenerationSpec => []PlacementsSound
<1>1. QED
  BY PlacementsStart, PlacementsStep, PlacementsInvSound, PTL DEF GenerationSpec

-----------------------------------------------------------------------------------
(* The process. *)

(* The place of a component in the order of declaration, and its turn in the order *)
(* the constructor makes them in.                                                  *)
Rank ==
  [gpu |-> 1, session |-> 2, compositor |-> 3, decoderTeardown |-> 4, clipFrameProvider |-> 5,
   playbackEngine |-> 6, peakEnvelopes |-> 7, audioProject |-> 8, audioEngine |-> 9,
   saveService |-> 10, exportCoordinator |-> 11, mediaImportService |-> 12, secretStore |-> 13,
   byokValidator |-> 14, byokManager |-> 15, authBackend |-> 16, auth |-> 17,
   generativeBackend |-> 18, generativeTransport |-> 19, genClient |-> 20, genGate |-> 21,
   genRunner |-> 22, placer |-> 23, genCatalog |-> 24, genCoordinator |-> 25,
   transcriptionBackend |-> 26, transcriptionService |-> 27, toolRegistry |-> 28, executor |-> 29,
   rejectionLog |-> 30, remoteAccessGate |-> 31, healthMonitor |-> 32, mcpSessions |-> 33,
   mcpProtocol |-> 34, mcpServer |-> 35, agentGate |-> 36, agent |-> 37, startupErrors |-> 38,
   localization |-> 39]

Turn ==
  [startupErrors |-> 1, gpu |-> 2, session |-> 3, compositor |-> 4, decoderTeardown |-> 5,
   clipFrameProvider |-> 6, playbackEngine |-> 7, peakEnvelopes |-> 8, audioProject |-> 9,
   audioEngine |-> 10, saveService |-> 11, exportCoordinator |-> 12, mediaImportService |-> 13,
   secretStore |-> 14, byokValidator |-> 15, byokManager |-> 16, authBackend |-> 17, auth |-> 18,
   generativeTransport |-> 19, generativeBackend |-> 20, genClient |-> 21, genGate |-> 22,
   genRunner |-> 23, placer |-> 24, genCatalog |-> 25, genCoordinator |-> 26,
   transcriptionBackend |-> 27, transcriptionService |-> 28, toolRegistry |-> 29, executor |-> 30,
   mcpServer |-> 31, rejectionLog |-> 32, remoteAccessGate |-> 33, healthMonitor |-> 34,
   mcpSessions |-> 35, mcpProtocol |-> 36, agentGate |-> 37, agent |-> 38, localization |-> 39]

(* A part of an order: n components whose places follow on from a given one.       *)
Takes(f, s, from, n) ==
  /\ s \in Seq(DOMAIN f) /\ Len(s) = n
  /\ \A i \in 1..n : f[s[i]] = from + i

LEMMA Concatenated ==
  ASSUME NEW S, NEW s \in Seq(S), NEW t \in Seq(S)
  PROVE  /\ s \o t \in Seq(S) /\ Len(s \o t) = Len(s) + Len(t)
         /\ \A i \in 1..Len(s) + Len(t) : (s \o t)[i] = IF i <= Len(s) THEN s[i] ELSE t[i - Len(s)]
OBVIOUS

LEMMA TurnsJoin ==
  ASSUME NEW f, NEW k \in Nat, NEW n \in Nat, NEW m \in Nat, NEW s, NEW t,
         Takes(f, s, k, n), Takes(f, t, k + n, m)
  PROVE  Takes(f, s \o t, k, n + m)
<1>1. /\ s \o t \in Seq(DOMAIN f) /\ Len(s \o t) = n + m
      /\ \A i \in 1..n + m : (s \o t)[i] = IF i <= n THEN s[i] ELSE t[i - n]
  <2>1. s \in Seq(DOMAIN f) /\ t \in Seq(DOMAIN f) /\ Len(s) = n /\ Len(t) = m
    BY DEF Takes
  <2>2. QED
    BY <2>1, Concatenated
<1>2. ASSUME NEW i \in 1..n + m PROVE f[(s \o t)[i]] = k + i
  <2>1. CASE i <= n
    BY <1>1, <2>1 DEF Takes
  <2>2. CASE ~(i <= n)
    <3>1. i - n \in 1..m /\ (s \o t)[i] = t[i - n]
      BY <1>1, <2>2
    <3>2. f[t[i - n]] = (k + n) + (i - n)
      BY <3>1 DEF Takes
    <3>3. QED
      BY <3>1, <3>2
  <2>3. QED
    BY <2>1, <2>2
<1>3. QED
  BY <1>1, <1>2 DEF Takes

LEMMA Declared == Takes(Rank, Members, 0, 39)
<1> DEFINE S == <<"generativeBackend", "generativeTransport">>
           T == <<"agentGate", "agent", "startupErrors", "localization">>
           Q == FirstParts \o S
           R == Q \o PipelineParts
           U == R \o EndpointMembers
<1>1. Takes(Rank, FirstParts, 0, 17)
  BY DEF FirstParts, Rank, Takes
<1>2. Takes(Rank, S, 17, 2)
  BY DEF Rank, Takes
<1>3. Takes(Rank, PipelineParts, 19, 10)
  BY DEF PipelineParts, Rank, Takes
<1>4. Takes(Rank, EndpointMembers, 29, 6)
  BY DEF EndpointMembers, Rank, Takes
<1>5. Takes(Rank, T, 35, 4)
  BY DEF Rank, Takes
<1>6. Members = U \o T
  BY DEF Members
<1> HIDE DEF S, T
<1>7. Takes(Rank, Q, 0, 19)
  <2>1. Takes(Rank, S, 0 + 17, 2)
    BY <1>2
  <2>2. Takes(Rank, Q, 0, 17 + 2)
    BY <1>1, <2>1, TurnsJoin
  <2>3. QED
    BY <2>2
<1> HIDE DEF Q
<1>8. Takes(Rank, R, 0, 29)
  <2>1. Takes(Rank, PipelineParts, 0 + 19, 10)
    BY <1>3
  <2>2. Takes(Rank, R, 0, 19 + 10)
    BY <1>7, <2>1, TurnsJoin
  <2>3. QED
    BY <2>2
<1> HIDE DEF R
<1>9. Takes(Rank, U, 0, 35)
  <2>1. Takes(Rank, EndpointMembers, 0 + 29, 6)
    BY <1>4
  <2>2. Takes(Rank, U, 0, 29 + 6)
    BY <1>8, <2>1, TurnsJoin
  <2>3. QED
    BY <2>2
<1> HIDE DEF U
<1>10. Takes(Rank, U \o T, 0, 39)
  <2>1. Takes(Rank, T, 0 + 35, 4)
    BY <1>5
  <2>2. Takes(Rank, U \o T, 0, 35 + 4)
    BY <1>9, <2>1, TurnsJoin
  <2>3. QED
    BY <2>2
<1>11. QED
  BY <1>6, <1>10

LEMMA Built == Takes(Turn, BuildOrder, 0, 39)
<1> DEFINE S == <<"startupErrors">>
           V == <<"generativeTransport", "generativeBackend">>
           T == <<"agentGate", "agent", "localization">>
           P == S \o FirstParts
           Q == P \o V
           R == Q \o PipelineParts
           U == R \o EndpointOrder
<1>1. Takes(Turn, S, 0, 1)
  BY DEF Turn, Takes
<1>2. Takes(Turn, FirstParts, 1, 17)
  BY DEF FirstParts, Turn, Takes
<1>3. Takes(Turn, V, 18, 2)
  BY DEF Turn, Takes
<1>4. Takes(Turn, PipelineParts, 20, 10)
  BY DEF PipelineParts, Turn, Takes
<1>5. Takes(Turn, EndpointOrder, 30, 6)
  BY DEF EndpointOrder, Turn, Takes
<1>6. Takes(Turn, T, 36, 3)
  BY DEF Turn, Takes
<1>7. BuildOrder = U \o T
  BY DEF BuildOrder
<1> HIDE DEF S, V, T
<1>8. Takes(Turn, P, 0, 18)
  <2>1. Takes(Turn, FirstParts, 0 + 1, 17)
    BY <1>2
  <2>2. Takes(Turn, P, 0, 1 + 17)
    BY <1>1, <2>1, TurnsJoin
  <2>3. QED
    BY <2>2
<1> HIDE DEF P
<1>9. Takes(Turn, Q, 0, 20)
  <2>1. Takes(Turn, V, 0 + 18, 2)
    BY <1>3
  <2>2. Takes(Turn, Q, 0, 18 + 2)
    BY <1>8, <2>1, TurnsJoin
  <2>3. QED
    BY <2>2
<1> HIDE DEF Q
<1>10. Takes(Turn, R, 0, 30)
  <2>1. Takes(Turn, PipelineParts, 0 + 20, 10)
    BY <1>4
  <2>2. Takes(Turn, R, 0, 20 + 10)
    BY <1>9, <2>1, TurnsJoin
  <2>3. QED
    BY <2>2
<1> HIDE DEF R
<1>11. Takes(Turn, U, 0, 36)
  <2>1. Takes(Turn, EndpointOrder, 0 + 30, 6)
    BY <1>5
  <2>2. Takes(Turn, U, 0, 30 + 6)
    BY <1>10, <2>1, TurnsJoin
  <2>3. QED
    BY <2>2
<1> HIDE DEF U
<1>12. Takes(Turn, U \o T, 0, 39)
  <2>1. Takes(Turn, T, 0 + 36, 3)
    BY <1>6
  <2>2. Takes(Turn, U \o T, 0, 36 + 3)
    BY <1>11, <2>1, TurnsJoin
  <2>3. QED
    BY <2>2
<1>13. QED
  BY <1>7, <1>12

LEMMA InTurn ==
  /\ DOMAIN Rank = DOMAIN Turn
  /\ \A c \in DOMAIN Rank : Rank[c] \in 1..39 /\ Turn[c] \in 1..39
  /\ \A c, d \in DOMAIN Rank : Rank[c] = Rank[d] => c = d
  /\ \A c, d \in DOMAIN Rank : Turn[c] = Turn[d] => c = d
<1>1. DOMAIN Rank = DOMAIN Turn
  BY DEF Rank, Turn
<1>2. \A c \in DOMAIN Rank : Rank[c] \in 1..39 /\ Turn[c] \in 1..39
  BY DEF Rank, Turn
<1>3. \A c, d \in DOMAIN Rank : Rank[c] = Rank[d] => c = d
  BY DEF Rank
<1>4. \A c, d \in DOMAIN Turn : Turn[c] = Turn[d] => c = d
  BY DEF Turn
<1>5. QED
  BY <1>1, <1>2, <1>3, <1>4

LEMMA Ranked ==
  /\ Components = DOMAIN Rank /\ Components = DOMAIN Turn
  /\ \A c \in Components : Members[Rank[c]] = c /\ BuildOrder[Turn[c]] = c
  /\ DOMAIN Members = 1..39 /\ Len(Members) = 39 /\ \A i \in 1..39 : Rank[Members[i]] = i
<1>1. /\ DOMAIN Members = 1..39
      /\ \A i \in 1..39 : Members[i] \in DOMAIN Rank /\ Rank[Members[i]] = i
  <2>1. Members \in Seq(DOMAIN Rank) /\ Len(Members) = 39 /\ \A i \in 1..39 : Rank[Members[i]] = 0 + i
    BY Declared DEF Takes
  <2>2. ASSUME NEW i \in 1..39 PROVE Members[i] \in DOMAIN Rank /\ Rank[Members[i]] = i
    <3>1. Members[i] \in DOMAIN Rank
      BY <2>1, ElementOfSeq
    <3>2. Rank[Members[i]] = 0 + i
      BY <2>1
    <3>3. QED
      BY <3>1, <3>2
  <2>3. QED
    BY <2>1, <2>2
<1>2. \A i \in 1..39 : BuildOrder[i] \in DOMAIN Turn /\ Turn[BuildOrder[i]] = i
  <2>1. BuildOrder \in Seq(DOMAIN Turn) /\ Len(BuildOrder) = 39 /\ \A i \in 1..39 : Turn[BuildOrder[i]] = 0 + i
    BY Built DEF Takes
  <2>2. ASSUME NEW i \in 1..39 PROVE BuildOrder[i] \in DOMAIN Turn /\ Turn[BuildOrder[i]] = i
    <3>1. BuildOrder[i] \in DOMAIN Turn
      BY <2>1, ElementOfSeq
    <3>2. Turn[BuildOrder[i]] = 0 + i
      BY <2>1
    <3>3. QED
      BY <3>1, <3>2
  <2>3. QED
    BY <2>2
<1>3. \A c \in DOMAIN Rank : Rank[c] \in 1..39 /\ Members[Rank[c]] = c
  BY <1>1, InTurn
<1>4. Components = DOMAIN Rank
  <2>1. Components = {Members[i] : i \in 1..39}
    BY <1>1 DEF Components, Range
  <2>2. \A c \in Components : c \in DOMAIN Rank
    BY <1>1, <2>1
  <2>3. \A c \in DOMAIN Rank : c \in Components
    BY <1>3, <2>1
  <2>4. QED
    BY <2>2, <2>3
<1>5. Len(Members) = 39
  BY Declared DEF Takes
<1>6. \A c \in Components : BuildOrder[Turn[c]] = c
  BY <1>2, <1>4, InTurn
<1>7. QED
  BY <1>1, <1>3, <1>4, <1>5, <1>6, InTurn

Objects == Components \cup Helpers \cup {"window"}

(* Whatever is held is declared, and if a constructor was given it also made,       *)
(* before its holder, or DiesFirst names it; and what a thread reaches was declared  *)
(* no later than the component that joins it.                                       *)
LEMMA Orders ==
  /\ \A c \in Components : Rank[c] \in 1..39 /\ Turn[c] \in 1..39
  /\ \A c \in Components : \A b \in Borrows(c) \ DiesFirst(c) : b \in Components /\ Rank[b] < Rank[c] /\ Turn[b] < Turn[c]
  /\ \A c \in Components : \A b \in Installed(c) \ DiesFirst(c) : b \in Components /\ Rank[b] < Rank[c]
  /\ Borrows("window") = Components /\ Installed("window") = {}
  /\ \A c \in Helpers : Borrows(c) = {} /\ Installed(c) = {}
  /\ \A t \in Threads : Joiner(t) \in Made /\ Reaches(t) \subseteq Components
  /\ \A t \in Threads \ {"endpoint"} : \A c \in Reaches(t) : Rank[c] <= Rank[Joiner(t)]
  /\ "window" \notin Components \cup Helpers /\ Components \cap Helpers = {}
<1>1. \A c \in Components : Rank[c] \in 1..39 /\ Turn[c] \in 1..39
  BY Ranked, InTurn
<1>2. \A c \in Components : \A b \in Borrows(c) \ DiesFirst(c) : b \in Components /\ Rank[b] < Rank[c] /\ Turn[b] < Turn[c]
  BY Ranked DEF Borrows, DiesFirst, Rank, Turn
<1>3. \A c \in Components : \A b \in Installed(c) \ DiesFirst(c) : b \in Components /\ Rank[b] < Rank[c]
  BY Ranked DEF Installed, DiesFirst, Rank
<1>4. Borrows("window") = Components /\ Installed("window") = {}
  BY DEF Borrows, Installed
<1>5. \A c \in Helpers : Borrows(c) = {} /\ Installed(c) = {}
  BY DEF Borrows, Installed, Helpers
<1>6. \A t \in Threads : Joiner(t) \in Made /\ Reaches(t) \subseteq Components
  <2>1. \A t \in Threads : Joiner(t) \in Components
    BY Ranked DEF Threads, Joiner, Rank
  <2>2. \A t \in Threads : Joiner(t) \notin Missing
    BY DEF Threads, Joiner, Missing, Helpers
  <2>3. \A t \in Threads : Reaches(t) \subseteq Components
    BY Ranked DEF Threads, Joiner, Reaches, Rank
  <2>4. QED
    BY <2>1, <2>2, <2>3 DEF Made
<1>7. \A t \in Threads \ {"endpoint"} : \A c \in Reaches(t) : Rank[c] <= Rank[Joiner(t)]
  BY DEF Threads, Joiner, Reaches, Rank
<1>8. "window" \notin Components \cup Helpers /\ Components \cap Helpers = {}
  BY Ranked DEF Rank, Helpers
<1>9. QED
  BY <1>1, <1>2, <1>3, <1>4, <1>5, <1>6, <1>7, <1>8

(* Nothing that a thread could get to is left out of what it reaches.               *)
LEMMA Closed == ReachesAll
<1>1. \A t \in Threads : Joiner(t) \in Reaches(t)
  BY Ranked DEF Threads, Joiner, Reaches, Rank
<1>2. ASSUME NEW t \in Threads, NEW c \in Reaches(t)
      PROVE  (Borrows(c) \cup Installed(c)) \cap Components \subseteq Reaches(t)
  <2>1. CASE t = "endpoint"
    BY <2>1 DEF Reaches
  <2>2. CASE t # "endpoint"
    BY <2>2, Ranked DEF Threads, Joiner, Reaches, Borrows, Installed, Rank
  <2>3. QED
    BY <2>1, <2>2
<1>3. QED
  BY <1>1, <1>2 DEF ReachesAll

(* What is composed, and what is held, is settled when the program starts.          *)
LEMMA Settled ==
  ASSUME UNCHANGED <<shell, backend, tls>>
  PROVE  /\ Missing' = Missing /\ Made' = Made
         /\ \A c : Borrows(c)' = Borrows(c)
<1>1. Missing' = Missing
  BY DEF Missing
<1>2. Made' = Made
  BY <1>1 DEF Made
<1>3. \A c : Borrows(c)' = Borrows(c)
  BY DEF Borrows
<1>4. QED
  BY <1>1, <1>2, <1>3

-----------------------------------------------------------------------------------
Early == {"checking", "building", "unwinding", "starting"}
Complete == {"starting", "running", "stopping", "leaving"}
Later == {BuildOrder[i] : i \in built + 1 .. Len(BuildOrder)}
Reaching(c) == (Borrows(c) \cup (Installed(c) \ Later)) \ Missing \subseteq alive \cup DiesFirst(c)

LifeInv ==
  /\ LifeTypeOK /\ HeldOutlivesHolder /\ "endpoint" \notin busy
  /\ alive \cap Components \subseteq Made
  /\ "window" \in alive => phase \in {"running", "stopping", "leaving"}
  /\ endpoint # "off" => phase \in {"running", "stopping"}
  /\ phase \in Early \cup {"exited"} => busy = {}
  /\ phase # "exited" => exitCode = 2
  /\ phase = "checking" => alive = {} /\ built = 0
  /\ phase = "building" => alive \cap Components = {c \in Made : Turn[c] <= built} /\ built < 39
  /\ phase \in Complete \cup {"destroying"} => built = 39
  /\ phase \in Complete => Made \subseteq alive
  /\ phase = "destroying" =>
       /\ alive \subseteq Made
       /\ \A c \in alive, d \in Made : Rank[d] < Rank[c] => d \in alive
       /\ \A t \in busy : Joiner(t) \in alive
  /\ phase = "exited" => alive = {} /\ (exitCode = 0 => built = 39)

LEMMA HeldIs == HeldOutlivesHolder <=> \A c \in alive : Reaching(c)
BY DEF HeldOutlivesHolder, Reaching, Later

LEMMA HeldNext == ASSUME \A c \in alive' : Reaching(c)' PROVE HeldOutlivesHolder'
BY DEF HeldOutlivesHolder, Reaching, Later

LEMMA LifeStart == ASSUME LifeInit PROVE LifeInv
<1>1. /\ shell \in {"qt", "console"} /\ backend \in {"offline", "hosted", "injected"} /\ tls \in BOOLEAN
      /\ phase = "checking" /\ built = 0 /\ alive = {} /\ endpoint = "off" /\ busy = {}
      /\ repaint = "none" /\ exitCode = 2
  BY DEF LifeInit
<1>2. Len(BuildOrder) = 39
  BY Built DEF Takes
<1>3. LifeTypeOK
  BY <1>1, <1>2 DEF LifeTypeOK
<1>4. HeldOutlivesHolder
  BY <1>1, HeldIs
<1>5. QED
  BY <1>1, <1>3, <1>4 DEF LifeInv, Early, Complete

(* Of all components nothing is missing.                                           *)
LEMMA CompleteHolds ==
  ASSUME Made \subseteq alive', alive' \subseteq Objects, UNCHANGED <<shell, backend, tls>>
  PROVE  HeldOutlivesHolder'
<1>1. ASSUME NEW c \in alive' PROVE Reaching(c)'
  <2>1. ASSUME NEW b \in Borrows(c) \cup Installed(c), b \notin DiesFirst(c) PROVE b \in Components
    <3>1. CASE c \in Components
      BY <2>1, <3>1, Orders
    <3>2. CASE c = "window"
      BY <2>1, <3>2, Orders
    <3>3. CASE c \in Helpers
      BY <2>1, <3>3, Orders
    <3>4. QED
      BY <3>1, <3>2, <3>3 DEF Objects
  <2>2. Borrows(c)' = Borrows(c) /\ Missing' = Missing
    BY Settled
  <2>3. QED
    BY <2>1, <2>2 DEF Reaching, Made
<1>2. QED
  BY <1>1, HeldNext

LEMMA LifeSoundness == ASSUME LifeInv PROVE LifecycleSound
<1>1. Len(BuildOrder) = 39
  BY Built DEF Takes
<1>2. ASSUME NEW t \in busy PROVE Reaches(t) \ Missing \subseteq alive
  <2>1. /\ t \in Threads \ {"endpoint"} /\ phase \in Complete \cup {"destroying"}
        /\ Reaches(t) \ Missing \subseteq Made
    BY Orders DEF LifeInv, LifeTypeOK, Early, Complete, Made
  <2>2. CASE phase \in Complete
    BY <2>1, <2>2 DEF LifeInv
  <2>3. CASE phase = "destroying"
    <3>1. Joiner(t) \in alive /\ \A c, d : c \in alive /\ d \in Made /\ Rank[d] < Rank[c] => d \in alive
      BY <2>3 DEF LifeInv
    <3>2. ASSUME NEW c \in Reaches(t), c \notin Missing PROVE c \in alive
      <4>1. c \in Made /\ c \in Components /\ Joiner(t) \in Components /\ Rank[c] <= Rank[Joiner(t)]
        BY <2>1, <3>2, Orders DEF Made
      <4>2. CASE Rank[c] < Rank[Joiner(t)]
        BY <3>1, <4>1, <4>2
      <4>3. CASE Rank[c] = Rank[Joiner(t)]
        BY <3>1, <4>1, <4>3, Ranked, InTurn
      <4>4. QED
        BY <4>1, <4>2, <4>3, Orders
    <3>3. QED
      BY <3>2
  <2>4. QED
    BY <2>1, <2>2, <2>3
<1>3. endpoint # "off" => Reaches("endpoint") \ Missing \subseteq alive
  BY Orders DEF LifeInv, Complete, Threads, Made
<1>4. ThreadsReachTheLiving
  BY <1>2, <1>3, Closed DEF ThreadsReachTheLiving
<1>5. ExitIsClean
  BY <1>1 DEF ExitIsClean, LifeInv
<1>6. QED
  BY <1>4, <1>5 DEF LifecycleSound, LifeInv

-----------------------------------------------------------------------------------
(* The platform is checked and the members are made, one after the other.          *)
LEMMA CheckKeeps == ASSUME LifeInv, CheckPlatform PROVE LifeInv'
<1>1. /\ phase = "checking" /\ alive = {} /\ built = 0
      /\ UNCHANGED <<shell, backend, tls, built, endpoint, busy, repaint>>
  BY DEF CheckPlatform, LifeInv
<1>2. \/ phase' = "building" /\ exitCode' = exitCode /\ alive' \in {Helpers, {}}
      \/ phase' = "exited" /\ exitCode' = 1 /\ alive' = alive
  BY DEF CheckPlatform
<1>3. CASE phase' = "building" /\ exitCode' = exitCode /\ alive' \in {Helpers, {}}
  <2>1. alive' \cap Components = {} /\ "window" \notin alive'
    BY <1>3, Orders
  <2>2. {c \in Made' : Turn[c] <= 0} = {}
    BY Orders DEF Made
  <2>3. HeldOutlivesHolder'
    <3>1. ASSUME NEW c \in alive' PROVE Reaching(c)'
      <4>1. Borrows(c)' = {} /\ Installed(c) = {}
        BY <1>1, <1>3, <3>1, Settled, Orders
      <4>2. QED
        BY <4>1 DEF Reaching
    <3>2. QED
      BY <3>1, HeldNext
  <2>4. LifeTypeOK'
    BY <1>1, <1>3 DEF LifeInv, LifeTypeOK
  <2>5. QED
    BY <1>1, <1>3, <2>1, <2>2, <2>3, <2>4 DEF LifeInv, Early, Complete
<1>4. CASE phase' = "exited" /\ exitCode' = 1 /\ alive' = alive
  <2>1. LifeTypeOK'
    BY <1>1, <1>4 DEF LifeInv, LifeTypeOK
  <2>2. HeldOutlivesHolder'
    BY <1>1, <1>4, HeldNext
  <2>3. QED
    BY <1>1, <1>4, <2>1, <2>2 DEF LifeInv, Early, Complete
<1>5. QED
  BY <1>2, <1>3, <1>4

LEMMA BuildKeeps == ASSUME LifeInv, BuildComponent PROVE LifeInv'
<1> DEFINE c == BuildOrder[built + 1]
<1>1. /\ phase = "building" /\ alive' = alive \cup ({c} \cap Made) /\ built' = built + 1 /\ built < 39
      /\ phase' = (IF built + 1 = 39 THEN "starting" ELSE phase)
      /\ UNCHANGED <<shell, backend, tls, endpoint, busy, repaint, exitCode>>
  BY Built DEF BuildComponent, Takes
<1>2. built \in Nat /\ Len(BuildOrder) = 39 /\ Missing' = Missing /\ Made' = Made
  BY <1>1, Built, Settled DEF LifeInv, LifeTypeOK, Takes
<1>3. c \in Components /\ Turn[c] = built + 1
  <2>1. built + 1 \in 1..39
    BY <1>1, <1>2
  <2>2. BuildOrder \in Seq(DOMAIN Turn) /\ Len(BuildOrder) = 39 /\ \A i \in 1..39 : Turn[BuildOrder[i]] = 0 + i
    BY Built DEF Takes
  <2>3. BuildOrder[built + 1] \in DOMAIN Turn
    BY <2>1, <2>2, ElementOfSeq
  <2>4. Turn[BuildOrder[built + 1]] = 0 + (built + 1)
    BY <2>1, <2>2
  <2>5. QED
    BY <1>2, <2>3, <2>4, Ranked
<1> HIDE DEF c
<1>4. alive \cap Components = {d \in Made : Turn[d] <= built} /\ "window" \notin alive /\ alive \subseteq Objects
  BY <1>1 DEF LifeInv, LifeTypeOK, Objects
<1>5. ASSUME NEW d \in Made PROVE d \in alive' <=> Turn[d] <= built + 1
  <2>1. d \in Components /\ Turn[d] \in Int /\ (Turn[d] = Turn[c] => d = c)
    BY <1>3, Ranked, InTurn, Orders DEF Made
  <2>2. d \in alive <=> Turn[d] <= built
    BY <1>4, <2>1
  <2>3. QED
    BY <1>1, <1>2, <1>3, <2>1, <2>2
<1>6. ASSUME NEW b \in Components, b \notin Later' PROVE Turn[b] <= built + 1
  <2>1. Turn[b] \in 1..39 /\ BuildOrder[Turn[b]] = b
    BY Ranked, Orders
  <2>2. Later' = {BuildOrder[i] : i \in (built + 1) + 1 .. 39}
    BY <1>1, <1>2 DEF Later
  <2>3. Turn[b] \notin (built + 1) + 1 .. 39
    BY <1>6, <2>1, <2>2
  <2>4. QED
    BY <1>2, <2>1, <2>3
<1>7. HeldOutlivesHolder'
  <2>1. ASSUME NEW d \in alive', NEW b \in (Borrows(d) \cup (Installed(d) \ Later')) \ Missing, b \notin DiesFirst(d)
        PROVE  b \in alive'
    <3>1. d \in Components
      <4>1. d \notin Helpers
        BY <2>1, Orders
      <4>2. QED
        BY <1>1, <1>3, <1>4, <2>1, <4>1 DEF Objects
    <3>2. b \in Components /\ b \in Made
      BY <2>1, <3>1, Orders DEF Made
    <3>3. Turn[b] <= built + 1
      <4>1. CASE b \in Borrows(d)
        <5>1. Turn[b] < Turn[d] /\ Turn[b] \in Int /\ Turn[d] \in Int
          BY <2>1, <3>1, <3>2, <4>1, Orders
        <5>2. d \in Made
          BY <1>1, <1>4, <3>1 DEF LifeInv
        <5>3. Turn[d] <= built + 1
          BY <1>5, <2>1, <5>2
        <5>4. QED
          BY <1>2, <5>1, <5>3
      <4>2. CASE b \notin Later'
        BY <1>6, <3>2, <4>2
      <4>3. QED
        BY <2>1, <4>1, <4>2
    <3>4. QED
      BY <1>5, <3>2, <3>3
  <2>2. ASSUME NEW d \in alive' PROVE Reaching(d)'
    <3>1. Borrows(d)' = Borrows(d)
      BY <1>1, Settled
    <3>2. QED
      BY <1>2, <2>1, <3>1 DEF Reaching
  <2>3. QED
    BY <2>2, HeldNext
<1>8. LifeTypeOK'
  BY <1>1, <1>2, <1>3 DEF LifeInv, LifeTypeOK
<1>9. alive' \cap Components \subseteq Made /\ "window" \notin alive'
  <2>1. c # "window" /\ alive \cap Components \subseteq Made
    BY <1>3, Orders DEF LifeInv
  <2>2. QED
    BY <1>1, <1>4, <2>1
<1>10. built' < 39 => phase' = "building" /\ alive' \cap Components = {d \in Made : Turn[d] <= built'}
  <2>1. \A d \in Made : d \in Components
    BY DEF Made
  <2>2. QED
    BY <1>1, <1>2, <1>5, <1>9, <2>1
<1>11. built' = 39 => phase' = "starting" /\ Made \subseteq alive'
  <2>1. \A d \in Made : Turn[d] \in 1..39
    BY Orders DEF Made
  <2>2. QED
    BY <1>1, <1>2, <1>5, <2>1
<1>12. busy = {} /\ endpoint = "off" /\ exitCode = 2
  BY <1>1 DEF LifeInv, Early
<1>13. built' < 39 \/ built' = 39
  BY <1>1, <1>2
<1>14. QED
  BY <1>1, <1>2, <1>7, <1>8, <1>9, <1>10, <1>11, <1>12, <1>13 DEF LifeInv, Early, Complete

(* The last member goes: what it held was declared before it.                      *)
LEMMA Dropped ==
  ASSUME HeldOutlivesHolder, alive \subseteq Objects, "window" \notin alive,
         NEW m \in DOMAIN Members, LastAlive(m), NEW c, c = Members[m], alive' = alive \ {c},
         UNCHANGED <<shell, backend, tls, built>>
  PROVE  /\ HeldOutlivesHolder' /\ c \in alive \cap Components
         /\ \A d \in alive \cap Components : Rank[d] <= Rank[c]
<1>1. c \in alive \cap Components /\ \A d \in alive \cap Components : Rank[d] <= Rank[c]
  <2>1. c \in alive /\ c \in Components
    BY DEF LastAlive, Components, Range
  <2>2. m \in 1..39 /\ Rank[c] = m
    BY <2>1, Ranked
  <2>3. ASSUME NEW d \in alive \cap Components PROVE Rank[d] <= m
    <3>1. Rank[d] \in 1..39 /\ Members[Rank[d]] = d
      BY Ranked, Orders
    <3>2. Rank[d] \notin m + 1 .. 39
      BY <3>1, Ranked DEF LastAlive
    <3>3. QED
      BY <2>2, <3>1, <3>2
  <2>4. QED
    BY <2>1, <2>2, <2>3
<1>2. ASSUME NEW d \in alive', NEW b \in (Borrows(d) \cup (Installed(d) \ Later)) \ Missing, b \notin DiesFirst(d)
      PROVE  b \in alive'
  <2>1. d \in alive /\ d \in Components
    <3>1. d \notin Helpers
      BY <1>2, Orders
    <3>2. QED
      BY <1>2, <3>1 DEF Objects
  <2>2. b \in alive
    <3>1. Reaching(d)
      BY <2>1, HeldIs
    <3>2. QED
      BY <1>2, <3>1 DEF Reaching
  <2>3. Rank[b] < Rank[d] /\ Rank[d] <= Rank[c] /\ b \in Components
    BY <1>1, <1>2, <2>1, Orders
  <2>4. Rank[b] \in Int /\ Rank[d] \in Int /\ Rank[c] \in Int
    BY <1>1, <2>1, <2>3, Orders
  <2>5. b # c
    BY <2>3, <2>4
  <2>6. QED
    BY <2>2, <2>5
<1>3. ASSUME NEW d \in alive' PROVE Reaching(d)'
  <2>1. Borrows(d)' = Borrows(d) /\ Missing' = Missing /\ Later' = Later
    BY Settled DEF Later
  <2>2. QED
    BY <1>2, <2>1 DEF Reaching
<1>4. HeldOutlivesHolder'
  BY <1>3, HeldNext
<1>5. QED
  BY <1>1, <1>4

LEMMA UnwindKeeps == ASSUME LifeInv, Unwind PROVE LifeInv'
<1>1. /\ phase = "unwinding" /\ busy = {} /\ endpoint = "off" /\ exitCode = 2 /\ "window" \notin alive
      /\ alive \subseteq Objects /\ alive \cap Components \subseteq Made /\ HeldOutlivesHolder
      /\ UNCHANGED <<shell, backend, tls, built, endpoint, busy, repaint>>
  BY DEF Unwind, LifeInv, LifeTypeOK, Early, Objects
<1>2. ASSUME NEW i \in DOMAIN Members, LastAlive(i), alive' = alive \ {Members[i]}, UNCHANGED <<phase, exitCode>>
      PROVE  LifeInv'
  <2>1. HeldOutlivesHolder'
    BY <1>1, <1>2, Dropped
  <2>2. LifeTypeOK'
    BY <1>1, <1>2 DEF LifeInv, LifeTypeOK
  <2>3. Made' = Made
    BY <1>1, Settled
  <2>4. QED
    BY <1>1, <1>2, <2>1, <2>2, <2>3 DEF LifeInv, Early, Complete
<1>3. CASE alive' = {} /\ phase' = "exited" /\ exitCode' = 1
  <2>1. LifeTypeOK'
    BY <1>1, <1>3 DEF LifeInv, LifeTypeOK
  <2>2. HeldOutlivesHolder'
    BY <1>3, HeldNext
  <2>3. QED
    BY <1>1, <1>3, <2>1, <2>2 DEF LifeInv, Early, Complete
<1>4. QED
  BY <1>2, <1>3 DEF Unwind

(* What changes no component while the program runs, or while it is torn down.     *)
LEMMA RunKeeps ==
  ASSUME LifeInv, StartEndpoint \/ ServeRequest \/ RequestAnswered \/ StartWork \/ QuitApplication \/ StopEndpoint
  PROVE  LifeInv'
<1>1. /\ phase \in Complete /\ Made \subseteq alive /\ built = 39 /\ exitCode = 2
      /\ UNCHANGED <<shell, backend, tls, built, repaint, exitCode>>
      /\ alive' \in {alive, alive \cup {"window"}}
  BY DEF LifeInv, Complete, StartEndpoint, ServeRequest, RequestAnswered, StartWork, QuitApplication, StopEndpoint
<1>2. /\ phase' \in Complete \ {"starting"} /\ endpoint' \in {"off", "listening", "serving"}
      /\ endpoint' # "off" => phase' \in {"running", "stopping"}
      /\ busy' \subseteq Threads /\ "endpoint" \notin busy'
  <2>1. /\ phase \in Complete /\ endpoint \in {"off", "listening", "serving"} /\ busy \subseteq Threads
        /\ "endpoint" \notin busy /\ (endpoint # "off" => phase \in {"running", "stopping"})
    BY <1>1 DEF LifeInv, LifeTypeOK
  <2>2. CASE StartEndpoint
    BY <2>1, <2>2 DEF StartEndpoint, Complete
  <2>3. CASE ServeRequest
    BY <2>1, <2>3 DEF ServeRequest, Complete
  <2>4. CASE RequestAnswered
    BY <2>1, <2>4 DEF RequestAnswered, Complete
  <2>5. CASE StartWork
    BY <2>1, <2>5 DEF StartWork, Complete
  <2>6. CASE QuitApplication
    BY <2>1, <2>6 DEF QuitApplication, Complete
  <2>7. CASE StopEndpoint
    BY <2>1, <2>7 DEF StopEndpoint, Complete
  <2>8. QED
    BY <2>2, <2>3, <2>4, <2>5, <2>6, <2>7
<1>3. Made' = Made
  BY <1>1, Settled
<1>4. /\ Made \subseteq alive' /\ alive' \subseteq Objects /\ alive' \cap Components \subseteq Made
  BY <1>1, Orders DEF LifeInv, LifeTypeOK, Objects
<1>5. HeldOutlivesHolder'
  BY <1>1, <1>3, <1>4, CompleteHolds
<1>6. LifeTypeOK'
  BY <1>1, <1>2, <1>4 DEF LifeInv, LifeTypeOK, Complete, Objects
<1>7. QED
  BY <1>1, <1>2, <1>3, <1>4, <1>5, <1>6 DEF LifeInv, Early, Complete

LEMMA ThreadsKeep ==
  ASSUME LifeInv, WorkEnds \/ CheckToken \/ PostRepaint \/ ConstructorThrows \/ UNCHANGED lifeVars
  PROVE  LifeInv'
<1>1. /\ UNCHANGED <<shell, backend, tls, built, alive, endpoint, exitCode>>
      /\ busy' \subseteq busy /\ repaint' \in {"none", "checked", repaint}
      /\ phase' = phase \/ (phase = "building" /\ phase' = "unwinding")
  BY DEF WorkEnds, CheckToken, PostRepaint, ConstructorThrows, lifeVars
<1>2. Made' = Made
  BY <1>1, Settled
<1>3. HeldOutlivesHolder'
  <2>1. ASSUME NEW c \in alive' PROVE Reaching(c)'
    <3>1. Borrows(c)' = Borrows(c) /\ Missing' = Missing /\ Later' = Later
      BY <1>1, Settled DEF Later
    <3>2. Reaching(c)
      BY <1>1, HeldIs DEF LifeInv
    <3>3. QED
      BY <1>1, <3>1, <3>2 DEF Reaching
  <2>2. QED
    BY <2>1, HeldNext
<1>4. LifeTypeOK'
  BY <1>1 DEF LifeInv, LifeTypeOK
<1>5. QED
  BY <1>1, <1>2, <1>3, <1>4 DEF LifeInv, Early, Complete

-----------------------------------------------------------------------------------
(* main()'s scope ends, and then the composition's members do.                     *)
LEMMA LeaveKeeps == ASSUME LifeInv, LeaveScope PROVE LifeInv'
<1>1. /\ phase = "leaving" /\ endpoint = "off" /\ Made \subseteq alive /\ built = 39 /\ exitCode = 2
      /\ alive \subseteq Objects /\ alive \cap Components \subseteq Made
      /\ UNCHANGED <<shell, backend, tls, built, endpoint, busy, repaint, exitCode>>
  BY DEF LeaveScope, LifeInv, Complete, LifeTypeOK, Objects
<1>2. \/ alive' = alive \ {"window"} /\ phase' = phase
      \/ alive' = alive \ Helpers /\ phase' = phase
      \/ alive' = alive /\ phase' = "destroying" /\ "window" \notin alive /\ Helpers \cap alive = {}
  BY DEF LeaveScope
<1>3. Made' = Made /\ Made \subseteq Components
  BY <1>1, Settled DEF Made
<1>4. Made \subseteq alive' /\ alive' \subseteq alive
  BY <1>1, <1>2, <1>3, Orders
<1>5. HeldOutlivesHolder'
  BY <1>1, <1>3, <1>4, CompleteHolds
<1>6. LifeTypeOK'
  BY <1>1, <1>2, <1>4 DEF LifeInv, LifeTypeOK
<1>7. CASE phase' = phase
  BY <1>1, <1>3, <1>4, <1>5, <1>6, <1>7 DEF LifeInv, Early, Complete
<1>8. CASE alive' = alive /\ phase' = "destroying" /\ "window" \notin alive /\ Helpers \cap alive = {}
  <2>1. alive' \subseteq Made /\ "window" \notin alive'
    BY <1>1, <1>8 DEF Objects
  <2>2. \A t \in busy' : Joiner(t) \in alive'
    BY <1>1, <1>4, Orders DEF LifeInv, LifeTypeOK
  <2>3. "endpoint" \notin busy'
    BY <1>1 DEF LifeInv
  <2>4. QED
    BY <1>1, <1>3, <1>4, <1>5, <1>6, <1>8, <2>1, <2>2, <2>3 DEF LifeInv, Early, Complete
<1>9. QED
  BY <1>2, <1>7, <1>8

LEMMA DestroyKeeps == ASSUME LifeInv, DestroyMember PROVE LifeInv'
<1>1. /\ phase = "destroying" /\ endpoint = "off" /\ built = 39 /\ exitCode = 2 /\ alive \subseteq Made
      /\ \A c \in alive, d \in Made : Rank[d] < Rank[c] => d \in alive
      /\ \A t \in busy : Joiner(t) \in alive
      /\ UNCHANGED <<shell, backend, tls, built, endpoint, busy, repaint>>
      /\ HeldOutlivesHolder /\ alive \subseteq Objects /\ "window" \notin alive
  BY DEF DestroyMember, LifeInv, LifeTypeOK, Objects
<1>2. Made' = Made /\ Made \subseteq Components
  BY <1>1, Settled DEF Made
<1>3. CASE alive = {} /\ phase' = "exited" /\ exitCode' = 0 /\ UNCHANGED alive
  <2>1. busy = {}
    BY <1>1, <1>3
  <2>2. LifeTypeOK'
    BY <1>1, <1>3 DEF LifeInv, LifeTypeOK
  <2>3. HeldOutlivesHolder'
    BY <1>3, HeldNext
  <2>4. QED
    BY <1>1, <1>3, <2>1, <2>2, <2>3 DEF LifeInv, Early, Complete
<1>4. ASSUME NEW i \in DOMAIN Members, NEW c, c = Members[i], LastAlive(i), \A t \in busy : Joiner(t) # c,
             alive' = alive \ {c}, UNCHANGED <<phase, exitCode>>
      PROVE  LifeInv'
  <2>1. /\ HeldOutlivesHolder' /\ c \in alive \cap Components
        /\ \A d \in alive \cap Components : Rank[d] <= Rank[c]
    BY <1>1, <1>4, Dropped
  <2>2. ASSUME NEW e \in alive', NEW d \in Made, Rank[d] < Rank[e] PROVE d \in alive'
    <3>1. e \in alive /\ d \in alive /\ e \in Components /\ d \in Components
      BY <1>1, <1>2, <1>4, <2>2
    <3>2. Rank[e] <= Rank[c] /\ Rank[e] \in Int /\ Rank[c] \in Int /\ Rank[d] \in Int
      BY <2>1, <3>1, Orders
    <3>3. d # c
      BY <2>2, <3>2
    <3>4. QED
      BY <1>4, <3>1, <3>3
  <2>3. LifeTypeOK'
    BY <1>1, <1>4 DEF LifeInv, LifeTypeOK
  <2>4. \A t \in busy' : Joiner(t) \in alive'
    BY <1>1, <1>4
  <2>5. alive' \subseteq Made /\ "endpoint" \notin busy' /\ "window" \notin alive'
    BY <1>1, <1>4 DEF LifeInv
  <2>6. QED
    BY <1>1, <1>2, <1>4, <2>1, <2>2, <2>3, <2>4, <2>5 DEF LifeInv, Early, Complete
<1>5. QED
  BY <1>3, <1>4 DEF DestroyMember

LEMMA LifeStep == ASSUME LifeInv, [LifeNext]_lifeVars PROVE LifeInv'
BY CheckKeeps, BuildKeeps, UnwindKeeps, RunKeeps, ThreadsKeep, LeaveKeeps, DestroyKeeps DEF LifeNext

(* Whatever a part of the process holds exists as long as the part does, but for    *)
(* what DiesFirst names; no thread runs with a component gone that it could get to; *)
(* and a process that ends leaves nothing behind, however far the construction got  *)
(* (app/main.cpp, app/ApplicationComposition.hpp).                                  *)
THEOREM LifecycleIsSound == LifeSpec => []LifecycleSound
<1>1. LifeInit => LifeInv
  BY LifeStart
<1>2. LifeInv /\ [LifeNext]_lifeVars => LifeInv'
  BY LifeStep
<1>3. LifeInv => LifecycleSound
  BY LifeSoundness
<1>4. QED
  BY <1>1, <1>2, <1>3, PTL DEF LifeSpec
===================================================================================
