---------------------------------- MODULE ToolCalls --------------------------------
(***********************************************************************************)
(* services/McpToolExecutor over the timeline engine: every tool invocation, from *)
(* the GUI gateway, the MCP endpoint or the agent, runs a handler that edits the  *)
(* engine and is rolled back when the handler fails or answers after its budget.  *)
(*                                                                                 *)
(* The executor finds out how much to roll back by observing the engine: it       *)
(* counts every Apply the engine announces while the handler runs, and afterwards *)
(* calls undo() that many times.  The engine takes no lock.  The GUI calls it on  *)
(* the main thread; the MCP endpoint runs its handlers on its accept thread,      *)
(* because the program installs no main-thread invoker.  A step here is one call  *)
(* of the engine, or the start or the end of an invocation.                       *)
(***********************************************************************************)
EXTENDS TimelineEngine

CONSTANTS
  Callers,   \* the threads that run tool invocations, one at a time each
  Gui,       \* the main thread, which also edits without the executor
  Direct(_)  \* the commands it applies itself

ASSUME GuiAssumption == Gui \in Callers

VARIABLE call   \* call[t] is the invocation that thread t is running

toolVars == <<vars, call>>

None == <<>>

Idle ==
  [stage   |-> "idle",      \* running: in the handler; undoing: in rollback()
   answer  |-> "pending",   \* what the handler has decided to return
   counted |-> 0,           \* appliedCount
   undone  |-> 0,           \* how far the loop in rollback() is
   own     |-> 0,           \* history variable: commands this invocation applied
   found   |-> None]        \* history variable: the engine as the invocation found
                            \* it; None once anything else has called the engine

Found(t) == call[t].found[1]

Running(t) == call[t].stage = "running"
Undoing(t) == call[t].stage = "undoing"

ToolInit == Init /\ call = [t \in Callers |-> Idle]

-----------------------------------------------------------------------------------
(* What a call of the engine means to the invocations under way.  One that applied *)
(* a command is counted by all that run a handler, whoever made it.                *)
Heard(c, t, by) ==
  LET counts == c.stage = "running" /\ reply'.outcome = "applied" IN
  [c EXCEPT !.counted = IF counts THEN @ + 1 ELSE @,
            !.own     = IF counts /\ t = by THEN @ + 1 ELSE @,
            !.found   = IF t = by THEN @ ELSE None]

(* Undo, redo and reset announce another origin and are not counted.               *)
Overheard(c) == [c EXCEPT !.found = None]

-----------------------------------------------------------------------------------
(* Plausible mistakes.                                                             *)

(* rollback() that stops one command early.                                        *)
AnswerEarly(t) ==
  /\ Undoing(t)
  /\ call[t].undone + 1 >= call[t].counted
  /\ call' = [call EXCEPT ![t] = Idle]
  /\ UNCHANGED vars

-----------------------------------------------------------------------------------
(* executeTool(): the tool is known, a project is open, the arguments fit the     *)
(* schema; the executor starts observing.  Refusing any of these changes nothing.  *)
Begin(t) ==
  /\ call[t].stage = "idle"
  /\ call' = [call EXCEPT ![t] =
       [Idle EXCEPT !.stage = "running",
                    !.found = <<[project |-> project, undo |-> undo]>>]]
  /\ UNCHANGED vars

(* The handler applies a command.  When the engine refuses it, the handler        *)
(* returns the error (applyCommand); otherwise it may go on.                       *)
HandlerEdits(t) ==
  /\ Running(t) /\ call[t].answer = "pending"
  /\ Edit
  /\ call' = [u \in Callers |->
       LET c == Heard(call[u], u, t) IN
       IF u = t /\ reply'.outcome = "failed" THEN [c EXCEPT !.answer = "error"] ELSE c]

(* The handlers of edit.undo, edit.redo, project.create and project.open call the *)
(* engine once and return.  Rollback does not cover them.                          *)
HandlerWalks(t) ==
  /\ Running(t) /\ call[t].answer = "pending" /\ call[t].own = 0
  /\ Walk \/ Load
  /\ call' = [u \in Callers |->
       IF u # t THEN Overheard(call[u])
       ELSE [call[t] EXCEPT !.found = None,
                            !.answer = IF reply'.outcome = "failed" THEN "error" ELSE "ok"]]

(* The handler returns, or fails at a step that is not an edit.  The budget is    *)
(* compared only now.  A failed or late invocation stops observing and is rolled  *)
(* back; an answer in time ends it.                                                *)
Return(t) ==
  /\ Running(t)
  /\ \E failed \in {f \in BOOLEAN : call[t].answer = "pending" \/ f = (call[t].answer = "error")},
        late \in BOOLEAN :
       call' = [call EXCEPT ![t] =
         IF failed \/ late THEN [call[t] EXCEPT !.stage = "undoing", !.answer = "error"] ELSE Idle]
  /\ UNCHANGED vars

(* One turn of the loop in rollback(), which ends early when nothing was undone.   *)
UndoOne(t) ==
  /\ Undoing(t) /\ call[t].undone < call[t].counted
  /\ Undo \/ (undo = <<>> /\ NothingToDo)
  /\ call' = [u \in Callers |->
       IF u # t THEN Overheard(call[u])
       ELSE IF reply'.outcome = "applied" THEN [call[t] EXCEPT !.undone = @ + 1]
       ELSE Idle]

(* The loop is through, and the error goes to the caller.                          *)
Answer(t) ==
  /\ Undoing(t) /\ call[t].undone = call[t].counted
  /\ call' = [call EXCEPT ![t] = Idle]
  /\ UNCHANGED vars

(* Between its tool invocations the main thread calls the engine directly: the    *)
(* inspector applies its opacity and gain command, the timeline undoes and redoes. *)
GuiEdits ==
  /\ call[Gui].stage = "idle"
  /\ \E c \in {c \in Offered(project) : Direct(c)} : ApplyOk(c) \/ ApplyRejected(c)
  /\ call' = [u \in Callers |-> Heard(call[u], u, Gui)]

GuiWalks ==
  /\ call[Gui].stage = "idle"
  /\ Undo \/ Redo \/ NothingToDo
  /\ call' = [u \in Callers |-> Overheard(call[u])]

Applying == GuiEdits \/ \E t \in Callers : HandlerEdits(t)

Moving ==
  \/ GuiWalks
  \/ \E t \in Callers : Begin(t) \/ HandlerWalks(t) \/ Return(t) \/ UndoOne(t) \/ Answer(t)

ToolNext == Applying \/ Moving

ToolSpec == ToolInit /\ [][ToolNext]_toolVars

-----------------------------------------------------------------------------------
(* The types.                                                                      *)
Calls == [stage : {"idle", "running", "undoing"}, answer : {"pending", "ok", "error"},
          counted : Nat, undone : Nat, own : Nat,
          found : Seq([project : Projects, undo : Seq(Commands)])]

ToolTypeOK == TypeOK /\ call \in [Callers -> Calls]

(* What is left of a history after n more commands were recorded and undone: the  *)
(* bound may have dropped its oldest entries, and undoing does not bring them back.*)
Dropped(s, n) == IF Len(s) + n > Bound THEN Len(s) + n - Bound ELSE 0
Kept(s, n) == SubSeq(s, Dropped(s, n) + 1, Len(s))

(* McpToolExecutor.hpp:61-71: an aborted invocation leaves the project it found,  *)
(* and the undo history it found but for the oldest entries its own commands      *)
(* pushed out.  So it is when nobody else used the engine and the handler applied *)
(* no more commands than the history holds.                                        *)
AbortRestores ==
  [][\A t \in Callers :
       /\ Undoing(t) /\ call'[t].stage = "idle"
       /\ call[t].found # None /\ call[t].counted <= Bound
       => /\ project' = Found(t).project
          /\ undo' = Kept(Found(t).undo, call[t].counted)]_toolVars

====================================================================================
