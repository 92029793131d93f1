------------------------------- MODULE TimelineEngine ------------------------------
(***********************************************************************************)
(* core/TimelineEngine and core/UndoRedoStack: the authoritative project, the     *)
(* bounded undo and redo histories of command objects, and the four operations    *)
(* that change them: apply, undo, redo and reset.                                 *)
(*                                                                                 *)
(* The module is parameterised by the command set, the way the C++ engine only    *)
(* sees the EditCommand interface.  Apply(c, p) and Revert(c, p) stand for        *)
(* EditCommand::apply and ::revert: they return a record with                     *)
(*    ok       whether the call succeeded,                                        *)
(*    project  the project the call leaves behind, on success AND on failure,     *)
(*    cmd      the command object afterwards (a call may capture prior state).    *)
(* ClipCommands gives the real ones.                                               *)
(***********************************************************************************)
EXTENDS Naturals, Sequences

CONSTANTS
  Projects,       \* every Project value
  Commands,       \* every state of every command object
  Initial,        \* projects the engine can be constructed or reset with
  Offered(_),     \* the commands callers can build when the project is p
  Apply(_, _),
  Revert(_, _),
  Invariants(_),  \* checkTimelineInvariants(project).isOk()
  Capacity,       \* the undoCapacity constructor argument
  MinCapacity     \* UndoRedoStack::kMinCapacity

ASSUME CapacityAssumption == Capacity \in Nat /\ MinCapacity \in Nat \ {0}

VARIABLES
  project,        \* TimelineEngine::project_
  undo,           \* UndoRedoStack::undo_, newest command last
  redo,           \* UndoRedoStack::redo_, next command to redo last
  reply,          \* the CommandResult of the last call and the ChangeOrigin it emitted
  past,           \* history variable: past[i] is the project undo[i] was applied to
  future          \* history variable: future[i] is the project redo[i] must produce

vars == <<project, undo, redo, reply, past, future>>

(* UndoRedoStack never keeps fewer than kMinCapacity commands.                     *)
Bound == IF Capacity > MinCapacity THEN Capacity ELSE MinCapacity

History == INSTANCE LinearHistory
  WITH present <- project, Depth <- Bound, Documents <- {p \in Projects : Invariants(p)}

Newest(s) == History!Newest(s, Bound)
ButLast(s) == History!ButLast(s)
Top(s) == s[Len(s)]

Silent == "none"
Reply(outcome, origin) == [outcome |-> outcome, origin |-> origin]
Outcomes == {"applied", "noOp", "failed"}
Origins == {"Apply", "Undo", "Redo", "Reset", Silent}

Init ==
  /\ project \in {p \in Initial : Invariants(p)}
  /\ undo = <<>> /\ redo = <<>>
  /\ reply = Reply("noOp", Silent)
  /\ past = <<>> /\ future = <<>>

-----------------------------------------------------------------------------------
(* Plausible mistakes in the operations below; each one is caught by a run.        *)

(* apply() without the check of the timeline invariants.                           *)
ApplyOkUnchecked(c) ==
  LET r == Apply(c, project) IN
  /\ r.ok
  /\ project' = r.project
  /\ undo' = Newest(Append(undo, r.cmd)) /\ redo' = <<>>
  /\ reply' = Reply("applied", "Apply")
  /\ past' = Newest(Append(past, project)) /\ future' = <<>>

(* A rejected command whose effect is not rolled back.                             *)
ApplyRejectedStays(c) ==
  LET r == Apply(c, project) IN
  /\ ~(r.ok /\ Invariants(r.project))
  /\ project' = r.project
  /\ reply' = Reply("failed", Silent)
  /\ UNCHANGED <<undo, redo, past, future>>

(* undo() that reverts the command without taking it off the history.              *)
UndoKeepsCommand ==
  /\ undo # <<>>
  /\ project' = Revert(Top(undo), project).project
  /\ redo' = Append(redo, Top(undo))
  /\ reply' = Reply("applied", "Undo")
  /\ past' = ButLast(past) /\ future' = Append(future, project)
  /\ undo' = undo

(* reset() that keeps the redo history.                                            *)
ResetKeepsRedo(p) ==
  /\ Invariants(p)
  /\ project' = p
  /\ undo' = <<>> /\ past' = <<>>
  /\ reply' = Reply("applied", "Reset")
  /\ UNCHANGED <<redo, future>>

-----------------------------------------------------------------------------------
(* apply(): the command must succeed and leave a project that satisfies the       *)
(* invariants.  Recording it clears the redo history and drops the oldest command *)
(* past the bound.                                                                *)
ApplyOk(c) ==
  LET r == Apply(c, project) IN
  /\ r.ok /\ Invariants(r.project)
  /\ project' = r.project
  /\ undo' = Newest(Append(undo, r.cmd))
  /\ redo' = <<>>
  /\ reply' = Reply("applied", "Apply")
  /\ past' = Newest(Append(past, project))
  /\ future' = <<>>

(* Otherwise the copy taken before the command is restored, and the command is    *)
(* dropped.                                                                       *)
ApplyRejected(c) ==
  LET r == Apply(c, project) IN
  /\ ~(r.ok /\ Invariants(r.project))
  /\ reply' = Reply("failed", Silent)
  /\ UNCHANGED <<project, undo, redo, past, future>>

(* undo(): the newest command is popped and reverted in place.  The invariants    *)
(* are not checked again; a failing revert puts the command back and nothing is   *)
(* restored.                                                                      *)
Undo ==
  /\ undo # <<>>
  /\ LET r == Revert(Top(undo), project) IN
     /\ project' = r.project
     /\ IF r.ok
        THEN /\ undo' = ButLast(undo)
             /\ redo' = Append(redo, r.cmd)
             /\ reply' = Reply("applied", "Undo")
             /\ past' = ButLast(past)
             /\ future' = Append(future, project)
        ELSE /\ undo' = Append(ButLast(undo), r.cmd)
             /\ reply' = Reply("failed", Silent)
             /\ UNCHANGED <<redo, past, future>>

(* redo(): symmetric, applying the command again.  The command goes back on the   *)
(* undo history without the capacity check record() makes.                        *)
Redo ==
  /\ redo # <<>>
  /\ LET r == Apply(Top(redo), project) IN
     /\ project' = r.project
     /\ IF r.ok
        THEN /\ redo' = ButLast(redo)
             /\ undo' = Append(undo, r.cmd)
             /\ reply' = Reply("applied", "Redo")
             /\ future' = ButLast(future)
             /\ past' = Append(past, project)
        ELSE /\ redo' = Append(ButLast(redo), r.cmd)
             /\ reply' = Reply("failed", Silent)
             /\ UNCHANGED <<undo, past, future>>

NothingToDo ==
  /\ undo = <<>> \/ redo = <<>>
  /\ reply' = Reply("noOp", Silent)
  /\ UNCHANGED <<project, undo, redo, past, future>>

(* reset(initial): a project that breaks the invariants is refused before         *)
(* anything changes; otherwise both histories go.                                 *)
Reset(p) ==
  /\ Invariants(p)
  /\ project' = p
  /\ undo' = <<>> /\ redo' = <<>>
  /\ reply' = Reply("applied", "Reset")
  /\ past' = <<>> /\ future' = <<>>

ResetRefused(p) ==
  /\ ~Invariants(p)
  /\ reply' = Reply("failed", Silent)
  /\ UNCHANGED <<project, undo, redo, past, future>>

Edit == \E c \in Offered(project) : ApplyOk(c) \/ ApplyRejected(c)

Walk ==
  \/ Undo
  \/ Redo
  \/ NothingToDo

Load == \E p \in Initial : Reset(p) \/ ResetRefused(p)

Next == Edit \/ Walk \/ Load

Spec == Init /\ [][Next]_vars

-----------------------------------------------------------------------------------
(* Types: the histories hold command objects, and the history variables run in    *)
(* step with them.                                                                *)
TypeOK ==
  /\ project \in Projects
  /\ undo \in Seq(Commands) /\ redo \in Seq(Commands)
  /\ past \in Seq(Projects) /\ future \in Seq(Projects)
  /\ Len(past) = Len(undo) /\ Len(future) = Len(redo)
  /\ reply \in [outcome : Outcomes, origin : Origins]

(* undo() and redo() never run checkTimelineInvariants, yet every project they    *)
(* restore satisfies it: TimelineEngine.cpp checks only after apply and reset.    *)
ProjectValid == Invariants(project)

(* redo() appends to the undo history without record()'s bound, so the bound on   *)
(* the undo history holds only because both histories together stay within it.    *)
HistoryBounded == Len(undo) + Len(redo) <= Bound

(* The EditCommand contract on the histories as a whole: reverting the undo       *)
(* history newest first passes through exactly the projects it was built from,    *)
(* and applying the redo history reproduces exactly the projects that were undone.*)
Undoes(c, after, before) ==
  LET r == Revert(c, after) IN
  /\ r.ok /\ r.project = before
  /\ Apply(r.cmd, before).ok /\ Apply(r.cmd, before).project = after

Redoes(c, before, after) ==
  Apply(c, before).ok /\ Apply(c, before).project = after

After(i) == IF i = Len(undo) THEN project ELSE past[i + 1]
Before(i) == IF i = Len(redo) THEN project ELSE future[i + 1]

HistoryExact ==
  /\ \A i \in 1..Len(undo) : Undoes(undo[i], After(i), past[i])
  /\ \A i \in 1..Len(redo) : Redoes(redo[i], Before(i), future[i])

(* A call that reports a failure or nothing to do leaves the project and both     *)
(* histories as they were: no partial mutation, from any of the four operations.  *)
RefusedChangesNothing ==
  [][reply'.outcome # "applied" => UNCHANGED <<project, past, future>>]_vars

(* The engine implements the linear history.                                      *)
ImplementsHistory == History!HistorySpec
====================================================================================
