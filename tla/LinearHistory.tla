------------------------------- MODULE LinearHistory -------------------------------
(***********************************************************************************)
(* What the editing core promises its callers (the GUI, the MCP tools and the     *)
(* agent): one document with a linear, bounded edit history.  An edit makes a new *)
(* valid document and forgets the undone ones; undo and redo walk back and forth  *)
(* over exactly the documents that were shown before; loading a project forgets   *)
(* the whole history.  Nothing here knows about commands or captured state:       *)
(* TimelineEngine implements this specification.                                  *)
(***********************************************************************************)
EXTENDS Naturals, Sequences

CONSTANTS
  Documents,   \* the documents that satisfy the timeline invariants
  Depth        \* how many documents can be walked back to

VARIABLES
  past,        \* documents undo returns to, oldest first
  present,     \* the document on screen
  future       \* documents redo returns to, next one last

hvars == <<past, present, future>>

(* The newest n elements of a sequence, and all but the last element.              *)
Newest(s, n) == SubSeq(s, IF Len(s) > n THEN Len(s) - n + 1 ELSE 1, Len(s))
ButLast(s) == SubSeq(s, 1, Len(s) - 1)

HistoryInit ==
  /\ past = <<>>
  /\ present \in Documents
  /\ future = <<>>

Edit ==
  /\ present' \in Documents
  /\ past' = Newest(Append(past, present), Depth)
  /\ future' = <<>>

StepBack ==
  /\ past # <<>>
  /\ present' = past[Len(past)]
  /\ past' = ButLast(past)
  /\ future' = Append(future, present)

StepForward ==
  /\ future # <<>>
  /\ present' = future[Len(future)]
  /\ future' = ButLast(future)
  /\ past' = Append(past, present)

Replace ==
  /\ present' \in Documents
  /\ past' = <<>>
  /\ future' = <<>>

HistoryNext == Edit \/ StepBack \/ StepForward \/ Replace

HistorySpec == HistoryInit /\ [][HistoryNext]_hvars
====================================================================================
