--------------------------------- MODULE MCToolCalls -------------------------------
(***********************************************************************************)
(* Tool invocations on small timelines, with the real clip commands.               *)
(***********************************************************************************)
EXTENDS ToolCalls, MCClipEditing

CONSTANT MaxInvocations   \* bound: invocations under way at one time

MCToolInit == ToolInit /\ edits = 0

OpacityAndGain(c) == c.op = "SetClipProperty"

UnderWay == {t \in Callers : call[t].stage # "idle"}

MCToolNext ==
  /\ \/ /\ edits < MaxEdits
        /\ Applying
        /\ edits' = IF reply'.outcome = "applied" THEN edits + 1 ELSE edits
     \/ /\ Moving
        /\ edits' = IF reply'.origin = "Reset" THEN 0 ELSE edits
  /\ Cardinality(UnderWay') <= MaxInvocations

====================================================================================
