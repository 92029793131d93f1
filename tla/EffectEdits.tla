------------------------------- MODULE EffectEdits --------------------------------
(***********************************************************************************)
(* The effect chain of one clip: the undoable commands of EffectEditCommands that  *)
(* change it, undo and redo, and the two controls of the inspector that send them  *)
(* by position: the buttons that move an effect and the curve editor.              *)
(*                                                                                 *)
(* An effect is [id, params, resource].  A parameter that was never set is absent, *)
(* which is not the same as 0.  The names are those of the points of one curve     *)
(* channel, name k for both coordinates of point k, which are always written       *)
(* together, and Amount, a scalar that is not of the channel.  A channel holds the *)
(* points of its longest prefix without a gap; a tool that sets parameters by name *)
(* can leave a gap.                                                                *)
(*                                                                                 *)
(* The thread of the endpoint edits the chain too, and the inspector is rebuilt    *)
(* after that, so the user may act on controls drawn for the chain before.         *)
(***********************************************************************************)
EXTENDS Integers, Sequences, FiniteSets, SequencesExt

CONSTANTS EffectIds, Unset, NoGesture, MaxPoints, MaxChainEdits

ASSUME EffectsAssumption ==
  /\ EffectIds # {} /\ MaxPoints \in Nat \ {0} /\ MaxChainEdits \in Nat
  /\ NoGesture \notin [effect : EffectIds, index : Nat, origin : {1, 2, Unset},
                       moved : BOOLEAN, adding : BOOLEAN]

VARIABLES
  clip,       \* the clip in the engine: [effects, keyframes]
  done,       \* applied commands with what they captured, the last one first undone
  undone,     \* undone commands
  shownBefore, shownAfter,   \* the clips undo and redo should lead back to
  usedIds,    \* identities are random and never come twice
  drawn,      \* the effects the inspector was last built for
  untold,     \* the endpoint changed the clip and the inspector was not told yet
  working,    \* CurveEditorViewModel::points_ of the editor of every drawn effect
  gesture,    \* dragging_, dragOrigin_, moved_ and adding_ of the editor being dragged
  chainEdits  \* bounds the edits

historyVars == <<done, undone, shownBefore, shownAfter>>
controlVars == <<drawn, working, gesture>>
effectVars == <<clip, historyVars, usedIds, controlVars, untold, chainEdits>>

Coordinates == {1, 2}
Slots == 0..MaxPoints - 1
Amount == MaxPoints
ParamNames == Slots \cup {Amount}
Properties == {"opacity", "scale"}
Params == [ParamNames -> Coordinates \cup {Unset}]

IndicesOf(effects, id) == {i \in 1..Len(effects) : effects[i].id = id}
IdsOf(effects) == {effects[i].id : i \in 1..Len(effects)}
Has(id, c) == id \in IdsOf(c.effects)
IndexOf(effects, id) == CHOOSE i \in IndicesOf(effects, id) : \A j \in IndicesOf(effects, id) : i <= j
EffectOf(id, c) == c.effects[IndexOf(c.effects, id)]

(* curvePoints: the points before the first missing one.                           *)
PointsOf(params) ==
  LET n == CHOOSE k \in 0..MaxPoints :
             /\ \A i \in 0..k - 1 : params[i] # Unset
             /\ k = MaxPoints \/ params[k] = Unset
  IN [i \in 1..n |-> params[i - 1]]

(* channelParameters, and the channel with its parameters replaced by those.       *)
Channel(params) == [i \in Slots |-> params[i]]
WithChannel(params, channel) == [n \in ParamNames |-> IF n \in Slots THEN channel[n] ELSE params[n]]
Written(points) == [i \in Slots |-> IF i < Len(points) THEN points[i + 1] ELSE Unset]

WithParams(c, id, params) == [c EXCEPT !.effects[IndexOf(c.effects, id)].params = params]
WithResource(c, id, path) == [c EXCEPT !.effects[IndexOf(c.effects, id)].resource = path]

Edited(points, cmd) ==
  CASE cmd.op = "Add"    -> Append(points, cmd.value)
    [] cmd.op = "Move"   -> [points EXCEPT ![cmd.index] = cmd.value]
    [] cmd.op = "Remove" -> RemoveAt(points, cmd.index)

Without(keyframes, property) == SelectSeq(keyframes, LAMBDA track : track.property # property)

(*------------------------------- apply and revert --------------------------------*)
(* When apply() succeeds.                                                          *)
Accepted(cmd, c) ==
  CASE cmd.kind \in {"AddEffect", "SetKeyframes"} -> TRUE
    [] cmd.kind \in {"RemoveEffect", "SetEffectParameter", "SetEffectResource"} -> Has(cmd.id, c)
    [] cmd.kind = "ReorderEffects" ->
         /\ Len(cmd.order) = Len(c.effects)
         /\ \A id \in EffectIds :
              Cardinality({i \in 1..Len(cmd.order) : cmd.order[i] = id}) = Cardinality(IndicesOf(c.effects, id))
    [] cmd.kind = "EditCurvePoint" ->
         /\ Has(cmd.id, c)
         /\ cmd.op # "Add" => cmd.index <= Len(PointsOf(EffectOf(cmd.id, c).params))

Applied(cmd, c) ==
  CASE cmd.kind = "AddEffect"          -> [c EXCEPT !.effects = Append(@, cmd.effect)]
    [] cmd.kind = "RemoveEffect"       -> [c EXCEPT !.effects = RemoveAt(@, IndexOf(@, cmd.id))]
    [] cmd.kind = "ReorderEffects"     ->
         [c EXCEPT !.effects = [i \in 1..Len(cmd.order) |-> EffectOf(cmd.order[i], c)]]
    [] cmd.kind = "SetEffectParameter" ->
         WithParams(c, cmd.id, [EffectOf(cmd.id, c).params EXCEPT ![cmd.name] = cmd.value])
    [] cmd.kind = "EditCurvePoint"     ->
         LET params == EffectOf(cmd.id, c).params IN
         WithParams(c, cmd.id, WithChannel(params, Written(Edited(PointsOf(params), cmd))))
    [] cmd.kind = "SetEffectResource"  -> WithResource(c, cmd.id, cmd.path)
    [] cmd.kind = "SetKeyframes"       ->
         LET others == Without(c.keyframes, cmd.property) IN
         [c EXCEPT !.keyframes =
            IF cmd.keys = Unset THEN others ELSE Append(others, [property |-> cmd.property, keys |-> cmd.keys])]

(* What apply() captures for revert().                                             *)
Captured(cmd, c) ==
  CASE cmd.kind = "AddEffect"          -> cmd
    [] cmd.kind = "RemoveEffect"       ->
         [kind |-> cmd.kind, id |-> cmd.id, index |-> IndexOf(c.effects, cmd.id), prior |-> EffectOf(cmd.id, c)]
    [] cmd.kind = "ReorderEffects"     -> [kind |-> cmd.kind, order |-> cmd.order, prior |-> c.effects]
    [] cmd.kind = "SetEffectParameter" ->
         [kind |-> cmd.kind, id |-> cmd.id, name |-> cmd.name, value |-> cmd.value,
          prior |-> EffectOf(cmd.id, c).params[cmd.name]]
    [] cmd.kind = "EditCurvePoint"     ->
         [kind |-> cmd.kind, id |-> cmd.id, op |-> cmd.op, index |-> cmd.index, value |-> cmd.value,
          prior |-> Channel(EffectOf(cmd.id, c).params)]
    [] cmd.kind = "SetEffectResource"  ->
         [kind |-> cmd.kind, id |-> cmd.id, path |-> cmd.path, prior |-> EffectOf(cmd.id, c).resource]
    [] cmd.kind = "SetKeyframes"       ->
         [kind |-> cmd.kind, property |-> cmd.property, keys |-> cmd.keys, prior |-> c.keyframes]

(* remove_if and erase: the effects of another identity, in their order.           *)
Erased(effects, id) ==
  LET kept == DOMAIN effects \ IndicesOf(effects, id)
  IN [k \in 1..Cardinality(kept) |->
        effects[CHOOSE i \in kept : Cardinality({j \in kept : j <= i}) = k]]

(* A mutant: a parameter that was not there before stays, at 0.0.                   *)
PriorParamsOrZero(params, cmd) == [params EXCEPT ![cmd.name] = IF cmd.prior = Unset THEN 0 ELSE cmd.prior]

(* SetEffectParameterCommand::revert: set to the prior value, or erased.           *)
PriorParams(params, cmd) == [params EXCEPT ![cmd.name] = cmd.prior]

Reverted(cmd, c) ==
  CASE cmd.kind = "AddEffect"          -> [c EXCEPT !.effects = Erased(@, cmd.effect.id)]
    [] cmd.kind = "RemoveEffect"       ->
         [c EXCEPT !.effects = InsertAt(@, IF cmd.index > Len(@) + 1 THEN Len(@) + 1 ELSE cmd.index, cmd.prior)]
    [] cmd.kind = "ReorderEffects"     -> [c EXCEPT !.effects = cmd.prior]
    [] cmd.kind = "SetEffectParameter" -> WithParams(c, cmd.id, PriorParams(EffectOf(cmd.id, c).params, cmd))
    [] cmd.kind = "EditCurvePoint"     -> WithParams(c, cmd.id, WithChannel(EffectOf(cmd.id, c).params, cmd.prior))
    [] cmd.kind = "SetEffectResource"  -> WithResource(c, cmd.id, cmd.prior)
    [] cmd.kind = "SetKeyframes"       -> [c EXCEPT !.keyframes = cmd.prior]

(*------------------------------ the engine's history ------------------------------*)
Commit(cmd) ==
  /\ chainEdits < MaxChainEdits /\ chainEdits' = chainEdits + 1
  /\ clip' = Applied(cmd, clip)
  /\ done' = Append(done, Captured(cmd, clip)) /\ undone' = <<>>
  /\ shownBefore' = Append(shownBefore, clip) /\ shownAfter' = <<>>
  /\ usedIds' = IF cmd.kind = "AddEffect" THEN usedIds \cup {cmd.effect.id} ELSE usedIds

UndoEdit ==
  /\ done # <<>>
  /\ clip' = Reverted(Last(done), clip)
  /\ undone' = Append(undone, Last(done)) /\ done' = Front(done)
  /\ shownBefore' = Front(shownBefore) /\ shownAfter' = Append(shownAfter, clip)
  /\ UNCHANGED <<usedIds, chainEdits>>

RedoEdit ==
  /\ undone # <<>>
  /\ clip' = Applied(Last(undone), clip)
  /\ done' = Append(done, Captured(Last(undone), clip)) /\ undone' = Front(undone)
  /\ shownBefore' = Append(shownBefore, clip) /\ shownAfter' = Front(shownAfter)
  /\ UNCHANGED <<usedIds, chainEdits>>

(*---------------------------------- the inspector --------------------------------*)
(* rebuild(): new editors, each of the points the effect has now; a drag is gone.   *)
EditorsOf(effects) == [id \in IdsOf(effects) |-> PointsOf(effects[IndexOf(effects, id)].params)]

Rebuild ==
  /\ drawn' = clip'.effects /\ working' = EditorsOf(clip'.effects)
  /\ gesture' = NoGesture

(* A command of the user: applied and shown, or refused, and then nothing is shown.  *)
Submit(cmd) ==
  IF Accepted(cmd, clip) THEN Commit(cmd) /\ Rebuild
  ELSE UNCHANGED <<clip, historyVars, usedIds, drawn, chainEdits>>

(* moveEffect: the positions are those drawn, the order that of the chain now.       *)
MoveEffect(from, to) ==
  /\ gesture = NoGesture /\ {from, to} \subseteq 1..Len(drawn)
  /\ {from, to} \subseteq 1..Len(clip.effects)
  /\ LET order == [i \in 1..Len(clip.effects) |->
                     clip.effects[IF i = from THEN to ELSE IF i = to THEN from ELSE i].id]
         cmd == [kind |-> "ReorderEffects", order |-> order]
     IN Submit(cmd) /\ (~Accepted(cmd, clip) => UNCHANGED <<working, gesture>>)
  /\ UNCHANGED untold

(* press: on a point it begins to drag it, beside the points it adds one, to the     *)
(* working copy only.                                                                *)
PressPoint(id, index) ==
  /\ gesture = NoGesture /\ id \in DOMAIN working /\ index \in 1..Len(working[id])
  /\ gesture' = [effect |-> id, index |-> index, origin |-> working[id][index], moved |-> FALSE, adding |-> FALSE]
  /\ UNCHANGED <<clip, historyVars, usedIds, drawn, working, untold, chainEdits>>

PressEmpty(id, value) ==
  /\ gesture = NoGesture /\ id \in DOMAIN working
  /\ Len(working[id]) < MaxPoints
  /\ working' = [working EXCEPT ![id] = Append(@, value)]
  /\ gesture' = [effect |-> id, index |-> Len(working[id]) + 1, origin |-> value, moved |-> FALSE, adding |-> TRUE]
  /\ UNCHANGED <<clip, historyVars, usedIds, drawn, untold, chainEdits>>

DragPoint(value) ==
  /\ gesture # NoGesture
  /\ working' = [working EXCEPT ![gesture.effect][gesture.index] = value]
  /\ gesture' = [gesture EXCEPT !.moved = TRUE]
  /\ UNCHANGED <<clip, historyVars, usedIds, drawn, untold, chainEdits>>

(* release: the only commit of a press, drag and release.                            *)
ReleasePoint ==
  /\ gesture # NoGesture
  /\ LET value == working[gesture.effect][gesture.index]
         op == IF gesture.adding THEN "Add" ELSE "Move"
         cmd == [kind |-> "EditCurvePoint", id |-> gesture.effect, op |-> op, index |-> gesture.index, value |-> value]
     IN /\ op = "Add" /\ Accepted(cmd, clip) => Len(PointsOf(EffectOf(cmd.id, clip).params)) < MaxPoints  \* a bound
        /\ IF gesture.adding \/ gesture.moved
           THEN Submit(cmd) /\ (~Accepted(cmd, clip) => gesture' = NoGesture /\ UNCHANGED working)
           ELSE gesture' = NoGesture /\ UNCHANGED <<clip, historyVars, usedIds, drawn, working, chainEdits>>
  /\ UNCHANGED untold

(* The right button removes the point it hits, in the middle of a drag as well.       *)
RemovePoint(id, index) ==
  /\ id \in DOMAIN working /\ index \in 1..Len(working[id])
  /\ gesture # NoGesture => gesture.effect = id
  /\ LET cmd == [kind |-> "EditCurvePoint", id |-> id, op |-> "Remove", index |-> index, value |-> Unset]
     IN /\ Submit(cmd)
        /\ ~Accepted(cmd, clip) => /\ gesture' = NoGesture
                                   /\ working' = [working EXCEPT ![id] = RemoveAt(@, index)]
  /\ UNCHANGED untold

(* The other controls send commands that name the effect.                             *)
NewEffect(id, name) ==
  [id |-> id, params |-> [n \in ParamNames |-> IF n = name THEN 1 ELSE Unset], resource |-> ""]

NamedCommands ==
       {[kind |-> "AddEffect", effect |-> NewEffect(id, name)] : id \in EffectIds \ usedIds, name \in {Amount, 0}}
  \cup {[kind |-> "RemoveEffect", id |-> id] : id \in EffectIds}
  \cup {[kind |-> "SetEffectParameter", id |-> id, name |-> name, value |-> 2] : id \in EffectIds, name \in {Amount, 1}}
  \cup {[kind |-> "SetEffectResource", id |-> id, path |-> "lut"] : id \in EffectIds}
  \cup {[kind |-> "SetKeyframes", property |-> property, keys |-> keys] : property \in Properties, keys \in {1, Unset}}
  \cup {[kind |-> "EditCurvePoint", id |-> id, op |-> "Remove", index |-> 1, value |-> Unset] : id \in EffectIds}

UserEdits ==
  /\ gesture = NoGesture
  /\ \E cmd \in NamedCommands : Accepted(cmd, clip) /\ Commit(cmd)
  /\ Rebuild /\ UNCHANGED untold

UserWalks ==
  /\ UndoEdit \/ RedoEdit
  /\ Rebuild /\ UNCHANGED untold

(* The endpoint edits, undoes and redoes on its own thread; then the inspector is told. *)
EndpointEditsChain ==
  /\ ~untold /\ untold' = TRUE
  /\ \/ \E cmd \in NamedCommands : Accepted(cmd, clip) /\ Commit(cmd)
     \/ UndoEdit \/ RedoEdit
  /\ UNCHANGED controlVars

(* The panel draws itself anew, unless it is doing so already (refreshing_): here     *)
(* every rebuild is one step, so none is told in the middle of one.                   *)
InspectorIsTold ==
  /\ untold /\ untold' = FALSE
  /\ UNCHANGED <<clip, historyVars, usedIds, chainEdits>> /\ Rebuild

(*---------------------------------- specification --------------------------------*)
EffectsInit ==
  /\ LET id == CHOOSE id \in EffectIds : TRUE IN
       /\ clip = [effects |-> <<NewEffect(id, 0)>>, keyframes |-> <<>>]
       /\ usedIds = {id}
  /\ done = <<>> /\ undone = <<>> /\ shownBefore = <<>> /\ shownAfter = <<>>
  /\ drawn = clip.effects /\ working = EditorsOf(clip.effects)
  /\ gesture = NoGesture /\ untold = FALSE /\ chainEdits = 0

EffectsNext ==
  \/ UserEdits \/ UserWalks
  \/ \E from, to \in 1..Cardinality(EffectIds) : from # to /\ MoveEffect(from, to)
  \/ \E id \in EffectIds, index \in 1..MaxPoints : PressPoint(id, index) \/ RemovePoint(id, index)
  \/ \E id \in EffectIds : PressEmpty(id, 2)
  \/ DragPoint(2)
  \/ ReleasePoint
  \/ EndpointEditsChain \/ InspectorIsTold

EffectsSpec == EffectsInit /\ [][EffectsNext]_effectVars

(*------------------------------------ properties ---------------------------------*)
(* Variables keep their types.                                                      *)
EffectsTypeOK ==
  /\ \A i \in 1..Len(clip.effects) :
       /\ clip.effects[i].id \in usedIds /\ clip.effects[i].params \in Params
       /\ clip.effects[i].resource \in {"", "lut"}
  /\ usedIds \subseteq EffectIds /\ untold \in BOOLEAN /\ chainEdits \in 0..MaxChainEdits
  /\ DOMAIN working = IdsOf(drawn)
  /\ gesture # NoGesture => gesture.effect \in DOMAIN working /\ gesture.index \in 1..Len(working[gesture.effect])

(***********************************************************************************)
(* Whatever edits were made, on any thread and in any order, undo leads back to    *)
(* exactly the clip that was there before (an absent parameter absent again, a gap *)
(* in a curve still a gap, the effects and the keyframe tracks in their order) and *)
(* redo to the clip after; no two effects of a chain share an identity, so an edit *)
(* by identity has one meaning.  Once the inspector was told of everything, its    *)
(* controls are those of the chain, and a curve editor shows the points of its     *)
(* effect with no more than the dragged point changed or added: the index that a   *)
(* release or a removal will send means the point the user sees                    *)
(* (CurveEditorViewModel::setPoints, EffectEditCommands.hpp).                      *)
(***********************************************************************************)
UndoIsExact ==
  /\ done # <<>> => Reverted(Last(done), clip) = Last(shownBefore)
  /\ undone # <<>> => Accepted(Last(undone), clip) /\ Applied(Last(undone), clip) = Last(shownAfter)

OneEffectPerId == \A id \in EffectIds : Cardinality(IndicesOf(clip.effects, id)) <= 1

Undragged(id) ==
  IF gesture = NoGesture \/ gesture.effect # id THEN working[id]
  ELSE IF gesture.adding THEN RemoveAt(working[id], gesture.index)
  ELSE [working[id] EXCEPT ![gesture.index] = gesture.origin]

EditorsAreCurrent ==
  ~untold =>
    /\ drawn = clip.effects
    /\ \A id \in DOMAIN working : Undragged(id) = PointsOf(EffectOf(id, clip).params)

EffectsSound == UndoIsExact /\ OneEffectPerId /\ EditorsAreCurrent
=================================================================================
