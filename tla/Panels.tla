---------------------------------- MODULE Panels ----------------------------------
(***********************************************************************************)
(* The panels of the main window that select and edit clips: the timeline (its     *)
(* view model, item model and graph view), the inspector, and the edit menu.       *)
(*                                                                                 *)
(* They share the selection, held twice: by the graph view and by the inspector.   *)
(* Every change of the project is told to the inspector and then to the timeline,  *)
(* on the thread that made it.  The thread of the endpoint edits the same engine   *)
(* and tells the same panels, so a gesture of the user may come between its change *)
(* and what the panels learn of it.  Handlers are atomic; what happens when Qt     *)
(* objects are used from two threads at once is not modelled.                      *)
(*                                                                                 *)
(* A clip is [lane, start, in, out, look]; look stands for opacity, which the      *)
(* inspector shows in steps coarser than it is stored.                             *)
(***********************************************************************************)
EXTENDS Integers, FiniteSets

CONSTANTS Clips, Lanes, None, Horizon, MaxTracks, MaxEdits

ASSUME PanelsAssumption ==
  /\ Horizon \in Nat \ {0} /\ MaxTracks \in Nat /\ MaxEdits \in Nat
  /\ None \notin Clips \cup Lanes /\ IsFiniteSet(Clips) /\ Lanes # {}

VARIABLES
  project,        \* the engine's: [lanes, clips]
  cached,         \* TimelineViewModel::cached_
  telling,        \* who the endpoint's thread has yet to tell of its change
  selectedClip,   \* TimelineGraphView
  selectedTrack,
  drag,           \* drag_, None between gestures
  playhead,
  inspected,      \* InspectorViewModel::selected_
  fields,         \* what the built controls show, None for "No clip selected"
  focus,          \* a field has the keyboard focus
  edits           \* bounds the edits

graphVars == <<selectedClip, selectedTrack, drag, playhead>>
inspectorVars == <<inspected, fields, focus>>
panelVars == <<project, cached, telling, graphVars, inspectorVars, edits>>

Looks == {0, 1, 2}
Coarse(look) == 2 * (look \div 2)

(*--------------------------------- the project ----------------------------------*)
Clip == {c \in [lane : Lanes, start : Nat, in : 0..Horizon, out : 0..Horizon, look : Looks] : c.in < c.out}
EndOf(c) == c.start + c.out - c.in
Present(p) == {id \in Clips : p.clips[id] # None}
LengthOf(p) == LET ends == {EndOf(p.clips[id]) : id \in Present(p)} IN
               IF ends = {} THEN 0 ELSE CHOOSE e \in ends : \A f \in ends : f <= e

(* checkTimelineInvariants, as far as clips without transitions go.                *)
FitsTimeline(p) ==
  /\ \A id \in Present(p) : p.clips[id].lane \in p.lanes /\ p.clips[id].start >= 0
  /\ \A i, j \in Present(p) :
       \/ i = j \/ p.clips[i].lane # p.clips[j].lane
       \/ EndOf(p.clips[i]) <= p.clips[j].start \/ EndOf(p.clips[j]) <= p.clips[i].start

With(p, id, c) == [p EXCEPT !.clips[id] = c]

Between(low, high, x) == IF x < low THEN low ELSE IF x > high THEN high ELSE x

Moved(c, start) == [c EXCEPT !.start = start]
TrimmedStart(c, boundary) ==
  LET in == Between(0, c.out - 1, boundary)
      start == c.start + in - c.in
  IN [c EXCEPT !.in = in, !.start = IF start < 0 THEN 0 ELSE start]
TrimmedEnd(c, boundary, source) == [c EXCEPT !.out = Between(c.in + 1, source, boundary)]

(*--------------------------- what the panels learn ------------------------------*)
(* InspectorPanel::rebuild: new controls; what was typed into the old is gone.     *)
Shown(id, p) ==
  IF id = None \/ p.clips[id] = None THEN None
  ELSE [clip |-> id, value |-> Coarse(p.clips[id].look)]

(* setSelection: a changed clip is told to the inspector.                          *)
Select(id, track, p) ==
  /\ selectedClip' = id /\ selectedTrack' = track
  /\ inspected' = IF id # selectedClip THEN id ELSE inspected
  /\ IF id # selectedClip THEN fields' = Shown(id, p) /\ focus' = FALSE
                          ELSE UNCHANGED <<fields, focus>>

(* A mutant: a selection whose clip is gone is dropped without a signal.           *)
ViewDropsQuietly(p) ==
  /\ cached' = p
  /\ selectedClip' = IF selectedClip # None /\ p.clips[selectedClip] = None THEN None ELSE selectedClip
  /\ UNCHANGED <<inspected, selectedTrack>>

(* onChange, modelRefreshed, refresh(): a selection whose clip is gone is cleared.  *)
ViewLearns(p) ==
  /\ cached' = p
  /\ IF selectedClip # None /\ p.clips[selectedClip] = None
        THEN selectedClip' = None /\ inspected' = None
        ELSE UNCHANGED <<selectedClip, inspected>>
  /\ UNCHANGED selectedTrack

(* An edit by the user: applied and told on one thread, or refused.                *)
Apply(p) ==
  IF FitsTimeline(p)
  THEN /\ edits < MaxEdits /\ edits' = edits + 1
       /\ project' = p
       /\ ViewLearns(p)
       /\ fields' = Shown(inspected', p) /\ focus' = FALSE
       /\ UNCHANGED <<telling, playhead>>
  ELSE UNCHANGED <<project, cached, telling, selectedClip, selectedTrack, playhead, inspectorVars, edits>>

(*----------------------------------- the timeline -------------------------------*)
(* A press on a clip of the cached project selects it and starts a drag.           *)
PressClip(id, kind) ==
  /\ drag = None /\ ~focus /\ id \in Present(cached)
  /\ LET c == cached.clips[id] IN
     /\ Select(id, c.lane, project)
     /\ drag' = [kind |-> kind, clip |-> id, start |-> c.start, in |-> c.in, out |-> c.out, delta |-> 0]
  /\ UNCHANGED <<project, cached, telling, playhead, edits>>

(* movePlayheadToMs clamps to the timeline the view model knows.                   *)
Seek(x) == playhead' = Between(0, LengthOf(cached), x)

(* A press beside the clips: on a lane, below the lanes, or on the ruler.          *)
PressLane(lane, x) ==
  /\ drag = None /\ ~focus /\ lane \in cached.lanes
  /\ Select(None, lane, project) /\ Seek(x)
  /\ UNCHANGED <<project, cached, telling, drag, edits>>

PressBelow(x) ==
  /\ drag = None /\ ~focus
  /\ Select(None, None, project) /\ Seek(x)
  /\ UNCHANGED <<project, cached, telling, drag, edits>>

PressRuler(x) ==
  /\ drag = None /\ ~focus
  /\ Seek(x) /\ drag' = [kind |-> "Playhead"]
  /\ UNCHANGED <<project, cached, telling, selectedClip, selectedTrack, inspectorVars, edits>>

MouseMove(x) ==
  /\ drag # None
  /\ IF drag.kind = "Playhead" THEN Seek(x) /\ UNCHANGED drag
                               ELSE drag' = [drag EXCEPT !.delta = x] /\ UNCHANGED playhead
  /\ UNCHANGED <<project, cached, telling, selectedClip, selectedTrack, inspectorVars, edits>>

(* The edit a drag stands for, from where the clip was when it was pressed.        *)
DragResult(d, c) ==
  CASE d.kind = "Move"      -> Moved(c, d.start + d.delta)
    [] d.kind = "TrimStart" -> TrimmedStart(c, d.in + d.delta)
    [] d.kind = "TrimEnd"   -> TrimmedEnd(c, d.out + d.delta, d.out)

(* A trim is refused when the clip no longer has a frame within the old out-point. *)
DragRefused(d) == d.kind = "TrimEnd" /\ d.clip \in Present(project) /\ project.clips[d.clip].in + 1 > d.out

MouseRelease ==
  /\ drag # None
  /\ drag' = None
  /\ IF drag.kind = "Playhead" \/ drag.delta = 0 \/ DragRefused(drag) \/ drag.clip \notin Present(project)
     THEN UNCHANGED <<project, cached, telling, selectedClip, selectedTrack, playhead, inspectorVars, edits>>
     ELSE Apply(With(project, drag.clip, DragResult(drag, project.clips[drag.clip])))

(*------------------------------------ the menus ---------------------------------*)
(* Delete Clip and Split at Playhead act on the clip the inspector holds.          *)
DeleteClip ==
  /\ inspected \in Present(project)
  /\ Apply(With(project, inspected, None)) /\ UNCHANGED drag

SplitAtPlayhead(right) ==
  /\ inspected \in Present(project) /\ right \in Clips \ Present(project)
  /\ LET c == project.clips[inspected]
         cut == c.in + playhead - c.start IN
     /\ c.start < playhead /\ playhead < EndOf(c)
     /\ Apply(With(With(project, inspected, [c EXCEPT !.out = cut]), right, [c EXCEPT !.start = playhead, !.in = cut]))
  /\ UNCHANGED drag

(* Ripple Trim to Playhead reads the inspector's projection for the boundary.      *)
RippleTrimToPlayhead ==
  /\ inspected \in Present(project)
  /\ LET c == project.clips[inspected] IN
     /\ playhead >= c.start
     /\ Apply(With(project, inspected, TrimmedEnd(c, c.in + playhead - c.start, c.out)))
  /\ UNCHANGED drag

(* Place at Playhead: the selected track, which may be gone.                       *)
PlaceAtPlayhead(id, length) ==
  /\ selectedTrack # None /\ id \in Clips \ Present(project)
  /\ selectedTrack \in project.lanes
  /\ Apply(With(project, id, [lane |-> selectedTrack, start |-> playhead, in |-> 0, out |-> length, look |-> 0]))
  /\ UNCHANGED drag

(* addTrack checks the ceiling against the cached project.                         *)
AddLane(lane) ==
  /\ Cardinality(cached.lanes) < MaxTracks /\ lane \notin project.lanes
  /\ Apply([project EXCEPT !.lanes = @ \cup {lane}]) /\ UNCHANGED drag

(*----------------------------------- the inspector ------------------------------*)
(* A field takes the focus, is typed into, and is left: leaving it always writes.  *)
EnterField ==
  /\ drag = None /\ fields # None /\ ~focus
  /\ focus' = TRUE
  /\ UNCHANGED <<project, cached, telling, graphVars, inspected, fields, edits>>

TypeInField(value) ==
  /\ focus /\ value \in {Coarse(look) : look \in Looks} /\ value # fields.value
  /\ fields' = [fields EXCEPT !.value = value]
  /\ UNCHANGED <<project, cached, telling, graphVars, inspected, focus, edits>>

LeaveField ==
  /\ focus
  /\ IF inspected \in Present(project)
     THEN Apply([project EXCEPT !.clips[inspected].look = fields.value])
     ELSE focus' = FALSE /\ UNCHANGED <<project, cached, telling, selectedClip, selectedTrack, playhead, inspected, fields, edits>>
  /\ UNCHANGED drag

(*------------------------------ undo and the endpoint ---------------------------*)
(* What an undo, a redo or an edit of another surface may do: take a clip away,   *)
(* bring one, move it, change its look, or add or remove an empty lane.            *)
Fresh(lane) == [lane |-> lane, start |-> 0, in |-> 0, out |-> Horizon, look |-> 1]

OtherProjects ==
  {p \in {With(project, id, None) : id \in Clips}
      \cup {With(project, id, Fresh(lane)) : id \in Clips \ Present(project), lane \in Lanes}
      \cup {With(project, id, Moved(project.clips[id], project.clips[id].start + 1)) : id \in Present(project)}
      \cup {With(project, id, [project.clips[id] EXCEPT !.look = 2]) : id \in Present(project)}
      \cup {[project EXCEPT !.lanes = lanes] : lanes \in SUBSET Lanes}
   : p # project /\ FitsTimeline(p)}

Undo ==
  /\ \E p \in OtherProjects : Apply(p)
  /\ UNCHANGED drag

EndpointEdits ==
  /\ telling = "nobody" /\ edits < MaxEdits
  /\ project' \in OtherProjects
  /\ edits' = edits + 1 /\ telling' = "inspector"
  /\ UNCHANGED <<cached, graphVars, inspectorVars>>

(* The inspector reads the engine, not the change it is told.                      *)
InspectorLearns ==
  /\ telling = "inspector" /\ telling' = "timeline"
  /\ fields' = Shown(inspected, project) /\ focus' = FALSE
  /\ UNCHANGED <<project, cached, graphVars, inspected, edits>>

TimelineLearns ==
  /\ telling = "timeline" /\ telling' = "nobody"
  /\ ViewLearns(project)
  /\ IF inspected' # inspected THEN fields' = Shown(inspected', project) /\ focus' = FALSE
                               ELSE UNCHANGED <<fields, focus>>
  /\ UNCHANGED <<project, drag, playhead, edits>>

(*---------------------------------- specification --------------------------------*)
PanelsInit ==
  /\ \E id \in Clips : project = [lanes |-> Lanes, clips |-> [k \in Clips |-> IF k = id THEN Fresh(CHOOSE l \in Lanes : TRUE) ELSE None]]
  /\ cached = project /\ telling = "nobody" /\ edits = 0
  /\ selectedClip = None /\ selectedTrack = None /\ drag = None /\ playhead = 0
  /\ inspected = None /\ fields = None /\ focus = FALSE

Deltas == {-1, 1}

PanelsNext ==
  \/ \E id \in Clips, kind \in {"Move", "TrimStart", "TrimEnd"} : PressClip(id, kind)
  \/ \E lane \in Lanes, x \in 0..Horizon : PressLane(lane, x)
  \/ \E x \in 0..Horizon : PressBelow(x) \/ PressRuler(x)
  \/ \E x \in 0..Horizon \cup Deltas : MouseMove(x)
  \/ MouseRelease
  \/ DeleteClip \/ RippleTrimToPlayhead
  \/ \E id \in Clips : SplitAtPlayhead(id) \/ PlaceAtPlayhead(id, 1)
  \/ \E lane \in Lanes : AddLane(lane)
  \/ EnterField \/ LeaveField \/ \E value \in Looks : TypeInField(value)
  \/ Undo
  \/ EndpointEdits \/ InspectorLearns \/ TimelineLearns

PanelsSpec == PanelsInit /\ [][PanelsNext]_panelVars

(*------------------------------------ properties ---------------------------------*)
(* Variables keep their types.                                                     *)
PanelsTypeOK ==
  /\ project.clips \in [Clips -> Clip \cup {None}] /\ project.lanes \subseteq Lanes
  /\ telling \in {"nobody", "inspector", "timeline"}
  /\ selectedClip \in Clips \cup {None} /\ selectedTrack \in Lanes \cup {None}
  /\ focus \in BOOLEAN /\ playhead \in Nat /\ edits \in 0..MaxEdits

(***********************************************************************************)
(* Whatever the user and the endpoint do, and whenever the panels hear of it:      *)
(* the timeline and the inspector hold one selection; a field of the inspector     *)
(* writes to the clip it was filled for; a drag is of the selected clip, or of     *)
(* one deleted meanwhile.  Once everyone was told, the timeline draws the engine's *)
(* project, the selection names a clip of it, and fields nobody is typing in show  *)
(* that clip (TimelineGraphView::refresh, InspectorPanel::rebuild).                *)
(***********************************************************************************)
OneSelection == inspected = selectedClip
FieldsBelong == fields # None => fields.clip = inspected
DragIsOfSelection == (drag # None /\ drag.kind # "Playhead") => selectedClip \in {drag.clip, None}
ToldPanelsAreCurrent ==
  telling = "nobody" =>
    /\ cached = project
    /\ selectedClip \in Present(project) \cup {None}
    /\ ~focus => fields = Shown(inspected, project)

PanelsSound == OneSelection /\ FieldsBelong /\ DragIsOfSelection /\ ToldPanelsAreCurrent
===================================================================================
