-------------------------------- MODULE AppProofs --------------------------------
(***********************************************************************************)
(* Theorems about the main window and the agent chat: the panels, for any clips    *)
(* and any number of edits of theirs and of the endpoint; the file actions, for    *)
(* any files and any number of changes, saves and gestures, with project.save      *)
(* called from two surfaces; the chain of effects of a clip, for any effects,      *)
(* points of a curve and number of edits of the user and of the endpoint; the      *)
(* turns of the chat, for any names, number of turns and edits of the endpoint     *)
(* under them.                                                                     *)
(*                                                                                 *)
(* What the panels show lags behind the engine while observers are told of an      *)
(* edit, one after the other; the invariant says what those that were told         *)
(* already hold (InspectorCurrent, TimelineCurrent), and that what was filled in   *)
(* or dragged is of the selected clip (FieldsFilled, DragTracks).                  *)
(*                                                                                 *)
(* The window replaces a project that is clean, so a clean one has to be one that  *)
(* a save put on disk, or one that was never edited (CleanIsSafe): a completion    *)
(* may be delivered by the other surface, after further edits, and marks the       *)
(* session clean only at the revision that the job took (JobsCaptured). While a    *)
(* save that the window asked for is under way, what it saves and what the         *)
(* session holds are the same, or what the session holds may be replaced anyway    *)
(* (SavePasses). A completion is in the queue, in the hands of one call or         *)
(* delivered (Dealt).                                                              *)
(*                                                                                 *)
(* Undo and redo check little, so what makes them exact is that every command on   *)
(* either history leads from one shown clip to the next and back (Link, Walk),     *)
(* that redoing captures what was captured before, and that the effects of a       *)
(* chain have identities of their own (Chain), so an identity finds the effect it  *)
(* was captured of. An editor shows the points of its effect but for the drag in   *)
(* it (DragKept), so a release or a removal can only be refused of the point that  *)
(* was being added (ToldEditors).                                                  *)
(*                                                                                 *)
(* A turn of the chat keeps its text in the input line and in the draft until the  *)
(* answer (TurnKept), and submits a message only with its mention resolved         *)
(* (MentionKept); what the transcript tells is carried from one entry to the next  *)
(* (TellsOther, TellsAgent).                                                       *)
(*                                                                                 *)
(* What a declaration lets through is known argument by argument (Accepts), and    *)
(* every handler reads exactly what it asks of those (HandlersRead), for any       *)
(* arguments; what the gateway builds is put together of declared members, each    *)
(* of a value that its declaration lets through (Drawn).                           *)
(*                                                                                 *)
(* A clip may be dragged to before the start of the timeline; that project is      *)
(* refused, so those the engine holds start their clips at zero or later           *)
(* (LooseClips, Fitted). The playhead is kept within the highest end of finitely   *)
(* many clips (HighestOf).                                                         *)
(***********************************************************************************)
EXTENDS MCAppParts, SequenceLemmas

-----------------------------------------------------------------------------------
(* The panels. *)

(* While someone has yet to be told, what those who were told hold: after the      *)
(* inspector was, a field that is not typed into shows the engine's clip, and one  *)
(* that has the focus belongs to a clip of the engine's project.                   *)
InspectorCurrent ==
  telling # "inspector" =>
    IF focus THEN inspected \in Present(project) ELSE fields = Shown(inspected, project)

TimelineCurrent ==
  telling = "nobody" => cached = project /\ selectedClip \in Present(project) \cup {None}

FieldsFilled == fields # None \/ focus => "clip" \in DOMAIN fields /\ fields.clip = inspected

DragTracks ==
  (drag # None /\ drag.kind # "Playhead") =>
    "clip" \in DOMAIN drag /\ selectedClip \in {drag.clip, None}

PanelsInv ==
  /\ telling \in {"nobody", "inspector", "timeline"} /\ focus \in BOOLEAN
  /\ selectedClip \in Clips \cup {None} /\ OneSelection
  /\ InspectorCurrent /\ TimelineCurrent /\ FieldsFilled /\ DragTracks

-----------------------------------------------------------------------------------
(* What rebuilt controls are filled with.                                          *)
LEMMA Filling ==
  ASSUME NEW id \in Clips \cup {None}, NEW p
  PROVE  /\ Shown(id, p) # None => "clip" \in DOMAIN Shown(id, p) /\ Shown(id, p).clip = id
         /\ Shown(id, p) # None => id \in Present(p)
         /\ Shown(None, p) = None
BY DEF Shown, Present

(* A change of the selection, by a press.                                          *)
LEMMA SelectKeeps ==
  ASSUME PanelsInv, NEW id \in Clips \cup {None}, NEW track, Select(id, track, project), ~focus,
         id \in Present(project) \cup {None} \/ telling # "nobody",
         UNCHANGED <<project, cached, telling>>
  PROVE  /\ selectedClip' = id /\ focus' = FALSE /\ OneSelection'
         /\ InspectorCurrent' /\ TimelineCurrent' /\ FieldsFilled'
<1> USE DEF PanelsInv
<1>1. selectedClip' = id /\ inspected' = id /\ focus' = FALSE
  BY DEF Select, OneSelection
<1>2. fields' = IF id # selectedClip THEN Shown(id, project) ELSE fields
  BY DEF Select
<1>3. InspectorCurrent'
  <2>1. ASSUME telling # "inspector" PROVE fields' = Shown(id, project)
    BY <1>2, <2>1 DEF InspectorCurrent, OneSelection
  <2>2. QED
    BY <1>1, <2>1 DEF InspectorCurrent, Shown
<1>4. FieldsFilled'
  <2>1. CASE id # selectedClip
    BY <1>1, <1>2, <2>1, Filling DEF FieldsFilled
  <2>2. CASE id = selectedClip
    BY <1>1, <1>2, <2>2 DEF FieldsFilled, OneSelection
  <2>3. QED
    BY <2>1, <2>2
<1>5. TimelineCurrent'
  BY <1>1 DEF TimelineCurrent, Present
<1>6. QED
  BY <1>1, <1>3, <1>4, <1>5 DEF OneSelection

(* The timeline takes a project in and drops a selection that is not in it.        *)
LEMMA Learning ==
  ASSUME PanelsInv, NEW p, ViewLearns(p)
  PROVE  /\ cached' = p /\ selectedClip' \in Clips \cup {None} /\ OneSelection'
         /\ selectedClip' \in {selectedClip, None} /\ selectedClip' \in Present(p) \cup {None}
<1>1. CASE selectedClip # None /\ p.clips[selectedClip] = None
  BY <1>1 DEF ViewLearns, PanelsInv, OneSelection
<1>2. CASE ~(selectedClip # None /\ p.clips[selectedClip] = None)
  BY <1>2 DEF ViewLearns, PanelsInv, OneSelection, Present
<1>3. QED
  BY <1>1, <1>2

(* An edit of the user, told on the thread that made it, whatever it did.          *)
LEMMA ApplyKeeps ==
  ASSUME PanelsInv, NEW p, Apply(p), drag' \in {drag, None}
  PROVE  PanelsInv'
<1>1. CASE FitsTimeline(p)
  <2>1. /\ project' = p /\ ViewLearns(p) /\ telling' = telling
        /\ fields' = Shown(inspected', p) /\ focus' = FALSE
    BY <1>1 DEF Apply
  <2>2. /\ cached' = p /\ selectedClip' \in Clips \cup {None} /\ OneSelection'
        /\ selectedClip' \in {selectedClip, None} /\ selectedClip' \in Present(p) \cup {None}
    BY <2>1, Learning
  <2>3. inspected' \in Clips \cup {None}
    BY <2>2 DEF OneSelection
  <2>4. InspectorCurrent' /\ TimelineCurrent'
    BY <2>1, <2>2 DEF InspectorCurrent, TimelineCurrent, Shown, Present
  <2>5. FieldsFilled'
    BY <2>1, <2>3, Filling DEF FieldsFilled
  <2>6. DragTracks'
    BY <2>2 DEF PanelsInv, DragTracks
  <2>7. QED
    BY <2>1, <2>2, <2>4, <2>5, <2>6 DEF PanelsInv
<1>2. CASE ~FitsTimeline(p)
  <2>1. UNCHANGED <<project, cached, telling, selectedClip, selectedTrack, playhead, inspectorVars, edits>>
    BY <1>2 DEF Apply
  <2>2. QED
    BY <2>1 DEF PanelsInv, inspectorVars, OneSelection, InspectorCurrent, TimelineCurrent,
                FieldsFilled, DragTracks, Shown, Present
<1>3. QED
  BY <1>1, <1>2

-----------------------------------------------------------------------------------
LEMMA PanelsStart == PanelsInit => PanelsInv
<1> SUFFICES ASSUME PanelsInit PROVE PanelsInv
  OBVIOUS
<1>1. telling = "nobody" /\ cached = project /\ selectedClip = None /\ inspected = None
      /\ fields = None /\ focus = FALSE /\ drag = None
  BY DEF PanelsInit
<1>2. QED
  BY <1>1 DEF PanelsInv, OneSelection, InspectorCurrent, TimelineCurrent, FieldsFilled,
              DragTracks, Shown

LEMMA PressesKeep ==
  ASSUME PanelsInv,
         \/ \E id \in Clips, kind \in {"Move", "TrimStart", "TrimEnd"} : PressClip(id, kind)
         \/ \E lane \in Lanes, x \in 0..Horizon : PressLane(lane, x)
         \/ \E x \in 0..Horizon : PressBelow(x) \/ PressRuler(x)
  PROVE  PanelsInv'
<1>1. ASSUME NEW id \in Clips, NEW kind \in {"Move", "TrimStart", "TrimEnd"}, PressClip(id, kind)
      PROVE  PanelsInv'
  <2>1. /\ ~focus /\ id \in Present(cached) /\ UNCHANGED <<project, cached, telling, playhead, edits>>
        /\ Select(id, cached.clips[id].lane, project)
        /\ drag'.clip = id /\ "clip" \in DOMAIN drag'
    BY <1>1 DEF PressClip
  <2>2. id \in Present(project) \cup {None} \/ telling # "nobody"
    BY <2>1 DEF PanelsInv, TimelineCurrent
  <2>3. /\ selectedClip' = id /\ focus' = FALSE /\ OneSelection'
        /\ InspectorCurrent' /\ TimelineCurrent' /\ FieldsFilled'
    BY <2>1, <2>2, SelectKeeps
  <2>4. QED
    BY <2>1, <2>3 DEF PanelsInv, DragTracks
<1>2. ASSUME NEW track, Select(None, track, project), ~focus, drag = None,
             UNCHANGED <<project, cached, telling, drag, edits>>
      PROVE  PanelsInv'
  <2>1. /\ selectedClip' = None /\ focus' = FALSE /\ OneSelection'
        /\ InspectorCurrent' /\ TimelineCurrent' /\ FieldsFilled'
    BY <1>2, SelectKeeps
  <2>2. QED
    BY <1>2, <2>1 DEF PanelsInv, DragTracks
<1>3. ASSUME NEW lane \in Lanes, NEW x \in 0..Horizon, PressLane(lane, x) PROVE PanelsInv'
  BY <1>2, <1>3 DEF PressLane
<1>4. ASSUME NEW x \in 0..Horizon, PressBelow(x) PROVE PanelsInv'
  BY <1>2, <1>4 DEF PressBelow
<1>5. ASSUME NEW x \in 0..Horizon, PressRuler(x) PROVE PanelsInv'
  <2>1. /\ drag'.kind = "Playhead"
        /\ UNCHANGED <<project, cached, telling, selectedClip, inspectorVars>>
    BY <1>5 DEF PressRuler
  <2>2. QED
    BY <2>1 DEF PanelsInv, inspectorVars, OneSelection, InspectorCurrent, TimelineCurrent,
                FieldsFilled, DragTracks, Shown, Present
<1>6. QED
  BY <1>1, <1>3, <1>4, <1>5

(* A drag that goes on, and one that ends with the edit it stands for.             *)
LEMMA DragsKeep ==
  ASSUME PanelsInv, (\E x \in 0..Horizon \cup Deltas : MouseMove(x)) \/ MouseRelease
  PROVE  PanelsInv'
<1>1. ASSUME NEW x \in 0..Horizon \cup Deltas, MouseMove(x) PROVE PanelsInv'
  <2>1. /\ drag # None
        /\ UNCHANGED <<project, cached, telling, selectedClip, selectedTrack, inspectorVars, edits>>
    BY <1>1 DEF MouseMove
  <2>2. DragTracks'
    <3>1. CASE drag.kind = "Playhead"
      BY <1>1, <2>1, <3>1 DEF MouseMove, PanelsInv, DragTracks
    <3>2. CASE drag.kind # "Playhead"
      <4>1. drag' = [drag EXCEPT !.delta = x] /\ "clip" \in DOMAIN drag
            /\ selectedClip \in {drag.clip, None}
        BY <1>1, <2>1, <3>2 DEF MouseMove, PanelsInv, DragTracks
      <4>2. "clip" \in DOMAIN drag' /\ drag'.clip = drag.clip
        BY <4>1
      <4>3. QED
        BY <2>1, <4>1, <4>2 DEF DragTracks
    <3>3. QED
      BY <3>1, <3>2
  <2>3. QED
    BY <2>1, <2>2 DEF PanelsInv, inspectorVars, OneSelection, InspectorCurrent, TimelineCurrent,
                FieldsFilled, Shown, Present
<1>2. ASSUME MouseRelease PROVE PanelsInv'
  <2>1. drag' = None
    BY <1>2 DEF MouseRelease
  <2>2. \/ UNCHANGED <<project, cached, telling, selectedClip, selectedTrack, playhead, inspectorVars, edits>>
        \/ \E p : Apply(p)
    BY <1>2 DEF MouseRelease
  <2>3. CASE UNCHANGED <<project, cached, telling, selectedClip, selectedTrack, playhead, inspectorVars, edits>>
    BY <2>1, <2>3 DEF PanelsInv, inspectorVars, OneSelection, InspectorCurrent, TimelineCurrent,
                      FieldsFilled, DragTracks, Shown, Present
  <2>4. CASE \E p : Apply(p)
    BY <2>1, <2>4, ApplyKeeps
  <2>5. QED
    BY <2>2, <2>3, <2>4
<1>3. QED
  BY <1>1, <1>2

LEMMA MenusKeep ==
  ASSUME PanelsInv,
         \/ DeleteClip \/ RippleTrimToPlayhead \/ Undo
         \/ \E id \in Clips : SplitAtPlayhead(id) \/ PlaceAtPlayhead(id, 1)
         \/ \E lane \in Lanes : AddLane(lane)
  PROVE  PanelsInv'
<1>1. drag' = drag /\ \E p : Apply(p)
  <2>1. CASE DeleteClip
    BY <2>1 DEF DeleteClip
  <2>2. CASE RippleTrimToPlayhead
    BY <2>2 DEF RippleTrimToPlayhead
  <2>3. CASE Undo
    BY <2>3 DEF Undo
  <2>4. ASSUME NEW id \in Clips, SplitAtPlayhead(id) PROVE drag' = drag /\ \E p : Apply(p)
    BY <2>4 DEF SplitAtPlayhead
  <2>5. ASSUME NEW id \in Clips, PlaceAtPlayhead(id, 1) PROVE drag' = drag /\ \E p : Apply(p)
    BY <2>5 DEF PlaceAtPlayhead
  <2>6. ASSUME NEW lane \in Lanes, AddLane(lane) PROVE drag' = drag /\ \E p : Apply(p)
    BY <2>6 DEF AddLane
  <2>7. QED
    BY <2>6, <2>5, <2>4, <2>3, <2>2, <2>1
<1>2. QED
  BY <1>1, ApplyKeeps

LEMMA InspectorKeeps ==
  ASSUME PanelsInv, EnterField \/ LeaveField \/ \E value \in Looks : TypeInField(value)
  PROVE  PanelsInv'
<1>1. CASE EnterField
  <2>1. /\ fields # None /\ ~focus /\ focus' = TRUE
        /\ UNCHANGED <<project, cached, telling, selectedClip, drag, inspected, fields>>
    BY <1>1 DEF EnterField, graphVars
  <2>2. InspectorCurrent'
    <3>1. inspected \in Clips \cup {None}
      BY DEF PanelsInv, OneSelection
    <3>2. telling # "inspector" => inspected \in Present(project)
      BY <2>1, <3>1, Filling DEF PanelsInv, InspectorCurrent
    <3>3. QED
      BY <2>1, <3>2 DEF InspectorCurrent, Present
  <2>3. QED
    BY <2>1, <2>2 DEF PanelsInv, OneSelection, TimelineCurrent, FieldsFilled, DragTracks, Present
<1>2. ASSUME NEW value \in Looks, TypeInField(value) PROVE PanelsInv'
  <2>1. /\ focus /\ focus' = focus /\ fields' = [fields EXCEPT !.value = value]
        /\ UNCHANGED <<project, cached, telling, selectedClip, drag, inspected>>
    BY <1>2 DEF TypeInField, graphVars
  <2>2. "clip" \in DOMAIN fields /\ fields.clip = inspected
    BY <2>1 DEF PanelsInv, FieldsFilled
  <2>3. "clip" \in DOMAIN fields' /\ fields'.clip = fields.clip
    BY <2>1, <2>2
  <2>4. QED
    BY <2>1, <2>2, <2>3 DEF PanelsInv, OneSelection, InspectorCurrent, TimelineCurrent,
                            FieldsFilled, DragTracks, Present
<1>3. CASE LeaveField
  <2>1. focus /\ drag' = drag
    BY <1>3 DEF LeaveField
  <2>2. CASE inspected \in Present(project)
    <3>1. \E p : Apply(p)
      BY <1>3, <2>2 DEF LeaveField
    <3>2. QED
      BY <2>1, <3>1, ApplyKeeps
  <2>3. CASE inspected \notin Present(project)
    <3>1. /\ telling = "inspector" /\ focus' = FALSE
          /\ UNCHANGED <<project, cached, telling, selectedClip, drag, inspected, fields>>
      BY <1>3, <2>1, <2>3 DEF LeaveField, PanelsInv, InspectorCurrent
    <3>2. QED
      BY <2>1, <3>1 DEF PanelsInv, OneSelection, InspectorCurrent, TimelineCurrent, FieldsFilled,
                        DragTracks
  <2>4. QED
    BY <2>2, <2>3
<1>4. QED
  BY <1>1, <1>2, <1>3

LEMMA TellingKeeps ==
  ASSUME PanelsInv, EndpointEdits \/ InspectorLearns \/ TimelineLearns
  PROVE  PanelsInv'
<1>1. CASE EndpointEdits
  <2>1. telling' = "inspector" /\ UNCHANGED <<cached, selectedClip, drag, inspected, fields, focus>>
    BY <1>1 DEF EndpointEdits, graphVars, inspectorVars
  <2>2. QED
    BY <2>1 DEF PanelsInv, OneSelection, InspectorCurrent, TimelineCurrent, FieldsFilled, DragTracks
<1>2. CASE InspectorLearns
  <2>1. /\ telling' = "timeline" /\ fields' = Shown(inspected, project) /\ focus' = FALSE
        /\ UNCHANGED <<project, cached, selectedClip, drag, inspected>>
    BY <1>2 DEF InspectorLearns, graphVars
  <2>2. inspected \in Clips \cup {None}
    BY DEF PanelsInv, OneSelection
  <2>3. FieldsFilled'
    BY <2>1, <2>2, Filling DEF FieldsFilled
  <2>4. QED
    BY <2>1, <2>3 DEF PanelsInv, OneSelection, InspectorCurrent, TimelineCurrent, DragTracks, Shown
<1>3. CASE TimelineLearns
  <2>1. /\ telling = "timeline" /\ telling' = "nobody" /\ ViewLearns(project)
        /\ IF inspected' # inspected THEN fields' = Shown(inspected', project) /\ focus' = FALSE
                                     ELSE UNCHANGED <<fields, focus>>
        /\ UNCHANGED <<project, drag>>
    BY <1>3 DEF TimelineLearns
  <2>2. /\ cached' = project /\ selectedClip' \in Clips \cup {None} /\ OneSelection'
        /\ selectedClip' \in {selectedClip, None} /\ selectedClip' \in Present(project) \cup {None}
    BY <2>1, Learning
  <2>3. inspected' \in Clips \cup {None}
    BY <2>2 DEF OneSelection
  <2>4. InspectorCurrent' /\ FieldsFilled' /\ focus' \in BOOLEAN
    <3>1. CASE inspected' # inspected
      BY <2>1, <2>3, <3>1, Filling DEF InspectorCurrent, FieldsFilled, Shown
    <3>2. CASE inspected' = inspected
      BY <2>1, <3>2 DEF PanelsInv, InspectorCurrent, FieldsFilled, Shown, Present
    <3>3. QED
      BY <3>1, <3>2
  <2>5. TimelineCurrent' /\ DragTracks'
    BY <2>1, <2>2 DEF PanelsInv, TimelineCurrent, DragTracks, Present
  <2>6. QED
    BY <2>1, <2>2, <2>4, <2>5 DEF PanelsInv
<1>4. QED
  BY <1>1, <1>2, <1>3

LEMMA PanelsStep == PanelsInv /\ [PanelsNext]_panelVars => PanelsInv'
<1> SUFFICES ASSUME PanelsInv, [PanelsNext]_panelVars PROVE PanelsInv'
  OBVIOUS
<1>1. CASE PanelsNext
  BY <1>1, PressesKeep, DragsKeep, MenusKeep, InspectorKeeps, TellingKeeps DEF PanelsNext
<1>2. CASE UNCHANGED panelVars
  BY <1>2 DEF panelVars, graphVars, inspectorVars, PanelsInv, OneSelection, InspectorCurrent,
              TimelineCurrent, FieldsFilled, DragTracks, Shown, Present
<1>3. QED
  BY <1>1, <1>2

LEMMA PanelsEnough == PanelsInv => PanelsSound
BY DEF PanelsInv, PanelsSound, OneSelection, InspectorCurrent, TimelineCurrent, FieldsFilled,
       DragTracks, FieldsBelong, DragIsOfSelection, ToldPanelsAreCurrent

(* The panels keep what PanelsSound says of the selection, the drag, the fields    *)
(* and the project they draw (TimelineGraphView, InspectorPanel), for any clips,   *)
(* lanes and limits and any edits of the endpoint between the user's gestures.     *)
THEOREM PanelsAreSound == PanelsSpec => []PanelsSound
<1>1. PanelsInit => PanelsInv
  BY PanelsStart
<1>2. PanelsInv /\ [PanelsNext]_panelVars => PanelsInv'
  BY PanelsStep
<1>3. PanelsInv => PanelsSound
  BY PanelsEnough
<1>4. QED
  BY <1>1, <1>2, <1>3, PTL DEF PanelsSpec

-----------------------------------------------------------------------------------
(* The file actions. *)

Sessions == [doc : Versions, revision : Nat, saved : Nat, path : Files \cup {NoFile}]
Stages == {"writing", "written", "failed"}
SaveJobs == [file : Files, doc : Versions, revision : Nat, stage : Stages]
Calls == [at : {"none", "waiting", "delivering"}, job : Nat, batch : Seq(Nat), count : Nat]
Answers == {"none", "ok", "late", "failed", "lost"}
Windows == [at : {"idle", "question", "destination", "saving", "replacing"},
            action : {"none", "save", "open", "new"}]

FileRecords ==
  /\ session \in Sessions /\ stored \in [Files -> Versions \cup {0}]
  /\ jobs \in Seq(SaveJobs) /\ reports \in Seq(Nat) /\ captured \subseteq DOMAIN jobs
  /\ call \in [Surfaces -> Calls] /\ answer \in [Surfaces -> Answers] /\ window \in Windows
  /\ made \in Versions /\ edited \subseteq 1..made
  /\ \A s \in Surfaces : call[s].at # "none" => call[s].job \in DOMAIN jobs

(* Every completion that was not delivered is in one place, and only those are.    *)
Over == {i \in DOMAIN jobs : jobs[i].stage # "writing"}
Undelivered == Over \ captured
Gui == call["gui"].batch
Mcp == call["mcp"].batch

Dealt ==
  /\ IsInjective(reports) /\ IsInjective(Gui) /\ IsInjective(Mcp)
  /\ ToSet(reports) \cap ToSet(Gui) = {} /\ ToSet(reports) \cap ToSet(Mcp) = {}
  /\ ToSet(Gui) \cap ToSet(Mcp) = {}
  /\ ToSet(reports) \cup ToSet(Gui) \cup ToSet(Mcp) = Undelivered /\ captured \subseteq Over
  /\ \A s \in Surfaces : call[s].at # "delivering" => call[s].batch = <<>>

(* What is on the disk was saved, what is clean was saved or never edited, and a   *)
(* job took the document of its revision.                                          *)
StoredLanded == \A f \in Files : stored[f] \in Landed \cup {0}
CleanIsSafe == ~Changed => session.doc \in Landed \cup (Versions \ edited)
JobsCaptured ==
  /\ session.saved <= session.revision
  /\ \A i \in DOMAIN jobs :
       /\ jobs[i].revision <= session.revision
       /\ jobs[i].revision = session.revision => jobs[i].doc = session.doc

DocumentsKept == StoredLanded /\ CleanIsSafe /\ JobsCaptured

(* A call of the window is one it waits for; while it waits, what the session      *)
(* holds is what the call saves, or may be replaced anyway.                        *)
Replaceable == session.doc \in Landed \cup (Versions \ edited) \cup excused

SavePasses ==
  window.at = "saving" =>
    IF call["gui"].at = "none" THEN answer["gui"] = "ok" => Replaceable
    ELSE Replaceable \/ session.doc = jobs[call["gui"].job].doc

WindowKept ==
  /\ window.at # "saving" => call["gui"].at = "none"
  /\ window.at = "replacing" => Replaceable
  /\ SavePasses

FilesInv == FileRecords /\ Dealt /\ DocumentsKept /\ WindowKept

-----------------------------------------------------------------------------------
LEMMA Concatenated ==
  ASSUME NEW S, NEW s \in Seq(S), NEW t \in Seq(S), IsInjective(s), IsInjective(t),
         ToSet(s) \cap ToSet(t) = {}
  PROVE  /\ s \o t \in Seq(S) /\ IsInjective(s \o t) /\ ToSet(s \o t) = ToSet(s) \cup ToSet(t)
<1> DEFINE u == s \o t
           m == Len(s)
           n == Len(t)
<1>1. /\ m \in Nat /\ n \in Nat /\ DOMAIN s = 1..m /\ DOMAIN t = 1..n
  OBVIOUS
<1>2. /\ u \in Seq(S) /\ Len(u) = m + n
      /\ \A i \in 1..m + n : u[i] = IF i <= m THEN s[i] ELSE t[i - m]
  BY ConcatProperties
<1>3. DOMAIN u = 1..m + n
  BY <1>2
<1>4. /\ ToSet(s) = {s[i] : i \in 1..m} /\ ToSet(t) = {t[i] : i \in 1..n}
      /\ ToSet(u) = {u[i] : i \in 1..m + n}
  BY <1>1, <1>3 DEF ToSet
<1> HIDE DEF u, m, n
<1>5. \A i \in 1..m + n : \/ i \in 1..m /\ u[i] = s[i]
                          \/ i - m \in 1..n /\ ~(i \in 1..m) /\ u[i] = t[i - m]
  BY <1>1, <1>2
<1>6. \A i \in 1..n : i + m \in 1..m + n /\ u[i + m] = t[i]
  <2>1. ASSUME NEW i \in 1..n PROVE i + m \in 1..m + n /\ ~(i + m <= m) /\ (i + m) - m = i
    BY <1>1
  <2>2. QED
    BY <1>2, <2>1
<1>7. \A i \in 1..m : i \in 1..m + n /\ u[i] = s[i]
  <2>1. ASSUME NEW i \in 1..m PROVE i \in 1..m + n /\ i <= m
    BY <1>1
  <2>2. QED
    BY <1>2, <2>1
<1>8. ToSet(u) = ToSet(s) \cup ToSet(t)
  <2>1. ToSet(u) \subseteq ToSet(s) \cup ToSet(t)
    BY <1>4, <1>5
  <2>2. ToSet(s) \subseteq ToSet(u) /\ ToSet(t) \subseteq ToSet(u)
    BY <1>4, <1>6, <1>7
  <2>3. QED
    BY <2>1, <2>2
<1>9. IsInjective(u)
  <2>1. SUFFICES ASSUME NEW i \in 1..m + n, NEW j \in 1..m + n, u[i] = u[j] PROVE i = j
    BY <1>3 DEF IsInjective
  <2>2. CASE i \in 1..m /\ j \in 1..m
    BY <1>1, <1>7, <2>1, <2>2 DEF IsInjective
  <2>3. CASE ~(i \in 1..m) /\ ~(j \in 1..m)
    <3>1. i - m \in 1..n /\ j - m \in 1..n /\ t[i - m] = t[j - m]
      BY <1>5, <2>1, <2>3
    <3>2. i - m = j - m
      BY <1>1, <3>1 DEF IsInjective
    <3>3. QED
      BY <1>1, <3>2
  <2>4. CASE i \in 1..m /\ ~(j \in 1..m)
    <3>1. u[i] \in ToSet(s) /\ u[j] \in ToSet(t)
      BY <1>4, <1>5, <2>4
    <3>2. QED
      BY <2>1, <3>1
  <2>5. CASE ~(i \in 1..m) /\ j \in 1..m
    <3>1. u[j] \in ToSet(s) /\ u[i] \in ToSet(t)
      BY <1>4, <1>5, <2>5
    <3>2. QED
      BY <2>1, <3>1
  <2>6. QED
    BY <2>2, <2>3, <2>4, <2>5
<1>10. QED
  BY <1>2, <1>8, <1>9 DEF u

LEMMA OnceEach == ASSUME FileRecords, Dealt PROVE EveryReportOnce
<1> DEFINE first == reports \o Gui
<1>1. reports \in Seq(Nat) /\ Gui \in Seq(Nat) /\ Mcp \in Seq(Nat)
  BY DEF FileRecords, Calls, Surfaces, Gui, Mcp
<1>2. /\ first \in Seq(Nat) /\ IsInjective(first)
      /\ ToSet(first) = ToSet(reports) \cup ToSet(Gui)
  BY <1>1, Concatenated DEF Dealt
<1>3. Underway = first \o Mcp
  BY DEF Underway, Gui, Mcp
<1> HIDE DEF first
<1>4. ToSet(first) \cap ToSet(Mcp) = {} /\ IsInjective(Mcp)
  BY <1>2 DEF Dealt
<1>5. /\ IsInjective(first \o Mcp)
      /\ ToSet(first \o Mcp) = ToSet(first) \cup ToSet(Mcp)
  BY <1>1, <1>2, <1>4, Concatenated
<1>6. ToSet(first \o Mcp) = Over \ captured
  BY <1>2, <1>5 DEF Dealt, Undelivered
<1>7. IsInjective(Underway) /\ ToSet(Underway) = Over \ captured
  BY Zenon, <1>3, <1>5, <1>6
<1>8. QED
  BY Zenon, <1>7 DEF EveryReportOnce, Over

LEMMA FilesStart == ASSUME FileAssumption, FilesInit PROVE FilesInv
<1>1. /\ session = [doc |-> 1, revision |-> 0, saved |-> 0, path |-> NoFile]
      /\ stored = [f \in Files |-> 0] /\ jobs = <<>> /\ reports = <<>> /\ captured = {}
      /\ call = [s \in Surfaces |-> Resting] /\ answer = [s \in Surfaces |-> "none"]
      /\ window = Idle /\ edited = {} /\ excused = {} /\ made = 1
  BY DEF FilesInit
<1>2. <<>> \in Seq(Nat) /\ <<>> \in Seq(SaveJobs) /\ DOMAIN <<>> = {} /\ ToSet(<<>>) = {}
      /\ IsInjective(<<>>)
  BY DEF ToSet, IsInjective
<1>3. Resting \in Calls /\ Resting.at = "none" /\ Resting.batch = <<>>
  BY <1>2 DEF Resting, Calls
<1>4. FileRecords
  BY <1>1, <1>2, <1>3, FileAssumption DEF FileRecords, Sessions, Versions, Answers, Windows, Idle
<1>5. Dealt
  BY <1>1, <1>2, <1>3 DEF Dealt, Gui, Mcp, Undelivered, Over, Surfaces
<1>6. DocumentsKept
  BY <1>1, <1>2, FileAssumption DEF DocumentsKept, StoredLanded, CleanIsSafe, JobsCaptured, Versions
<1>7. WindowKept
  BY <1>1, <1>3 DEF WindowKept, SavePasses, Idle, Surfaces
<1>8. QED
  BY <1>4, <1>5, <1>6, <1>7 DEF FilesInv

LEMMA JobsTyped ==
  ASSUME FileRecords
  PROVE  /\ Len(jobs) \in Nat /\ DOMAIN jobs = 1..Len(jobs)
         /\ \A i \in DOMAIN jobs : jobs[i] \in SaveJobs
BY LenProperties DEF FileRecords

-----------------------------------------------------------------------------------
(* The session's own calls.                                                        *)
SessionCall == (\E doc \in Versions : EditTo(doc) \/ Create(doc)) \/ \E f \in Files : Load(f)

SavesRest == UNCHANGED <<stored, jobs, reports, captured, call, answer>>

LEMMA RestingSaves ==
  ASSUME FilesInv, SavesRest
  PROVE  Landed' = Landed /\ Dealt'
BY DEF SavesRest, Landed, FilesInv, Dealt, Gui, Mcp, Undelivered, Over

LEMMA SessionCallKeeps ==
  ASSUME FileAssumption, FilesInv, SessionCall, SavesRest, window' \in Windows
  PROVE  FileRecords' /\ Dealt' /\ DocumentsKept'
<1> USE DEF FilesInv
<1>1. Landed' = Landed /\ Dealt'
  BY RestingSaves
<1>2. /\ session \in Sessions /\ made \in Versions /\ edited \subseteq 1..made
      /\ MaxChanges \in Nat
  BY FileAssumption DEF FileRecords
<1>3. /\ session' \in Sessions /\ made' \in Versions /\ edited' \subseteq 1..made'
      /\ session'.saved <= session'.revision
      /\ \/ session' = session /\ edited' = edited
         \/ /\ session'.revision = session.revision + 1
            /\ \/ session'.saved # session'.revision
               \/ session'.doc \in Landed \cup (Versions \ edited')
  <2>1. ASSUME NEW doc \in Versions, EditTo(doc)
        PROVE  /\ session' \in Sessions /\ made' \in Versions /\ edited' \subseteq 1..made'
               /\ session'.revision = session.revision + 1 /\ session'.saved <= session'.revision
               /\ session'.saved # session'.revision
    <3>1. made' = made + 1 /\ doc = made' /\ made' \in Versions /\ edited' = edited \cup {doc}
      BY <1>2, <2>1 DEF EditTo, NewVersion, Versions
    <3>2. session' = [doc |-> doc, revision |-> session.revision + 1, saved |-> session.saved,
                      path |-> session.path]
      BY <1>2, <2>1 DEF EditTo, Sessions
    <3>3. edited' \subseteq 1..made'
      BY <1>2, <3>1 DEF Versions
    <3>4. session.saved \in Nat /\ session.revision \in Nat /\ session.saved <= session.revision
      BY <1>2 DEF Sessions, DocumentsKept, JobsCaptured
    <3>5. session' \in Sessions
      BY <1>2, <3>2, <3>4 DEF Sessions
    <3>6. QED
      BY <3>1, <3>2, <3>3, <3>4, <3>5
  <2>2. ASSUME NEW doc \in Versions, Create(doc)
        PROVE  /\ session' \in Sessions /\ made' \in Versions /\ edited' \subseteq 1..made'
               /\ session'.revision = session.revision + 1 /\ session'.saved <= session'.revision
               /\ session'.doc \in Versions \ edited'
    <3>1. made' = made + 1 /\ doc = made' /\ made' \in Versions /\ edited' = edited
      BY <1>2, <2>2 DEF Create, NewVersion, Versions
    <3>2. session' = [doc |-> doc, revision |-> session.revision + 1,
                      saved |-> session.revision + 1, path |-> NoFile]
      BY <2>2 DEF Create
    <3>3. edited' \subseteq 1..made' /\ doc \notin edited'
      BY <1>2, <3>1 DEF Versions
    <3>4. session.revision \in Nat /\ session' \in Sessions
      BY <1>2, <3>2 DEF Sessions
    <3>5. QED
      BY <3>1, <3>2, <3>3, <3>4
  <2>3. ASSUME NEW f \in Files, Load(f), stored[f] # 0
        PROVE  /\ session' \in Sessions /\ made' \in Versions /\ edited' \subseteq 1..made'
               /\ session'.revision = session.revision + 1 /\ session'.saved <= session'.revision
               /\ session'.doc \in Landed
    <3>1. made' = made + 1 /\ made' \in Versions /\ edited' = edited
      BY <1>2, <2>3 DEF Load, Versions
    <3>2. session' = [doc |-> stored[f], revision |-> session.revision + 1,
                      saved |-> session.revision + 1, path |-> f]
      BY <2>3 DEF Load
    <3>3. stored[f] \in Versions /\ stored[f] \in Landed
      BY <2>3 DEF FileRecords, DocumentsKept, StoredLanded
    <3>4. edited' \subseteq 1..made'
      BY <1>2, <3>1 DEF Versions
    <3>5. session.revision \in Nat /\ session' \in Sessions
      BY <1>2, <3>2, <3>3 DEF Sessions
    <3>6. QED
      BY <3>1, <3>2, <3>3, <3>4, <3>5
  <2>4. ASSUME NEW f \in Files, Load(f), stored[f] = 0
        PROVE  UNCHANGED <<session, made, edited>>
    BY <2>4 DEF Load
  <2>5. session.saved <= session.revision
    BY DEF DocumentsKept, JobsCaptured
  <2>6. QED
    BY <1>2, <2>5, <2>4, <2>3, <2>2, <2>1 DEF SessionCall
<1>4. FileRecords'
  BY <1>3 DEF FileRecords, SavesRest
<1>5. CleanIsSafe'
  <2>1. CASE session' = session /\ edited' = edited
    BY <1>1, <2>1 DEF DocumentsKept, CleanIsSafe, Changed
  <2>2. CASE session'.saved # session'.revision \/ session'.doc \in Landed \cup (Versions \ edited')
    BY <1>1, <2>2 DEF CleanIsSafe, Changed
  <2>3. QED
    BY <1>3, <2>1, <2>2
<1>6. JobsCaptured'
  <2>1. CASE session' = session
    BY <1>3, <2>1 DEF DocumentsKept, JobsCaptured, SavesRest
  <2>2. CASE session'.revision = session.revision + 1
    <3>1. ASSUME NEW i \in DOMAIN jobs
          PROVE  jobs[i].revision <= session'.revision /\ jobs[i].revision # session'.revision
      <4>1. jobs[i].revision \in Nat
        BY <3>1, JobsTyped DEF SaveJobs
      <4>2. session.revision \in Nat /\ jobs[i].revision <= session.revision
        BY <1>2, <3>1 DEF Sessions, DocumentsKept, JobsCaptured
      <4>3. QED
        BY <2>2, <4>1, <4>2
    <3>2. QED
      BY <1>3, <3>1 DEF JobsCaptured, SavesRest
  <2>3. QED
    BY <1>3, <2>1, <2>2
<1>7. StoredLanded'
  BY <1>1 DEF DocumentsKept, StoredLanded, SavesRest
<1>8. QED
  BY <1>1, <1>4, <1>5, <1>6, <1>7 DEF DocumentsKept

(* A call of project.save takes what the session holds.                            *)
LEMMA AskKeeps ==
  ASSUME FileAssumption, FilesInv, NEW s \in Surfaces, NEW f \in Files, Ask(s, f),
         call[s].at = "none", UNCHANGED <<session, stored, reports, captured, edited, made>>,
         window' \in Windows
  PROVE  /\ FileRecords' /\ Dealt' /\ DocumentsKept' /\ Landed' = Landed
         /\ call'[s].at = "waiting" /\ jobs'[call'[s].job].doc = session.doc
         /\ \A t \in Surfaces \ {s} : call'[t] = call[t]
         /\ \A i \in DOMAIN jobs : i \in DOMAIN jobs' /\ jobs'[i] = jobs[i]
<1> USE DEF FilesInv
<1> DEFINE n == Len(jobs)
           job == [file |-> f, doc |-> session.doc, revision |-> session.revision,
                   stage |-> "writing"]
<1>1. job \in SaveJobs
  BY DEF FileRecords, Sessions, SaveJobs, Stages
<1>2. jobs' = Append(jobs, job)
  BY DEF Ask
<1>3. /\ n \in Nat /\ DOMAIN jobs = 1..n /\ jobs \in Seq(SaveJobs)
      /\ \A i \in DOMAIN jobs : jobs[i] \in SaveJobs
  BY JobsTyped DEF FileRecords
<1> HIDE DEF job
<1>4. /\ jobs' \in Seq(SaveJobs) /\ DOMAIN jobs' = 1..n + 1 /\ jobs'[n + 1] = job
      /\ \A i \in 1..n : jobs'[i] = jobs[i]
  BY <1>1, <1>2, <1>3
<1> HIDE DEF n
<1>5. DOMAIN jobs \subseteq DOMAIN jobs' /\ \A i \in DOMAIN jobs : jobs'[i] = jobs[i]
  BY <1>3, <1>4
<1>6. n + 1 \in DOMAIN jobs' /\ n + 1 \notin DOMAIN jobs /\ DOMAIN jobs' = DOMAIN jobs \cup {n + 1}
  BY <1>3, <1>4
<1>7. job.stage = "writing" /\ job.doc = session.doc /\ job.revision = session.revision
  BY DEF job
<1>8. /\ call' \in [Surfaces -> Calls] /\ call'[s].at = "waiting" /\ call'[s].job = n + 1
      /\ call'[s].batch = <<>> /\ \A t \in Surfaces \ {s} : call'[t] = call[t]
  <2>0. [Resting EXCEPT !.at = "waiting", !.job = n + 1]
          = [at |-> "waiting", job |-> n + 1, batch |-> <<>>, count |-> 0]
    <3>1. [Resting EXCEPT !.at = "waiting", !.job = n + 1]
            = [[Resting EXCEPT !.at = "waiting"] EXCEPT !.job = n + 1]
      OBVIOUS
    <3>2. [Resting EXCEPT !.at = "waiting"] = [at |-> "waiting", job |-> 0, batch |-> <<>>, count |-> 0]
      BY DEF Resting
    <3>3. [[at |-> "waiting", job |-> 0, batch |-> <<>>, count |-> 0] EXCEPT !.job = n + 1]
            = [at |-> "waiting", job |-> n + 1, batch |-> <<>>, count |-> 0]
      OBVIOUS
    <3>4. QED
      BY Zenon, <3>1, <3>2, <3>3
  <2>1. call' = [call EXCEPT ![s] = [at |-> "waiting", job |-> n + 1, batch |-> <<>>, count |-> 0]]
    BY <2>0 DEF Ask, n
  <2>2. [at |-> "waiting", job |-> n + 1, batch |-> <<>>, count |-> 0] \in Calls
    BY <1>3 DEF Calls
  <2>3. QED
    BY <2>1, <2>2 DEF FileRecords
<1>9. answer' \in [Surfaces -> Answers]
  BY DEF Ask, FileRecords, Answers
<1>10. FileRecords'
  BY <1>4, <1>5, <1>6, <1>8, <1>9 DEF FileRecords
<1>11. Undelivered' = Undelivered /\ Over' = Over
  BY <1>4, <1>5, <1>6, <1>7 DEF Undelivered, Over
<1>12. Gui' = Gui /\ Mcp' = Mcp
  <2>1. call[s].batch = <<>>
    BY DEF Dealt
  <2>2. \A t \in Surfaces : call'[t].batch = call[t].batch
    BY <1>8, <2>1
  <2>3. QED
    BY <2>2 DEF Gui, Mcp, Surfaces
<1>13. Dealt'
  BY <1>8, <1>11, <1>12 DEF Dealt
<1>14. Landed' = Landed
  <2> DEFINE written == {i \in DOMAIN jobs : jobs[i].stage = "written"}
  <2>1. jobs'[n + 1].stage = "writing"
    BY <1>4, <1>7
  <2>2. {i \in DOMAIN jobs' : jobs'[i].stage = "written"} = written
    BY <1>5, <1>6, <2>1
  <2>3. \A i \in written : jobs'[i].doc = jobs[i].doc
    BY <1>5
  <2>4. Landed' = {jobs'[i].doc : i \in written} /\ Landed = {jobs[i].doc : i \in written}
    BY <2>2 DEF Landed
  <2> HIDE DEF written
  <2>5. QED
    BY <2>3, <2>4
<1>15. DocumentsKept'
  <2>1. StoredLanded' /\ CleanIsSafe'
    BY <1>14 DEF DocumentsKept, StoredLanded, CleanIsSafe, Changed
  <2>2. JobsCaptured'
    <3>1. session.revision \in Nat
      BY DEF FileRecords, Sessions
    <3>2. ASSUME NEW i \in DOMAIN jobs'
          PROVE  /\ jobs'[i].revision <= session.revision
                 /\ jobs'[i].revision = session.revision => jobs'[i].doc = session.doc
      <4>1. CASE i = n + 1
        BY <1>4, <1>7, <3>1, <4>1
      <4>2. CASE i \in DOMAIN jobs
        BY <1>5, <4>2 DEF DocumentsKept, JobsCaptured
      <4>3. QED
        BY <1>6, <3>2, <4>1, <4>2
    <3>3. QED
      BY <3>2 DEF DocumentsKept, JobsCaptured
  <2>3. QED
    BY <2>1, <2>2 DEF DocumentsKept
<1>16. QED
  BY <1>4, <1>5, <1>7, <1>8, <1>10, <1>13, <1>14, <1>15

-----------------------------------------------------------------------------------
(* The worker, and the calls that wait for it.                                     *)
LEMMA WorkerEndsKeeps ==
  ASSUME FilesInv, NEW i \in DOMAIN jobs, NEW end \in {"written", "failed"}, WorkerEnds(i, end)
  PROVE  FilesInv'
<1> USE DEF FilesInv
<1>1. /\ jobs[i].stage = "writing" /\ jobs' = [jobs EXCEPT ![i].stage = end]
      /\ stored' = IF end = "written" THEN [stored EXCEPT ![jobs[i].file] = jobs[i].doc] ELSE stored
      /\ reports' = Append(reports, i)
      /\ UNCHANGED <<session, captured, call, answer, window, edited, excused, made, gestures>>
  BY DEF WorkerEnds
<1>2. /\ Len(jobs) \in Nat /\ DOMAIN jobs = 1..Len(jobs) /\ i \in Nat
      /\ \A j \in DOMAIN jobs : jobs[j] \in SaveJobs
  BY JobsTyped
<1> DEFINE job == [jobs[i] EXCEPT !.stage = end]
<1>3. /\ job \in SaveJobs /\ job.stage = end /\ job.doc = jobs[i].doc
      /\ job.revision = jobs[i].revision
  BY <1>2 DEF SaveJobs, Stages
<1>4. jobs' = [jobs EXCEPT ![i] = job]
  BY <1>1
<1> HIDE DEF job
<1>5. /\ jobs' \in Seq(SaveJobs) /\ DOMAIN jobs' = DOMAIN jobs /\ jobs'[i] = job
      /\ \A j \in DOMAIN jobs : j # i => jobs'[j] = jobs[j]
  BY <1>2, <1>3, <1>4, ExceptSeq DEF FileRecords
<1>6. /\ reports' \in Seq(Nat) /\ ToSet(reports') = ToSet(reports) \cup {i}
      /\ IsInjective(reports) /\ i \notin ToSet(reports) => IsInjective(reports')
  <2>1. reports \in Seq(Nat) /\ reports' = Append(reports, i)
    BY <1>1 DEF FileRecords
  <2>2. QED
    BY <1>2, <2>1, AppendedSet
<1>7. FileRecords'
  <2>1. stored' \in [Files -> Versions \cup {0}]
    BY <1>1, <1>2 DEF FileRecords, SaveJobs
  <2>2. QED
    BY <1>1, <1>5, <1>6, <2>1 DEF FileRecords
<1>8. Dealt'
  <2>1. Over' = Over \cup {i} /\ i \notin Over
    BY <1>1, <1>3, <1>5 DEF Over
  <2>2. i \notin captured /\ i \notin Undelivered /\ Undelivered' = Undelivered \cup {i}
    BY <1>1, <2>1 DEF Undelivered, Dealt
  <2>3. QED
    BY <1>1, <1>6, <2>1, <2>2 DEF Dealt, Gui, Mcp
<1>9. /\ Landed \subseteq Landed'
      /\ end = "written" => jobs[i].doc \in Landed'
  BY <1>1, <1>3, <1>5 DEF Landed
<1>10. DocumentsKept'
  <2>1. StoredLanded'
    <3>1. ASSUME NEW f \in Files PROVE stored'[f] \in Landed' \cup {0}
      <4>1. CASE stored'[f] = stored[f]
        BY <1>9, <4>1 DEF DocumentsKept, StoredLanded
      <4>2. CASE end = "written" /\ stored'[f] = jobs[i].doc
        BY <1>9, <4>2
      <4>3. QED
        BY <1>1, <4>1, <4>2 DEF FileRecords
    <3>2. QED
      BY <3>1 DEF StoredLanded
  <2>2. CleanIsSafe'
    BY <1>1, <1>9 DEF DocumentsKept, CleanIsSafe, Changed
  <2>3. JobsCaptured'
    BY <1>1, <1>3, <1>5 DEF DocumentsKept, JobsCaptured
  <2>4. QED
    BY <2>1, <2>2, <2>3 DEF DocumentsKept
<1>11. WindowKept'
  <2>1. Replaceable => Replaceable'
    BY <1>1, <1>9 DEF Replaceable
  <2>2. call["gui"].at # "none" => jobs'[call["gui"].job].doc = jobs[call["gui"].job].doc
    BY <1>3, <1>5 DEF FileRecords, Surfaces
  <2>3. QED
    BY <1>1, <2>1, <2>2 DEF WindowKept, SavePasses
<1>12. QED
  BY <1>7, <1>8, <1>10, <1>11

(* swap(): the queue goes to the call that found nothing in flight.                *)
LEMMA TakeKeeps ==
  ASSUME FilesInv, NEW s \in Surfaces, Take(s)
  PROVE  FilesInv'
<1> USE DEF FilesInv
<1>1. /\ call[s].at = "waiting" /\ reports' = <<>>
      /\ call' = [call EXCEPT ![s].at = "delivering", ![s].batch = reports, ![s].count = Len(reports)]
      /\ UNCHANGED <<session, stored, jobs, captured, answer, window, edited, excused, made, gestures>>
  BY DEF Take, TakeReports
<1>2. call[s] \in Calls /\ reports \in Seq(Nat) /\ Len(reports) \in Nat
  BY DEF FileRecords
<1> DEFINE after == [at |-> "delivering", job |-> call[s].job, batch |-> reports, count |-> Len(reports)]
<1>3. after \in Calls
  BY <1>2 DEF Calls
<1>4. call' = [call EXCEPT ![s] = after]
  <2>1. [call[s] EXCEPT !.at = "delivering", !.batch = reports, !.count = Len(reports)] = after
    <3>1. [call[s] EXCEPT !.at = "delivering", !.batch = reports, !.count = Len(reports)]
            = [[[call[s] EXCEPT !.at = "delivering"] EXCEPT !.batch = reports] EXCEPT !.count = Len(reports)]
      OBVIOUS
    <3>2. [call[s] EXCEPT !.at = "delivering"]
            = [at |-> "delivering", job |-> call[s].job, batch |-> call[s].batch, count |-> call[s].count]
      BY <1>2 DEF Calls
    <3>3. [[at |-> "delivering", job |-> call[s].job, batch |-> call[s].batch, count |-> call[s].count]
             EXCEPT !.batch = reports]
            = [at |-> "delivering", job |-> call[s].job, batch |-> reports, count |-> call[s].count]
      OBVIOUS
    <3>4. [[at |-> "delivering", job |-> call[s].job, batch |-> reports, count |-> call[s].count]
             EXCEPT !.count = Len(reports)] = after
      OBVIOUS
    <3>5. QED
      BY Zenon, <3>1, <3>2, <3>3, <3>4
  <2>2. QED
    BY <1>1, <2>1 DEF FileRecords
<1>5. /\ call' \in [Surfaces -> Calls] /\ call'[s].at = "delivering"
      /\ call'[s].job = call[s].job /\ call'[s].batch = reports
      /\ \A t \in Surfaces \ {s} : call'[t] = call[t]
  BY <1>3, <1>4 DEF FileRecords
<1>6. <<>> \in Seq(Nat) /\ ToSet(<<>>) = {} /\ IsInjective(<<>>)
  BY DEF ToSet, IsInjective
<1>7. FileRecords'
  BY <1>1, <1>5, <1>6 DEF FileRecords
<1>8. Dealt'
  <2>1. Undelivered' = Undelivered /\ Over' = Over
    BY <1>1 DEF Undelivered, Over
  <2>2. call[s].batch = <<>>
    BY <1>1 DEF Dealt
  <2>3. CASE s = "gui"
    <3>1. Gui' = reports /\ Mcp' = Mcp /\ Gui = <<>>
      BY <1>5, <2>2, <2>3 DEF Gui, Mcp, Surfaces
    <3>2. QED
      BY <1>1, <1>5, <1>6, <2>1, <3>1 DEF Dealt
  <2>4. CASE s = "mcp"
    <3>1. Mcp' = reports /\ Gui' = Gui /\ Mcp = <<>>
      BY <1>5, <2>2, <2>4 DEF Gui, Mcp, Surfaces
    <3>2. QED
      BY <1>1, <1>5, <1>6, <2>1, <3>1 DEF Dealt
  <2>5. QED
    BY <2>3, <2>4 DEF Surfaces
<1>9. DocumentsKept' /\ (Replaceable => Replaceable')
  BY <1>1 DEF DocumentsKept, StoredLanded, CleanIsSafe, Changed, JobsCaptured, Landed, Replaceable
<1>10. WindowKept'
  BY <1>1, <1>5, <1>9 DEF WindowKept, SavePasses, Surfaces
<1>11. QED
  BY <1>7, <1>8, <1>9, <1>10

(* One completion: the session learns of a write, maybe of the other surface's.    *)
LEMMA DeliverKeeps ==
  ASSUME FilesInv, NEW s \in Surfaces, DeliverReport(s)
  PROVE  FilesInv'
<1> USE DEF FilesInv
<1> DEFINE i == Head(call[s].batch)
<1>1. /\ call[s].at = "delivering" /\ call[s].batch # <<>>
      /\ session' = Settled(jobs[i]) /\ captured' = captured \cup {i}
      /\ call' = [call EXCEPT ![s].batch = Tail(@)]
      /\ UNCHANGED <<stored, jobs, reports, answer, window, edited, excused, made, gestures>>
  BY DEF DeliverReport
<1>2. call[s] \in Calls /\ call[s].batch \in Seq(Nat) /\ IsInjective(call[s].batch)
  BY DEF FileRecords, Calls, Dealt, Gui, Mcp, Surfaces
<1> DEFINE rest == Tail(call[s].batch)
<1>3. /\ rest \in Seq(Nat) /\ IsInjective(rest) /\ i \in ToSet(call[s].batch)
      /\ ToSet(rest) = ToSet(call[s].batch) \ {i}
  BY <1>1, <1>2, TailSet
<1>4. /\ call' \in [Surfaces -> Calls] /\ call'[s].at = "delivering"
      /\ call'[s].job = call[s].job /\ call'[s].batch = rest
      /\ \A t \in Surfaces \ {s} : call'[t] = call[t]
  <2>1. call' = [call EXCEPT ![s] = [call[s] EXCEPT !.batch = rest]]
    BY <1>1
  <2> HIDE DEF rest
  <2>2. [call[s] EXCEPT !.batch = rest] \in Calls
    BY <1>2, <1>3 DEF Calls
  <2>3. QED
    BY <1>1, <1>2, <2>1, <2>2 DEF FileRecords, Calls
<1> HIDE DEF rest, i
<1>5. i \in Undelivered /\ i \in DOMAIN jobs /\ jobs[i] \in SaveJobs /\ i \in Over
  <2>1. i \in Undelivered
    BY <1>3 DEF Dealt, Gui, Mcp, Surfaces
  <2>2. QED
    BY <2>1, JobsTyped DEF Undelivered, Over
<1>6. \/ session' = session
      \/ /\ session' = [session EXCEPT !.path = jobs[i].file,
                        !.saved = IF session.revision = jobs[i].revision THEN jobs[i].revision ELSE @]
         /\ jobs[i].stage = "written"
  BY <1>1 DEF Settled
<1>7. /\ session' \in Sessions /\ session'.doc = session.doc /\ session'.revision = session.revision
      /\ \/ session'.saved = session.saved
         \/ session'.saved = session.revision /\ jobs[i].revision = session.revision
            /\ jobs[i].stage = "written"
  <2>1. session \in Sessions
    BY DEF FileRecords
  <2>2. CASE session' = session
    BY <2>1, <2>2
  <2>3. CASE session' # session
    <3>1. session' = [doc |-> session.doc, revision |-> session.revision, path |-> jobs[i].file,
                      saved |-> IF session.revision = jobs[i].revision THEN jobs[i].revision ELSE session.saved]
      BY <1>6, <2>1, <2>3 DEF Sessions
    <3>2. QED
      BY <1>5, <1>6, <2>1, <2>3, <3>1 DEF Sessions, SaveJobs
  <2>4. QED
    BY <2>2, <2>3
<1>8. FileRecords'
  BY <1>1, <1>4, <1>5, <1>7 DEF FileRecords
<1>9. Dealt'
  <2>1. Over' = Over /\ Undelivered' = Undelivered \ {i}
    BY <1>1 DEF Undelivered, Over
  <2>2. CASE s = "gui"
    <3>1. Gui' = rest /\ Mcp' = Mcp /\ Gui = call[s].batch
      BY <1>4, <2>2 DEF Gui, Mcp, Surfaces
    <3>2. QED
      BY <1>1, <1>3, <1>4, <1>5, <2>1, <3>1 DEF Dealt
  <2>3. CASE s = "mcp"
    <3>1. Mcp' = rest /\ Gui' = Gui /\ Mcp = call[s].batch
      BY <1>4, <2>3 DEF Gui, Mcp, Surfaces
    <3>2. QED
      BY <1>1, <1>3, <1>4, <1>5, <2>1, <3>1 DEF Dealt
  <2>4. QED
    BY <2>2, <2>3 DEF Surfaces
<1>10. Landed' = Landed
  BY <1>1 DEF Landed
<1>11. DocumentsKept'
  <2>1. StoredLanded'
    BY <1>1, <1>10 DEF DocumentsKept, StoredLanded
  <2>2. session.revision \in Nat /\ session.saved \in Nat
    BY DEF FileRecords, Sessions
  <2>3. JobsCaptured'
    BY <1>1, <1>7, <2>2 DEF DocumentsKept, JobsCaptured
  <2>4. CleanIsSafe'
    <3>1. CASE session'.saved = session.saved
      BY <1>1, <1>7, <1>10, <3>1 DEF DocumentsKept, CleanIsSafe, Changed
    <3>2. CASE jobs[i].revision = session.revision /\ jobs[i].stage = "written"
      <4>1. session.doc = jobs[i].doc
        BY <1>5, <3>2 DEF DocumentsKept, JobsCaptured
      <4>2. jobs[i].doc \in Landed
        BY <1>5, <3>2 DEF Landed
      <4>3. QED
        BY <1>7, <1>10, <4>1, <4>2 DEF CleanIsSafe
    <3>3. QED
      BY <1>7, <3>1, <3>2
  <2>5. QED
    BY <2>1, <2>3, <2>4 DEF DocumentsKept
<1>12. WindowKept'
  <2>1. Replaceable => Replaceable'
    BY <1>1, <1>7, <1>10 DEF Replaceable
  <2>2. call'["gui"].at = call["gui"].at /\ call'["gui"].job = call["gui"].job
    BY <1>1, <1>4 DEF Surfaces
  <2>3. QED
    BY <1>1, <1>7, <2>1, <2>2 DEF WindowKept, SavePasses
<1>13. QED
  BY <1>8, <1>9, <1>11, <1>12

(* A call that found its batch empty: it answers, or waits again.                  *)
LEMMA CallEnds ==
  ASSUME FilesInv, NEW s \in Surfaces, call[s].batch = <<>>,
         call' \in [Surfaces -> Calls], \A t \in Surfaces \ {s} : call'[t] = call[t],
         call'[s].batch = <<>>, answer' \in [Surfaces -> Answers],
         call'[s].at # "none" => call'[s].job = call[s].job /\ call[s].at # "none",
         s = "mcp" => answer'["gui"] = answer["gui"],
         s = "gui" => /\ call["gui"].at = "none" => call'["gui"].at = "none"
                      /\ call'["gui"].at = "none" /\ answer'["gui"] = "ok" =>
                           jobs[call["gui"].job].doc \in Landed /\ call["gui"].at # "none",
         UNCHANGED <<session, stored, jobs, reports, captured, window, edited, excused, made, gestures>>
  PROVE  FilesInv'
<1> USE DEF FilesInv
<1>1. FileRecords'
  BY DEF FileRecords
<1>2. Landed' = Landed /\ Undelivered' = Undelivered /\ Over' = Over
  BY DEF Landed, Undelivered, Over
<1>3. Dealt'
  <2>1. \A t \in Surfaces : call'[t].batch = call[t].batch
    OBVIOUS
  <2>2. Gui' = Gui /\ Mcp' = Mcp
    BY <2>1 DEF Gui, Mcp, Surfaces
  <2>3. \A t \in Surfaces : call'[t].at # "delivering" => call'[t].batch = <<>>
    BY DEF Dealt
  <2>4. QED
    BY <1>2, <2>2, <2>3 DEF Dealt
<1>4. DocumentsKept' /\ Replaceable' = Replaceable
  BY <1>2 DEF DocumentsKept, StoredLanded, CleanIsSafe, Changed, JobsCaptured, Replaceable
<1>5. WindowKept'
  <2>1. CASE s = "mcp"
    BY <1>4, <2>1 DEF WindowKept, SavePasses, Surfaces
  <2>2. CASE s = "gui"
    <3>1. call'["gui"].at # "none" => call'["gui"].job = call["gui"].job /\ call["gui"].at # "none"
      BY <2>2
    <3>2. window.at # "saving" => call'["gui"].at = "none"
      BY <2>2 DEF WindowKept
    <3>3. jobs[call["gui"].job].doc \in Landed /\ session.doc = jobs[call["gui"].job].doc => Replaceable
      BY DEF Replaceable
    <3>4. SavePasses'
      BY <1>4, <2>2, <3>1, <3>3 DEF WindowKept, SavePasses
    <3>5. QED
      BY <1>4, <3>2, <3>4 DEF WindowKept
  <2>3. QED
    BY <2>1, <2>2 DEF Surfaces
<1>6. QED
  BY <1>1, <1>3, <1>4, <1>5

LEMMA AnswersKeep ==
  ASSUME FilesInv, NEW s \in Surfaces, AnswerSave(s) \/ NotDelivered(s)
  PROVE  FilesInv'
<1> USE DEF FilesInv
<1>1. call \in [Surfaces -> Calls] /\ answer \in [Surfaces -> Answers] /\ call[s] \in Calls
  BY DEF FileRecords
<1>2. Resting \in Calls /\ Resting.at = "none" /\ Resting.batch = <<>>
  <2>1. <<>> \in Seq(Nat)
    OBVIOUS
  <2>2. QED
    BY <2>1 DEF Resting, Calls
<1>3. CASE AnswerSave(s)
  <2>1. PICK a \in Answers :
          /\ answer' = [answer EXCEPT ![s] = a] /\ call' = [call EXCEPT ![s] = Resting]
          /\ a = "ok" => jobs[call[s].job].stage = "written"
    BY <1>3 DEF AnswerSave, Answers
  <2>2. /\ call[s].at # "none" /\ call[s].batch = <<>>
        /\ UNCHANGED <<session, stored, jobs, reports, captured, window, edited, excused, made, gestures>>
    BY <1>3 DEF AnswerSave, Ended, Dealt
  <2>3. call[s].job \in DOMAIN jobs
    BY <2>2 DEF FileRecords
  <2>4. a = "ok" => jobs[call[s].job].doc \in Landed
    BY <2>1, <2>3 DEF Landed
  <2>5. /\ call' \in [Surfaces -> Calls] /\ call'[s] = Resting
        /\ \A t \in Surfaces \ {s} : call'[t] = call[t]
        /\ answer' \in [Surfaces -> Answers] /\ answer'[s] = a
        /\ \A t \in Surfaces \ {s} : answer'[t] = answer[t]
    BY <1>1, <1>2, <2>1
  <2>6. s = "mcp" => answer'["gui"] = answer["gui"]
    BY <2>5 DEF Surfaces
  <2>7. QED
    BY <1>2, <2>2, <2>4, <2>5, <2>6, CallEnds
<1>4. CASE NotDelivered(s)
  <2>1. /\ call[s].at = "delivering" /\ call[s].batch = <<>>
        /\ UNCHANGED <<session, stored, jobs, reports, captured, window, edited, excused, made, gestures>>
    BY <1>4 DEF NotDelivered
  <2>2. CASE call[s].count = 0
    <3>1. call' = [call EXCEPT ![s] = Resting] /\ answer' = [answer EXCEPT ![s] = "lost"]
      BY <1>4, <2>2 DEF NotDelivered
    <3>2. /\ call' \in [Surfaces -> Calls] /\ call'[s] = Resting
          /\ \A t \in Surfaces \ {s} : call'[t] = call[t]
          /\ answer' \in [Surfaces -> Answers] /\ answer'[s] = "lost"
          /\ \A t \in Surfaces \ {s} : answer'[t] = answer[t]
      BY <1>1, <1>2, <3>1 DEF Answers
    <3>3. s = "mcp" => answer'["gui"] = answer["gui"]
      BY <3>2 DEF Surfaces
    <3>4. QED
      BY <1>2, <2>1, <3>2, <3>3, CallEnds
  <2>3. CASE call[s].count # 0
    <3>1. call' = [call EXCEPT ![s].at = "waiting"] /\ answer' = answer
      BY <1>4, <2>3 DEF NotDelivered
    <3>2. /\ call'[s] \in Calls /\ call'[s].at = "waiting" /\ call'[s].job = call[s].job
          /\ call'[s].batch = <<>> /\ \A t \in Surfaces \ {s} : call'[t] = call[t]
          /\ call' \in [Surfaces -> Calls]
      BY <1>1, <2>1, <3>1 DEF Calls
    <3>3. s = "mcp" => answer'["gui"] = answer["gui"]
      BY <3>1
    <3>4. QED
      BY <1>1, <2>1, <3>1, <3>2, <3>3, CallEnds
  <2>4. QED
    BY <2>2, <2>3
<1>5. QED
  BY <1>3, <1>4

-----------------------------------------------------------------------------------
(* The endpoint, whatever the window shows.                                        *)
LEMMA EndpointKeeps ==
  ASSUME FileAssumption, FilesInv, Endpoint
  PROVE  FilesInv'
<1> USE DEF FilesInv
<1>1. CASE SessionCall /\ Excuse /\ SavesRest /\ UNCHANGED window
  <2>1. FileRecords' /\ Dealt' /\ DocumentsKept' /\ Landed' = Landed
    BY <1>1, SessionCallKeeps, RestingSaves DEF FileRecords
  <2>2. ASSUME window # Idle PROVE Replaceable => Replaceable'
    <3>1. CASE session' = session
      <4>1. edited' = edited
        <5>1. ASSUME NEW doc, EditTo(doc) PROVE FALSE
          <6>1. session \in Sessions
            BY DEF FileRecords
          <6>2. session.revision \in Nat /\ session'.revision = session.revision + 1
            BY <5>1, <6>1 DEF EditTo, Sessions
          <6>3. QED
            BY <3>1, <6>2
        <5>2. QED
          BY <1>1, <5>1 DEF SessionCall, Create, Load
      <4>2. QED
        BY <1>1, <2>1, <3>1, <4>1 DEF Replaceable, Excuse
    <3>2. CASE session' # session
      BY <1>1, <2>2, <3>2 DEF Replaceable, Excuse, Busy
    <3>3. QED
      BY <3>1, <3>2
  <2>3. ASSUME window # Idle, session' # session PROVE Replaceable'
    BY <1>1, <2>3 DEF Replaceable, Excuse, Busy
  <2>4. window = Idle => window.at = "idle"
    BY DEF Idle
  <2>5. UNCHANGED <<jobs, call, answer>>
    BY <1>1 DEF SavesRest
  <2>6. WindowKept'
    <3>1. CASE window = Idle
      BY <1>1, <2>4, <2>5, <3>1 DEF WindowKept, SavePasses
    <3>2. CASE window # Idle /\ session' = session
      BY <1>1, <2>2, <2>5, <3>2 DEF WindowKept, SavePasses
    <3>3. CASE window # Idle /\ session' # session
      BY <1>1, <2>3, <2>5, <3>3 DEF WindowKept, SavePasses
    <3>4. QED
      BY <3>1, <3>2, <3>3
  <2>7. QED
    BY <2>1, <2>6
<1>2. ASSUME NEW f \in Files, Ask("mcp", f), call["mcp"] = Resting,
             UNCHANGED <<session, stored, reports, captured, window, edited, excused, made, gestures>>
      PROVE  FilesInv'
  <2>1. call["mcp"].at = "none" /\ window' \in Windows /\ "mcp" \in Surfaces /\ "gui" \in Surfaces
    BY <1>2 DEF Resting, FileRecords, Surfaces
  <2>2. /\ FileRecords' /\ Dealt' /\ DocumentsKept' /\ Landed' = Landed
        /\ call'["gui"] = call["gui"]
        /\ \A i \in DOMAIN jobs : i \in DOMAIN jobs' /\ jobs'[i] = jobs[i]
    BY <1>2, <2>1, AskKeeps
  <2>3. answer'["gui"] = answer["gui"]
    BY <1>2 DEF Ask, FileRecords, Surfaces
  <2>4. Replaceable => Replaceable'
    BY <1>2, <2>2 DEF Replaceable
  <2>5. call["gui"].at # "none" => jobs'[call["gui"].job] = jobs[call["gui"].job]
    BY <2>1, <2>2 DEF FileRecords
  <2>6. WindowKept'
    BY <1>2, <2>2, <2>3, <2>4, <2>5 DEF WindowKept, SavePasses
  <2>7. QED
    BY <2>2, <2>6
<1>3. QED
  <2>1. \/ SessionCall /\ Excuse /\ SavesRest /\ UNCHANGED window
        \/ /\ \E f \in Files : Ask("mcp", f)
           /\ call["mcp"] = Resting
           /\ UNCHANGED <<session, stored, reports, captured, window, edited, excused, made, gestures>>
    BY DEF Endpoint, SessionCall, SavesRest, FileRecords, Sessions
  <2>2. QED
    BY <1>1, <1>2, <2>1

-----------------------------------------------------------------------------------
(* The user and the prompts.                                                       *)
LEMMA WindowTyped ==
  ASSUME FileRecords
  PROVE  /\ Idle \in Windows /\ Idle.at = "idle" /\ "gui" \in Surfaces
         /\ \A at \in {"idle", "question", "destination", "saving", "replacing"} :
              /\ [window EXCEPT !.at = at] \in Windows
              /\ [window EXCEPT !.at = at].at = at
BY DEF FileRecords, Windows, Idle, Surfaces

(* A prompt that opens or closes, and nothing of the session or of its saves.      *)
LEMMA PromptKeeps ==
  ASSUME FilesInv, UNCHANGED <<session, stored, jobs, reports, captured, call, answer, edited, made>>,
         window' \in Windows, window'.at \notin {"saving"}, call["gui"].at = "none",
         window'.at = "replacing" => Replaceable'
  PROVE  FilesInv'
<1> USE DEF FilesInv
<1>1. FileRecords'
  BY DEF FileRecords
<1>2. Dealt'
  BY DEF Dealt, Gui, Mcp, Undelivered, Over
<1>3. DocumentsKept'
  BY DEF DocumentsKept, StoredLanded, CleanIsSafe, Changed, JobsCaptured, Landed
<1>4. WindowKept'
  BY DEF WindowKept, SavePasses
<1>5. QED
  BY <1>1, <1>2, <1>3, <1>4

(* A save of the window: it waits for a call that holds what the session holds.    *)
LEMMA WindowAsks ==
  ASSUME FileAssumption, FilesInv, NEW f \in Files, Ask("gui", f), call["gui"].at = "none",
         UNCHANGED <<session, stored, reports, captured, edited, made>>,
         window' \in Windows, window'.at = "saving"
  PROVE  FilesInv'
<1>1. "gui" \in Surfaces
  BY DEF Surfaces
<1>2. /\ FileRecords' /\ Dealt' /\ DocumentsKept'
      /\ call'["gui"].at = "waiting" /\ jobs'[call'["gui"].job].doc = session.doc
  BY <1>1, AskKeeps
<1>3. WindowKept'
  BY <1>2 DEF WindowKept, SavePasses
<1>4. QED
  BY <1>2, <1>3 DEF FilesInv

LEMMA SaveOrAskKeeps ==
  ASSUME FileAssumption, FilesInv, NEW action \in {"none", "save", "open", "new"}, SaveOrAsk(action),
         call["gui"].at = "none",
         UNCHANGED <<session, stored, reports, captured, edited, made>>
  PROVE  FilesInv'
<1>1. CASE session.path = NoFile
  <2>1. /\ window' = [at |-> "destination", action |-> action]
        /\ UNCHANGED <<jobs, call, answer>>
    BY <1>1 DEF SaveOrAsk
  <2>2. window' \in Windows /\ window'.at = "destination"
    BY <2>1 DEF Windows
  <2>3. QED
    BY <2>1, <2>2, PromptKeeps
<1>2. CASE session.path # NoFile
  <2>1. window' = [at |-> "saving", action |-> action] /\ Ask("gui", session.path)
    BY <1>2 DEF SaveOrAsk
  <2>2. window' \in Windows /\ window'.at = "saving"
    BY <2>1 DEF Windows
  <2>3. session.path \in Files
    BY <1>2 DEF FilesInv, FileRecords, Sessions
  <2>4. QED
    BY <2>1, <2>2, <2>3, WindowAsks
<1>3. QED
  BY <1>1, <1>2

LEMMA MenuKeeps ==
  ASSUME FileAssumption, FilesInv, NEW action \in {"open", "new"}, Menu(action)
  PROVE  FilesInv'
<1>1. /\ window = Idle
      /\ window' = [at |-> IF Changed THEN "question" ELSE "replacing", action |-> action]
      /\ UNCHANGED <<session, stored, jobs, reports, captured, call, answer, edited, excused, made>>
  BY DEF Menu, Busy
<1>2. window' \in Windows /\ window'.at = (IF Changed THEN "question" ELSE "replacing")
  BY <1>1 DEF Windows
<1>3. call["gui"].at = "none"
  BY <1>1 DEF FilesInv, WindowKept, Idle
<1>4. window'.at = "replacing" => Replaceable'
  BY <1>1, <1>2 DEF FilesInv, DocumentsKept, CleanIsSafe, Replaceable, Landed
<1>5. QED
  BY <1>1, <1>2, <1>3, <1>4, PromptKeeps

LEMMA WindowKeeps ==
  ASSUME FileAssumption, FilesInv, Window
  PROVE  FilesInv'
<1>1. FileRecords /\ WindowKept
  BY DEF FilesInv
<1>2. /\ Idle \in Windows /\ Idle.at = "idle" /\ window \in Windows
      /\ \A at \in {"idle", "question", "destination", "saving", "replacing"} :
           [window EXCEPT !.at = at] \in Windows /\ [window EXCEPT !.at = at].at = at
  BY <1>1, WindowTyped DEF FileRecords
<1>3. window.at # "saving" => call["gui"].at = "none"
  BY <1>1 DEF WindowKept
<1>4. ASSUME SessionCall, SavesRest, window' = Idle, call["gui"].at = "none"
      PROVE  FilesInv'
  <2>1. FileRecords' /\ Dealt' /\ DocumentsKept'
    BY <1>2, <1>4, SessionCallKeeps
  <2>2. WindowKept'
    BY <1>2, <1>4 DEF WindowKept, SavePasses, SavesRest
  <2>3. QED
    BY <2>1, <2>2 DEF FilesInv
<1>5. CASE GuiEdits
  BY <1>2, <1>3, <1>4, <1>5 DEF GuiEdits, Busy, SessionCall, SavesRest
<1>6. CASE MenuSave
  <2>1. /\ window = Idle /\ UNCHANGED <<session, stored, reports, captured, edited, made>>
        /\ \/ SaveOrAsk("save")
           \/ /\ window' = [at |-> "destination", action |-> "save"]
              /\ UNCHANGED <<jobs, call, answer>>
    BY <1>6 DEF MenuSave, Busy
  <2>2. call["gui"].at = "none"
    BY <1>2, <1>3, <2>1
  <2>3. [at |-> "destination", action |-> "save"] \in Windows
    BY DEF Windows
  <2>4. CASE SaveOrAsk("save")
    BY <2>1, <2>2, <2>4, SaveOrAskKeeps
  <2>5. CASE window' = [at |-> "destination", action |-> "save"] /\ UNCHANGED <<jobs, call, answer>>
    BY <2>1, <2>2, <2>3, <2>5, PromptKeeps
  <2>6. QED
    BY <2>1, <2>4, <2>5
<1>7. CASE Menu("open") \/ Menu("new")
  BY <1>7, MenuKeeps
<1>8. CASE Discard
  <2>1. /\ window.at = "question" /\ window' = [window EXCEPT !.at = "replacing"]
        /\ excused' = excused \cup {session.doc}
        /\ UNCHANGED <<session, stored, jobs, reports, captured, call, answer, edited, made>>
    BY <1>8 DEF Discard
  <2>2. Replaceable'
    BY <2>1 DEF Replaceable
  <2>3. QED
    BY <1>2, <1>3, <2>1, <2>2, PromptKeeps
<1>9. CASE SaveFirst
  <2>1. /\ window.at = "question" /\ SaveOrAsk(window.action)
        /\ UNCHANGED <<session, stored, reports, captured, edited, made>>
    BY <1>9 DEF SaveFirst
  <2>2. window.action \in {"none", "save", "open", "new"}
    BY <1>2 DEF Windows
  <2>3. QED
    BY <1>3, <2>1, <2>2, SaveOrAskKeeps
<1>10. CASE Dismiss
  <2>1. /\ window.at # "saving" /\ window' = Idle
        /\ UNCHANGED <<session, stored, jobs, reports, captured, call, answer, edited, made>>
    BY <1>10 DEF Dismiss
  <2>2. QED
    BY <1>2, <1>3, <2>1, PromptKeeps
<1>11. ASSUME NEW f \in Files, Destination(f) PROVE FilesInv'
  <2>1. /\ window.at = "destination" /\ window' = [window EXCEPT !.at = "saving"] /\ Ask("gui", f)
        /\ UNCHANGED <<session, stored, reports, captured, edited, made>>
    BY <1>11 DEF Destination
  <2>2. QED
    BY <1>2, <1>3, <2>1, WindowAsks
<1>12. CASE Saved
  <2>1. /\ window.at = "saving" /\ call["gui"].at = "none"
        /\ UNCHANGED <<session, stored, jobs, reports, captured, call, answer, edited, made>>
        /\ \/ GoesOn /\ window' = [window EXCEPT !.at = "replacing"] /\ UNCHANGED excused
           \/ window' = Idle
    BY <1>12 DEF Saved, Resting
  <2>2. CASE GoesOn /\ window' = [window EXCEPT !.at = "replacing"] /\ UNCHANGED excused
    <3>1. Replaceable
      BY <1>1, <2>1, <2>2 DEF WindowKept, SavePasses, GoesOn
    <3>2. Replaceable'
      BY <2>1, <2>2, <3>1 DEF Replaceable, Landed
    <3>3. QED
      BY <1>2, <2>1, <2>2, <3>2, PromptKeeps
  <2>3. CASE window' = Idle
    BY <1>2, <2>1, <2>3, PromptKeeps
  <2>4. QED
    BY <2>1, <2>2, <2>3
<1>13. CASE Replace
  <2>1. SessionCall /\ SavesRest /\ window.at = "replacing" /\ window' = Idle
    BY <1>13 DEF Replace, SessionCall, SavesRest
  <2>2. QED
    BY <1>3, <1>4, <2>1
<1>14. QED
  BY <1>5, <1>6, <1>7, <1>8, <1>9, <1>10, <1>11, <1>12, <1>13 DEF Window

-----------------------------------------------------------------------------------
LEMMA FilesStep == ASSUME FileAssumption, FilesInv, [FilesNext]_fileVars PROVE FilesInv'
<1>1. CASE UNCHANGED fileVars
  BY <1>1 DEF fileVars, FilesInv, FileRecords, Dealt, Gui, Mcp, Undelivered, Over, DocumentsKept,
     StoredLanded, CleanIsSafe, Changed, JobsCaptured, Landed, WindowKept, SavePasses, Replaceable
<1>2. CASE Window
  BY <1>2, WindowKeeps
<1>3. CASE Endpoint
  BY <1>3, EndpointKeeps
<1>4. CASE \E i \in DOMAIN jobs, end \in {"written", "failed"} : WorkerEnds(i, end)
  BY <1>4, WorkerEndsKeeps
<1>5. CASE \E s \in Surfaces : Take(s) \/ DeliverReport(s) \/ AnswerSave(s) \/ NotDelivered(s)
  BY <1>5, TakeKeeps, DeliverKeeps, AnswersKeep
<1>6. QED
  BY <1>1, <1>2, <1>3, <1>4, <1>5 DEF FilesNext

LEMMA FilesEnough == FilesInv => FileActionsSound
BY OnceEach DEF FilesInv, WindowKept, Replaceable, FileActionsSound, ReplacesNothingUnasked

(* What the window replaces was saved, never edited or given up, and no completion *)
(* is lost or delivered twice, for any number of files, changes, saves and gestures *)
(* (ui/ProjectFileActions.cpp, tools/ProjectTools.cpp project.save).               *)
THEOREM FileActionsAreSound == FilesSpec => []FileActionsSound
<1>1. FilesInit => FilesInv
  BY FileAssumption, FilesStart
<1>2. FilesInv /\ [FilesNext]_fileVars => FilesInv'
  BY FileAssumption, FilesStep
<1>3. FilesInv => FileActionsSound
  BY FilesEnough
<1>4. QED
  BY <1>1, <1>2, <1>3, PTL DEF FilesSpec

-----------------------------------------------------------------------------------
(* The chain of effects. *)

(* A chain as the commands leave it: effects with an identity of their own, all of *)
(* them handed out.                                                                *)
ParamValues == {1, 2, Unset}
Resources == {"", "lut"}
Effects == [id : EffectIds, params : [ParamNames -> ParamValues], resource : Resources]

Distinct(effects) == \A i, j \in 1..Len(effects) : effects[i].id = effects[j].id => i = j

Chain(c, used) ==
  /\ c = [effects |-> c.effects, keyframes |-> c.keyframes]
  /\ c.effects \in Seq(Effects) /\ Distinct(c.effects)
  /\ \A i \in 1..Len(c.effects) : c.effects[i].id \in used

(* A command that leads from one clip to another, there and back, any number of    *)
(* times: what EditCommand.hpp asks of it.                                         *)
Link(cmd, before, after) ==
  /\ Accepted(cmd, before) /\ Applied(cmd, before) = after
  /\ Captured(cmd, before) = cmd /\ Reverted(cmd, after) = before

(* The commands that are offered.                                                  *)
Offer(cmd, used) ==
  \/ cmd.kind = "AddEffect" /\ cmd.effect \in Effects /\ cmd.effect.id \notin used
  \/ cmd.kind = "RemoveEffect"
  \/ cmd.kind = "ReorderEffects" /\ cmd.order \in Seq(EffectIds)
  \/ cmd.kind = "SetEffectParameter" /\ cmd.name \in ParamNames /\ cmd.value \in ParamValues
  \/ /\ cmd.kind = "EditCurvePoint" /\ cmd.op \in {"Add", "Move", "Remove"}
     /\ cmd.index \in Nat \ {0} /\ cmd.value \in ParamValues
  \/ cmd.kind = "SetEffectResource" /\ cmd.path \in Resources
  \/ cmd.kind = "SetKeyframes"

-----------------------------------------------------------------------------------
(* What a sequence of whatever elements becomes at its end.                        *)
IsSeq(s) == \E S : s \in Seq(S)

LEMMA Appended ==
  ASSUME NEW s, IsSeq(s), NEW e
  PROVE  /\ IsSeq(Append(s, e)) /\ Len(s) \in Nat /\ Len(Append(s, e)) = Len(s) + 1
         /\ Append(s, e) # <<>> /\ Front(Append(s, e)) = s /\ Last(Append(s, e)) = e
         /\ \A i \in 1..Len(s) : Append(s, e)[i] = s[i]
         /\ Append(s, e)[Len(s) + 1] = e
<1>1. PICK S : s \in Seq(S)
  BY DEF IsSeq
<1> DEFINE U == S \cup {e}
           t == Append(s, e)
<1>2. s \in Seq(U) /\ e \in U
  <2>1. /\ Len(s) \in Nat /\ s = [i \in 1..Len(s) |-> s[i]] /\ \A i \in 1..Len(s) : s[i] \in S
    BY <1>1
  <2>2. \A i \in 1..Len(s) : s[i] \in U
    BY <2>1
  <2> HIDE DEF U
  <2>3. s \in Seq(U)
    BY <2>1, <2>2
  <2>4. QED
    BY <2>3 DEF U
<1> HIDE DEF U
<1>3. /\ t \in Seq(U) /\ Len(t) = Len(s) + 1 /\ Len(s) \in Nat
      /\ \A i \in 1..Len(s) : t[i] = s[i]
      /\ t[Len(s) + 1] = e
  BY <1>2
<1>4. t # <<>> /\ Last(t) = e
  BY <1>3 DEF Last
<1>5. Front(t) = s
  <2>1. Front(t) = SubSeq(t, 1, Len(s))
    BY <1>3 DEF Front
  <2>2. QED
    BY <1>2, <1>3, <2>1, SeqEqual
<1>6. QED
  BY <1>3, <1>4, <1>5 DEF IsSeq

LEMMA Fronted ==
  ASSUME NEW s, IsSeq(s), s # <<>>
  PROVE  /\ IsSeq(Front(s)) /\ Len(s) \in Nat \ {0} /\ Len(Front(s)) = Len(s) - 1
         /\ Last(s) = s[Len(s)]
         /\ \A i \in 1..Len(s) - 1 : Front(s)[i] = s[i]
<1>1. PICK S : s \in Seq(S)
  BY DEF IsSeq
<1> DEFINE t == Front(s)
<1>2. Len(s) \in Nat \ {0}
  BY <1>1
<1>3. /\ t \in Seq(S) /\ Len(t) = Len(s) - 1 /\ \A i \in 1..Len(s) - 1 : t[i] = s[i]
  <2>1. t = SubSeq(s, 1, Len(s) - 1)
    BY DEF Front
  <2> HIDE DEF t
  <2>2. t = [i \in 1..Len(s) - 1 |-> s[i]] /\ \A i \in 1..Len(s) - 1 : s[i] \in S
    BY <1>1, <1>2, <2>1
  <2>3. QED
    BY <1>2, <2>2
<1>4. QED
  BY <1>2, <1>3 DEF IsSeq, Last

-----------------------------------------------------------------------------------
(* An effect of a chain is found by its identity.                                  *)
LEMMA Found ==
  ASSUME NEW effects \in Seq(Effects), Distinct(effects), NEW k \in 1..Len(effects)
  PROVE  /\ IndicesOf(effects, effects[k].id) = {k} /\ IndexOf(effects, effects[k].id) = k
<1>1. IndicesOf(effects, effects[k].id) = {k}
  BY DEF IndicesOf, Distinct
<1>2. k <= k
  OBVIOUS
<1>3. QED
  BY <1>1, <1>2 DEF IndexOf

LEMMA FoundByName ==
  ASSUME NEW effects \in Seq(Effects), Distinct(effects), NEW id \in IdsOf(effects)
  PROVE  /\ IndexOf(effects, id) \in 1..Len(effects) /\ effects[IndexOf(effects, id)].id = id
         /\ effects[IndexOf(effects, id)] \in Effects
<1>1. PICK k \in 1..Len(effects) : effects[k].id = id
  BY DEF IdsOf
<1>2. IndexOf(effects, id) = k
  BY <1>1, Found
<1>3. QED
  BY <1>1, <1>2

LEMMA OneEach ==
  ASSUME NEW effects \in Seq(Effects), Distinct(effects), NEW id
  PROVE  /\ Cardinality(IndicesOf(effects, id)) \in {0, 1}
         /\ id \in IdsOf(effects) <=> Cardinality(IndicesOf(effects, id)) = 1
<1>1. CASE id \in IdsOf(effects)
  <2>1. PICK k \in 1..Len(effects) : effects[k].id = id
    BY <1>1 DEF IdsOf
  <2>2. IndicesOf(effects, id) = {k}
    BY <2>1, Found
  <2>3. QED
    BY <1>1, <2>2, FS_Singleton
<1>2. CASE id \notin IdsOf(effects)
  <2>1. IndicesOf(effects, id) = {}
    BY <1>2 DEF IdsOf, IndicesOf
  <2>2. Cardinality(IndicesOf(effects, id)) = 0
    BY <2>1, FS_EmptySet
  <2>3. QED
    BY <1>2, <2>2
<1>3. QED
  BY <1>1, <1>2

-----------------------------------------------------------------------------------
(* Writing the parameters or the resource of one effect.                           *)
LEMMA OneField ==
  ASSUME NEW used, NEW c, Chain(c, used), NEW id, Has(id, c), NEW f \in Effects, f.id = id,
         NEW k, k = IndexOf(c.effects, id), NEW d,
         d = [effects |-> [c.effects EXCEPT ![k] = f], keyframes |-> c.keyframes]
  PROVE  /\ Chain(d, used) /\ Has(id, d) /\ IndexOf(d.effects, id) = k
         /\ EffectOf(id, d) = f /\ d.effects[k] = f
         /\ [d.effects EXCEPT ![k] = c.effects[k]] = c.effects
<1> DEFINE new == [c.effects EXCEPT ![k] = f]
<1>1. c.effects \in Seq(Effects) /\ Distinct(c.effects) /\ \A i \in 1..Len(c.effects) : c.effects[i].id \in used
  BY DEF Chain
<1>2. k \in 1..Len(c.effects) /\ c.effects[k].id = id /\ c.effects[k] \in Effects
  BY <1>1, FoundByName DEF Has
<1>3. /\ new \in Seq(Effects) /\ Len(new) = Len(c.effects)
      /\ \A j \in 1..Len(c.effects) : new[j] = IF j = k THEN f ELSE c.effects[j]
  BY <1>1, <1>2
<1>4. \A j \in 1..Len(c.effects) : new[j].id = c.effects[j].id
  BY <1>2, <1>3
<1>5. [new EXCEPT ![k] = c.effects[k]] = c.effects
  BY <1>1, <1>2
<1>6. d.effects = new /\ d.keyframes = c.keyframes /\ d = [effects |-> new, keyframes |-> c.keyframes]
  OBVIOUS
<1> HIDE DEF new
<1>7. Distinct(new)
  BY <1>1, <1>3, <1>4 DEF Distinct
<1>8. Chain(d, used)
  BY <1>1, <1>3, <1>4, <1>6, <1>7 DEF Chain
<1>9. IndexOf(new, id) = k /\ new[k] = f
  <2>1. k \in 1..Len(new) /\ new[k] = f
    BY <1>2, <1>3
  <2>2. IndexOf(new, new[k].id) = k
    BY <1>3, <1>7, <2>1, Found
  <2>3. QED
    BY <2>1, <2>2
<1>10. Has(id, d) /\ EffectOf(id, d) = f
  BY <1>2, <1>3, <1>6, <1>9 DEF Has, IdsOf, EffectOf
<1>11. QED
  BY <1>5, <1>6, <1>8, <1>9, <1>10

LEMMA ParamsWritten ==
  ASSUME NEW used, NEW c, Chain(c, used), NEW id, Has(id, c), NEW params \in Params
  PROVE  LET d == WithParams(c, id, params) IN
         /\ Chain(d, used) /\ Has(id, d) /\ EffectOf(id, d).params = params
         /\ WithParams(d, id, EffectOf(id, c).params) = c /\ EffectOf(id, c).params \in Params
<1> DEFINE k == IndexOf(c.effects, id)
           old == EffectOf(id, c)
           f == [old EXCEPT !.params = params]
           d == WithParams(c, id, params)
<1>1. c.effects \in Seq(Effects) /\ Distinct(c.effects)
      /\ c = [effects |-> c.effects, keyframes |-> c.keyframes]
  BY DEF Chain
<1>2. k \in 1..Len(c.effects) /\ c.effects[k].id = id /\ old = c.effects[k] /\ old \in Effects
  BY <1>1, FoundByName DEF Has, EffectOf
<1>3. f \in Effects /\ f.id = id /\ f.params = params /\ [f EXCEPT !.params = old.params] = old
      /\ old.params \in Params
  BY <1>2 DEF Effects, Params, ParamValues, Coordinates
<1>4. d = [effects |-> [c.effects EXCEPT ![k] = f], keyframes |-> c.keyframes]
  <2>1. d = [c EXCEPT !.effects = [c.effects EXCEPT ![k] = [c.effects[k] EXCEPT !.params = params]]]
    BY DEF WithParams
  <2> HIDE DEF d, k
  <2>2. d = [c EXCEPT !.effects = [c.effects EXCEPT ![k] = f]]
    BY <1>2, <2>1 DEF f
  <2> HIDE DEF f
  <2>3. QED
    BY <1>1, <2>2
<1> HIDE DEF k, f, old, d
<1>5. /\ Chain(d, used) /\ Has(id, d) /\ IndexOf(d.effects, id) = k /\ EffectOf(id, d) = f
      /\ [d.effects EXCEPT ![k] = c.effects[k]] = c.effects
  <2>1. k = IndexOf(c.effects, id)
    BY DEF k
  <2>2. QED
    BY <1>3, <1>4, <2>1, OneField
<1>6. d.effects[k] = f /\ d.keyframes = c.keyframes
  BY <1>4, <1>5 DEF EffectOf
<1>7. WithParams(d, id, old.params) = c
  <2>1. WithParams(d, id, old.params) = [d EXCEPT !.effects[k].params = old.params]
    BY <1>5 DEF WithParams
  <2>2. d = [effects |-> d.effects, keyframes |-> d.keyframes]
    BY <1>4
  <2>3. [d EXCEPT !.effects[k].params = old.params]
          = [effects |-> [d.effects EXCEPT ![k] = [d.effects[k] EXCEPT !.params = old.params]], keyframes |-> d.keyframes]
    <3>1. [d EXCEPT !.effects[k].params = old.params]
            = [d EXCEPT !.effects = [d.effects EXCEPT ![k] = [d.effects[k] EXCEPT !.params = old.params]]]
      OBVIOUS
    <3> DEFINE new == [d.effects EXCEPT ![k] = [d.effects[k] EXCEPT !.params = old.params]]
    <3>2. [d EXCEPT !.effects = new] = [effects |-> new, keyframes |-> d.keyframes]
      <4> DEFINE E == d.effects
                 K == d.keyframes
      <4>1. d = [effects |-> E, keyframes |-> K]
        BY <2>2
      <4> HIDE DEF new, E, K
      <4>2. [d EXCEPT !.effects = new] = [effects |-> new, keyframes |-> K]
        BY <4>1
      <4>3. QED
        BY <4>2 DEF K
    <3>3. QED
      BY <3>1, <3>2
  <2>4. [d.effects EXCEPT ![k] = old] = c.effects
    BY <1>2, <1>5
  <2>5. QED
    BY <1>1, <1>3, <1>6, <2>1, <2>3, <2>4
<1>8. QED
  BY <1>3, <1>5, <1>7 DEF d, old

LEMMA ResourceWritten ==
  ASSUME NEW used, NEW c, Chain(c, used), NEW id, Has(id, c), NEW path \in Resources
  PROVE  LET d == WithResource(c, id, path) IN
         /\ Chain(d, used) /\ Has(id, d)
         /\ WithResource(d, id, EffectOf(id, c).resource) = c
<1> DEFINE k == IndexOf(c.effects, id)
           old == EffectOf(id, c)
           f == [old EXCEPT !.resource = path]
           d == WithResource(c, id, path)
<1>1. c.effects \in Seq(Effects) /\ Distinct(c.effects)
      /\ c = [effects |-> c.effects, keyframes |-> c.keyframes]
  BY DEF Chain
<1>2. k \in 1..Len(c.effects) /\ c.effects[k].id = id /\ old = c.effects[k] /\ old \in Effects
  BY <1>1, FoundByName DEF Has, EffectOf
<1>3. f \in Effects /\ f.id = id /\ [f EXCEPT !.resource = old.resource] = old
  BY <1>2 DEF Effects
<1>4. d = [effects |-> [c.effects EXCEPT ![k] = f], keyframes |-> c.keyframes]
  <2>1. d = [c EXCEPT !.effects = [c.effects EXCEPT ![k] = [c.effects[k] EXCEPT !.resource = path]]]
    BY DEF WithResource
  <2> HIDE DEF d, k
  <2>2. d = [c EXCEPT !.effects = [c.effects EXCEPT ![k] = f]]
    BY <1>2, <2>1 DEF f
  <2> HIDE DEF f
  <2>3. QED
    BY <1>1, <2>2
<1> HIDE DEF k, f, old, d
<1>5. /\ Chain(d, used) /\ Has(id, d) /\ IndexOf(d.effects, id) = k /\ EffectOf(id, d) = f
      /\ [d.effects EXCEPT ![k] = c.effects[k]] = c.effects
  <2>1. k = IndexOf(c.effects, id)
    BY DEF k
  <2>2. QED
    BY <1>3, <1>4, <2>1, OneField
<1>6. d.effects[k] = f /\ d.keyframes = c.keyframes
  BY <1>4, <1>5 DEF EffectOf
<1>7. WithResource(d, id, old.resource) = c
  <2>1. WithResource(d, id, old.resource) = [d EXCEPT !.effects[k].resource = old.resource]
    BY <1>5 DEF WithResource
  <2>2. d = [effects |-> d.effects, keyframes |-> d.keyframes]
    BY <1>4
  <2>3. [d EXCEPT !.effects[k].resource = old.resource]
          = [effects |-> [d.effects EXCEPT ![k] = [d.effects[k] EXCEPT !.resource = old.resource]], keyframes |-> d.keyframes]
    <3>1. [d EXCEPT !.effects[k].resource = old.resource]
            = [d EXCEPT !.effects = [d.effects EXCEPT ![k] = [d.effects[k] EXCEPT !.resource = old.resource]]]
      OBVIOUS
    <3> DEFINE new == [d.effects EXCEPT ![k] = [d.effects[k] EXCEPT !.resource = old.resource]]
    <3>2. [d EXCEPT !.effects = new] = [effects |-> new, keyframes |-> d.keyframes]
      <4> DEFINE E == d.effects
                 K == d.keyframes
      <4>1. d = [effects |-> E, keyframes |-> K]
        BY <2>2
      <4> HIDE DEF new, E, K
      <4>2. [d EXCEPT !.effects = new] = [effects |-> new, keyframes |-> K]
        BY <4>1
      <4>3. QED
        BY <4>2 DEF K
    <3>3. QED
      BY <3>1, <3>2
  <2>4. [d.effects EXCEPT ![k] = old] = c.effects
    BY <1>2, <1>5
  <2>5. QED
    BY <1>1, <1>3, <1>6, <2>1, <2>3, <2>4
<1>8. QED
  BY <1>5, <1>7 DEF d, old

-----------------------------------------------------------------------------------
(* The points of a curve.                                                          *)
LEMMA PointsTyped ==
  ASSUME NEW params \in Params
  PROVE  PointsOf(params) \in Seq(ParamValues) /\ Len(PointsOf(params)) \in 0..MaxPoints
<1>1. MaxPoints \in Nat \ {0} /\ params \in [ParamNames -> ParamValues] /\ ParamNames = 0..MaxPoints
  BY EffectsAssumption DEF Params, ParamNames, Slots, Amount, ParamValues, Coordinates
<1> DEFINE T == {k \in 0..MaxPoints : k = MaxPoints \/ params[k] = Unset}
           IsEnd(k) == (\A i \in 0..k - 1 : params[i] # Unset) /\ (k = MaxPoints \/ params[k] = Unset)
<1>2. MaxPoints \in T /\ T \in SUBSET Nat
  BY <1>1
<1> HIDE DEF T
<1>3. PICK m \in T : \A k \in T : m <= k
  BY <1>2, LeastOf
<1>4. m \in 0..MaxPoints /\ IsEnd(m)
  <2>1. m \in 0..MaxPoints /\ (m = MaxPoints \/ params[m] = Unset)
    BY <1>3 DEF T
  <2>2. ASSUME NEW i \in 0..m - 1 PROVE params[i] # Unset
    <3>1. i \in 0..MaxPoints /\ i \in Nat /\ m \in Nat /\ ~(m <= i)
      BY <1>1, <2>1
    <3>2. i \notin T
      BY <1>3, <3>1
    <3>3. QED
      BY <3>1, <3>2 DEF T
  <2>3. QED
    BY <2>1, <2>2
<1> DEFINE n == CHOOSE k \in 0..MaxPoints : IsEnd(k)
<1>5. n \in 0..MaxPoints
  BY <1>4
<1>6. PointsOf(params) = [i \in 1..n |-> params[i - 1]]
  BY DEF PointsOf
<1> HIDE DEF n
<1>7. \A i \in 1..n : params[i - 1] \in ParamValues
  BY <1>1, <1>5
<1>8. QED
  BY <1>5, <1>6, <1>7

LEMMA ChannelBack ==
  ASSUME NEW params \in Params, NEW points \in Seq(ParamValues)
  PROVE  LET new == WithChannel(params, Written(points)) IN
         new \in Params /\ WithChannel(new, Channel(params)) = params
<1> DEFINE w == Written(points)
           new == WithChannel(params, w)
<1>1. MaxPoints \in Nat \ {0} /\ Params = [ParamNames -> ParamValues] /\ ParamNames = 0..MaxPoints
      /\ Slots = 0..MaxPoints - 1
  BY EffectsAssumption DEF Params, ParamNames, Slots, Amount, ParamValues, Coordinates
<1>2. \A i \in Slots : w[i] \in ParamValues
  <2>1. SUFFICES ASSUME NEW i \in Slots PROVE w[i] \in ParamValues
    OBVIOUS
  <2>2. w[i] = IF i < Len(points) THEN points[i + 1] ELSE Unset
    BY DEF Written
  <2>3. CASE i < Len(points)
    <3>1. i + 1 \in 1..Len(points)
      BY <1>1, <2>3
    <3>2. QED
      BY <2>2, <2>3, <3>1
  <2>4. CASE ~(i < Len(points))
    BY <2>2, <2>4 DEF ParamValues
  <2>5. QED
    BY <2>3, <2>4
<1> HIDE DEF w
<1>3. new = [n \in ParamNames |-> IF n \in Slots THEN w[n] ELSE params[n]]
  BY DEF WithChannel
<1> HIDE DEF new
<1>4. new \in Params
  BY <1>1, <1>2, <1>3
<1>5. WithChannel(new, Channel(params)) = [n \in ParamNames |-> IF n \in Slots THEN params[n] ELSE new[n]]
  BY DEF WithChannel, Channel
<1>6. QED
  BY <1>1, <1>3, <1>4, <1>5 DEF new, w

-----------------------------------------------------------------------------------
(* Each kind of command, done and undone.                                          *)
Spent(cmd, used) == IF cmd.kind = "AddEffect" THEN used \cup {cmd.effect.id} ELSE used

LEMMA AddLinks ==
  ASSUME NEW used, NEW b, Chain(b, used), NEW cmd, cmd.kind = "AddEffect",
         cmd.effect \in Effects, cmd.effect.id \notin used
  PROVE  /\ Link(Captured(cmd, b), b, Applied(cmd, b))
         /\ Chain(Applied(cmd, b), Spent(cmd, used))
<1> DEFINE e == cmd.effect
           effects == b.effects
           n == Len(effects)
           more == Append(effects, e)
           after == [effects |-> more, keyframes |-> b.keyframes]
<1>1. /\ b = [effects |-> effects, keyframes |-> b.keyframes] /\ effects \in Seq(Effects)
      /\ Distinct(effects) /\ \A i \in 1..n : effects[i].id \in used
  BY DEF Chain
<1>2. Captured(cmd, b) = cmd /\ Accepted(cmd, b)
  BY DEF Captured, Accepted
<1>3. Applied(cmd, b) = after
  <2>1. Applied(cmd, b) = [b EXCEPT !.effects = more]
    BY DEF Applied
  <2> HIDE DEF more
  <2>2. QED
    BY <1>1, <2>1
<1>4. Reverted(cmd, after) = [effects |-> Erased(more, e.id), keyframes |-> b.keyframes]
  <2>1. Reverted(cmd, after) = [after EXCEPT !.effects = Erased(after.effects, e.id)]
    BY DEF Reverted
  <2> HIDE DEF more
  <2>2. QED
    BY <2>1
<1>5. /\ n \in Nat /\ more \in Seq(Effects) /\ Len(more) = n + 1 /\ DOMAIN more = 1..n + 1
      /\ \A i \in 1..n : more[i] = effects[i]
      /\ more[n + 1] = e
  BY <1>1
<1> HIDE DEF more, e, n
<1>6. /\ e.id \notin used /\ e \in Effects
  BY DEF e
<1>7. IndicesOf(more, e.id) = {n + 1}
  <2>1. \A i \in 1..n : more[i].id # e.id
    BY <1>1, <1>5, <1>6
  <2>2. \A i \in 1..n + 1 : i = n + 1 \/ i \in 1..n
    BY <1>5
  <2>3. n + 1 \in 1..n + 1
    BY <1>5
  <2>4. QED
    BY <1>5, <2>1, <2>2, <2>3 DEF IndicesOf
<1>8. Erased(more, e.id) = effects
  <2> DEFINE kept == DOMAIN more \ IndicesOf(more, e.id)
             upto(i) == {j \in kept : j <= i}
             at(k) == CHOOSE i \in kept : Cardinality(upto(i)) = k
  <2>1. kept = 1..n
    BY <1>5, <1>7
  <2>2. Cardinality(kept) = n
    <3>1. n \in Int /\ 1 \in Int /\ n >= 0
      BY <1>5
    <3>2. Cardinality(1..n) = IF 1 > n THEN 0 ELSE n - 1 + 1
      BY <3>1, FS_Interval
    <3>3. Cardinality(1..n) = n
      BY <3>1, <3>2
    <3>4. QED
      BY <2>1, <3>3
  <2>3. ASSUME NEW i \in 1..n PROVE Cardinality(upto(i)) = i
    <3>1. upto(i) = 1..i
      BY <1>5, <2>1
    <3>2. i \in Nat /\ Cardinality(1..i) = i
      BY <1>5, FS_Interval
    <3>3. QED
      BY <3>1, <3>2
  <2>4. ASSUME NEW k \in 1..n PROVE at(k) = k
    <3> HIDE DEF kept, upto
    <3>1. \A i \in kept : Cardinality(upto(i)) = k <=> i = k
      BY <2>1, <2>3
    <3>2. k \in kept
      BY <2>1
    <3>3. QED
      BY <3>1, <3>2
  <2>5. Erased(more, e.id) = [k \in 1..Cardinality(kept) |-> more[at(k)]]
    BY DEF Erased
  <2> HIDE DEF at, kept
  <2>6. Erased(more, e.id) = [k \in 1..n |-> effects[k]]
    BY <1>5, <2>2, <2>4, <2>5
  <2>7. QED
    BY <1>1, <2>6 DEF n
<1>9. Link(cmd, b, after)
  BY <1>1, <1>2, <1>3, <1>4, <1>8 DEF Link
<1>10. Chain(after, used \cup {e.id})
  <2>1. ASSUME NEW i \in 1..n + 1, NEW j \in 1..n + 1, more[i].id = more[j].id PROVE i = j
    <3>1. CASE i \in 1..n /\ j \in 1..n
      <4>1. effects[i].id = effects[j].id
        BY <1>5, <2>1, <3>1
      <4>2. QED
        BY <1>1, <3>1, <4>1 DEF Distinct, n
    <3>2. CASE i \in 1..n /\ j = n + 1
      BY <1>1, <1>5, <1>6, <2>1, <3>2
    <3>3. CASE i = n + 1 /\ j \in 1..n
      BY <1>1, <1>5, <1>6, <2>1, <3>3
    <3>4. QED
      BY <1>5, <3>1, <3>2, <3>3
  <2>2. Distinct(more)
    BY <1>5, <2>1 DEF Distinct
  <2>3. \A i \in 1..n + 1 : more[i].id \in used \cup {e.id}
    <3>1. \A i \in 1..n + 1 : i = n + 1 \/ i \in 1..n
      BY <1>5
    <3>2. QED
      BY <1>1, <1>5, <3>1
  <2>4. after = [effects |-> after.effects, keyframes |-> after.keyframes] /\ after.effects = more
    OBVIOUS
  <2> HIDE DEF after
  <2>5. QED
    BY <1>5, <2>2, <2>3, <2>4 DEF Chain
<1>11. QED
  BY <1>2, <1>3, <1>9, <1>10 DEF Spent, e

LEMMA RemoveLinks ==
  ASSUME NEW used, NEW b, Chain(b, used), NEW cmd, cmd.kind = "RemoveEffect", Accepted(cmd, b)
  PROVE  /\ Link(Captured(cmd, b), b, Applied(cmd, b))
         /\ Chain(Applied(cmd, b), Spent(cmd, used))
<1> DEFINE effects == b.effects
           n == Len(effects)
           k == IndexOf(effects, cmd.id)
           fewer == RemoveAt(effects, k)
           after == [effects |-> fewer, keyframes |-> b.keyframes]
           kept == [kind |-> "RemoveEffect", id |-> cmd.id, index |-> k, prior |-> effects[k]]
<1>1. /\ b = [effects |-> effects, keyframes |-> b.keyframes] /\ effects \in Seq(Effects)
      /\ Distinct(effects) /\ \A i \in 1..n : effects[i].id \in used
  BY DEF Chain
<1>2. Has(cmd.id, b)
  BY DEF Accepted
<1>3. k \in 1..n /\ effects[k].id = cmd.id /\ n \in Nat /\ k \in Nat /\ k <= n
  BY <1>1, <1>2, FoundByName DEF Has
<1>4. Captured(cmd, b) = kept
  BY DEF Captured, EffectOf
<1>5. Applied(cmd, b) = after
  <2>1. Applied(cmd, b) = [b EXCEPT !.effects = fewer]
    BY DEF Applied
  <2> HIDE DEF fewer
  <2>2. QED
    BY <1>1, <2>1
<1>6. kept.kind = "RemoveEffect" /\ kept.id = cmd.id /\ kept.index = k /\ kept.prior = effects[k]
  OBVIOUS
<1>7. Captured(kept, b) = kept /\ Accepted(kept, b) /\ Applied(kept, b) = after
  <2>1. Captured(kept, b) = [kind |-> kept.kind, id |-> kept.id,
                             index |-> IndexOf(b.effects, kept.id), prior |-> EffectOf(kept.id, b)]
    BY <1>6 DEF Captured
  <2>2. Accepted(kept, b)
    BY <1>2, <1>6 DEF Accepted
  <2>3. Applied(kept, b) = [b EXCEPT !.effects = fewer]
    BY <1>6 DEF Applied
  <2>4. Captured(kept, b) = kept
    BY <1>6, <2>1 DEF EffectOf
  <2> HIDE DEF fewer
  <2>5. QED
    BY <1>1, <2>2, <2>3, <2>4
<1>8. /\ fewer \in Seq(Effects) /\ Len(fewer) = n - 1
      /\ \A i \in 1..n - 1 : fewer[i] = IF i < k THEN effects[i] ELSE effects[i + 1]
  BY <1>1, <1>3, TakenOut
<1>9. Reverted(kept, after) = b
  <2>1. Reverted(kept, after)
          = [after EXCEPT !.effects = InsertAt(after.effects, IF kept.index > Len(after.effects) + 1
                                                              THEN Len(after.effects) + 1 ELSE kept.index, kept.prior)]
    BY <1>6 DEF Reverted
  <2>2. after.effects = fewer
    OBVIOUS
  <2>3. ~(kept.index > Len(fewer) + 1)
    <3> HIDE DEF fewer, n, k, kept
    <3>1. Len(fewer) + 1 = n
      BY <1>3, <1>8
    <3>2. QED
      BY <1>3, <1>6, <3>1
  <2>4. Reverted(kept, after) = [after EXCEPT !.effects = InsertAt(fewer, k, effects[k])]
    <3> HIDE DEF fewer, after, k, kept
    <3> QED
      BY <1>6, <2>1, <2>2, <2>3
  <2>5. InsertAt(fewer, k, effects[k]) = effects
    BY <1>1, <1>3, OutAndBack
  <2> HIDE DEF fewer, k, kept
  <2>6. QED
    BY <1>1, <2>4, <2>5
<1> HIDE DEF kept, fewer
<1>10. Distinct(fewer)
  <2>1. SUFFICES ASSUME NEW i \in 1..n - 1, NEW j \in 1..n - 1, fewer[i].id = fewer[j].id PROVE i = j
    BY <1>8 DEF Distinct
  <2> DEFINE was(x) == IF x < k THEN x ELSE x + 1
  <2> HIDE DEF n, k
  <2>2. was(i) \in 1..n /\ was(j) \in 1..n /\ (was(i) = was(j) => i = j)
    BY <1>3
  <2>3. fewer[i] = effects[was(i)] /\ fewer[j] = effects[was(j)]
    BY <1>8
  <2> HIDE DEF was
  <2>4. was(i) = was(j)
    BY <1>1, <2>1, <2>2, <2>3 DEF Distinct, n
  <2>5. QED
    BY <2>2, <2>4
<1>11. \A i \in 1..n - 1 : fewer[i].id \in used
  <2> HIDE DEF n, k
  <2>1. \A i \in 1..n - 1 : i \in 1..n /\ i + 1 \in 1..n
    BY <1>3
  <2>2. QED
    BY <1>1, <1>8, <2>1
<1>12. Chain(after, used)
  <2>1. after = [effects |-> after.effects, keyframes |-> after.keyframes] /\ after.effects = fewer
    OBVIOUS
  <2> HIDE DEF after
  <2>2. QED
    BY <1>8, <1>10, <1>11, <2>1 DEF Chain
<1>13. Link(kept, b, after)
  BY <1>7, <1>9 DEF Link
<1>14. QED
  BY <1>4, <1>5, <1>12, <1>13 DEF Spent

LEMMA OrderLinks ==
  ASSUME NEW used, used \subseteq EffectIds, NEW b, Chain(b, used), NEW cmd, cmd.kind = "ReorderEffects",
         cmd.order \in Seq(EffectIds), Accepted(cmd, b)
  PROVE  /\ Link(Captured(cmd, b), b, Applied(cmd, b))
         /\ Chain(Applied(cmd, b), Spent(cmd, used))
<1> DEFINE effects == b.effects
           order == cmd.order
           n == Len(order)
           new == [i \in 1..n |-> EffectOf(order[i], b)]
           after == [effects |-> new, keyframes |-> b.keyframes]
           kept == [kind |-> "ReorderEffects", order |-> order, prior |-> effects]
           Places(id) == {i \in 1..Len(order) : order[i] = id}
<1>1. /\ b = [effects |-> effects, keyframes |-> b.keyframes] /\ effects \in Seq(Effects)
      /\ Distinct(effects) /\ \A i \in 1..Len(effects) : effects[i].id \in used
  BY DEF Chain
<1>2. /\ n = Len(effects) /\ n \in Nat
      /\ \A id \in EffectIds : Cardinality(Places(id)) = Cardinality(IndicesOf(effects, id))
  BY DEF Accepted
<1>3. Captured(cmd, b) = kept
  BY DEF Captured
<1>4. Applied(cmd, b) = after
  <2>1. Applied(cmd, b) = [b EXCEPT !.effects = new]
    BY DEF Applied
  <2> HIDE DEF new
  <2>2. QED
    BY <1>1, <2>1
<1>5. kept.kind = "ReorderEffects" /\ kept.order = order /\ kept.prior = effects
  OBVIOUS
<1>6. Captured(kept, b) = kept /\ Accepted(kept, b) /\ Applied(kept, b) = after
  <2>1. Captured(kept, b) = [kind |-> kept.kind, order |-> kept.order, prior |-> b.effects]
    BY <1>5 DEF Captured
  <2>2. Accepted(kept, b)
    BY <1>2, <1>5 DEF Accepted
  <2>3. Applied(kept, b) = [b EXCEPT !.effects = [i \in 1..Len(kept.order) |-> EffectOf(kept.order[i], b)]]
    BY <1>5 DEF Applied
  <2>4. Applied(kept, b) = [b EXCEPT !.effects = new]
    BY <1>5, <2>3
  <2> HIDE DEF new
  <2>5. QED
    BY <1>1, <1>5, <2>1, <2>2, <2>4
<1>7. Reverted(kept, after) = b
  <2>1. Reverted(kept, after) = [after EXCEPT !.effects = kept.prior]
    BY <1>5 DEF Reverted
  <2> HIDE DEF new, kept
  <2>2. QED
    BY <1>1, <1>5, <2>1
<1> HIDE DEF kept
<1>8. \A i \in 1..n : order[i] \in EffectIds
  OBVIOUS
<1>9. ASSUME NEW i \in 1..n PROVE order[i] \in IdsOf(effects)
  <2>1. Places(order[i]) # {} /\ IsFiniteSet(Places(order[i]))
    <3>1. i \in Places(order[i])
      OBVIOUS
    <3>2. Places(order[i]) \subseteq 1..n /\ IsFiniteSet(1..n)
      BY <1>2, FS_Interval
    <3>3. QED
      BY <3>1, <3>2, FS_Subset
  <2> HIDE DEF Places
  <2>2. Cardinality(Places(order[i])) # 0
    BY <2>1, FS_EmptySet
  <2>3. Cardinality(IndicesOf(effects, order[i])) # 0
    BY <1>2, <1>8, <2>2
  <2>4. QED
    BY <1>1, <2>3, OneEach
<1>10. ASSUME NEW i \in 1..n, NEW j \in 1..n, order[i] = order[j] PROVE i = j
  <2>1. Cardinality(Places(order[i])) = 1
    <3> HIDE DEF Places
    <3>1. Cardinality(IndicesOf(effects, order[i])) = 1
      BY <1>1, <1>9, OneEach
    <3>2. QED
      BY <1>2, <1>8, <3>1
  <2>2. IsFiniteSet(Places(order[i]))
    <3>1. Places(order[i]) \subseteq 1..n /\ IsFiniteSet(1..n)
      BY <1>2, FS_Interval
    <3>2. QED
      BY <3>1, FS_Subset
  <2>3. i \in Places(order[i]) /\ j \in Places(order[i])
    BY <1>10
  <2> HIDE DEF Places
  <2>4. PICK x : Places(order[i]) = {x}
    BY <2>1, <2>2, FS_Singleton
  <2>5. QED
    BY <2>3, <2>4
<1>11. \A i \in 1..n : new[i] \in Effects /\ new[i].id = order[i] /\ order[i] \in used
  <2>1. SUFFICES ASSUME NEW i \in 1..n PROVE new[i] \in Effects /\ new[i].id = order[i] /\ order[i] \in used
    OBVIOUS
  <2>2. new[i] = effects[IndexOf(effects, order[i])]
    BY DEF EffectOf
  <2>3. order[i] \in IdsOf(effects)
    BY <1>9
  <2>4. /\ IndexOf(effects, order[i]) \in 1..Len(effects) /\ effects[IndexOf(effects, order[i])].id = order[i]
        /\ effects[IndexOf(effects, order[i])] \in Effects
    BY <1>1, <2>3, FoundByName
  <2>5. QED
    BY <1>1, <2>2, <2>4
<1>12. new \in Seq(Effects) /\ Len(new) = n
  <2>1. new = [i \in 1..n |-> new[i]]
    OBVIOUS
  <2>2. (\A i \in 1..n : new[i] \in Effects) /\ n \in Nat
    BY <1>2, <1>11
  <2> HIDE DEF new, n
  <2>3. QED
    BY <2>1, <2>2
<1> HIDE DEF new
<1>13. Distinct(new)
  BY <1>10, <1>11, <1>12 DEF Distinct
<1>14. Chain(after, used)
  <2>1. after = [effects |-> after.effects, keyframes |-> after.keyframes] /\ after.effects = new
    OBVIOUS
  <2> HIDE DEF after
  <2>2. QED
    BY <1>11, <1>12, <1>13, <2>1 DEF Chain
<1>15. Link(kept, b, after)
  BY <1>6, <1>7 DEF Link
<1>16. QED
  BY <1>3, <1>4, <1>14, <1>15 DEF Spent

LEMMA ParameterLinks ==
  ASSUME NEW used, NEW b, Chain(b, used), NEW cmd, cmd.kind = "SetEffectParameter",
         cmd.name \in ParamNames, cmd.value \in ParamValues, Accepted(cmd, b)
  PROVE  /\ Link(Captured(cmd, b), b, Applied(cmd, b))
         /\ Chain(Applied(cmd, b), Spent(cmd, used))
<1> DEFINE old == EffectOf(cmd.id, b).params
           params == [old EXCEPT ![cmd.name] = cmd.value]
           after == WithParams(b, cmd.id, params)
           kept == [kind |-> "SetEffectParameter", id |-> cmd.id, name |-> cmd.name, value |-> cmd.value,
                    prior |-> old[cmd.name]]
<1>1. Has(cmd.id, b)
  BY DEF Accepted
<1>2. old \in Params
  <2>1. PICK k \in 1..Len(b.effects) : b.effects[k].id = cmd.id
    BY <1>1 DEF Has, IdsOf
  <2>2. EffectOf(cmd.id, b) \in Effects
    BY <1>1, FoundByName DEF Chain, Has, EffectOf
  <2>3. QED
    BY <2>2 DEF Effects, Params, ParamValues, Coordinates
<1>3. params \in Params /\ [params EXCEPT ![cmd.name] = old[cmd.name]] = old
  BY <1>2 DEF Params, ParamValues, Coordinates
<1>4. Captured(cmd, b) = kept /\ Applied(cmd, b) = after
  BY DEF Captured, Applied
<1>5. /\ kept.kind = "SetEffectParameter" /\ kept.id = cmd.id /\ kept.name = cmd.name /\ kept.value = cmd.value
      /\ kept.prior = old[cmd.name]
  OBVIOUS
<1>6. Captured(kept, b) = kept /\ Accepted(kept, b) /\ Applied(kept, b) = after
  <2>1. Captured(kept, b) = [kind |-> kept.kind, id |-> kept.id, name |-> kept.name, value |-> kept.value,
                             prior |-> EffectOf(kept.id, b).params[kept.name]]
    BY <1>5 DEF Captured
  <2>2. Accepted(kept, b)
    BY <1>1, <1>5 DEF Accepted
  <2>3. Applied(kept, b) = WithParams(b, kept.id, [EffectOf(kept.id, b).params EXCEPT ![kept.name] = kept.value])
    BY <1>5 DEF Applied
  <2>4. QED
    BY <1>5, <2>1, <2>2, <2>3
<1>7. /\ Chain(after, used) /\ Has(cmd.id, after) /\ EffectOf(cmd.id, after).params = params
      /\ WithParams(after, cmd.id, old) = b
  <2> HIDE DEF params
  <2>1. QED
    BY <1>1, <1>3, ParamsWritten
<1>8. Reverted(kept, after) = b
  <2>1. Reverted(kept, after)
          = WithParams(after, kept.id, [EffectOf(kept.id, after).params EXCEPT ![kept.name] = kept.prior])
    BY <1>5 DEF Reverted, PriorParams
  <2> HIDE DEF after, params, old, kept
  <2>2. QED
    BY <1>3, <1>5, <1>7, <2>1
<1>9. QED
  BY <1>4, <1>6, <1>7, <1>8 DEF Spent, Link

LEMMA PointLinks ==
  ASSUME NEW used, NEW b, Chain(b, used), NEW cmd, cmd.kind = "EditCurvePoint",
         cmd.op \in {"Add", "Move", "Remove"}, cmd.index \in Nat \ {0}, cmd.value \in ParamValues, Accepted(cmd, b)
  PROVE  /\ Link(Captured(cmd, b), b, Applied(cmd, b))
         /\ Chain(Applied(cmd, b), Spent(cmd, used))
<1> DEFINE old == EffectOf(cmd.id, b).params
           points == PointsOf(old)
           params == WithChannel(old, Written(Edited(points, cmd)))
           after == WithParams(b, cmd.id, params)
           kept == [kind |-> "EditCurvePoint", id |-> cmd.id, op |-> cmd.op, index |-> cmd.index,
                    value |-> cmd.value, prior |-> Channel(old)]
<1>1. Has(cmd.id, b) /\ (cmd.op # "Add" => cmd.index <= Len(points))
  BY DEF Accepted
<1>2. old \in Params
  <2>1. EffectOf(cmd.id, b) \in Effects
    BY <1>1, FoundByName DEF Chain, Has, EffectOf
  <2>2. QED
    BY <2>1 DEF Effects, Params, ParamValues, Coordinates
<1>3. params \in Params /\ WithChannel(params, Channel(old)) = old
  <2>1. Edited(points, cmd) \in Seq(ParamValues)
    <3>1. points \in Seq(ParamValues)
      BY <1>2, PointsTyped
    <3> HIDE DEF points
    <3>2. CASE cmd.op = "Add"
      BY <3>1, <3>2 DEF Edited
    <3>3. CASE cmd.op = "Move"
      BY <1>1, <3>1, <3>3 DEF Edited
    <3>4. CASE cmd.op = "Remove"
      <4>1. cmd.index \in 1..Len(points) /\ Edited(points, cmd) = RemoveAt(points, cmd.index)
        BY <1>1, <3>1, <3>4 DEF Edited
      <4>2. QED
        BY <3>1, <4>1, TakenOut
    <3>5. QED
      BY <3>2, <3>3, <3>4
  <2> HIDE DEF old, points
  <2>2. QED
    BY <1>2, <2>1, ChannelBack
<1>4. Captured(cmd, b) = kept /\ Applied(cmd, b) = after
  BY DEF Captured, Applied
<1>5. /\ kept.kind = "EditCurvePoint" /\ kept.id = cmd.id /\ kept.op = cmd.op /\ kept.index = cmd.index
      /\ kept.value = cmd.value /\ kept.prior = Channel(old)
  OBVIOUS
<1>6. Captured(kept, b) = kept /\ Accepted(kept, b) /\ Applied(kept, b) = after
  <2>1. Captured(kept, b) = [kind |-> kept.kind, id |-> kept.id, op |-> kept.op, index |-> kept.index,
                             value |-> kept.value, prior |-> Channel(EffectOf(kept.id, b).params)]
    BY <1>5 DEF Captured
  <2>2. Accepted(kept, b)
    BY <1>1, <1>5 DEF Accepted
  <2>3. Applied(kept, b) = WithParams(b, kept.id, WithChannel(EffectOf(kept.id, b).params,
                             Written(Edited(PointsOf(EffectOf(kept.id, b).params), kept))))
    BY <1>5 DEF Applied
  <2>4. Edited(points, kept) = Edited(points, cmd)
    BY <1>5 DEF Edited
  <2>5. QED
    BY <1>5, <2>1, <2>2, <2>3, <2>4
<1>7. /\ Chain(after, used) /\ Has(cmd.id, after) /\ EffectOf(cmd.id, after).params = params
      /\ WithParams(after, cmd.id, old) = b
  <2> HIDE DEF params
  <2>1. QED
    BY <1>1, <1>3, ParamsWritten
<1>8. Reverted(kept, after) = b
  <2>1. Reverted(kept, after)
          = WithParams(after, kept.id, WithChannel(EffectOf(kept.id, after).params, kept.prior))
    BY <1>5 DEF Reverted
  <2> HIDE DEF after, params, old, kept
  <2>2. QED
    BY <1>3, <1>5, <1>7, <2>1
<1>9. QED
  BY <1>4, <1>6, <1>7, <1>8 DEF Spent, Link

LEMMA ResourceLinks ==
  ASSUME NEW used, NEW b, Chain(b, used), NEW cmd, cmd.kind = "SetEffectResource",
         cmd.path \in Resources, Accepted(cmd, b)
  PROVE  /\ Link(Captured(cmd, b), b, Applied(cmd, b))
         /\ Chain(Applied(cmd, b), Spent(cmd, used))
<1> DEFINE old == EffectOf(cmd.id, b).resource
           after == WithResource(b, cmd.id, cmd.path)
           kept == [kind |-> "SetEffectResource", id |-> cmd.id, path |-> cmd.path, prior |-> old]
<1>1. Has(cmd.id, b)
  BY DEF Accepted
<1>2. Captured(cmd, b) = kept /\ Applied(cmd, b) = after
  BY DEF Captured, Applied
<1>3. kept.kind = "SetEffectResource" /\ kept.id = cmd.id /\ kept.path = cmd.path /\ kept.prior = old
  OBVIOUS
<1>4. Captured(kept, b) = kept /\ Accepted(kept, b) /\ Applied(kept, b) = after
  <2>1. Captured(kept, b) = [kind |-> kept.kind, id |-> kept.id, path |-> kept.path,
                             prior |-> EffectOf(kept.id, b).resource]
    BY <1>3 DEF Captured
  <2>2. Accepted(kept, b)
    BY <1>1, <1>3 DEF Accepted
  <2>3. Applied(kept, b) = WithResource(b, kept.id, kept.path)
    BY <1>3 DEF Applied
  <2>4. QED
    BY <1>3, <2>1, <2>2, <2>3
<1>5. Chain(after, used) /\ WithResource(after, cmd.id, old) = b
  BY <1>1, ResourceWritten
<1>6. Reverted(kept, after) = b
  <2>1. Reverted(kept, after) = WithResource(after, kept.id, kept.prior)
    BY <1>3 DEF Reverted
  <2> HIDE DEF after, old, kept
  <2>2. QED
    BY <1>3, <1>5, <2>1
<1>7. QED
  BY <1>2, <1>4, <1>5, <1>6 DEF Spent, Link

LEMMA KeyframesLink ==
  ASSUME NEW used, NEW b, Chain(b, used), NEW cmd, cmd.kind = "SetKeyframes"
  PROVE  /\ Link(Captured(cmd, b), b, Applied(cmd, b))
         /\ Chain(Applied(cmd, b), Spent(cmd, used))
<1> DEFINE written(x) == IF x.keys = Unset THEN Without(b.keyframes, x.property)
                        ELSE Append(Without(b.keyframes, x.property), [property |-> x.property, keys |-> x.keys])
           after == [effects |-> b.effects, keyframes |-> written(cmd)]
           kept == [kind |-> "SetKeyframes", property |-> cmd.property, keys |-> cmd.keys, prior |-> b.keyframes]
<1>1. b = [effects |-> b.effects, keyframes |-> b.keyframes]
  BY DEF Chain
<1>2. ASSUME NEW x, x.kind = "SetKeyframes", x.property = cmd.property, x.keys = cmd.keys
      PROVE  Applied(x, b) = after /\ Accepted(x, b) /\ Captured(x, b) = kept
  <2>1. Applied(x, b) = [b EXCEPT !.keyframes = written(x)]
    BY <1>2 DEF Applied
  <2>2. written(x) = written(cmd)
    BY <1>2
  <2>3. Applied(x, b) = after
    <3> HIDE DEF written
    <3> QED
      BY <1>1, <2>1, <2>2
  <2>4. QED
    BY <1>2, <2>3 DEF Accepted, Captured
<1> HIDE DEF written
<1>3. kept.kind = "SetKeyframes" /\ kept.property = cmd.property /\ kept.keys = cmd.keys /\ kept.prior = b.keyframes
  OBVIOUS
<1>4. Reverted(kept, after) = b
  <2>1. Reverted(kept, after) = [after EXCEPT !.keyframes = kept.prior]
    BY <1>3 DEF Reverted
  <2> HIDE DEF kept
  <2>2. QED
    BY <1>1, <1>3, <2>1
<1> HIDE DEF kept
<1>5. Chain(after, used)
  <2>1. after = [effects |-> after.effects, keyframes |-> after.keyframes] /\ after.effects = b.effects
    OBVIOUS
  <2> HIDE DEF after
  <2>2. QED
    BY <2>1 DEF Chain
<1>6. Applied(kept, b) = after /\ Accepted(kept, b) /\ Captured(kept, b) = kept
  BY <1>2, <1>3
<1>7. Applied(cmd, b) = after /\ Captured(cmd, b) = kept
  BY <1>2
<1>8. QED
  BY <1>4, <1>5, <1>6, <1>7 DEF Spent, Link

(* Each command that is offered and accepted can be undone and done again.         *)
LEMMA Linked ==
  ASSUME NEW used, used \subseteq EffectIds, NEW b, Chain(b, used), NEW cmd, Offer(cmd, used), Accepted(cmd, b)
  PROVE  /\ Link(Captured(cmd, b), b, Applied(cmd, b))
         /\ Chain(Applied(cmd, b), Spent(cmd, used))
BY AddLinks, RemoveLinks, OrderLinks, ParameterLinks, PointLinks, ResourceLinks, KeyframesLink DEF Offer

-----------------------------------------------------------------------------------
(* Undo and redo lead along the clips that were shown: the one before and the one  *)
(* after each command.                                                             *)
Joins(undoing, cmd, there, here) == IF undoing THEN Link(cmd, there, here) ELSE Link(cmd, here, there)

Walk(undoing, cmds, clips, c, used) ==
  /\ IsSeq(cmds) /\ IsSeq(clips) /\ Len(cmds) = Len(clips)
  /\ \A i \in 1..Len(clips) :
       /\ Chain(clips[i], used)
       /\ Joins(undoing, cmds[i], clips[i], IF i = Len(clips) THEN c ELSE clips[i + 1])

LEMMA NoWalk == ASSUME NEW undoing, NEW c, NEW used PROVE Walk(undoing, <<>>, <<>>, c, used)
<1>1. <<>> \in Seq({}) /\ Len(<<>>) = 0
  OBVIOUS
<1>2. IsSeq(<<>>)
  BY <1>1 DEF IsSeq
<1>3. QED
  BY <1>1, <1>2 DEF Walk

LEMMA LongerWalk ==
  ASSUME NEW undoing, NEW cmds, NEW clips, NEW c, NEW d, NEW used, NEW cmd,
         Walk(undoing, cmds, clips, c, used), Chain(c, used), Joins(undoing, cmd, c, d)
  PROVE  Walk(undoing, Append(cmds, cmd), Append(clips, c), d, used)
<1> DEFINE n == Len(clips)
           allCmds == Append(cmds, cmd)
           allClips == Append(clips, c)
<1>1. IsSeq(cmds) /\ IsSeq(clips) /\ Len(cmds) = n
  BY DEF Walk
<1>2. /\ IsSeq(allClips) /\ n \in Nat /\ Len(allClips) = n + 1
      /\ (\A i \in 1..n : allClips[i] = clips[i]) /\ allClips[n + 1] = c
  BY <1>1, Appended
<1>3. /\ IsSeq(allCmds) /\ Len(allCmds) = n + 1
      /\ (\A i \in 1..n : allCmds[i] = cmds[i]) /\ allCmds[n + 1] = cmd
  BY <1>1, Appended
<1>4. \A i \in 1..n : /\ Chain(clips[i], used)
                      /\ Joins(undoing, cmds[i], clips[i], IF i = n THEN c ELSE clips[i + 1])
  BY DEF Walk
<1> HIDE DEF n, allCmds, allClips
<1>5. ASSUME NEW i \in 1..n + 1
      PROVE  /\ Chain(allClips[i], used)
             /\ Joins(undoing, allCmds[i], allClips[i], IF i = n + 1 THEN d ELSE allClips[i + 1])
  <2>1. CASE i = n + 1
    BY <1>2, <1>3, <2>1
  <2>2. CASE i # n + 1
    <3>1. i \in 1..n /\ (i # n => i + 1 \in 1..n) /\ (i = n => i + 1 = n + 1)
      BY <1>2, <2>2
    <3>2. allClips[i + 1] = IF i = n THEN c ELSE clips[i + 1]
      BY <1>2, <3>1
    <3>3. QED
      BY <1>2, <1>3, <1>4, <2>2, <3>1, <3>2
  <2>3. QED
    BY <2>1, <2>2
<1>6. QED
  BY <1>2, <1>3, <1>5 DEF Walk, allCmds, allClips

LEMMA ShorterWalk ==
  ASSUME NEW undoing, NEW cmds, NEW clips, NEW c, NEW used,
         Walk(undoing, cmds, clips, c, used), cmds # <<>>
  PROVE  /\ Joins(undoing, Last(cmds), Last(clips), c) /\ Chain(Last(clips), used)
         /\ Walk(undoing, Front(cmds), Front(clips), Last(clips), used)
<1> DEFINE n == Len(clips)
           fewCmds == Front(cmds)
           fewClips == Front(clips)
           d == Last(clips)
<1>1. IsSeq(cmds) /\ IsSeq(clips) /\ Len(cmds) = n
  BY DEF Walk
<1>2. /\ IsSeq(fewCmds) /\ n \in Nat \ {0} /\ Len(fewCmds) = n - 1
      /\ (\A i \in 1..n - 1 : fewCmds[i] = cmds[i]) /\ Last(cmds) = cmds[n]
  BY <1>1, Fronted
<1>3. clips # <<>>
  <2>1. Len(<<>>) = 0
    OBVIOUS
  <2>2. QED
    BY <1>2, <2>1
<1>4. /\ IsSeq(fewClips) /\ Len(fewClips) = n - 1
      /\ (\A i \in 1..n - 1 : fewClips[i] = clips[i]) /\ d = clips[n]
  BY <1>1, <1>3, Fronted
<1>5. \A i \in 1..n : /\ Chain(clips[i], used)
                      /\ Joins(undoing, cmds[i], clips[i], IF i = n THEN c ELSE clips[i + 1])
  BY DEF Walk
<1> HIDE DEF n, fewCmds, fewClips, d
<1>6. n \in 1..n
  BY <1>2
<1>7. Joins(undoing, Last(cmds), d, c) /\ Chain(d, used)
  BY <1>2, <1>4, <1>5, <1>6
<1>8. ASSUME NEW i \in 1..n - 1
      PROVE  /\ Chain(fewClips[i], used)
             /\ Joins(undoing, fewCmds[i], fewClips[i], IF i = n - 1 THEN d ELSE fewClips[i + 1])
  <2>1. i \in 1..n /\ i # n /\ (i # n - 1 => i + 1 \in 1..n - 1) /\ (i = n - 1 => i + 1 = n)
    BY <1>2
  <2>2. clips[i + 1] = IF i = n - 1 THEN d ELSE fewClips[i + 1]
    BY <1>4, <2>1
  <2>3. QED
    BY <1>2, <1>4, <1>5, <2>1, <2>2
<1>9. QED
  BY <1>2, <1>4, <1>7, <1>8 DEF Walk, fewCmds, fewClips, d

LEMMA MoreSpent ==
  ASSUME NEW used, NEW more, used \subseteq more
  PROVE  /\ \A c : Chain(c, used) => Chain(c, more)
         /\ \A undoing, cmds, clips, c : Walk(undoing, cmds, clips, c, used) => Walk(undoing, cmds, clips, c, more)
<1>1. \A c : Chain(c, used) => Chain(c, more)
  BY DEF Chain
<1>2. QED
  BY <1>1 DEF Walk

-----------------------------------------------------------------------------------
HistoryInv ==
  /\ usedIds \subseteq EffectIds /\ Chain(clip, usedIds)
  /\ Walk(TRUE, done, shownBefore, clip, usedIds)
  /\ Walk(FALSE, undone, shownAfter, clip, usedIds)

LEMMA CommitKeeps ==
  ASSUME HistoryInv, NEW cmd, Offer(cmd, usedIds), Accepted(cmd, clip), Commit(cmd)
  PROVE  HistoryInv'
<1>1. /\ Link(Captured(cmd, clip), clip, clip') /\ Chain(clip', usedIds')
  <2>1. clip' = Applied(cmd, clip) /\ usedIds' = Spent(cmd, usedIds)
    BY DEF Commit, Spent
  <2>2. QED
    BY <2>1, Linked DEF HistoryInv
<1>2. usedIds \subseteq usedIds' /\ usedIds' \subseteq EffectIds
  <2>1. cmd.kind = "AddEffect" => cmd.effect \in Effects
    BY DEF Offer
  <2>2. QED
    BY <2>1 DEF Commit, HistoryInv, Effects
<1>3. Chain(clip, usedIds') /\ Walk(TRUE, done, shownBefore, clip, usedIds')
  BY <1>2, MoreSpent DEF HistoryInv
<1>4. Joins(TRUE, Captured(cmd, clip), clip, clip')
  BY <1>1 DEF Joins
<1>5. Walk(TRUE, Append(done, Captured(cmd, clip)), Append(shownBefore, clip), clip', usedIds')
  BY <1>3, <1>4, LongerWalk
<1>6. QED
  BY <1>1, <1>2, <1>5, NoWalk DEF HistoryInv, Commit

LEMMA UndoKeeps ==
  ASSUME HistoryInv, UndoEdit
  PROVE  HistoryInv'
<1> DEFINE cmd == Last(done)
           there == Last(shownBefore)
<1>1. /\ Joins(TRUE, cmd, there, clip) /\ Chain(there, usedIds)
      /\ Walk(TRUE, Front(done), Front(shownBefore), there, usedIds)
  BY ShorterWalk DEF HistoryInv, UndoEdit
<1>2. clip' = there
  BY <1>1 DEF Joins, Link, UndoEdit
<1>3. Walk(FALSE, Append(undone, cmd), Append(shownAfter, clip), there, usedIds)
  <2>1. Joins(FALSE, cmd, clip, there)
    BY <1>1 DEF Joins
  <2> HIDE DEF cmd, there
  <2>2. QED
    BY <2>1, LongerWalk DEF HistoryInv
<1>4. QED
  BY <1>1, <1>2, <1>3 DEF HistoryInv, UndoEdit

LEMMA RedoKeeps ==
  ASSUME HistoryInv, RedoEdit
  PROVE  HistoryInv'
<1> DEFINE cmd == Last(undone)
           there == Last(shownAfter)
<1>1. /\ Joins(FALSE, cmd, there, clip) /\ Chain(there, usedIds)
      /\ Walk(FALSE, Front(undone), Front(shownAfter), there, usedIds)
  BY ShorterWalk DEF HistoryInv, RedoEdit
<1>2. clip' = there /\ Captured(cmd, clip) = cmd
  BY <1>1 DEF Joins, Link, RedoEdit
<1>3. Walk(TRUE, Append(done, cmd), Append(shownBefore, clip), there, usedIds)
  <2>1. Joins(TRUE, cmd, clip, there)
    BY <1>1 DEF Joins
  <2> HIDE DEF cmd, there
  <2>2. QED
    BY <2>1, LongerWalk DEF HistoryInv
<1>4. QED
  BY <1>1, <1>2, <1>3 DEF HistoryInv, RedoEdit

LEMMA HistoryEnough == HistoryInv => UndoIsExact /\ OneEffectPerId
<1> SUFFICES ASSUME HistoryInv PROVE UndoIsExact /\ OneEffectPerId
  OBVIOUS
<1>1. ASSUME done # <<>> PROVE Reverted(Last(done), clip) = Last(shownBefore)
  <2>1. Joins(TRUE, Last(done), Last(shownBefore), clip)
    BY <1>1, ShorterWalk DEF HistoryInv
  <2>2. QED
    BY <2>1 DEF Joins, Link
<1>2. ASSUME undone # <<>> PROVE Accepted(Last(undone), clip) /\ Applied(Last(undone), clip) = Last(shownAfter)
  <2>1. Joins(FALSE, Last(undone), Last(shownAfter), clip)
    BY <1>2, ShorterWalk DEF HistoryInv
  <2>2. QED
    BY <2>1 DEF Joins, Link
<1>3. OneEffectPerId
  <2>1. \A id \in EffectIds : Cardinality(IndicesOf(clip.effects, id)) \in {0, 1}
    BY OneEach DEF HistoryInv, Chain
  <2>2. QED
    BY <2>1 DEF OneEffectPerId
<1>4. QED
  BY <1>1, <1>2, <1>3 DEF UndoIsExact

-----------------------------------------------------------------------------------
(* The editors, and the drag in one of them: a point that is being added is the    *)
(* last one, a point that was not moved yet is where it was.                       *)
Gestures == [effect : EffectIds, index : Nat, origin : ParamValues, moved : BOOLEAN, adding : BOOLEAN]

DragKept(editors, g) ==
  g # NoGesture =>
    /\ g \in Gestures /\ g.effect \in DOMAIN editors /\ g.index \in 1..Len(editors[g.effect])
    /\ g.adding => g.index = Len(editors[g.effect])
    /\ ~g.adding /\ ~g.moved => editors[g.effect][g.index] = g.origin

EditorsInv ==
  /\ IdsOf(drawn) \subseteq EffectIds /\ working \in [IdsOf(drawn) -> Seq(ParamValues)]
  /\ DragKept(working, gesture) /\ EditorsAreCurrent

LEMMA FreshEditors ==
  ASSUME NEW used, NEW c, Chain(c, used)
  PROVE  /\ IdsOf(c.effects) \subseteq EffectIds
         /\ EditorsOf(c.effects) \in [IdsOf(c.effects) -> Seq(ParamValues)]
         /\ \A id \in IdsOf(c.effects) : EditorsOf(c.effects)[id] = PointsOf(EffectOf(id, c).params)
<1>1. c.effects \in Seq(Effects) /\ Distinct(c.effects)
  BY DEF Chain
<1>2. ASSUME NEW id \in IdsOf(c.effects)
      PROVE  /\ id \in EffectIds /\ EffectOf(id, c) = c.effects[IndexOf(c.effects, id)]
             /\ PointsOf(EffectOf(id, c).params) \in Seq(ParamValues)
  <2>1. EffectOf(id, c) \in Effects /\ EffectOf(id, c).id = id
    BY <1>1, FoundByName DEF EffectOf
  <2>2. EffectOf(id, c).params \in Params /\ id \in EffectIds
    BY <2>1 DEF Effects, Params, ParamValues, Coordinates
  <2>3. QED
    BY <2>2, PointsTyped DEF EffectOf
<1>3. QED
  BY <1>2 DEF EditorsOf

LEMMA RebuildMakes ==
  ASSUME HistoryInv', Rebuild
  PROVE  EditorsInv'
<1>1. /\ drawn' = clip'.effects /\ working' = EditorsOf(clip'.effects) /\ gesture' = NoGesture
  BY DEF Rebuild
<1>2. Chain(clip', usedIds')
  BY DEF HistoryInv
<1>3. /\ IdsOf(drawn') \subseteq EffectIds /\ working' \in [IdsOf(drawn') -> Seq(ParamValues)]
      /\ \A id \in IdsOf(drawn') : working'[id] = PointsOf(EffectOf(id, clip').params)
  BY <1>1, <1>2, FreshEditors
<1>4. DragKept(working', gesture')
  BY <1>1 DEF DragKept
<1>5. EditorsAreCurrent'
  BY <1>1, <1>3 DEF EditorsAreCurrent, Undragged
<1>6. QED
  BY <1>3, <1>4, <1>5 DEF EditorsInv

(* What an editor shows without the drag in it.                                    *)
LEMMA AddedAndTaken ==
  ASSUME NEW S, NEW s \in Seq(S), NEW e \in S
  PROVE  RemoveAt(Append(s, e), Len(s) + 1) = s
<1> DEFINE t == Append(s, e)
           n == Len(s)
           u == RemoveAt(t, n + 1)
<1>1. n \in Nat /\ t \in Seq(S) /\ Len(t) = n + 1 /\ \A i \in 1..n : t[i] = s[i]
  OBVIOUS
<1>2. n + 1 \in 1..Len(t) /\ Len(t) - 1 = n
  BY <1>1
<1> HIDE DEF t, n
<1>3. /\ u \in Seq(S) /\ Len(u) = Len(t) - 1
      /\ \A k \in 1..Len(t) - 1 : u[k] = IF k < n + 1 THEN t[k] ELSE t[k + 1]
  <2> DEFINE m == n + 1
  <2>1. t \in Seq(S) /\ m \in 1..Len(t)
    BY <1>1, <1>2
  <2> HIDE DEF m
  <2>2. /\ RemoveAt(t, m) \in Seq(S) /\ Len(RemoveAt(t, m)) = Len(t) - 1
        /\ \A k \in 1..Len(t) - 1 : RemoveAt(t, m)[k] = IF k < m THEN t[k] ELSE t[k + 1]
    BY <2>1, TakenOut
  <2>3. QED
    BY <2>2 DEF m
<1> HIDE DEF u
<1>4. \A k \in 1..n : k < n + 1
  BY <1>1
<1>5. Len(u) = n /\ \A k \in 1..n : u[k] = s[k]
  BY <1>1, <1>2, <1>3, <1>4
<1>6. QED
  BY <1>3, <1>5, SeqEqual DEF u, t, n

LEMMA PressPointKeeps ==
  ASSUME EffectsAssumption, HistoryInv, EditorsInv, NEW id \in EffectIds, NEW index \in 1..MaxPoints,
         PressPoint(id, index)
  PROVE  EditorsInv'
<1>1. /\ gesture = NoGesture /\ id \in DOMAIN working /\ index \in 1..Len(working[id])
      /\ gesture' = [effect |-> id, index |-> index, origin |-> working[id][index], moved |-> FALSE, adding |-> FALSE]
      /\ UNCHANGED <<clip, drawn, working, untold>>
  BY DEF PressPoint
<1>2. working \in [IdsOf(drawn) -> Seq(ParamValues)]
  BY DEF EditorsInv
<1>3. working[id] \in Seq(ParamValues) /\ working[id][index] \in ParamValues /\ index \in Nat
  BY <1>1, <1>2, EffectsAssumption
<1>4. gesture' \in Gestures /\ gesture' # NoGesture
  <2>1. gesture' \in Gestures
    BY <1>1, <1>3 DEF Gestures
  <2>2. QED
    BY <2>1, EffectsAssumption DEF Gestures, ParamValues
<1>5. /\ gesture'.effect = id /\ gesture'.index = index /\ gesture'.origin = working[id][index]
      /\ ~gesture'.adding
  BY <1>1
<1>6. DragKept(working, gesture')
  BY <1>1, <1>4, <1>5 DEF DragKept
<1>7. EditorsAreCurrent'
  <2>1. \A x \in DOMAIN working : Undragged(x)' = Undragged(x)
    <3>1. [working[id] EXCEPT ![index] = working[id][index]] = working[id]
      BY <1>1, <1>3
    <3>2. QED
      BY <1>1, <1>4, <1>5, <3>1 DEF Undragged
  <2>2. EditorsAreCurrent
    BY DEF EditorsInv
  <2>3. QED
    BY <1>1, <2>1, <2>2 DEF EditorsAreCurrent
<1>8. QED
  BY <1>1, <1>6, <1>7 DEF EditorsInv

LEMMA PressEmptyKeeps ==
  ASSUME EffectsAssumption, HistoryInv, EditorsInv, NEW id \in EffectIds, NEW value \in ParamValues, PressEmpty(id, value)
  PROVE  EditorsInv'
<1> DEFINE n == Len(working[id])
           more == Append(working[id], value)
<1>1. /\ gesture = NoGesture /\ id \in DOMAIN working
      /\ working' = [working EXCEPT ![id] = more]
      /\ gesture' = [effect |-> id, index |-> n + 1, origin |-> value, moved |-> FALSE, adding |-> TRUE]
      /\ UNCHANGED <<clip, drawn, untold>>
  BY DEF PressEmpty
<1>2. working \in [IdsOf(drawn) -> Seq(ParamValues)] /\ IdsOf(drawn) \subseteq EffectIds
  BY DEF EditorsInv
<1>3. /\ working[id] \in Seq(ParamValues) /\ more \in Seq(ParamValues) /\ Len(more) = n + 1 /\ n \in Nat /\ n + 1 \in Nat
      /\ n + 1 \in 1..Len(more)
  BY <1>1, <1>2
<1>4. RemoveAt(more, n + 1) = working[id]
  BY <1>3, AddedAndTaken
<1> HIDE DEF more, n
<1>5. gesture' \in Gestures /\ gesture' # NoGesture
  <2>1. gesture' \in Gestures
    BY <1>1, <1>3 DEF Gestures
  <2>2. QED
    BY <2>1, EffectsAssumption DEF Gestures, ParamValues
<1>6. /\ gesture'.effect = id /\ gesture'.index = n + 1 /\ gesture'.adding
  BY <1>1
<1>7. /\ working' \in [IdsOf(drawn) -> Seq(ParamValues)] /\ working'[id] = more
      /\ \A x \in DOMAIN working : x # id => working'[x] = working[x]
  BY <1>1, <1>2, <1>3
<1>8. DragKept(working', gesture')
  BY <1>2, <1>1, <1>3, <1>5, <1>6, <1>7 DEF DragKept
<1>9. EditorsAreCurrent'
  <2>1. \A x \in DOMAIN working : Undragged(x)' = Undragged(x)
    BY <1>1, <1>4, <1>5, <1>6, <1>7 DEF Undragged
  <2>2. EditorsAreCurrent
    BY DEF EditorsInv
  <2>3. DOMAIN working' = DOMAIN working
    BY <1>2, <1>7
  <2>4. QED
    BY <1>1, <2>1, <2>2, <2>3 DEF EditorsAreCurrent
<1>10. QED
  BY <1>1, <1>2, <1>7, <1>8, <1>9 DEF EditorsInv

LEMMA DragKeeps ==
  ASSUME EffectsAssumption, HistoryInv, EditorsInv, NEW value \in ParamValues, DragPoint(value)
  PROVE  EditorsInv'
<1> DEFINE id == gesture.effect
           k == gesture.index
           points == working[id]
           new == [points EXCEPT ![k] = value]
<1>1. /\ gesture # NoGesture /\ gesture' = [gesture EXCEPT !.moved = TRUE]
      /\ working' = [working EXCEPT ![id] = new]
      /\ UNCHANGED <<clip, drawn, untold>>
  BY DEF DragPoint
<1>2. working \in [IdsOf(drawn) -> Seq(ParamValues)] /\ IdsOf(drawn) \subseteq EffectIds
  BY DEF EditorsInv
<1>3. /\ gesture \in Gestures /\ id \in DOMAIN working /\ k \in 1..Len(points)
      /\ gesture.adding => k = Len(points)
  BY <1>1 DEF EditorsInv, DragKept
<1>4. points \in Seq(ParamValues) /\ new \in Seq(ParamValues) /\ Len(new) = Len(points)
      /\ \A i \in 1..Len(points) : i # k => new[i] = points[i]
  BY <1>2, <1>3
<1>5. /\ gesture' \in Gestures /\ gesture' # NoGesture
      /\ gesture'.effect = id /\ gesture'.index = k /\ gesture'.origin = gesture.origin
      /\ gesture'.adding = gesture.adding /\ gesture'.moved
  <2>1. /\ gesture' \in Gestures
        /\ gesture'.effect = id /\ gesture'.index = k /\ gesture'.origin = gesture.origin
        /\ gesture'.adding = gesture.adding /\ gesture'.moved
    BY <1>1, <1>3 DEF Gestures
  <2>2. QED
    BY <2>1, EffectsAssumption DEF Gestures, ParamValues
<1> HIDE DEF new, points
<1>6. /\ working' \in [IdsOf(drawn) -> Seq(ParamValues)] /\ working'[id] = new
      /\ \A x \in DOMAIN working : x # id => working'[x] = working[x]
  BY <1>1, <1>2, <1>3, <1>4
<1>7. DragKept(working', gesture')
  <2>1. id \in DOMAIN working' /\ k \in 1..Len(working'[id]) /\ (gesture.adding => k = Len(working'[id]))
    BY <1>2, <1>3, <1>4, <1>6
  <2>2. QED
    BY <1>5, <2>1 DEF DragKept
<1>8. EditorsAreCurrent'
  <2>1. RemoveAt(new, k) = RemoveAt(points, k) \/ ~gesture.adding
    <3>1. SUFFICES ASSUME gesture.adding PROVE RemoveAt(new, k) = RemoveAt(points, k)
      OBVIOUS
    <3> DEFINE s == RemoveAt(points, k)
               t == RemoveAt(new, k)
               m == Len(points)
    <3>2. k = m /\ m \in Nat /\ k \in 1..Len(new) /\ k \in 1..m /\ Len(new) = m
      BY <1>3, <1>4, <3>1
    <3>3. s \in Seq(ParamValues) /\ Len(s) = m - 1 /\ \A i \in 1..m - 1 : s[i] = IF i < k THEN points[i] ELSE points[i + 1]
      BY <1>4, <3>2, TakenOut
    <3>4. t \in Seq(ParamValues) /\ Len(t) = Len(new) - 1
          /\ \A i \in 1..Len(new) - 1 : t[i] = IF i < k THEN new[i] ELSE new[i + 1]
      BY <1>4, <3>2, TakenOut
    <3> HIDE DEF s, t, m, k
    <3>5. \A i \in 1..m - 1 : i \in 1..m /\ i < k /\ i # k
      BY <3>2
    <3>6. \A i \in 1..m - 1 : new[i] = points[i]
      BY <1>4, <3>5 DEF m
    <3>7. Len(t) = m - 1 /\ \A i \in 1..m - 1 : t[i] = s[i]
      BY <3>2, <3>3, <3>4, <3>5, <3>6
    <3>8. s = t
      BY <3>3, <3>4, <3>7, SeqEqual
    <3>9. QED
      BY <3>8 DEF s, t
  <2>2. [new EXCEPT ![k] = gesture.origin] = [points EXCEPT ![k] = gesture.origin]
    BY <1>3, <1>4 DEF new
  <2>3. \A x \in DOMAIN working : x = id => Undragged(x)' = Undragged(x)
    BY <1>1, <1>5, <1>6, <2>1, <2>2 DEF Undragged, points
  <2>4. \A x \in DOMAIN working : x # id => Undragged(x)' = Undragged(x)
    BY <1>1, <1>5, <1>6 DEF Undragged
  <2>5. EditorsAreCurrent
    BY DEF EditorsInv
  <2>6. DOMAIN working' = DOMAIN working
    BY <1>2, <1>6
  <2>7. \A x \in DOMAIN working : Undragged(x)' = Undragged(x)
    BY <2>3, <2>4
  <2>8. QED
    BY <1>1, <2>5, <2>6, <2>7 DEF EditorsAreCurrent
<1>9. QED
  BY <1>1, <1>2, <1>6, <1>7, <1>8 DEF EditorsInv

(* Once the inspector was told, an editor shows the points of its effect, but for  *)
(* the drag; so what a release or a removal sends is refused only of the point     *)
(* that is being added.                                                            *)
LEMMA ToldEditors ==
  ASSUME HistoryInv, EditorsInv, ~untold, NEW id \in DOMAIN working
  PROVE  /\ Has(id, clip) /\ Undragged(id) = PointsOf(EffectOf(id, clip).params)
         /\ working[id] \in Seq(ParamValues)
         /\ IF gesture # NoGesture /\ gesture.effect = id /\ gesture.adding
            THEN Len(PointsOf(EffectOf(id, clip).params)) = Len(working[id]) - 1
            ELSE Len(PointsOf(EffectOf(id, clip).params)) = Len(working[id])
<1>1. drawn = clip.effects /\ Undragged(id) = PointsOf(EffectOf(id, clip).params)
  BY DEF EditorsInv, EditorsAreCurrent
<1>2. Has(id, clip) /\ working[id] \in Seq(ParamValues)
  BY <1>1 DEF EditorsInv, Has
<1>3. CASE gesture # NoGesture /\ gesture.effect = id
  <2>1. gesture.index \in 1..Len(working[id])
    BY <1>3 DEF EditorsInv, DragKept
  <2>2. CASE gesture.adding
    <3>1. Undragged(id) = RemoveAt(working[id], gesture.index)
      BY <1>3, <2>2 DEF Undragged
    <3>2. Len(RemoveAt(working[id], gesture.index)) = Len(working[id]) - 1
      <4> DEFINE k == gesture.index
                 s == working[id]
      <4>1. k \in 1..Len(s) /\ s \in Seq(ParamValues)
        BY <1>2, <2>1
      <4> HIDE DEF k, s
      <4>2. Len(RemoveAt(s, k)) = Len(s) - 1
        BY <4>1, TakenOut
      <4>3. QED
        BY <4>2 DEF k, s
    <3>3. QED
      BY <1>1, <1>2, <1>3, <2>2, <3>1, <3>2
  <2>3. CASE ~gesture.adding
    <3>1. Undragged(id) = [working[id] EXCEPT ![gesture.index] = gesture.origin]
      BY <1>3, <2>3 DEF Undragged
    <3>2. Len([working[id] EXCEPT ![gesture.index] = gesture.origin]) = Len(working[id])
      BY <1>2
    <3>3. QED
      BY <1>1, <1>2, <1>3, <2>3, <3>1, <3>2
  <2>4. QED
    BY <2>2, <2>3
<1>4. CASE ~(gesture # NoGesture /\ gesture.effect = id)
  BY <1>1, <1>2, <1>4 DEF Undragged
<1>5. QED
  BY <1>3, <1>4

LEMMA ReleaseKeeps ==
  ASSUME EffectsAssumption, HistoryInv, EditorsInv, ReleasePoint
  PROVE  HistoryInv' /\ EditorsInv'
<1> DEFINE id == gesture.effect
           k == gesture.index
           cmd == [kind |-> "EditCurvePoint", id |-> id, op |-> IF gesture.adding THEN "Add" ELSE "Move",
                   index |-> k, value |-> working[id][k]]
<1>1. /\ gesture # NoGesture /\ UNCHANGED untold
      /\ IF gesture.adding \/ gesture.moved
         THEN Submit(cmd) /\ (~Accepted(cmd, clip) => gesture' = NoGesture /\ UNCHANGED working)
         ELSE gesture' = NoGesture /\ UNCHANGED <<clip, historyVars, usedIds, drawn, working, chainEdits>>
  BY DEF ReleasePoint
<1>2. working \in [IdsOf(drawn) -> Seq(ParamValues)]
  BY DEF EditorsInv
<1>3. /\ gesture \in Gestures /\ id \in DOMAIN working /\ k \in 1..Len(working[id])
      /\ ~gesture.adding /\ ~gesture.moved => working[id][k] = gesture.origin
  BY <1>1 DEF EditorsInv, DragKept
<1>4. working[id] \in Seq(ParamValues) /\ working[id][k] \in ParamValues /\ k \in Nat \ {0}
  BY <1>2, <1>3
<1>5. CASE (gesture.adding \/ gesture.moved) /\ Accepted(cmd, clip)
  <2>1. Commit(cmd) /\ Rebuild
    BY <1>1, <1>5 DEF Submit
  <2>2. Offer(cmd, usedIds)
    BY <1>4 DEF Offer
  <2> HIDE DEF cmd
  <2>3. HistoryInv'
    BY <1>5, <2>1, <2>2, CommitKeeps
  <2>4. QED
    BY <2>1, <2>3, RebuildMakes
<1>6. CASE ~((gesture.adding \/ gesture.moved) /\ Accepted(cmd, clip))
  <2>1. gesture' = NoGesture /\ UNCHANGED <<clip, historyVars, usedIds, drawn, working, chainEdits, untold>>
    BY <1>1, <1>6 DEF Submit
  <2>2. HistoryInv'
    BY <2>1 DEF HistoryInv, historyVars
  <2>3. DragKept(working, gesture')
    BY <2>1 DEF DragKept
  <2>4. ASSUME ~untold PROVE \A x \in DOMAIN working : Undragged(x)' = Undragged(x)
    <3>1. Accepted(cmd, clip)
      <4>1. Has(id, clip) /\ (~gesture.adding => Len(PointsOf(EffectOf(id, clip).params)) = Len(working[id]))
        BY <1>1, <1>3, <2>4, ToldEditors
      <4>2. cmd.kind = "EditCurvePoint" /\ cmd.id = id /\ (cmd.op # "Add" => ~gesture.adding) /\ cmd.index = k
        OBVIOUS
      <4> HIDE DEF cmd
      <4>3. ~gesture.adding => k <= Len(PointsOf(EffectOf(id, clip).params))
        BY <1>3, <1>4, <4>1
      <4>4. QED
        BY <4>1, <4>2, <4>3 DEF Accepted
    <3>2. ~gesture.adding /\ ~gesture.moved
      BY <1>6, <3>1
    <3>3. [working[id] EXCEPT ![k] = gesture.origin] = working[id]
      BY <1>3, <1>4, <3>2
    <3>4. QED
      BY <1>1, <2>1, <3>2, <3>3 DEF Undragged
  <2>5. EditorsAreCurrent
    BY DEF EditorsInv
  <2>6. EditorsAreCurrent'
    BY <2>1, <2>4, <2>5 DEF EditorsAreCurrent
  <2>7. QED
    BY <2>1, <2>2, <2>3, <2>6 DEF EditorsInv
<1>7. QED
  BY <1>5, <1>6

LEMMA RemoveKeeps ==
  ASSUME EffectsAssumption, HistoryInv, EditorsInv, NEW id \in EffectIds, NEW index \in 1..MaxPoints,
         RemovePoint(id, index)
  PROVE  HistoryInv' /\ EditorsInv'
<1> DEFINE cmd == [kind |-> "EditCurvePoint", id |-> id, op |-> "Remove", index |-> index, value |-> Unset]
           fewer == RemoveAt(working[id], index)
<1>1. /\ id \in DOMAIN working /\ index \in 1..Len(working[id]) /\ UNCHANGED untold
      /\ gesture # NoGesture => gesture.effect = id
      /\ Submit(cmd)
      /\ ~Accepted(cmd, clip) => gesture' = NoGesture /\ working' = [working EXCEPT ![id] = fewer]
  BY DEF RemovePoint
<1>2. cmd.kind = "EditCurvePoint" /\ cmd.id = id /\ cmd.op = "Remove" /\ cmd.index = index /\ cmd.value = Unset
  OBVIOUS
<1>3. Offer(cmd, usedIds)
  <2>1. index \in Nat \ {0} /\ Unset \in ParamValues
    BY EffectsAssumption DEF ParamValues
  <2> HIDE DEF cmd
  <2>2. QED
    BY <1>2, <2>1 DEF Offer
<1> HIDE DEF cmd
<1>4. CASE Accepted(cmd, clip)
  <2>1. Commit(cmd) /\ Rebuild
    BY <1>1, <1>4 DEF Submit
  <2>2. HistoryInv'
    BY <1>3, <1>4, <2>1, CommitKeeps
  <2>3. QED
    BY <2>1, <2>2, RebuildMakes
<1>5. CASE ~Accepted(cmd, clip)
  <2>1. /\ gesture' = NoGesture /\ working' = [working EXCEPT ![id] = fewer]
        /\ UNCHANGED <<clip, historyVars, usedIds, drawn, chainEdits, untold>>
    BY <1>1, <1>5 DEF Submit
  <2>2. HistoryInv'
    BY <2>1 DEF HistoryInv, historyVars
  <2>3. DragKept(working', gesture')
    BY <2>1 DEF DragKept
  <2>4. working \in [IdsOf(drawn) -> Seq(ParamValues)]
    BY DEF EditorsInv
  <2>5. fewer \in Seq(ParamValues)
    BY <1>1, <2>4, TakenOut
  <2> HIDE DEF fewer
  <2>6. /\ working' \in [IdsOf(drawn) -> Seq(ParamValues)] /\ working'[id] = fewer /\ DOMAIN working' = DOMAIN working
        /\ \A x \in DOMAIN working : x # id => working'[x] = working[x]
    BY <1>1, <2>1, <2>4, <2>5
  <2>7. ASSUME ~untold PROVE Undragged(id) = fewer
    <3>1. /\ Has(id, clip) /\ working[id] \in Seq(ParamValues)
          /\ IF gesture # NoGesture /\ gesture.effect = id /\ gesture.adding
             THEN Len(PointsOf(EffectOf(id, clip).params)) = Len(working[id]) - 1
             ELSE Len(PointsOf(EffectOf(id, clip).params)) = Len(working[id])
      BY <1>1, <2>7, ToldEditors
    <3>2. ~(index <= Len(PointsOf(EffectOf(id, clip).params)))
      BY <1>2, <1>5, <3>1 DEF Accepted
    <3>3. /\ gesture # NoGesture /\ gesture.effect = id /\ gesture.adding
          /\ index = Len(working[id])
      <4>1. index \in Nat /\ index <= Len(working[id]) /\ Len(working[id]) \in Nat
        BY <1>1, <3>1
      <4>2. QED
        BY <3>1, <3>2, <4>1
    <3>4. gesture.index = index
      BY <3>3 DEF EditorsInv, DragKept
    <3>5. QED
      BY <3>3, <3>4 DEF Undragged, fewer
  <2>8. ~untold => \A x \in DOMAIN working : Undragged(x)' = Undragged(x)
    BY <1>1, <2>1, <2>6, <2>7 DEF Undragged
  <2>9. EditorsAreCurrent
    BY DEF EditorsInv
  <2>10. EditorsAreCurrent'
    BY <2>1, <2>6, <2>8, <2>9 DEF EditorsAreCurrent
  <2>11. QED
    BY <2>1, <2>2, <2>3, <2>6, <2>10 DEF EditorsInv
<1>6. QED
  BY <1>4, <1>5

LEMMA MoveKeeps ==
  ASSUME HistoryInv, EditorsInv, NEW from, NEW to, MoveEffect(from, to)
  PROVE  HistoryInv' /\ EditorsInv'
<1> DEFINE effects == clip.effects
           n == Len(effects)
           at(i) == IF i = from THEN to ELSE IF i = to THEN from ELSE i
           order == [i \in 1..n |-> effects[at(i)].id]
           cmd == [kind |-> "ReorderEffects", order |-> order]
<1>1. /\ {from, to} \subseteq 1..n /\ UNCHANGED untold
      /\ Submit(cmd) /\ (~Accepted(cmd, clip) => UNCHANGED <<working, gesture>>)
  BY DEF MoveEffect
<1>2. effects \in Seq(Effects)
  BY DEF HistoryInv, Chain
<1>3. order \in Seq(EffectIds)
  <2>1. \A i \in 1..n : at(i) \in 1..n
    BY <1>1
  <2>2. n \in Nat /\ \A j \in 1..n : effects[j].id \in EffectIds
    <3>1. n \in Nat /\ \A j \in 1..n : effects[j] \in Effects
      BY <1>2
    <3>2. \A e \in Effects : e.id \in EffectIds
      BY DEF Effects
    <3>3. QED
      BY <3>1, <3>2
  <2> HIDE DEF n, at
  <2>3. \A i \in 1..n : effects[at(i)].id \in EffectIds
    BY <2>1, <2>2
  <2>4. QED
    BY <2>2, <2>3
<1>4. Offer(cmd, usedIds)
  <2> HIDE DEF order
  <2>1. cmd.kind = "ReorderEffects" /\ cmd.order = order
    OBVIOUS
  <2> HIDE DEF cmd
  <2>2. QED
    BY <1>3, <2>1 DEF Offer
<1> HIDE DEF cmd
<1>5. CASE Accepted(cmd, clip)
  <2>1. Commit(cmd) /\ Rebuild
    BY <1>1, <1>5 DEF Submit
  <2>2. HistoryInv'
    BY <1>4, <1>5, <2>1, CommitKeeps
  <2>3. QED
    BY <2>1, <2>2, RebuildMakes
<1>6. CASE ~Accepted(cmd, clip)
  <2>1. UNCHANGED <<clip, historyVars, usedIds, drawn, working, gesture, untold>>
    BY <1>1, <1>6 DEF Submit
  <2>2. QED
    BY <2>1 DEF HistoryInv, historyVars, EditorsInv, EditorsAreCurrent, Undragged
<1>7. QED
  BY <1>5, <1>6

LEMMA NewIsEffect ==
  ASSUME NEW id \in EffectIds, NEW name
  PROVE  NewEffect(id, name) \in Effects /\ NewEffect(id, name).id = id
<1> DEFINE params == [n \in ParamNames |-> IF n = name THEN 1 ELSE Unset]
           none == ""
<1>1. params \in [ParamNames -> ParamValues] /\ none \in Resources
  BY DEF ParamValues, Resources
<1>2. NewEffect(id, name) = [id |-> id, params |-> params, resource |-> none]
  BY Zenon DEF NewEffect
<1> HIDE DEF params, none
<1>3. QED
  BY <1>1, <1>2 DEF Effects

LEMMA NamedOffered ==
  ASSUME EffectsAssumption, NEW cmd \in NamedCommands
  PROVE  Offer(cmd, usedIds)
<1>1. MaxPoints \in Nat \ {0} /\ 1 \in ParamValues /\ 2 \in ParamValues /\ Unset \in ParamValues /\ ParamNames = 0..MaxPoints
      /\ 0 \in ParamNames /\ 1 \in ParamNames /\ Amount \in ParamNames
  BY EffectsAssumption DEF ParamValues, ParamNames, Slots, Amount
<1>2. ASSUME NEW id \in EffectIds \ usedIds, NEW name \in {Amount, 0},
             cmd = [kind |-> "AddEffect", effect |-> NewEffect(id, name)]
      PROVE  Offer(cmd, usedIds)
  <2>1. cmd.kind = "AddEffect" /\ cmd.effect = NewEffect(id, name)
    BY <1>2
  <2>2. QED
    BY <2>1, NewIsEffect DEF Offer
<1>3. ASSUME NEW id \in EffectIds, cmd = [kind |-> "RemoveEffect", id |-> id] PROVE Offer(cmd, usedIds)
  BY <1>3 DEF Offer
<1>4. ASSUME NEW id \in EffectIds, NEW name \in {Amount, 1},
             cmd = [kind |-> "SetEffectParameter", id |-> id, name |-> name, value |-> 2]
      PROVE  Offer(cmd, usedIds)
  BY <1>1, <1>4 DEF Offer
<1>5. ASSUME NEW id \in EffectIds, cmd = [kind |-> "SetEffectResource", id |-> id, path |-> "lut"]
      PROVE  Offer(cmd, usedIds)
  <2>1. "lut" \in Resources
    BY DEF Resources
  <2>2. QED
    BY <1>5, <2>1 DEF Offer
<1>6. ASSUME NEW property \in Properties, NEW keys \in {1, Unset},
             cmd = [kind |-> "SetKeyframes", property |-> property, keys |-> keys]
      PROVE  Offer(cmd, usedIds)
  BY <1>6 DEF Offer
<1>7. ASSUME NEW id \in EffectIds,
             cmd = [kind |-> "EditCurvePoint", id |-> id, op |-> "Remove", index |-> 1, value |-> Unset]
      PROVE  Offer(cmd, usedIds)
  BY <1>1, <1>7 DEF Offer
<1>8. \/ \E id \in EffectIds \ usedIds, name \in {Amount, 0} :
           cmd = [kind |-> "AddEffect", effect |-> NewEffect(id, name)]
      \/ \E id \in EffectIds : cmd = [kind |-> "RemoveEffect", id |-> id]
      \/ \E id \in EffectIds, name \in {Amount, 1} :
           cmd = [kind |-> "SetEffectParameter", id |-> id, name |-> name, value |-> 2]
      \/ \E id \in EffectIds : cmd = [kind |-> "SetEffectResource", id |-> id, path |-> "lut"]
      \/ \E property \in Properties, keys \in {1, Unset} :
           cmd = [kind |-> "SetKeyframes", property |-> property, keys |-> keys]
      \/ \E id \in EffectIds :
           cmd = [kind |-> "EditCurvePoint", id |-> id, op |-> "Remove", index |-> 1, value |-> Unset]
  BY DEF NamedCommands
<1>9. QED
  BY <1>2, <1>3, <1>4, <1>5, <1>6, <1>7, <1>8

-----------------------------------------------------------------------------------
LEMMA EffectsStart == ASSUME EffectsAssumption, EffectsInit PROVE HistoryInv /\ EditorsInv
<1> DEFINE first == CHOOSE id \in EffectIds : TRUE
           e == NewEffect(first, 0)
           one == <<e>>
<1>1. /\ clip = [effects |-> one, keyframes |-> <<>>] /\ usedIds = {first}
      /\ done = <<>> /\ undone = <<>> /\ shownBefore = <<>> /\ shownAfter = <<>>
      /\ drawn = clip.effects /\ working = EditorsOf(clip.effects) /\ gesture = NoGesture
  BY Zenon DEF EffectsInit
<1>2. first \in EffectIds
  BY EffectsAssumption
<1>3. e \in Effects /\ e.id = first
  BY <1>2, NewIsEffect
<1> HIDE DEF e, first
<1>4. one \in Seq(Effects) /\ Len(one) = 1 /\ one[1] = e
  BY <1>3
<1> HIDE DEF one
<1>5. Chain(clip, usedIds)
  <2>1. clip = [effects |-> clip.effects, keyframes |-> clip.keyframes] /\ clip.effects = one
    BY <1>1
  <2>2. \A i \in 1..Len(one) : i = 1
    BY <1>4
  <2>3. Distinct(one)
    BY <2>2 DEF Distinct
  <2>4. \A i \in 1..Len(one) : one[i].id \in usedIds
    BY <1>1, <1>3, <1>4, <2>2
  <2>5. QED
    BY <1>4, <2>1, <2>3, <2>4 DEF Chain
<1>6. HistoryInv
  BY <1>1, <1>2, <1>5, NoWalk DEF HistoryInv
<1>7. EditorsInv
  <2>1. /\ IdsOf(drawn) \subseteq EffectIds /\ working \in [IdsOf(drawn) -> Seq(ParamValues)]
        /\ \A id \in IdsOf(drawn) : working[id] = PointsOf(EffectOf(id, clip).params)
    BY <1>1, <1>5, FreshEditors
  <2>2. DragKept(working, gesture)
    BY <1>1 DEF DragKept
  <2>3. EditorsAreCurrent
    BY <1>1, <2>1 DEF EditorsAreCurrent, Undragged
  <2>4. QED
    BY <2>1, <2>2, <2>3 DEF EditorsInv
<1>8. QED
  BY <1>6, <1>7

LEMMA EffectsStep ==
  ASSUME EffectsAssumption, HistoryInv, EditorsInv, [EffectsNext]_effectVars
  PROVE  HistoryInv' /\ EditorsInv'
<1>1. CASE UNCHANGED effectVars
  BY <1>1 DEF effectVars, historyVars, controlVars, HistoryInv, EditorsInv, EditorsAreCurrent, Undragged
<1>2. CASE UserEdits
  <2>1. PICK cmd \in NamedCommands : Accepted(cmd, clip) /\ Commit(cmd)
    BY <1>2 DEF UserEdits
  <2>2. HistoryInv'
    BY <2>1, NamedOffered, CommitKeeps
  <2>3. QED
    BY <1>2, <2>2, RebuildMakes DEF UserEdits
<1>3. CASE UserWalks
  BY <1>3, UndoKeeps, RedoKeeps, RebuildMakes DEF UserWalks
<1>4. CASE EndpointEditsChain
  <2>1. HistoryInv'
    <3>1. CASE UndoEdit \/ RedoEdit
      BY <3>1, UndoKeeps, RedoKeeps
    <3>2. ASSUME NEW cmd \in NamedCommands, Accepted(cmd, clip), Commit(cmd) PROVE HistoryInv'
      BY <3>2, NamedOffered, CommitKeeps
    <3>3. QED
      BY <1>4, <3>1, <3>2 DEF EndpointEditsChain
  <2>2. untold' /\ UNCHANGED <<drawn, working, gesture>>
    BY <1>4 DEF EndpointEditsChain, controlVars
  <2>3. EditorsInv'
    BY <2>2 DEF EditorsInv, EditorsAreCurrent
  <2>4. QED
    BY <2>1, <2>3
<1>5. CASE InspectorIsTold
  <2>1. UNCHANGED <<clip, historyVars, usedIds>> /\ Rebuild
    BY <1>5 DEF InspectorIsTold
  <2>2. HistoryInv'
    BY <2>1 DEF HistoryInv, historyVars
  <2>3. QED
    BY <2>1, <2>2, RebuildMakes
<1>6. ASSUME NEW id \in EffectIds, NEW index \in 1..MaxPoints, PressPoint(id, index) \/ RemovePoint(id, index)
      PROVE  HistoryInv' /\ EditorsInv'
  <2>1. CASE PressPoint(id, index)
    <3>1. UNCHANGED <<clip, historyVars, usedIds>>
      BY <2>1 DEF PressPoint
    <3>2. QED
      BY <2>1, <3>1, PressPointKeeps DEF HistoryInv, historyVars
  <2>2. QED
    BY <1>6, <2>1, RemoveKeeps
<1>7. 2 \in ParamValues
  BY DEF ParamValues
<1>8. ASSUME NEW id \in EffectIds, PressEmpty(id, 2) PROVE HistoryInv' /\ EditorsInv'
  <2>1. UNCHANGED <<clip, historyVars, usedIds>>
    BY <1>8 DEF PressEmpty
  <2>2. QED
    BY <1>7, <1>8, <2>1, PressEmptyKeeps DEF HistoryInv, historyVars
<1>9. CASE DragPoint(2)
  <2>1. UNCHANGED <<clip, historyVars, usedIds>>
    BY <1>9 DEF DragPoint
  <2>2. QED
    BY <1>7, <1>9, <2>1, DragKeeps DEF HistoryInv, historyVars
<1>10. CASE ReleasePoint
  BY <1>10, ReleaseKeeps
<1>11. ASSUME NEW from, NEW to, MoveEffect(from, to) PROVE HistoryInv' /\ EditorsInv'
  BY <1>11, MoveKeeps
<1>12. QED
  BY <1>1, <1>2, <1>3, <1>4, <1>5, <1>6, <1>8, <1>9, <1>10, <1>11 DEF EffectsNext

LEMMA EffectsEnough == HistoryInv /\ EditorsInv => EffectsSound
BY HistoryEnough DEF EditorsInv, EffectsSound

(* Undo and redo of any edits lead back to exactly the clip that was shown, effects *)
(* keep identities of their own, and once told, every curve editor shows the points *)
(* of its effect, for any effects, points and number of edits of the user and the   *)
(* endpoint (EffectEditCommands.hpp, CurveEditorViewModel::setPoints).              *)
THEOREM EffectsAreSound == EffectsSpec => []EffectsSound
<1>1. EffectsInit => HistoryInv /\ EditorsInv
  BY EffectsAssumption, EffectsStart
<1>2. HistoryInv /\ EditorsInv /\ [EffectsNext]_effectVars => (HistoryInv /\ EditorsInv)'
  BY EffectsAssumption, EffectsStep
<1>3. HistoryInv /\ EditorsInv => EffectsSound
  BY EffectsEnough
<1>4. QED
  BY <1>1, <1>2, <1>3, PTL DEF EffectsSpec

-----------------------------------------------------------------------------------
(* The agent chat. *)

Roles == {"user", "agent", "system"}
Entries == [role : Roles, message : Messages]

ChatRecords ==
  /\ line \in Messages /\ draft \in Messages /\ pending \subseteq Messages
  /\ transcript \in Seq(Entries) /\ applied \in Seq(Messages)
  /\ turn = [at |-> turn.at, message |-> turn.message, target |-> turn.target, error |-> turn.error]
  /\ turn.message \in Messages
  /\ touches = [count |-> touches.count, within |-> touches.within]

(* Until the answer, the text of the turn is in the line and in the draft, and with *)
(* the orchestrator if it was refused.                                             *)
Asking == {"resolve", "interpret", "execute"}

TurnKept ==
  /\ turn.at \in Asking \cup {"classify"} => line = turn.message /\ draft = turn.message
  /\ turn.at \in Asking => turn.error = "none"
  /\ turn.at = "classify" /\ turn.error = "Unauthenticated" =>
       pending = {turn.message} /\ Last(transcript).role = "system"

(* A message is submitted only with its mention resolved, and nothing but the       *)
(* endpoint changes what it resolves to before the answer.                          *)
MentionKept ==
  /\ turn.at \in {"interpret", "execute"} /\ ~touches.within => Resolution(turn.message) = "resolved"
  /\ turn.at = "classify" /\ ~touches.within /\ turn.error \in {"NotFound", "FailedPrecondition"}
       /\ Resolution(turn.message) # "resolved" => NotSubmitted

EndsWell == transcript # <<>> => Last(transcript).role # "user"

ChatInv ==
  /\ ChatRecords /\ TranscriptTells /\ EndsWell
  /\ TurnKept /\ MentionKept /\ RefusedTextIsKept /\ MentionAnswersAreHonest

-----------------------------------------------------------------------------------
(* What a further entry does to what the transcript tells.                         *)
LEMMA Rows ==
  ASSUME NEW s \in Seq(Entries)
  PROVE  /\ AgentRows(s) \subseteq 1..Len(s) /\ IsFiniteSet(AgentRows(s))
         /\ \A i \in AgentRows(s) : /\ Cardinality({j \in AgentRows(s) : j <= i}) \in Nat \ {0}
                                    /\ Cardinality({j \in AgentRows(s) : j <= i}) <= Cardinality(AgentRows(s))
         /\ Cardinality(AgentRows(s)) \in Nat
<1> DEFINE R == AgentRows(s)
<1>1. R \subseteq 1..Len(s) /\ IsFiniteSet(1..Len(s))
  <2>1. Len(s) \in Nat /\ DOMAIN s = 1..Len(s)
    OBVIOUS
  <2>2. QED
    BY <2>1, FS_Interval DEF AgentRows
<1>2. IsFiniteSet(R)
  BY <1>1, FS_Subset
<1> HIDE DEF R
<1>3. ASSUME NEW i \in R
      PROVE  /\ Cardinality({j \in R : j <= i}) \in Nat \ {0}
             /\ Cardinality({j \in R : j <= i}) <= Cardinality(R)
  <2> DEFINE T == {j \in R : j <= i}
  <2>1. i \in Nat
    BY <1>1
  <2>2. T \subseteq R /\ i \in T
    BY <2>1
  <2> HIDE DEF T
  <2>3. IsFiniteSet(T) /\ Cardinality(T) <= Cardinality(R)
    BY <1>2, <2>2, FS_Subset
  <2>4. Cardinality(T) \in Nat /\ Cardinality(T) # 0
    BY <2>2, <2>3, FS_CardinalityType, FS_EmptySet
  <2>5. QED
    BY <2>3, <2>4 DEF T
<1>4. Cardinality(R) \in Nat
  BY <1>2, FS_CardinalityType
<1>5. QED
  BY <1>1, <1>2, <1>3, <1>4 DEF R

LEMMA TellsOther ==
  ASSUME NEW s \in Seq(Entries), NEW a, Tells(s, a), NEW e \in Entries, e.role # "agent"
  PROVE  Tells(Append(s, e), a)
<1> DEFINE t == Append(s, e)
           n == Len(s)
<1>1. /\ n \in Nat /\ DOMAIN s = 1..n /\ DOMAIN t = 1..n + 1
      /\ (\A i \in 1..n : t[i] = s[i]) /\ t[n + 1] = e
  OBVIOUS
<1> HIDE DEF t, n
<1>2. \A i \in 1..n + 1 : i \in 1..n \/ i = n + 1
  BY <1>1
<1>3. \A i \in 1..n : i \in 1..n + 1
  BY <1>1
<1>4. AgentRows(t) = AgentRows(s)
  BY <1>1, <1>2, <1>3 DEF AgentRows
<1>5. ASSUME NEW i \in AgentRows(s) PROVE t[i] = s[i] /\ (i > 1 => t[i - 1] = s[i - 1])
  <2>1. i \in 1..n /\ (i > 1 => i - 1 \in 1..n)
    BY <1>1 DEF AgentRows
  <2>2. QED
    BY <1>1, <2>1
<1>6. QED
  BY <1>4, <1>5 DEF Tells, t

LEMMA TellsAgent ==
  ASSUME NEW s \in Seq(Entries), NEW a \in Seq(Messages), Tells(s, a), NEW m \in Messages,
         s # <<>>, s[Len(s)] = Entry("user", m)
  PROVE  Tells(Append(s, Entry("agent", m)), Append(a, m))
<1> DEFINE e == Entry("agent", m)
           t == Append(s, e)
           b == Append(a, m)
           n == Len(s)
           R == AgentRows(s)
           upto(i) == Cardinality({j \in R : j <= i})
<1>1. /\ n \in Nat /\ n # 0 /\ DOMAIN s = 1..n /\ DOMAIN t = 1..n + 1
      /\ (\A i \in 1..n : t[i] = s[i]) /\ t[n + 1] = e
  <2>1. e \in Entries
    BY DEF Entry, Entries, Roles
  <2> HIDE DEF e
  <2>2. QED
    BY <2>1
<1>2. /\ Len(a) \in Nat /\ Len(b) = Len(a) + 1 /\ (\A i \in 1..Len(a) : b[i] = a[i]) /\ b[Len(a) + 1] = m
  OBVIOUS
<1>3. e.role = "agent" /\ e.message = m
  BY DEF Entry
<1>4. /\ Len(a) = Cardinality(R)
      /\ \A i \in R : s[i].message = a[upto(i)] /\ i > 1 /\ s[i - 1] = Entry("user", s[i].message)
  BY DEF Tells
<1>5. /\ R \subseteq 1..n /\ IsFiniteSet(R)
      /\ \A i \in R : upto(i) \in Nat \ {0} /\ upto(i) <= Cardinality(R)
  BY Rows
<1>6. AgentRows(t) = R \cup {n + 1}
  <2> HIDE DEF t, n, e
  <2>1. \A i \in 1..n + 1 : i \in 1..n \/ i = n + 1
    BY <1>1
  <2>2. (\A i \in 1..n : i \in 1..n + 1) /\ n + 1 \in 1..n + 1
    BY <1>1
  <2>3. QED
    BY <1>1, <1>3, <2>1, <2>2 DEF AgentRows
<1> HIDE DEF t, n, e, b
<1>7. n + 1 \notin R /\ \A i \in R : i \in Nat /\ i < n + 1
  BY <1>1, <1>5
<1> HIDE DEF R
<1>8. Cardinality(R \cup {n + 1}) = Cardinality(R) + 1
  BY <1>5, <1>7, FS_AddElement
<1>9. \A i \in R : {j \in R \cup {n + 1} : j <= i} = {j \in R : j <= i}
  BY <1>1, <1>7
<1>10. {j \in R \cup {n + 1} : j <= n + 1} = R \cup {n + 1}
  BY <1>1, <1>7
<1>11. ASSUME NEW i \in R
       PROVE  /\ t[i].message = b[Cardinality({j \in R \cup {n + 1} : j <= i})]
              /\ i > 1 /\ t[i - 1] = Entry("user", t[i].message)
  <2>1. i \in 1..n /\ i > 1 /\ i - 1 \in 1..n
    <3>1. i \in 1..n /\ i > 1
      BY <1>4, <1>5
    <3>2. QED
      BY <1>1, <3>1
  <2>2. upto(i) \in 1..Len(a)
    <3> HIDE DEF upto
    <3> QED
      BY <1>2, <1>4, <1>5
  <2>3. Cardinality({j \in R \cup {n + 1} : j <= i}) = upto(i)
    BY <1>9
  <2> HIDE DEF upto
  <2>4. QED
    BY <1>1, <1>2, <1>4, <2>1, <2>2, <2>3
<1>12. /\ t[n + 1].message = b[Cardinality({j \in R \cup {n + 1} : j <= n + 1})]
       /\ n + 1 > 1 /\ t[(n + 1) - 1] = Entry("user", t[n + 1].message)
  <2>1. n + 1 > 1 /\ (n + 1) - 1 = n /\ n \in 1..n
    BY <1>1
  <2>2. s[n] = Entry("user", m)
    BY DEF n
  <2>3. Cardinality({j \in R \cup {n + 1} : j <= n + 1}) = Len(a) + 1
    BY <1>4, <1>8, <1>10
  <2>4. QED
    BY <1>1, <1>2, <1>3, <2>1, <2>2, <2>3
<1>13. QED
  BY <1>2, <1>4, <1>6, <1>8, <1>11, <1>12 DEF Tells, t, b, e

LEMMA TwoRows ==
  ASSUME NEW s \in Seq(Entries), NEW x \in Entries, NEW y \in Entries
  PROVE  /\ s \o <<x, y>> = Append(Append(s, x), y) /\ s \o <<x, y>> \in Seq(Entries)
         /\ s \o <<x, y>> # <<>> /\ Last(s \o <<x, y>>) = y
         /\ Append(s, x) \in Seq(Entries) /\ Append(s, x) # <<>> /\ Append(s, x)[Len(Append(s, x))] = x
<1> DEFINE t == Append(s, x)
           u == Append(t, y)
           n == Len(s)
           two == <<x, y>>
           v == s \o two
<1>1. /\ n \in Nat /\ t \in Seq(Entries) /\ Len(t) = n + 1 /\ (\A i \in 1..n : t[i] = s[i]) /\ t[n + 1] = x
  OBVIOUS
<1>2. two \in Seq(Entries) /\ Len(two) = 2 /\ two[1] = x /\ two[2] = y
  OBVIOUS
<1> HIDE DEF t, n, two
<1>3. /\ u \in Seq(Entries) /\ Len(u) = n + 2 /\ (\A i \in 1..n + 1 : u[i] = t[i]) /\ u[n + 2] = y
  <2>1. /\ u \in Seq(Entries) /\ Len(u) = Len(t) + 1 /\ (\A i \in 1..Len(t) : u[i] = t[i]) /\ u[Len(t) + 1] = y
    BY <1>1
  <2>2. Len(t) + 1 = n + 2
    BY <1>1
  <2> HIDE DEF u
  <2>3. QED
    BY <1>1, <2>1, <2>2
<1>4. /\ v \in Seq(Entries) /\ Len(v) = n + 2
      /\ \A i \in 1..n + 2 : v[i] = IF i <= n THEN s[i] ELSE two[i - n]
  <2>1. /\ v \in Seq(Entries) /\ Len(v) = Len(s) + Len(two)
        /\ \A i \in 1..Len(s) + Len(two) : v[i] = IF i <= Len(s) THEN s[i] ELSE two[i - Len(s)]
    BY <1>2, ConcatProperties
  <2>2. Len(s) + Len(two) = n + 2
    BY <1>1, <1>2 DEF n
  <2> HIDE DEF v
  <2>3. QED
    BY <2>1, <2>2 DEF n
<1> HIDE DEF u, v
<1>5. ASSUME NEW i \in 1..n + 2 PROVE v[i] = u[i]
  <2>1. CASE i \in 1..n
    <3>1. i <= n /\ i \in 1..n + 1
      BY <1>1, <2>1
    <3>2. QED
      BY <1>1, <1>3, <1>4, <2>1, <3>1
  <2>2. CASE i = n + 1
    <3>1. ~(i <= n) /\ i - n = 1 /\ i \in 1..n + 1
      BY <1>1, <2>2
    <3>2. QED
      BY <1>1, <1>2, <1>3, <1>4, <2>2, <3>1
  <2>3. CASE i = n + 2
    <3>1. ~(i <= n) /\ i - n = 2
      BY <1>1, <2>3
    <3>2. QED
      BY <1>2, <1>3, <1>4, <2>3, <3>1
  <2>4. QED
    BY <1>1, <2>1, <2>2, <2>3
<1>6. v = u
  BY <1>3, <1>4, <1>5, SeqEqual
<1>7. u # <<>> /\ Last(u) = y
  BY <1>1, <1>3 DEF Last
<1>8. t # <<>> /\ t[Len(t)] = x
  BY <1>1
<1>9. QED
  BY <1>1, <1>3, <1>6, <1>7, <1>8 DEF u, v, t, two

LEMMA ChatTypes ==
  /\ Blank \in Messages
  /\ \A m \in Messages : Entry("user", m) \in Entries /\ Entry("system", m) \in Entries /\ Entry("agent", m) \in Entries
  /\ \A role, m : Entry(role, m).role = role /\ Entry(role, m).message = m
<1>1. Blank \in Messages
  BY DEF Blank, Messages
<1>2. QED
  BY <1>1 DEF Entry, Entries, Roles

-----------------------------------------------------------------------------------
(* One entry of the system, or the user's with an answer.                          *)
LEMMA SystemRow ==
  ASSUME ChatRecords, TranscriptTells, EndsWell, NEW m \in Messages,
         transcript' = Append(transcript, Entry("system", m)), applied' = applied
  PROVE  transcript' \in Seq(Entries) /\ TranscriptTells' /\ EndsWell' /\ NotSubmitted'
<1> DEFINE e == Entry("system", m)
           n == Len(transcript)
<1>1. e \in Entries /\ e.role = "system" /\ transcript \in Seq(Entries)
  BY ChatTypes DEF ChatRecords
<1> HIDE DEF e
<1>2. transcript' = Append(transcript, e)
  BY DEF e
<1>3. Tells(transcript', applied')
  BY <1>1, <1>2, TellsOther DEF TranscriptTells
<1>4. /\ n \in Nat /\ transcript' \in Seq(Entries) /\ Len(transcript') = n + 1
      /\ (\A i \in 1..n : transcript'[i] = transcript[i]) /\ transcript'[n + 1] = e
  BY <1>1, <1>2
<1>5. Last(transcript') = e
  BY <1>4 DEF Last
<1>6. Len(transcript') > 1 => transcript'[Len(transcript') - 1].role # "user"
  <2>1. SUFFICES ASSUME Len(transcript') > 1 PROVE transcript'[Len(transcript') - 1].role # "user"
    OBVIOUS
  <2>2. n \in 1..n /\ Len(transcript') - 1 = n
    BY <1>4, <2>1
  <2>3. transcript # <<>>
    <3>1. Len(<<>>) = 0
      OBVIOUS
    <3>2. QED
      BY <2>2, <3>1
  <2>4. transcript[n].role # "user"
    BY <2>3 DEF EndsWell, Last
  <2> HIDE DEF n
  <2>5. QED
    BY <1>4, <2>2, <2>4
<1>7. QED
  BY <1>1, <1>3, <1>4, <1>5, <1>6 DEF TranscriptTells, EndsWell, NotSubmitted

LEMMA AnswerRows ==
  ASSUME ChatRecords, TranscriptTells, NEW m \in Messages,
         \/ /\ transcript' = transcript \o <<Entry("user", m), Entry("system", m)>>
            /\ applied' = applied
         \/ /\ transcript' = transcript \o <<Entry("user", m), Entry("agent", m)>>
            /\ applied' = Append(applied, m)
  PROVE  transcript' \in Seq(Entries) /\ applied' \in Seq(Messages) /\ TranscriptTells' /\ EndsWell'
<1> DEFINE u == Entry("user", m)
           s == Entry("system", m)
           a == Entry("agent", m)
<1>1. /\ u \in Entries /\ s \in Entries /\ a \in Entries /\ u.role = "user" /\ s.role = "system" /\ a.role = "agent"
      /\ transcript \in Seq(Entries) /\ applied \in Seq(Messages)
  BY ChatTypes DEF ChatRecords
<1>2. /\ Append(transcript, u) \in Seq(Entries) /\ Append(transcript, u) # <<>>
      /\ Append(transcript, u)[Len(Append(transcript, u))] = u
  BY <1>1, TwoRows
<1>3. Tells(Append(transcript, u), applied)
  BY <1>1, TellsOther DEF TranscriptTells
<1>4. CASE transcript' = transcript \o <<u, s>> /\ applied' = applied
  <2>1. /\ transcript' = Append(Append(transcript, u), s) /\ transcript' \in Seq(Entries)
        /\ transcript' # <<>> /\ Last(transcript') = s
    BY <1>1, <1>4, TwoRows
  <2>2. Tells(Append(Append(transcript, u), s), applied)
    <3> HIDE DEF u, s
    <3> QED
      BY <1>1, <1>2, <1>3, TellsOther
  <2>3. QED
    BY <1>1, <1>4, <2>1, <2>2 DEF TranscriptTells, EndsWell
<1>5. CASE transcript' = transcript \o <<u, a>> /\ applied' = Append(applied, m)
  <2>1. /\ transcript' = Append(Append(transcript, u), a) /\ transcript' \in Seq(Entries)
        /\ transcript' # <<>> /\ Last(transcript') = a
    <3> HIDE DEF u, a
    <3> QED
      BY <1>1, <1>5, TwoRows
  <2>2. Tells(Append(Append(transcript, u), a), Append(applied, m))
    BY <1>1, <1>2, <1>3, TellsAgent
  <2>3. applied' \in Seq(Messages)
    BY <1>1, <1>5
  <2>4. QED
    BY <1>1, <1>5, <2>1, <2>2, <2>3 DEF TranscriptTells, EndsWell
<1>6. QED
  BY <1>4, <1>5

-----------------------------------------------------------------------------------
LEMMA ChatStart == ASSUME ChatInit PROVE ChatInv
<1>1. /\ line = Blank /\ draft = Blank /\ pending = {} /\ transcript = <<>> /\ turn = NoTurn
      /\ shown = "nothing" /\ applied = <<>> /\ touches = [count |-> 0, within |-> FALSE]
  BY DEF ChatInit
<1>2. <<>> \in Seq(Entries) /\ <<>> \in Seq(Messages) /\ Len(<<>>) = 0 /\ DOMAIN <<>> = {}
  OBVIOUS
<1>3. turn.at = "idle" /\ turn.message = Blank
  BY <1>1 DEF NoTurn
<1>4. ChatRecords
  BY <1>1, <1>2, <1>3, ChatTypes DEF ChatRecords, NoTurn
<1>5. TranscriptTells
  <2>1. AgentRows(<<>>) = {}
    BY <1>2 DEF AgentRows
  <2>2. QED
    BY <1>1, <1>2, <2>1, FS_EmptySet DEF TranscriptTells, Tells
<1>6. QED
  BY <1>1, <1>3, <1>4, <1>5 DEF ChatInv, EndsWell, TurnKept, Asking, MentionKept, RefusedTextIsKept, MentionAnswersAreHonest

(* Between turns, what the user types changes nothing that was said.               *)
LEMMA RestKeeps ==
  ASSUME ChatInv, turn = NoTurn, Type \/ SignInOrOut \/ RefreshPanel
  PROVE  ChatInv'
<1>1. UNCHANGED <<draft, pending, transcript, turn, shown, applied, touches>> /\ line' \in Messages
  BY DEF Type, SignInOrOut, RefreshPanel, ChatInv, ChatRecords
<1>2. turn.at = "idle" /\ turn'.at = "idle"
  BY <1>1 DEF NoTurn
<1>3. QED
  BY <1>1, <1>2 DEF ChatInv, ChatRecords, TranscriptTells, EndsWell, TurnKept, Asking, MentionKept,
                    RefusedTextIsKept, MentionAnswersAreHonest

LEMMA SendKeeps == ASSUME ChatInv, SendDraft PROVE ChatInv'
<1>1. /\ draft' = line /\ touches' = [touches EXCEPT !.within = FALSE]
      /\ UNCHANGED <<line, shown, applied>> /\ line \in Messages
  BY DEF SendDraft, ChatInv, ChatRecords
<1>2. touches' = [count |-> touches'.count, within |-> touches'.within]
  BY <1>1 DEF ChatInv, ChatRecords
<1>3. CASE authorised
  <2>1. /\ turn' = [at |-> "resolve", message |-> line, target |-> 0, error |-> "none"]
        /\ UNCHANGED <<pending, transcript>>
    BY <1>3 DEF SendDraft
  <2>2. turn'.at = "resolve" /\ turn'.message = line /\ turn'.error = "none"
        /\ turn' = [at |-> turn'.at, message |-> turn'.message, target |-> turn'.target, error |-> turn'.error]
    BY <2>1
  <2>3. QED
    BY <1>1, <1>2, <2>1, <2>2 DEF ChatInv, ChatRecords, TranscriptTells, EndsWell, TurnKept, Asking, MentionKept,
                    RefusedTextIsKept, MentionAnswersAreHonest
<1>4. CASE ~authorised
  <2>1. /\ turn' = [at |-> "classify", message |-> line, target |-> 0, error |-> "Unauthenticated"]
        /\ pending' = {line} /\ transcript' = Append(transcript, Entry("system", line))
    BY <1>4 DEF SendDraft, Kept
  <2>2. turn'.at = "classify" /\ turn'.message = line /\ turn'.error = "Unauthenticated"
        /\ turn' = [at |-> turn'.at, message |-> turn'.message, target |-> turn'.target, error |-> turn'.error]
    BY <2>1
  <2>3. transcript' \in Seq(Entries) /\ TranscriptTells' /\ EndsWell' /\ NotSubmitted'
    BY <1>1, <2>1, SystemRow DEF ChatInv
  <2>4. ChatRecords'
    BY <1>1, <1>2, <2>1, <2>2, <2>3 DEF ChatInv, ChatRecords
  <2>5. QED
    BY <1>1, <2>1, <2>2, <2>3, <2>4 DEF ChatInv, TurnKept, Asking, MentionKept,
                    RefusedTextIsKept, MentionAnswersAreHonest, NotSubmitted
<1>5. QED
  BY <1>3, <1>4

LEMMA ResolveKeeps == ASSUME ChatInv, ResolveMentions PROVE ChatInv'
<1>1. /\ turn.at = "resolve" /\ turn.error = "none" /\ turn.message \in Messages
      /\ line = turn.message /\ draft = turn.message
      /\ UNCHANGED <<line, draft, pending, shown, mediaLibrary, applied, touches>>
      /\ turn = [at |-> turn.at, message |-> turn.message, target |-> turn.target, error |-> turn.error]
  BY DEF ResolveMentions, ChatInv, TurnKept, Asking, ChatRecords, projectVars
<1>3. CASE Resolution(turn.message) = "resolved"
  <2>1. turn' = [turn EXCEPT !.at = "interpret"] /\ UNCHANGED transcript
    BY <1>3 DEF ResolveMentions
  <2>2. /\ turn'.at = "interpret" /\ turn'.message = turn.message /\ turn'.error = "none"
        /\ turn' = [at |-> turn'.at, message |-> turn'.message, target |-> turn'.target, error |-> turn'.error]
    BY <1>1, <2>1
  <2>3. Resolution(turn.message)' = "resolved"
    BY <1>1, <1>3, <2>2 DEF Resolution
  <2>4. QED
    BY <1>1, <2>1, <2>2, <2>3 DEF ChatInv, ChatRecords, TranscriptTells, EndsWell, TurnKept, Asking, MentionKept,
                    RefusedTextIsKept, MentionAnswersAreHonest
<1>4. CASE Resolution(turn.message) # "resolved"
  <2>1. /\ transcript' = Append(transcript, Entry("system", turn.message))
        /\ turn' = [turn EXCEPT !.at = "classify",
                      !.error = IF Resolution(turn.message) = "unmatched" THEN "NotFound" ELSE "FailedPrecondition"]
    BY <1>4 DEF ResolveMentions
  <2>2. /\ turn'.at = "classify" /\ turn'.message = turn.message /\ turn'.error # "Unauthenticated"
        /\ turn' = [at |-> turn'.at, message |-> turn'.message, target |-> turn'.target, error |-> turn'.error]
    BY <1>1, <2>1
  <2>3. transcript' \in Seq(Entries) /\ TranscriptTells' /\ EndsWell' /\ NotSubmitted'
    BY <1>1, <2>1, SystemRow DEF ChatInv
  <2>4. QED
    BY <1>1, <2>2, <2>3 DEF ChatInv, ChatRecords, TurnKept, Asking, MentionKept,
                    RefusedTextIsKept, MentionAnswersAreHonest
<1>5. QED
  BY <1>3, <1>4

LEMMA InterpretKeeps == ASSUME ChatInv, Interpret PROVE ChatInv'
<1> DEFINE e == Interpretation(turn.message)
<1>1. /\ turn.at = "interpret" /\ turn.error = "none" /\ turn.message \in Messages
      /\ line = turn.message /\ draft = turn.message
      /\ UNCHANGED <<line, draft, pending, shown, mediaLibrary, applied, touches>>
      /\ turn = [at |-> turn.at, message |-> turn.message, target |-> turn.target, error |-> turn.error]
  BY DEF Interpret, ChatInv, TurnKept, Asking, ChatRecords, projectVars
<1>2. ~touches.within => Resolution(turn.message) = "resolved"
  BY <1>1 DEF ChatInv, MentionKept
<1>3. turn'.message = turn.message => Resolution(turn.message)' = Resolution(turn.message)
  BY <1>1 DEF Resolution
<1>4. e # "Unauthenticated"
  BY DEF Interpretation
<1>5. CASE e = "none"
  <2>1. /\ UNCHANGED transcript
        /\ \E t : turn' = [turn EXCEPT !.at = "execute", !.target = t]
    BY <1>5 DEF Interpret
  <2>2. /\ turn'.at = "execute" /\ turn'.message = turn.message /\ turn'.error = "none"
        /\ turn' = [at |-> turn'.at, message |-> turn'.message, target |-> turn'.target, error |-> turn'.error]
    BY <1>1, <2>1
  <2>3. QED
    BY <1>1, <1>2, <1>3, <2>1, <2>2 DEF ChatInv, ChatRecords, TranscriptTells, EndsWell, TurnKept, Asking, MentionKept,
                    RefusedTextIsKept, MentionAnswersAreHonest
<1>6. CASE e # "none"
  <2>1. /\ transcript' = transcript \o <<Entry("user", turn.message), Entry("system", turn.message)>>
        /\ turn' = [turn EXCEPT !.at = "classify", !.error = e]
    BY <1>6 DEF Interpret
  <2> HIDE DEF e
  <2>2. /\ turn'.at = "classify" /\ turn'.message = turn.message /\ turn'.error = e
        /\ turn' = [at |-> turn'.at, message |-> turn'.message, target |-> turn'.target, error |-> turn'.error]
    BY <1>1, <2>1
  <2>3. transcript' \in Seq(Entries) /\ applied' \in Seq(Messages) /\ TranscriptTells' /\ EndsWell'
    BY <1>1, <2>1, AnswerRows DEF ChatInv
  <2>4. QED
    BY <1>1, <1>2, <1>3, <1>4, <2>2, <2>3 DEF ChatInv, ChatRecords, TurnKept, Asking, MentionKept,
                    RefusedTextIsKept, MentionAnswersAreHonest
<1>7. QED
  BY <1>5, <1>6

(* A tool either succeeds, and the answer is the agent's, or fails and changes       *)
(* nothing of the project.                                                           *)
LEMMA ExecuteKeeps == ASSUME ChatInv, ExecuteIntent PROVE ChatInv'
<1>1. /\ turn.at = "execute" /\ turn.error = "none" /\ turn.message \in Messages
      /\ line = turn.message /\ draft = turn.message
      /\ UNCHANGED <<line, draft, shown, touches>>
      /\ turn = [at |-> turn.at, message |-> turn.message, target |-> turn.target, error |-> turn.error]
  BY DEF ExecuteIntent, ChatInv, TurnKept, Asking, ChatRecords
<1>2. ~touches.within => Resolution(turn.message) = "resolved"
  BY <1>1 DEF ChatInv, MentionKept
<1>3. Succeeds(TRUE) \/ \E error \in {"NotFound", "Timeout", "FailedPrecondition"} : Fails(error)
  <2>1. CASE MuteTrack
    BY <2>1 DEF MuteTrack, Succeeds
  <2>2. CASE AddTrack
    BY <2>2 DEF AddTrack, Succeeds
  <2>3. CASE ImportFile
    BY <2>3 DEF ImportFile, Succeeds
  <2>4. CASE SaveProject
    BY <2>4 DEF SaveProject, Succeeds
  <2>5. QED
    BY <2>4, <2>3, <2>2, <2>1 DEF ExecuteIntent
<1>4. CASE Succeeds(TRUE)
  <2>1. /\ transcript' = transcript \o <<Entry("user", turn.message), Entry("agent", turn.message)>>
        /\ applied' = Append(applied, turn.message) /\ pending' = {}
        /\ turn' = [turn EXCEPT !.at = "classify"]
    BY <1>4 DEF Succeeds
  <2>2. /\ turn'.at = "classify" /\ turn'.message = turn.message /\ turn'.error = "none"
        /\ turn' = [at |-> turn'.at, message |-> turn'.message, target |-> turn'.target, error |-> turn'.error]
    BY <1>1, <2>1
  <2>3. transcript' \in Seq(Entries) /\ applied' \in Seq(Messages) /\ TranscriptTells' /\ EndsWell'
    BY <1>1, <2>1, AnswerRows DEF ChatInv
  <2>4. pending' = {}
    BY <2>1
  <2>5. QED
    BY <1>1, <2>2, <2>3, <2>4 DEF ChatInv, ChatRecords, TurnKept, Asking, MentionKept,
                    RefusedTextIsKept, MentionAnswersAreHonest
<1>5. ASSUME NEW error \in {"NotFound", "Timeout", "FailedPrecondition"}, Fails(error)
      PROVE  ChatInv'
  <2>1. /\ transcript' = transcript \o <<Entry("user", turn.message), Entry("system", turn.message)>>
        /\ turn' = [turn EXCEPT !.at = "classify", !.error = error]
        /\ UNCHANGED <<mediaLibrary, applied, pending>>
    BY <1>5 DEF Fails, projectVars
  <2>2. /\ turn'.at = "classify" /\ turn'.message = turn.message /\ turn'.error # "Unauthenticated"
        /\ turn' = [at |-> turn'.at, message |-> turn'.message, target |-> turn'.target, error |-> turn'.error]
    BY <1>1, <2>1
  <2>3. transcript' \in Seq(Entries) /\ applied' \in Seq(Messages) /\ TranscriptTells' /\ EndsWell'
    BY <1>1, <2>1, AnswerRows DEF ChatInv
  <2>4. ~touches'.within => Resolution(turn.message)' = "resolved"
    BY <1>1, <1>2, <2>1, <2>2 DEF Resolution
  <2>5. pending' = pending
    BY <2>1
  <2>6. QED
    BY <1>1, <2>2, <2>3, <2>4, <2>5 DEF ChatInv, ChatRecords, TurnKept, Asking, MentionKept,
                    RefusedTextIsKept, MentionAnswersAreHonest
<1>6. QED
  BY <1>3, <1>4, <1>5

LEMMA AnswerKeeps == ASSUME ChatInv, ClassifyAnswer PROVE ChatInv'
<1> DEFINE status == Classified(turn.error, turn.message)
<1>1. /\ turn.at = "classify" /\ turn.message \in Messages /\ line = turn.message /\ draft = turn.message
      /\ UNCHANGED <<pending, transcript, applied, touches>>
      /\ turn = [at |-> turn.at, message |-> turn.message, target |-> turn.target, error |-> turn.error]
      /\ pending \subseteq Messages
  BY DEF ClassifyAnswer, ChatInv, TurnKept, ChatRecords
<1>2. /\ turn' = [turn EXCEPT !.at = "answered"] /\ shown' = status
      /\ draft' = IF status = "AuthenticationRequired" THEN draft ELSE Blank
      /\ \/ status = "Applied" /\ line' = Blank
         \/ status = "AuthenticationRequired" /\ line' \in pending
         \/ status \notin {"Applied", "AuthenticationRequired"} /\ line' = line
  BY DEF ClassifyAnswer
<1>3. /\ turn'.at = "answered" /\ turn'.message = turn.message
      /\ turn' = [at |-> turn'.at, message |-> turn'.message, target |-> turn'.target, error |-> turn'.error]
  BY <1>1, <1>2
<1>4. status = "AuthenticationRequired" => turn.error = "Unauthenticated"
  BY DEF Classified
<1>5. status \in {"MentionNotFound", "MentionAmbiguous"} =>
        turn.error \in {"NotFound", "FailedPrecondition"} /\ Resolution(turn.message) # "resolved"
  BY DEF Classified
<1> HIDE DEF status
<1>6. line' \in Messages /\ draft' \in Messages
  BY <1>1, <1>2, ChatTypes
<1>7. ChatRecords'
  BY <1>1, <1>3, <1>6 DEF ChatInv, ChatRecords
<1>8. RefusedTextIsKept'
  <2>1. CASE status = "AuthenticationRequired"
    <3>1. pending = {turn.message} /\ Last(transcript).role = "system"
      BY <1>1, <1>4, <2>1 DEF ChatInv, TurnKept
    <3>2. line' = turn.message /\ draft' = turn.message
      BY <1>1, <1>2, <2>1, <3>1
    <3>3. QED
      BY <1>1, <1>3, <3>1, <3>2 DEF RefusedTextIsKept
  <2>2. CASE status # "AuthenticationRequired"
    BY <1>2, <2>2 DEF RefusedTextIsKept
  <2>3. QED
    BY <2>1, <2>2
<1>9. MentionAnswersAreHonest'
  <2>1. SUFFICES ASSUME ~touches.within, status \in {"MentionNotFound", "MentionAmbiguous"}
                 PROVE  NotSubmitted'
    BY <1>1, <1>2 DEF MentionAnswersAreHonest
  <2>2. NotSubmitted
    BY <1>1, <1>5, <2>1 DEF ChatInv, MentionKept
  <2>3. QED
    BY <1>1, <2>2 DEF NotSubmitted
<1>10. TranscriptTells' /\ EndsWell'
  BY <1>1 DEF ChatInv, TranscriptTells, EndsWell
<1>11. QED
  BY <1>3, <1>7, <1>8, <1>9, <1>10 DEF ChatInv, TurnKept, Asking, MentionKept

LEMMA OverKeeps == ASSUME ChatInv, TurnOver PROVE ChatInv'
<1>1. UNCHANGED <<line, draft, pending, transcript, shown, applied, touches>> /\ turn' = NoTurn
  BY DEF TurnOver
<1>2. /\ turn'.at = "idle" /\ turn'.message = Blank
      /\ turn' = [at |-> turn'.at, message |-> turn'.message, target |-> turn'.target, error |-> turn'.error]
  BY <1>1 DEF NoTurn
<1>3. QED
  BY <1>1, <1>2, ChatTypes DEF ChatInv, ChatRecords, TranscriptTells, EndsWell, TurnKept, Asking, MentionKept,
                    RefusedTextIsKept, MentionAnswersAreHonest

(* The endpoint's thread changes the project only, and an edit under a turn is        *)
(* remembered.                                                                        *)
LEMMA TouchKeeps == ASSUME ChatInv, TouchProject PROVE ChatInv'
<1>1. /\ UNCHANGED <<line, draft, pending, transcript, turn, shown, applied>>
      /\ touches' = [count |-> touches.count + 1, within |-> turn # NoTurn]
  BY DEF TouchProject
<1>2. turn.at # "idle" => turn # NoTurn
  BY DEF NoTurn
<1>3. /\ touches' = [count |-> touches'.count, within |-> touches'.within]
      /\ turn.at # "idle" => touches'.within
  BY <1>1, <1>2
<1>4. QED
  BY <1>1, <1>3 DEF ChatInv, ChatRecords, TranscriptTells, EndsWell, TurnKept, Asking, MentionKept,
                    RefusedTextIsKept, MentionAnswersAreHonest

LEMMA ChatStep == ASSUME ChatInv, [ChatNext]_chatVars PROVE ChatInv'
<1>1. CASE Type \/ SignInOrOut \/ RefreshPanel
  <2>1. turn = NoTurn
    BY <1>1 DEF Type, SignInOrOut, RefreshPanel
  <2>2. QED
    BY <1>1, <2>1, RestKeeps
<1>2. CASE UNCHANGED chatVars
  <2>1. UNCHANGED <<line, draft, pending, transcript, turn, shown, applied, touches, mediaLibrary>>
    BY <1>2 DEF chatVars
  <2>2. Resolution(turn.message)' = Resolution(turn.message)
    BY <2>1 DEF Resolution
  <2>3. QED
    BY <2>1, <2>2 DEF ChatInv, ChatRecords, TranscriptTells, EndsWell, TurnKept, Asking, MentionKept,
                    RefusedTextIsKept, MentionAnswersAreHonest, NotSubmitted
<1>3. QED
  BY <1>1, <1>2, SendKeeps, ResolveKeeps, InterpretKeeps, ExecuteKeeps, AnswerKeeps, OverKeeps, TouchKeeps DEF ChatNext

(* What the transcript and the panel tell the user about a turn is what happened,    *)
(* whatever the endpoint does to the project meanwhile.                              *)
THEOREM ChatIsSound == ChatSpec => []ChatSound
<1>1. ChatInit => ChatInv
  BY ChatStart
<1>2. ChatInv /\ [ChatNext]_chatVars => ChatInv'
  BY ChatStep
<1>3. ChatInv => ChatSound
  BY DEF ChatInv, ChatSound
<1>4. QED
  BY <1>1, <1>2, <1>3, PTL DEF ChatSpec

-----------------------------------------------------------------------------------
(* The window. *)

(* Both halves of what the main window owes the user, of the run that holds them:  *)
(* panels that show the project they edit, and menu actions that replace it only   *)
(* when asked (ui/InspectorPanel.cpp, ui/ProjectFileActions.cpp).                  *)
THEOREM WindowIsSound == MCSpec => []WindowSound
<1>1. MCInit => PanelsInv /\ FilesInv
  BY PanelsStart, FilesStart, FileAssumption DEF MCInit
<1>2. PanelsInv /\ FilesInv /\ [MCNext]_mcVars => (PanelsInv /\ FilesInv)'
  <2>1. [MCNext]_mcVars => [PanelsNext]_panelVars /\ [FilesNext]_fileVars
    BY DEF MCNext, mcVars
  <2>2. QED
    BY <2>1, PanelsStep, FilesStep, FileAssumption
<1>3. PanelsInv /\ FilesInv => WindowSound
  BY PanelsEnough, FilesEnough DEF WindowSound
<1>4. QED
  BY <1>1, <1>2, <1>3, PTL DEF MCSpec

-----------------------------------------------------------------------------------
(* The same of the run that checks the chain beside the other parts                *)
(* (EffectEditCommands.hpp, CurveEditorViewModel::setPoints).                      *)
THEOREM ChainIsSound == MCSpec => []EffectsSound
<1>1. MCInit => HistoryInv /\ EditorsInv
  BY EffectsStart, EffectsAssumption DEF MCInit
<1>2. HistoryInv /\ EditorsInv /\ [MCNext]_mcVars => (HistoryInv /\ EditorsInv)'
  <2>1. [MCNext]_mcVars => [EffectsNext]_effectVars
    BY DEF MCNext, mcVars
  <2>2. QED
    BY <2>1, EffectsStep, EffectsAssumption
<1>3. HistoryInv /\ EditorsInv => EffectsSound
  BY EffectsEnough
<1>4. QED
  BY <1>1, <1>2, <1>3, PTL DEF MCSpec

-----------------------------------------------------------------------------------
(* The same of the chat: its transcript and its answers tell what happened to a    *)
(* message (AgentOrchestrator::sendMessage, AgentChatPanel::onSendClicked).        *)
THEOREM TurnsAreSound == MCSpec => []ChatSound
<1>1. MCInit => ChatInv
  BY ChatStart DEF MCInit
<1>2. ChatInv /\ [MCNext]_mcVars => ChatInv'
  <2>1. [MCNext]_mcVars => [ChatNext]_chatVars
    BY DEF MCNext, mcVars
  <2>2. QED
    BY <2>1, ChatStep
<1>3. ChatInv => ChatSound
  BY DEF ChatInv, ChatSound
<1>4. QED
  BY <1>1, <1>2, <1>3, PTL DEF MCSpec

-----------------------------------------------------------------------------------
(* The tool surface. *)

(* What a declaration has taken: every required argument is there, and what is     *)
(* there and declared is within its declaration.                                   *)
Accepts(s, a) ==
  \A n \in DOMAIN s : (s[n].required => n \in DOMAIN a) /\ (n \in DOMAIN a => Fits(a[n], s[n]))

LEMMA LetThrough == ASSUME NEW s, NEW a, Validate(s, a) = "fits" PROVE Accepts(s, a)
<1>1. /\ ~ \E n \in DOMAIN s : s[n].required /\ n \notin DOMAIN a
      /\ ~ \E n \in DOMAIN a \cap DOMAIN s : ~Fits(a[n], s[n])
  BY DEF Validate
<1>2. QED
  BY <1>1 DEF Accepts

(* What each kind of declaration lets through, and whether it is required.         *)
Lets ==
  /\ \A v, r : Fits(v, Id(r)) => v = "id"
  /\ \A v, r : Fits(v, Str(r)) => v \in Strings
  /\ \A v, r : Fits(v, Path(r)) => v \in Strings
  /\ \A v, r, S : Fits(v, Word(r, S)) => S = {} \/ v \in S
  /\ \A v, r, l : Fits(v, WholeNs(r, l)) => v \in Integers_ /\ NumberRank(l) <= NumberRank(v)
  /\ \A v, r, l : Fits(v, Num(r, l)) => v \in Numbers /\ NumberRank(l) <= NumberRank(v)
  /\ \A v, r : Fits(v, Range_(r)) => v = "pos"
  /\ \A v, r : Fits(v, Unit(r)) => v \in {"zero", "frac", "pos"}
  /\ \A v, r : Fits(v, Rate(r)) => v = "pos"
  /\ \A v, r : Fits(v, Arg("boolean", r)) => v = "flag"

LEMMA FieldsOf ==
  ASSUME NEW k, NEW r
  PROVE  /\ Arg(k, r).kind = k /\ Arg(k, r).required = r /\ Arg(k, r).words = {}
         /\ Arg(k, r).least = "neg" /\ Arg(k, r).most = "huge" /\ Arg(k, r).uuid = FALSE
BY DEF Arg

LEMMA Shapes ==
  /\ \A r : Id(r).kind = "string" /\ Id(r).required = r /\ Id(r).uuid = TRUE
  /\ \A r : Str(r).kind = "string" /\ Str(r).required = r
  /\ \A r : Path(r).kind = "string" /\ Path(r).required = r
  /\ \A r, S : Word(r, S).kind = "string" /\ Word(r, S).required = r /\ Word(r, S).words = S
  /\ \A r, l : WholeNs(r, l).kind = "integer" /\ WholeNs(r, l).required = r /\ WholeNs(r, l).least = l
  /\ \A r, l : Num(r, l).kind = "number" /\ Num(r, l).required = r /\ Num(r, l).least = l
  /\ \A r : /\ Range_(r).kind = "integer" /\ Range_(r).required = r
            /\ Range_(r).least = "pos" /\ Range_(r).most = "pos"
  /\ \A r : /\ Unit(r).kind = "number" /\ Unit(r).required = r
            /\ Unit(r).least = "zero" /\ Unit(r).most = "pos"
  /\ \A r : /\ Rate(r).kind = "number" /\ Rate(r).required = r
            /\ Rate(r).least = "pos" /\ Rate(r).most = "pos"
  /\ \A k, r : Arg(k, r).kind = k /\ Arg(k, r).required = r
  /\ Flag.kind = "boolean" /\ Flag.required = FALSE
  /\ \A k : List(k).kind = "array" /\ List(k).required = TRUE
<1>1. \A r : Id(r).kind = "string" /\ Id(r).required = r /\ Id(r).uuid = TRUE
  BY DEF Id, Arg
<1>2. \A r : Str(r).kind = "string" /\ Str(r).required = r
  BY DEF Str, Arg
<1>3. \A r : Path(r).kind = "string" /\ Path(r).required = r
  BY DEF Path, Str, Arg
<1>4. \A r, S : Word(r, S).kind = "string" /\ Word(r, S).required = r /\ Word(r, S).words = S
  BY DEF Word, Str, Arg
<1>5. \A r, l : WholeNs(r, l).kind = "integer" /\ WholeNs(r, l).required = r /\ WholeNs(r, l).least = l
  BY DEF WholeNs, Arg
<1>6. \A r, l : Num(r, l).kind = "number" /\ Num(r, l).required = r /\ Num(r, l).least = l
  BY DEF Num, Arg
<1>7. \A r : /\ Range_(r).kind = "integer" /\ Range_(r).required = r
             /\ Range_(r).least = "pos" /\ Range_(r).most = "pos"
  BY DEF Range_, WholeNs, Arg
<1>8. \A r : /\ Unit(r).kind = "number" /\ Unit(r).required = r
             /\ Unit(r).least = "zero" /\ Unit(r).most = "pos"
  BY DEF Unit, Num, Arg
<1>9. \A r : /\ Rate(r).kind = "number" /\ Rate(r).required = r
             /\ Rate(r).least = "pos" /\ Rate(r).most = "pos"
  BY DEF Rate, Num, Arg
<1>10. \A k, r : Arg(k, r).kind = k /\ Arg(k, r).required = r
  BY DEF Arg
<1>11. Flag.kind = "boolean" /\ Flag.required = FALSE
  BY DEF Flag, Arg
<1>12. \A k : List(k).kind = "array" /\ List(k).required = TRUE
  BY DEF List, Arg
<1>13. QED
  BY <1>1, <1>2, <1>3, <1>4, <1>5, <1>6, <1>7, <1>8, <1>9, <1>10, <1>11, <1>12

(* What a value within a declaration of each kind is.                              *)
LEMMA Bounded ==
  ASSUME NEW v, NEW s, Fits(v, s)
  PROVE  /\ s.kind = "string" => v \in Strings
         /\ s.kind = "integer" => v \in Integers_
         /\ s.kind = "number" => v \in Numbers
         /\ s.kind = "boolean" => v = "flag"
         /\ s.kind \in {"integer", "number"} =>
              NumberRank(s.least) <= NumberRank(v) /\ NumberRank(v) <= NumberRank(s.most)
         /\ s.uuid => v = "id"
         /\ s.words # {} => v \in s.words
<1>1. KindMatches(v, s.kind)
  BY DEF Fits
<1>2. /\ s.kind = "string" => v \in Strings
      /\ s.kind = "integer" => v \in Integers_
      /\ s.kind = "number" => v \in Numbers
      /\ s.kind = "boolean" => v = "flag"
  BY <1>1 DEF KindMatches
<1>3. QED
  BY <1>2 DEF Fits

LEMMA Ranks ==
  /\ NumberRank("neg") = 0 /\ NumberRank("zero") = 1 /\ NumberRank("frac") = 2
  /\ NumberRank("pos") = 3 /\ NumberRank("huge") = 4
BY DEF NumberRank

LEMMA WithinBounds ==
  ASSUME NEW v \in Numbers, NumberRank(v) <= NumberRank("pos")
  PROVE  /\ NumberRank("zero") <= NumberRank(v) => v \in {"zero", "frac", "pos"}
         /\ NumberRank("pos") <= NumberRank(v) => v = "pos"
BY Ranks DEF Numbers, Integers_

LEMMA DeclarationsLet == Lets
<1>1. \A v, r : Fits(v, Id(r)) => v = "id"
  BY Shapes, Bounded
<1>2. \A v, r : Fits(v, Str(r)) => v \in Strings
  BY Shapes, Bounded
<1>3. \A v, r : Fits(v, Path(r)) => v \in Strings
  BY Shapes, Bounded
<1>4. \A v, r, S : Fits(v, Word(r, S)) => S = {} \/ v \in S
  BY Shapes, Bounded
<1>5. \A v, r, l : Fits(v, WholeNs(r, l)) => v \in Integers_ /\ NumberRank(l) <= NumberRank(v)
  BY Shapes, Bounded
<1>6. \A v, r, l : Fits(v, Num(r, l)) => v \in Numbers /\ NumberRank(l) <= NumberRank(v)
  BY Shapes, Bounded
<1>7. \A v, r : Fits(v, Range_(r)) => v = "pos"
  <2>1. ASSUME NEW v, NEW r, Fits(v, Range_(r)) PROVE v = "pos"
    <3>1. v \in Numbers /\ NumberRank("pos") <= NumberRank(v) /\ NumberRank(v) <= NumberRank("pos")
      BY <2>1, Shapes, Bounded DEF Numbers
    <3>2. QED
      BY <3>1, WithinBounds
  <2>2. QED
    BY <2>1
<1>8. \A v, r : Fits(v, Unit(r)) => v \in {"zero", "frac", "pos"}
  <2>1. ASSUME NEW v, NEW r, Fits(v, Unit(r)) PROVE v \in {"zero", "frac", "pos"}
    <3>1. v \in Numbers /\ NumberRank("zero") <= NumberRank(v) /\ NumberRank(v) <= NumberRank("pos")
      BY <2>1, Shapes, Bounded
    <3>2. QED
      BY <3>1, WithinBounds
  <2>2. QED
    BY <2>1
<1>9. \A v, r : Fits(v, Rate(r)) => v = "pos"
  <2>1. ASSUME NEW v, NEW r, Fits(v, Rate(r)) PROVE v = "pos"
    <3>1. v \in Numbers /\ NumberRank("pos") <= NumberRank(v) /\ NumberRank(v) <= NumberRank("pos")
      BY <2>1, Shapes, Bounded
    <3>2. QED
      BY <3>1, WithinBounds
  <2>2. QED
    BY <2>1
<1>10. \A v, r : Fits(v, Arg("boolean", r)) => v = "flag"
  BY Shapes, Bounded
<1>11. QED
  BY <1>1, <1>2, <1>3, <1>4, <1>5, <1>6, <1>7, <1>8, <1>9, <1>10 DEF Lets

-----------------------------------------------------------------------------------
(* The handlers read what their declarations accept, whatever else the call holds. *)
Reads(tool, a) == Accepts(tool.schema, a) => tool.parses

LEMMA OneClipReads == ASSUME NEW a PROVE Reads(OneClip(a), a)
BY Shapes, DeclarationsLet DEF Reads, Accepts, Lets, OneClip, Tool, HasId

LEMMA ClipToolsRead ==
  ASSUME NEW a
  PROVE  /\ Reads(DeleteClipTool(a), a) /\ Reads(RippleDeleteTool(a), a) /\ Reads(CloseGapTool(a), a)
         /\ Reads(RemoveCaptionCueTool(a), a)
BY OneClipReads DEF DeleteClipTool, RippleDeleteTool, CloseGapTool, RemoveCaptionCueTool

LEMMA MoveClipReads == ASSUME NEW a PROVE Reads(MoveClipTool(a), a)
BY Shapes, DeclarationsLet DEF Reads, Accepts, Lets, MoveClipTool, Tool, HasId, HasNumber, Numbers

LEMMA SetClipPropertiesReads == ASSUME NEW a PROVE Reads(SetClipPropertiesTool(a), a)
BY Shapes, DeclarationsLet DEF Reads, Accepts, Lets, SetClipPropertiesTool, Tool, HasId

LEMMA TrimReads == ASSUME NEW a PROVE Reads(TrimClipTool(a), a) /\ Reads(RippleTrimTool(a), a)
<1>1. Reads(Trim(a), a)
  BY Shapes, DeclarationsLet DEF Reads, Accepts, Lets, Trim, Tool, HasId, HasWord, HasNumber, Numbers
<1>2. QED
  BY <1>1 DEF TrimClipTool, RippleTrimTool

LEMMA SplitClipReads == ASSUME NEW a PROVE Reads(SplitClipTool(a), a)
BY Shapes, DeclarationsLet DEF Reads, Accepts, Lets, SplitClipTool, Tool, HasId, HasNumber, Numbers

LEMMA AddEffectReads == ASSUME NEW a PROVE Reads(AddEffectTool(a), a)
BY Shapes, DeclarationsLet DEF Reads, Accepts, Lets, AddEffectTool, Tool, HasId, HasWord

LEMMA RemoveEffectReads == ASSUME NEW a PROVE Reads(RemoveEffectTool(a), a)
BY Shapes, DeclarationsLet DEF Reads, Accepts, Lets, RemoveEffectTool, Tool, HasId

LEMMA SetEffectParameterReads == ASSUME NEW a PROVE Reads(SetEffectParameterTool(a), a)
BY Shapes, DeclarationsLet DEF Reads, Accepts, Lets, SetEffectParameterTool, Tool, HasId, HasString, HasNumber

LEMMA SetEffectResourceReads == ASSUME NEW a PROVE Reads(SetEffectResourceTool(a), a)
BY Shapes, DeclarationsLet DEF Reads, Accepts, Lets, SetEffectResourceTool, Tool, HasId, HasString

LEMMA FromZero == \A v, r : Fits(v, WholeNs(r, "zero")) => v # "neg"
<1>1. \A v, r : Fits(v, WholeNs(r, "zero")) => 1 <= NumberRank(v)
  BY DeclarationsLet, Ranks DEF Lets
<1>2. QED
  BY <1>1, Ranks

LEMMA FromOne ==
  /\ \A v, r : Fits(v, WholeNs(r, "pos")) => v \in Numbers /\ NumberRank(v) >= 3
  /\ \A v, r : Fits(v, Num(r, "pos")) => v \in Numbers /\ NumberRank(v) >= 3
BY DeclarationsLet, Ranks DEF Lets, Numbers

LEMMA AddTransitionReads == ASSUME NEW a PROVE Reads(AddTransitionTool(a), a)
BY ZenonT(60), Shapes, DeclarationsLet, FromZero
   DEF Reads, Accepts, Lets, AddTransitionTool, Tool, HasId, HasWord, Whole, HasNumber, Numbers

(* What of a style there is was checked by the declaration of each member.         *)
LEMMA SetTextContentReads == ASSUME NEW a PROVE Reads(SetTextContentTool(a), a)
BY Shapes, DeclarationsLet DEF Reads, Accepts, Lets, SetTextContentTool, Tool, HasId, HasString

Styled(a) == RankOr(a, "pointSize", "pos") > 1 /\ UnitOr(a, "colorR") /\ UnitOr(a, "x")

LEMMA StyleRead ==
  ASSUME NEW a,
         "pointSize" \in DOMAIN a => Fits(a["pointSize"], Num(FALSE, "pos")),
         "colorR" \in DOMAIN a => Fits(a["colorR"], Unit(FALSE)),
         "x" \in DOMAIN a => Fits(a["x"], Unit(FALSE))
  PROVE  Styled(a)
<1>1. RankOr(a, "pointSize", "pos") > 1
  <2>1. CASE HasNumber(a, "pointSize")
    <3>1. RankOr(a, "pointSize", "pos") = NumberRank(a["pointSize"])
      BY <2>1 DEF RankOr
    <3>2. NumberRank(a["pointSize"]) >= 3
      BY <2>1, FromOne DEF HasNumber
    <3>3. NumberRank(a["pointSize"]) \in 0..4
      BY <2>1, Ranks DEF HasNumber, Numbers, Integers_
    <3>4. QED
      BY <3>1, <3>2, <3>3
  <2>2. CASE ~HasNumber(a, "pointSize")
    BY <2>2, Ranks DEF RankOr
  <2>3. QED
    BY <2>1, <2>2
<1>2. UnitOr(a, "colorR") /\ UnitOr(a, "x")
  BY DeclarationsLet DEF Lets, UnitOr
<1>3. QED
  BY <1>1, <1>2 DEF Styled

LEMMA SetTextStyleReads == ASSUME NEW a PROVE Reads(SetTextStyleTool(a), a)
<1> SUFFICES ASSUME Accepts(SetTextStyleTool(a).schema, a) PROVE SetTextStyleTool(a).parses
  BY DEF Reads
<1>1. /\ "pointSize" \in DOMAIN a => Fits(a["pointSize"], Num(FALSE, "pos"))
      /\ "colorR" \in DOMAIN a => Fits(a["colorR"], Unit(FALSE))
      /\ "x" \in DOMAIN a => Fits(a["x"], Unit(FALSE))
      /\ "alignment" \in DOMAIN a => Fits(a["alignment"], Word(FALSE, {"w1"}))
      /\ "clipId" \in DOMAIN a /\ Fits(a["clipId"], Id(TRUE))
  BY Shapes DEF Accepts, SetTextStyleTool, Tool
<1>2. Styled(a)
  BY <1>1, StyleRead
<1>3. HasId(a, "clipId") /\ OptionalWord(a, "alignment", {"w1"})
  BY <1>1, DeclarationsLet DEF Lets, HasId, OptionalWord
<1>4. QED
  BY <1>2, <1>3 DEF Styled, SetTextStyleTool, Tool

LEMMA AddTextClipReads == ASSUME NEW a PROVE Reads(AddTextClipTool(a), a)
<1> SUFFICES ASSUME Accepts(AddTextClipTool(a).schema, a) PROVE AddTextClipTool(a).parses
  BY DEF Reads
<1>1. /\ "pointSize" \in DOMAIN a => Fits(a["pointSize"], Num(FALSE, "pos"))
      /\ "colorR" \in DOMAIN a => Fits(a["colorR"], Unit(FALSE))
      /\ "x" \in DOMAIN a => Fits(a["x"], Unit(FALSE))
      /\ "alignment" \in DOMAIN a => Fits(a["alignment"], Word(FALSE, {"w1"}))
      /\ "clipId" \in DOMAIN a => Fits(a["clipId"], Id(FALSE))
      /\ "trackId" \in DOMAIN a /\ Fits(a["trackId"], Id(TRUE))
      /\ "content" \in DOMAIN a /\ Fits(a["content"], Str(TRUE))
      /\ "durationNs" \in DOMAIN a /\ Fits(a["durationNs"], WholeNs(TRUE, "pos"))
  BY Shapes DEF Accepts, AddTextClipTool, Tool
<1>2. Styled(a)
  BY <1>1, StyleRead
<1>3. /\ HasId(a, "trackId") /\ HasString(a, "content")
      /\ OptionalWord(a, "alignment", {"w1"}) /\ OptionalId(a, "clipId")
  BY <1>1, DeclarationsLet DEF Lets, HasId, HasString, OptionalWord, OptionalId
<1>4. Positive(a, "durationNs")
  BY <1>1, FromOne DEF Positive, HasNumber
<1>5. QED
  BY <1>2, <1>3, <1>4 DEF Styled, AddTextClipTool, Tool

LEMMA RemoveMarkerReads == ASSUME NEW a PROVE Reads(RemoveMarkerTool(a), a)
BY Shapes, DeclarationsLet DEF Reads, Accepts, Lets, RemoveMarkerTool, Tool, HasId

LEMMA ProjectToolsRead ==
  ASSUME NEW a
  PROVE  /\ Reads(ProjectOpenTool(a), a) /\ Reads(MediaImportTool(a), a)
         /\ Reads(ProjectSaveTool(a), a) /\ Reads(ReadTool(a), a) /\ Reads(UndoTool(a), a)
BY Shapes, DeclarationsLet
   DEF Reads, Accepts, Lets, ProjectOpenTool, MediaImportTool, ProjectSaveTool, ReadTool, UndoTool, Tool,
       HasString

LEMMA ProjectCreateReads == ASSUME NEW a PROVE Reads(ProjectCreateTool(a), a)
BY ZenonT(60), Shapes, DeclarationsLet
   DEF Reads, Accepts, Lets, ProjectCreateTool, Tool, HasString, Within, HasNumber, Numbers, Integers_,
       OptionalWord

LEMMA TrackToolsRead ==
  ASSUME NEW a
  PROVE  Reads(AddTrackTool(a), a) /\ Reads(RemoveTrackTool(a), a) /\ Reads(SetTrackMutedTool(a), a)
<1>1. Reads(AddTrackTool(a), a)
  BY Shapes, DeclarationsLet DEF Reads, Accepts, Lets, AddTrackTool, Tool, HasWord
<1>2. Reads(RemoveTrackTool(a), a)
  BY Shapes, DeclarationsLet DEF Reads, Accepts, Lets, RemoveTrackTool, Tool, HasId
<1>3. Reads(SetTrackMutedTool(a), a)
  <2> SUFFICES ASSUME Accepts(SetTrackMutedTool(a).schema, a) PROVE SetTrackMutedTool(a).parses
    BY DEF Reads
  <2>1. /\ "trackId" \in DOMAIN a /\ Fits(a["trackId"], Id(TRUE))
        /\ "muted" \in DOMAIN a /\ Fits(a["muted"], Arg("boolean", TRUE))
    <3>1. Id(TRUE).required /\ Arg("boolean", TRUE).required
      BY DEF Id, Arg
    <3>2. /\ DOMAIN SetTrackMutedTool(a).schema = {"trackId", "muted"}
          /\ SetTrackMutedTool(a).schema["trackId"] = Id(TRUE)
          /\ SetTrackMutedTool(a).schema["muted"] = Arg("boolean", TRUE)
      BY DEF SetTrackMutedTool, Tool
    <3>3. QED
      BY <3>1, <3>2 DEF Accepts
  <2>2. HasId(a, "trackId") /\ a["muted"] = "flag"
    BY <2>1, DeclarationsLet DEF Lets, HasId
  <2>3. QED
    BY <2>1, <2>2 DEF SetTrackMutedTool, Tool
<1>4. QED
  BY <1>1, <1>2, <1>3

LEMMA GenerationToolsRead == ASSUME NEW a PROVE Reads(GenerateTool(a), a) /\ Reads(TranscribeTool(a), a)
<1>1. Reads(GenerateTool(a), a)
  BY Shapes, DeclarationsLet DEF Reads, Accepts, Lets, GenerateTool, Tool, HasId
<1>2. Reads(TranscribeTool(a), a)
  BY Shapes, DeclarationsLet DEF Reads, Accepts, Lets, TranscribeTool, Tool, HasId
<1>3. QED
  BY <1>1, <1>2

(* What a tool declares does not depend on the call.                               *)
LEMMA Declares1 ==
  ASSUME NEW a, NEW b
  PROVE  /\ ProjectCreateTool(a).schema = ProjectCreateTool(b).schema
         /\ ProjectOpenTool(a).schema = ProjectOpenTool(b).schema
         /\ MediaImportTool(a).schema = MediaImportTool(b).schema
         /\ ProjectSaveTool(a).schema = ProjectSaveTool(b).schema
         /\ SetProjectSettingsTool(a).schema = SetProjectSettingsTool(b).schema
         /\ MediaSetTagsTool(a).schema = MediaSetTagsTool(b).schema
         /\ AddTrackTool(a).schema = AddTrackTool(b).schema
         /\ RemoveTrackTool(a).schema = RemoveTrackTool(b).schema
         /\ SetTrackMutedTool(a).schema = SetTrackMutedTool(b).schema
         /\ AddMarkerTool(a).schema = AddMarkerTool(b).schema
         /\ RemoveMarkerTool(a).schema = RemoveMarkerTool(b).schema
BY DEF Tool, ProjectCreateTool, ProjectOpenTool, MediaImportTool, ProjectSaveTool,
       SetProjectSettingsTool, MediaSetTagsTool, AddTrackTool, RemoveTrackTool,
       SetTrackMutedTool, AddMarkerTool, RemoveMarkerTool

LEMMA Declares2 ==
  ASSUME NEW a, NEW b
  PROVE  /\ AddClipTool(a).schema = AddClipTool(b).schema
         /\ DeleteClipTool(a).schema = DeleteClipTool(b).schema
         /\ RippleDeleteTool(a).schema = RippleDeleteTool(b).schema
         /\ CloseGapTool(a).schema = CloseGapTool(b).schema
         /\ RemoveCaptionCueTool(a).schema = RemoveCaptionCueTool(b).schema
         /\ MoveClipTool(a).schema = MoveClipTool(b).schema
         /\ SetClipPropertiesTool(a).schema = SetClipPropertiesTool(b).schema
         /\ ApplyLayoutTool(a).schema = ApplyLayoutTool(b).schema
         /\ SetKeyframesTool(a).schema = SetKeyframesTool(b).schema
         /\ TrimClipTool(a).schema = TrimClipTool(b).schema
         /\ RippleTrimTool(a).schema = RippleTrimTool(b).schema
BY DEF Tool, AddClipTool, DeleteClipTool, RippleDeleteTool, CloseGapTool, RemoveCaptionCueTool,
       MoveClipTool, SetClipPropertiesTool, ApplyLayoutTool, SetKeyframesTool, TrimClipTool,
       RippleTrimTool, OneClip, Trim

LEMMA Declares3 ==
  ASSUME NEW a, NEW b
  PROVE  /\ SplitClipTool(a).schema = SplitClipTool(b).schema
         /\ ReorderClipsTool(a).schema = ReorderClipsTool(b).schema
         /\ ReorderEffectsTool(a).schema = ReorderEffectsTool(b).schema
         /\ AddEffectTool(a).schema = AddEffectTool(b).schema
         /\ RemoveEffectTool(a).schema = RemoveEffectTool(b).schema
         /\ SetEffectParameterTool(a).schema = SetEffectParameterTool(b).schema
         /\ SetEffectResourceTool(a).schema = SetEffectResourceTool(b).schema
         /\ EditCurvePointTool(a).schema = EditCurvePointTool(b).schema
         /\ AddTransitionTool(a).schema = AddTransitionTool(b).schema
         /\ AddTextClipTool(a).schema = AddTextClipTool(b).schema
         /\ SetTextContentTool(a).schema = SetTextContentTool(b).schema
BY DEF Tool, SplitClipTool, ReorderClipsTool, ReorderEffectsTool, AddEffectTool, RemoveEffectTool,
       SetEffectParameterTool, SetEffectResourceTool, EditCurvePointTool, AddTransitionTool,
       AddTextClipTool, SetTextContentTool, Reorder

LEMMA Declares4 ==
  ASSUME NEW a, NEW b
  PROVE  /\ SetTextStyleTool(a).schema = SetTextStyleTool(b).schema
         /\ AddCaptionCueTool(a).schema = AddCaptionCueTool(b).schema
         /\ SetCaptionTextTool(a).schema = SetCaptionTextTool(b).schema
         /\ RetimeCaptionCueTool(a).schema = RetimeCaptionCueTool(b).schema
         /\ GenerateTool(a).schema = GenerateTool(b).schema
         /\ TranscribeTool(a).schema = TranscribeTool(b).schema
         /\ CaptureFrameTool(a).schema = CaptureFrameTool(b).schema
         /\ ExportTool(a).schema = ExportTool(b).schema
         /\ ReadTool(a).schema = ReadTool(b).schema
         /\ UndoTool(a).schema = UndoTool(b).schema
BY DEF Tool, SetTextStyleTool, AddCaptionCueTool, SetCaptionTextTool, RetimeCaptionCueTool,
       GenerateTool, TranscribeTool, CaptureFrameTool, ExportTool, ReadTool, UndoTool

(* Whatever the arguments: what the declaration of a tool accepts its handler can  *)
(* read, unless the tool is one that leaves a rule to its handler.                 *)
LEMMA HandlersRead ==
  ASSUME NEW t \in Tools, t \notin LeftToHandler \cup Understated, NEW a,
         Validate(SchemaOf(t), a) = "fits"
  PROVE  ToolOf(t, a).parses
<1>1. Accepts(SchemaOf(t), a)
  BY LetThrough
<1>2. SchemaOf(t) = ToolOf(t, a).schema
  BY SMTT(60), Declares1, Declares2, Declares3, Declares4 DEF Tools, SchemaOf, ToolOf
<1>3. Reads(ToolOf(t, a), a)
  BY OneClipReads, ClipToolsRead, MoveClipReads, SetClipPropertiesReads, TrimReads, SplitClipReads,
     AddEffectReads, RemoveEffectReads, SetEffectParameterReads, SetEffectResourceReads, AddTransitionReads,
     SetTextContentReads, SetTextStyleReads, AddTextClipReads, RemoveMarkerReads, ProjectToolsRead,
     ProjectCreateReads, TrackToolsRead, GenerationToolsRead
     DEF Tools, LeftToHandler, Understated, ToolOf
<1>4. QED
  BY <1>1, <1>2, <1>3 DEF Reads

-----------------------------------------------------------------------------------
(* An argument object speaks a schema: it names and types its members as declared. *)
Speaks(s, a) == \A n \in DOMAIN a : n \in DOMAIN s /\ KindMatches(a[n], s[n].kind)
AllSpeak(s, A) == \A a \in A : Speaks(s, a)
AllHold(s, A) == \A a \in A : \A n \in DOMAIN s : s[n].required => n \in DOMAIN a

LEMMA Refused ==
  ASSUME NEW s, NEW A, AllSpeak(s, A), AllHold(s, A), NEW a \in A
  PROVE  Validate(s, a) \in {"bounds", "fits"}
<1>1. /\ ~ \E n \in DOMAIN s : s[n].required /\ n \notin DOMAIN a
      /\ ~ \E n \in DOMAIN a : n \notin DOMAIN s
      /\ ~ \E n \in DOMAIN a \cap DOMAIN s : ~KindMatches(a[n], s[n].kind)
  BY DEF AllSpeak, AllHold, Speaks
<1>2. QED
  BY <1>1 DEF Validate

LEMMA OnTopOf ==
  ASSUME NEW f, NEW g
  PROVE  /\ DOMAIN Beside(f, g) = DOMAIN f \cup DOMAIN g
         /\ \A n \in DOMAIN Beside(f, g) : Beside(f, g)[n] = IF n \in DOMAIN f THEN f[n] ELSE g[n]
BY DEF Beside

LEMMA OptionSpeaks ==
  ASSUME NEW s, NEW n \in DOMAIN s, NEW S, \A v \in S : KindMatches(v, s[n].kind)
  PROVE  AllSpeak(s, Optional(n, S))
<1>1. ASSUME NEW v \in S PROVE Speaks(s, Member(n, v))
  BY DEF Member, Speaks
<1>2. Speaks(s, Nothing)
  BY DEF Speaks, Nothing
<1>3. QED
  BY <1>1, <1>2 DEF AllSpeak, Optional

LEMMA JoinSpeaks ==
  ASSUME NEW s, NEW A, NEW B, AllSpeak(s, A), AllSpeak(s, B)
  PROVE  AllSpeak(s, Join(A, B)) /\ (AllHold(s, A) => AllHold(s, Join(A, B)))
<1>1. ASSUME NEW f \in A, NEW g \in B PROVE Speaks(s, Beside(f, g))
  <2>1. Speaks(s, f) /\ Speaks(s, g)
    BY DEF AllSpeak
  <2>2. ASSUME NEW n \in DOMAIN Beside(f, g)
        PROVE  n \in DOMAIN s /\ KindMatches(Beside(f, g)[n], s[n].kind)
    <3>1. n \in DOMAIN f \/ n \in DOMAIN g
      BY DEF Beside
    <3>2. Beside(f, g)[n] = IF n \in DOMAIN f THEN f[n] ELSE g[n]
      BY <3>1 DEF Beside
    <3>3. QED
      BY <2>1, <3>1, <3>2 DEF Speaks
  <2>3. QED
    BY <2>2 DEF Speaks
<1>2. AllSpeak(s, Join(A, B))
  BY <1>1 DEF AllSpeak, Join
<1>3. ASSUME AllHold(s, A) PROVE AllHold(s, Join(A, B))
  <2>1. ASSUME NEW f \in A, NEW g \in B, NEW n \in DOMAIN s, s[n].required PROVE n \in DOMAIN Beside(f, g)
    <3>1. n \in DOMAIN f
      BY <1>3, <2>1 DEF AllHold
    <3>2. QED
      BY <3>1, OnTopOf
  <2>2. QED
    BY <2>1 DEF AllHold, Join
<1>4. QED
  BY <1>2, <1>3
(* The kinds, spelled out.                                                         *)
LEMMA Kinds ==
  /\ \A v \in Strings : KindMatches(v, "string")
  /\ \A v \in Integers_ : KindMatches(v, "integer")
  /\ \A v \in Numbers : KindMatches(v, "number")
  /\ \A v \in Arrays : KindMatches(v, "array")
  /\ KindMatches("flag", "boolean") /\ KindMatches("map", "object")
BY DEF KindMatches

LEMMA Optionals ==
  /\ ~Id(FALSE).required /\ ~Str(FALSE).required /\ ~Path(FALSE).required /\ ~Range_(FALSE).required
  /\ ~Unit(FALSE).required /\ ~Rate(FALSE).required /\ ~Flag.required
  /\ \A S : ~Word(FALSE, S).required
  /\ \A l : ~WholeNs(FALSE, l).required /\ ~Num(FALSE, l).required
  /\ \A k : ~Arg(k, FALSE).required
BY DEF Id, Str, Path, Word, WholeNs, Range_, Num, Unit, Rate, Flag, Arg

(* The sets the gateway draws a member from are of the kind it is declared with.   *)
LEMMA Drawn ==
  /\ Typed \subseteq Strings /\ Words \cup {"text"} \subseteq Strings
  /\ {"id", "text", "empty", "long", "w1", "w2", "w3"} \subseteq Strings
  /\ Unsigned \subseteq Integers_ /\ Unsigned \subseteq Numbers /\ Integers_ \subseteq Numbers
  /\ {"neg", "zero", "frac", "pos", "huge"} \subseteq Numbers
  /\ {"none", "list"} \subseteq Arrays
BY DEF Typed, Unsigned, Strings, Words, Integers_, Numbers, Arrays

Spoken(t) == AllSpeak(SchemaOf(t), GuiArgs(t)) /\ AllHold(SchemaOf(t), GuiArgs(t))

LEMMA DeleteClipSpoken == Spoken("delete_clip")
<1> DEFINE s == [clipId |-> Id(TRUE)]
           A1 == [clipId : {"id"}]
<1>1. SchemaOf("delete_clip") = s
  BY DEF SchemaOf, ToolOf, DeleteClipTool, OneClip, Tool
<1>2. GuiArgs("delete_clip") = A1
  BY ZenonT(60) DEF GuiArgs, GuiClipArgs, GuiEffectArgs, GuiTextArgs, GuiMediaArgs, GuiProjectArgs
<1>3. DOMAIN s = {"clipId"}
  OBVIOUS
<1>4. /\ s["clipId"].kind = "string"
  BY DEF Id, Arg
<1> HIDE DEF s
<1>5. AllSpeak(s, A1) /\ AllHold(s, A1)
  <2>1. ASSUME NEW f \in A1
        PROVE  DOMAIN f = {"clipId"}
    OBVIOUS
  <2>2. ASSUME NEW f \in A1
        PROVE  /\ f["clipId"] \in Strings
    BY Drawn
  <2> HIDE DEF A1
  <2>3. ASSUME NEW f \in A1 PROVE Speaks(s, f)
    BY <1>3, <1>4, <2>1, <2>2, Kinds DEF Speaks
  <2>4. QED
    BY <1>3, <2>1, <2>3 DEF AllSpeak, AllHold
<1> HIDE DEF A1
<1>6. QED
  BY <1>1, <1>2, <1>5 DEF Spoken

LEMMA RippleDeleteSpoken == Spoken("ripple_delete")
<1> DEFINE s == [clipId |-> Id(TRUE)]
           A1 == [clipId : {"id"}]
<1>1. SchemaOf("ripple_delete") = s
  BY DEF SchemaOf, ToolOf, RippleDeleteTool, OneClip, Tool
<1>2. GuiArgs("ripple_delete") = A1
  BY ZenonT(60) DEF GuiArgs, GuiClipArgs, GuiEffectArgs, GuiTextArgs, GuiMediaArgs, GuiProjectArgs
<1>3. DOMAIN s = {"clipId"}
  OBVIOUS
<1>4. /\ s["clipId"].kind = "string"
  BY DEF Id, Arg
<1> HIDE DEF s
<1>5. AllSpeak(s, A1) /\ AllHold(s, A1)
  <2>1. ASSUME NEW f \in A1
        PROVE  DOMAIN f = {"clipId"}
    OBVIOUS
  <2>2. ASSUME NEW f \in A1
        PROVE  /\ f["clipId"] \in Strings
    BY Drawn
  <2> HIDE DEF A1
  <2>3. ASSUME NEW f \in A1 PROVE Speaks(s, f)
    BY <1>3, <1>4, <2>1, <2>2, Kinds DEF Speaks
  <2>4. QED
    BY <1>3, <2>1, <2>3 DEF AllSpeak, AllHold
<1> HIDE DEF A1
<1>6. QED
  BY <1>1, <1>2, <1>5 DEF Spoken

LEMMA CloseGapSpoken == Spoken("close_gap")
<1> DEFINE s == [clipId |-> Id(TRUE)]
           A1 == [clipId : {"id"}]
<1>1. SchemaOf("close_gap") = s
  BY DEF SchemaOf, ToolOf, CloseGapTool, OneClip, Tool
<1>2. GuiArgs("close_gap") = A1
  BY ZenonT(60) DEF GuiArgs, GuiClipArgs, GuiEffectArgs, GuiTextArgs, GuiMediaArgs, GuiProjectArgs
<1>3. DOMAIN s = {"clipId"}
  OBVIOUS
<1>4. /\ s["clipId"].kind = "string"
  BY DEF Id, Arg
<1> HIDE DEF s
<1>5. AllSpeak(s, A1) /\ AllHold(s, A1)
  <2>1. ASSUME NEW f \in A1
        PROVE  DOMAIN f = {"clipId"}
    OBVIOUS
  <2>2. ASSUME NEW f \in A1
        PROVE  /\ f["clipId"] \in Strings
    BY Drawn
  <2> HIDE DEF A1
  <2>3. ASSUME NEW f \in A1 PROVE Speaks(s, f)
    BY <1>3, <1>4, <2>1, <2>2, Kinds DEF Speaks
  <2>4. QED
    BY <1>3, <2>1, <2>3 DEF AllSpeak, AllHold
<1> HIDE DEF A1
<1>6. QED
  BY <1>1, <1>2, <1>5 DEF Spoken

LEMMA RemoveCaptionCueSpoken == Spoken("remove_caption_cue")
<1> DEFINE s == [clipId |-> Id(TRUE)]
           A1 == [clipId : {"id"}]
<1>1. SchemaOf("remove_caption_cue") = s
  BY DEF SchemaOf, ToolOf, RemoveCaptionCueTool, OneClip, Tool
<1>2. GuiArgs("remove_caption_cue") = A1
  BY ZenonT(60) DEF GuiArgs, GuiClipArgs, GuiEffectArgs, GuiTextArgs, GuiMediaArgs, GuiProjectArgs
<1>3. DOMAIN s = {"clipId"}
  OBVIOUS
<1>4. /\ s["clipId"].kind = "string"
  BY DEF Id, Arg
<1> HIDE DEF s
<1>5. AllSpeak(s, A1) /\ AllHold(s, A1)
  <2>1. ASSUME NEW f \in A1
        PROVE  DOMAIN f = {"clipId"}
    OBVIOUS
  <2>2. ASSUME NEW f \in A1
        PROVE  /\ f["clipId"] \in Strings
    BY Drawn
  <2> HIDE DEF A1
  <2>3. ASSUME NEW f \in A1 PROVE Speaks(s, f)
    BY <1>3, <1>4, <2>1, <2>2, Kinds DEF Speaks
  <2>4. QED
    BY <1>3, <2>1, <2>3 DEF AllSpeak, AllHold
<1> HIDE DEF A1
<1>6. QED
  BY <1>1, <1>2, <1>5 DEF Spoken

LEMMA MoveClipSpoken == Spoken("move_clip")
<1> DEFINE s == [clipId |-> Id(TRUE), timelineStartNs |-> WholeNs(TRUE, "zero")]
           A1 == [clipId : {"id"}, timelineStartNs : Integers_]
<1>1. SchemaOf("move_clip") = s
  BY DEF SchemaOf, ToolOf, MoveClipTool, Tool
<1>2. GuiArgs("move_clip") = A1
  BY ZenonT(60) DEF GuiArgs, GuiClipArgs, GuiEffectArgs, GuiTextArgs, GuiMediaArgs, GuiProjectArgs
<1>3. DOMAIN s = {"clipId", "timelineStartNs"}
  OBVIOUS
<1>4. /\ s["clipId"].kind = "string"
      /\ s["timelineStartNs"].kind = "integer"
  BY DEF Id, WholeNs, Arg
<1> HIDE DEF s
<1>5. AllSpeak(s, A1) /\ AllHold(s, A1)
  <2>1. ASSUME NEW f \in A1
        PROVE  DOMAIN f = {"clipId", "timelineStartNs"}
    OBVIOUS
  <2>2. ASSUME NEW f \in A1
        PROVE  /\ f["clipId"] \in Strings
               /\ f["timelineStartNs"] \in Integers_
    BY Drawn
  <2> HIDE DEF A1
  <2>3. ASSUME NEW f \in A1 PROVE Speaks(s, f)
    BY <1>3, <1>4, <2>1, <2>2, Kinds DEF Speaks
  <2>4. QED
    BY <1>3, <2>1, <2>3 DEF AllSpeak, AllHold
<1> HIDE DEF A1
<1>6. QED
  BY <1>1, <1>2, <1>5 DEF Spoken

LEMMA TrimClipSpoken == Spoken("trim_clip")
<1> DEFINE s == [clipId |-> Id(TRUE), edge |-> Word(TRUE, {"w1", "w2"}), boundaryNs |->
                WholeNs(TRUE, "neg"), sourceDurationNs |-> WholeNs(FALSE, "zero")]
           A1 == [clipId : {"id"}, edge : {"w1", "w2"}, boundaryNs : Integers_,
                 sourceDurationNs : Integers_]
<1>1. SchemaOf("trim_clip") = s
  BY DEF SchemaOf, ToolOf, TrimClipTool, Trim, Tool
<1>2. GuiArgs("trim_clip") = A1
  BY ZenonT(60) DEF GuiArgs, GuiClipArgs, GuiEffectArgs, GuiTextArgs, GuiMediaArgs, GuiProjectArgs
<1>3. DOMAIN s = {"clipId", "edge", "boundaryNs", "sourceDurationNs"}
  OBVIOUS
<1>4. /\ s["clipId"].kind = "string"
      /\ s["edge"].kind = "string"
      /\ s["boundaryNs"].kind = "integer"
      /\ s["sourceDurationNs"].kind = "integer"
  BY DEF Id, Word, WholeNs, Str, Arg
<1>5. /\ ~s["sourceDurationNs"].required
  BY Optionals
<1> HIDE DEF s
<1>6. AllSpeak(s, A1) /\ AllHold(s, A1)
  <2>1. ASSUME NEW f \in A1
        PROVE  DOMAIN f = {"clipId", "edge", "boundaryNs", "sourceDurationNs"}
    OBVIOUS
  <2>2. ASSUME NEW f \in A1
        PROVE  /\ f["clipId"] \in Strings
               /\ f["edge"] \in Strings
               /\ f["boundaryNs"] \in Integers_
               /\ f["sourceDurationNs"] \in Integers_
    BY Drawn
  <2> HIDE DEF A1
  <2>3. ASSUME NEW f \in A1 PROVE Speaks(s, f)
    BY <1>3, <1>4, <2>1, <2>2, Kinds DEF Speaks
  <2>4. QED
    BY <1>3, <1>5, <2>1, <2>3 DEF AllSpeak, AllHold
<1> HIDE DEF A1
<1>7. QED
  BY <1>1, <1>2, <1>6 DEF Spoken

LEMMA RippleTrimSpoken == Spoken("ripple_trim")
<1> DEFINE s == [clipId |-> Id(TRUE), edge |-> Word(TRUE, {"w1", "w2"}), boundaryNs |->
                WholeNs(TRUE, "neg"), sourceDurationNs |-> WholeNs(FALSE, "zero")]
           A1 == [clipId : {"id"}, edge : {"w1", "w2"}, boundaryNs : Integers_,
                 sourceDurationNs : Integers_]
<1>1. SchemaOf("ripple_trim") = s
  BY DEF SchemaOf, ToolOf, RippleTrimTool, Trim, Tool
<1>2. GuiArgs("ripple_trim") = A1
  BY ZenonT(60) DEF GuiArgs, GuiClipArgs, GuiEffectArgs, GuiTextArgs, GuiMediaArgs, GuiProjectArgs
<1>3. DOMAIN s = {"clipId", "edge", "boundaryNs", "sourceDurationNs"}
  OBVIOUS
<1>4. /\ s["clipId"].kind = "string"
      /\ s["edge"].kind = "string"
      /\ s["boundaryNs"].kind = "integer"
      /\ s["sourceDurationNs"].kind = "integer"
  BY DEF Id, Word, WholeNs, Str, Arg
<1>5. /\ ~s["sourceDurationNs"].required
  BY Optionals
<1> HIDE DEF s
<1>6. AllSpeak(s, A1) /\ AllHold(s, A1)
  <2>1. ASSUME NEW f \in A1
        PROVE  DOMAIN f = {"clipId", "edge", "boundaryNs", "sourceDurationNs"}
    OBVIOUS
  <2>2. ASSUME NEW f \in A1
        PROVE  /\ f["clipId"] \in Strings
               /\ f["edge"] \in Strings
               /\ f["boundaryNs"] \in Integers_
               /\ f["sourceDurationNs"] \in Integers_
    BY Drawn
  <2> HIDE DEF A1
  <2>3. ASSUME NEW f \in A1 PROVE Speaks(s, f)
    BY <1>3, <1>4, <2>1, <2>2, Kinds DEF Speaks
  <2>4. QED
    BY <1>3, <1>5, <2>1, <2>3 DEF AllSpeak, AllHold
<1> HIDE DEF A1
<1>7. QED
  BY <1>1, <1>2, <1>6 DEF Spoken

LEMMA SplitClipSpoken == Spoken("split_clip")
<1> DEFINE s == [clipId |-> Id(TRUE), playheadNs |-> WholeNs(TRUE, "zero")]
           A1 == [clipId : {"id"}, playheadNs : Integers_]
<1>1. SchemaOf("split_clip") = s
  BY DEF SchemaOf, ToolOf, SplitClipTool, Tool
<1>2. GuiArgs("split_clip") = A1
  BY ZenonT(60) DEF GuiArgs, GuiClipArgs, GuiEffectArgs, GuiTextArgs, GuiMediaArgs, GuiProjectArgs
<1>3. DOMAIN s = {"clipId", "playheadNs"}
  OBVIOUS
<1>4. /\ s["clipId"].kind = "string"
      /\ s["playheadNs"].kind = "integer"
  BY DEF Id, WholeNs, Arg
<1> HIDE DEF s
<1>5. AllSpeak(s, A1) /\ AllHold(s, A1)
  <2>1. ASSUME NEW f \in A1
        PROVE  DOMAIN f = {"clipId", "playheadNs"}
    OBVIOUS
  <2>2. ASSUME NEW f \in A1
        PROVE  /\ f["clipId"] \in Strings
               /\ f["playheadNs"] \in Integers_
    BY Drawn
  <2> HIDE DEF A1
  <2>3. ASSUME NEW f \in A1 PROVE Speaks(s, f)
    BY <1>3, <1>4, <2>1, <2>2, Kinds DEF Speaks
  <2>4. QED
    BY <1>3, <2>1, <2>3 DEF AllSpeak, AllHold
<1> HIDE DEF A1
<1>6. QED
  BY <1>1, <1>2, <1>5 DEF Spoken

LEMMA ReorderClipsSpoken == Spoken("reorder_clips")
<1> DEFINE s == [trackId |-> Id(TRUE), order |-> List(0)]
           A1 == [trackId : {"id"}, order : {"none", "list"}]
<1>1. SchemaOf("reorder_clips") = s
  BY DEF SchemaOf, ToolOf, ReorderClipsTool, Reorder, Tool, Beside, Member
<1>2. GuiArgs("reorder_clips") = A1
  BY ZenonT(60) DEF GuiArgs, GuiClipArgs, GuiEffectArgs, GuiTextArgs, GuiMediaArgs, GuiProjectArgs
<1>3. DOMAIN s = {"trackId", "order"}
  OBVIOUS
<1>4. /\ s["trackId"].kind = "string"
      /\ s["order"].kind = "array"
  BY DEF Id, List, Arg
<1> HIDE DEF s
<1>5. AllSpeak(s, A1) /\ AllHold(s, A1)
  <2>1. ASSUME NEW f \in A1
        PROVE  DOMAIN f = {"trackId", "order"}
    OBVIOUS
  <2>2. ASSUME NEW f \in A1
        PROVE  /\ f["trackId"] \in Strings
               /\ f["order"] \in Arrays
    BY Drawn
  <2> HIDE DEF A1
  <2>3. ASSUME NEW f \in A1 PROVE Speaks(s, f)
    BY <1>3, <1>4, <2>1, <2>2, Kinds DEF Speaks
  <2>4. QED
    BY <1>3, <2>1, <2>3 DEF AllSpeak, AllHold
<1> HIDE DEF A1
<1>6. QED
  BY <1>1, <1>2, <1>5 DEF Spoken

LEMMA AddClipSpoken == Spoken("add_clip")
<1> DEFINE s == [trackId |-> Id(TRUE), assetId |-> Id(TRUE), sourcePath |-> Str(FALSE),
                clipId |-> Id(FALSE), timelineStartNs |-> WholeNs(FALSE, "zero"), sourceInNs
                |-> WholeNs(FALSE, "neg"), sourceOutNs |-> WholeNs(TRUE, "neg"), opacity |->
                Unit(FALSE), gain |-> Num(FALSE, "zero")]
           A1 == [trackId : {"id"}, assetId : {"id"}, timelineStartNs : Integers_,
                 sourceInNs : Integers_, sourceOutNs : Integers_, opacity : {"frac",
                 "huge"}, gain : {"neg", "pos"}]
           A2 == Optional("sourcePath", {"text", "long"})
           A3 == Optional("clipId", {"id"})
<1>1. SchemaOf("add_clip") = s
  BY DEF SchemaOf, ToolOf, AddClipTool, Tool
<1>2. GuiArgs("add_clip") = Join(A1, Join(A2, A3))
  BY ZenonT(60) DEF GuiArgs, GuiClipArgs, GuiEffectArgs, GuiTextArgs, GuiMediaArgs, GuiProjectArgs
<1>3. DOMAIN s = {"trackId", "assetId", "sourcePath", "clipId", "timelineStartNs",
                  "sourceInNs", "sourceOutNs", "opacity", "gain"}
  OBVIOUS
<1>4. /\ s["trackId"].kind = "string"
      /\ s["assetId"].kind = "string"
      /\ s["sourcePath"].kind = "string"
      /\ s["clipId"].kind = "string"
      /\ s["timelineStartNs"].kind = "integer"
      /\ s["sourceInNs"].kind = "integer"
      /\ s["sourceOutNs"].kind = "integer"
      /\ s["opacity"].kind = "number"
      /\ s["gain"].kind = "number"
  BY DEF Id, Str, WholeNs, Unit, Num, Arg
<1>5. /\ ~s["sourcePath"].required
      /\ ~s["clipId"].required
      /\ ~s["timelineStartNs"].required
      /\ ~s["sourceInNs"].required
      /\ ~s["opacity"].required
      /\ ~s["gain"].required
  BY Optionals
<1> HIDE DEF s
<1>6. AllSpeak(s, A1) /\ AllHold(s, A1)
  <2>1. ASSUME NEW f \in A1
        PROVE  DOMAIN f = {"trackId", "assetId", "timelineStartNs", "sourceInNs",
                          "sourceOutNs", "opacity", "gain"}
    OBVIOUS
  <2>2. ASSUME NEW f \in A1
        PROVE  /\ f["trackId"] \in Strings
               /\ f["assetId"] \in Strings
               /\ f["timelineStartNs"] \in Integers_
               /\ f["sourceInNs"] \in Integers_
               /\ f["sourceOutNs"] \in Integers_
               /\ f["opacity"] \in Numbers
               /\ f["gain"] \in Numbers
    BY Drawn
  <2> HIDE DEF A1
  <2>3. ASSUME NEW f \in A1 PROVE Speaks(s, f)
    BY <1>3, <1>4, <2>1, <2>2, Kinds DEF Speaks
  <2>4. QED
    BY <1>3, <1>5, <2>1, <2>3 DEF AllSpeak, AllHold
<1>7. AllSpeak(s, A2)
  <2>1. \A v \in {"text", "long"} : KindMatches(v, "string")
    BY Kinds, Drawn
  <2>2. "sourcePath" \in DOMAIN s /\ \A v \in {"text", "long"} : KindMatches(v, s["sourcePath"].kind)
    BY <1>3, <1>4, <2>1
  <2>3. QED
    BY <2>2, OptionSpeaks
<1>8. AllSpeak(s, A3)
  <2>1. \A v \in {"id"} : KindMatches(v, "string")
    BY Kinds, Drawn
  <2>2. "clipId" \in DOMAIN s /\ \A v \in {"id"} : KindMatches(v, s["clipId"].kind)
    BY <1>3, <1>4, <2>1
  <2>3. QED
    BY <2>2, OptionSpeaks
<1> HIDE DEF A1, A2, A3
<1>9. AllSpeak(s, Join(A2, A3))
  BY <1>7, <1>8, JoinSpeaks
<1>10. AllSpeak(s, Join(A1, Join(A2, A3))) /\ AllHold(s, Join(A1, Join(A2, A3)))
  BY <1>6, <1>9, JoinSpeaks
<1>11. QED
  BY <1>1, <1>2, <1>10 DEF Spoken

LEMMA AddTrackSpoken == Spoken("add_track")
<1> DEFINE s == [kind |-> Word(TRUE, {"w1", "w2"})]
           A1 == [kind : {"w1", "w2"}]
<1>1. SchemaOf("add_track") = s
  BY DEF SchemaOf, ToolOf, AddTrackTool, Tool
<1>2. GuiArgs("add_track") = A1
  BY ZenonT(60) DEF GuiArgs, GuiClipArgs, GuiEffectArgs, GuiTextArgs, GuiMediaArgs, GuiProjectArgs
<1>3. DOMAIN s = {"kind"}
  OBVIOUS
<1>4. /\ s["kind"].kind = "string"
  BY DEF Word, Str, Arg
<1> HIDE DEF s
<1>5. AllSpeak(s, A1) /\ AllHold(s, A1)
  <2>1. ASSUME NEW f \in A1
        PROVE  DOMAIN f = {"kind"}
    OBVIOUS
  <2>2. ASSUME NEW f \in A1
        PROVE  /\ f["kind"] \in Strings
    BY Drawn
  <2> HIDE DEF A1
  <2>3. ASSUME NEW f \in A1 PROVE Speaks(s, f)
    BY <1>3, <1>4, <2>1, <2>2, Kinds DEF Speaks
  <2>4. QED
    BY <1>3, <2>1, <2>3 DEF AllSpeak, AllHold
<1> HIDE DEF A1
<1>6. QED
  BY <1>1, <1>2, <1>5 DEF Spoken

LEMMA RemoveTrackSpoken == Spoken("remove_track")
<1> DEFINE s == [trackId |-> Id(TRUE)]
           A1 == [trackId : {"id"}]
<1>1. SchemaOf("remove_track") = s
  BY DEF SchemaOf, ToolOf, RemoveTrackTool, Tool
<1>2. GuiArgs("remove_track") = A1
  BY ZenonT(60) DEF GuiArgs, GuiClipArgs, GuiEffectArgs, GuiTextArgs, GuiMediaArgs, GuiProjectArgs
<1>3. DOMAIN s = {"trackId"}
  OBVIOUS
<1>4. /\ s["trackId"].kind = "string"
  BY DEF Id, Arg
<1> HIDE DEF s
<1>5. AllSpeak(s, A1) /\ AllHold(s, A1)
  <2>1. ASSUME NEW f \in A1
        PROVE  DOMAIN f = {"trackId"}
    OBVIOUS
  <2>2. ASSUME NEW f \in A1
        PROVE  /\ f["trackId"] \in Strings
    BY Drawn
  <2> HIDE DEF A1
  <2>3. ASSUME NEW f \in A1 PROVE Speaks(s, f)
    BY <1>3, <1>4, <2>1, <2>2, Kinds DEF Speaks
  <2>4. QED
    BY <1>3, <2>1, <2>3 DEF AllSpeak, AllHold
<1> HIDE DEF A1
<1>6. QED
  BY <1>1, <1>2, <1>5 DEF Spoken

LEMMA ReorderEffectsSpoken == Spoken("reorder_effects")
<1> DEFINE s == [clipId |-> Id(TRUE), order |-> List(0)]
           A1 == [clipId : {"id"}, order : {"none", "list"}]
<1>1. SchemaOf("reorder_effects") = s
  BY DEF SchemaOf, ToolOf, ReorderEffectsTool, Reorder, Tool, Beside, Member
<1>2. GuiArgs("reorder_effects") = A1
  BY ZenonT(60) DEF GuiArgs, GuiClipArgs, GuiEffectArgs, GuiTextArgs, GuiMediaArgs, GuiProjectArgs
<1>3. DOMAIN s = {"clipId", "order"}
  OBVIOUS
<1>4. /\ s["clipId"].kind = "string"
      /\ s["order"].kind = "array"
  BY DEF Id, List, Arg
<1> HIDE DEF s
<1>5. AllSpeak(s, A1) /\ AllHold(s, A1)
  <2>1. ASSUME NEW f \in A1
        PROVE  DOMAIN f = {"clipId", "order"}
    OBVIOUS
  <2>2. ASSUME NEW f \in A1
        PROVE  /\ f["clipId"] \in Strings
               /\ f["order"] \in Arrays
    BY Drawn
  <2> HIDE DEF A1
  <2>3. ASSUME NEW f \in A1 PROVE Speaks(s, f)
    BY <1>3, <1>4, <2>1, <2>2, Kinds DEF Speaks
  <2>4. QED
    BY <1>3, <2>1, <2>3 DEF AllSpeak, AllHold
<1> HIDE DEF A1
<1>6. QED
  BY <1>1, <1>2, <1>5 DEF Spoken

LEMMA AddEffectSpoken == Spoken("add_effect")
<1> DEFINE s == [clipId |-> Id(TRUE), type |-> Word(TRUE, {"w1"}), parameters |->
                Arg("object", FALSE)]
           A1 == [clipId : {"id"}, type : {"w1"}]
           A2 == Optional("parameters", {"map"})
<1>1. SchemaOf("add_effect") = s
  BY DEF SchemaOf, ToolOf, AddEffectTool, Tool
<1>2. GuiArgs("add_effect") = Join(A1, A2)
  BY ZenonT(60) DEF GuiArgs, GuiClipArgs, GuiEffectArgs, GuiTextArgs, GuiMediaArgs, GuiProjectArgs
<1>3. DOMAIN s = {"clipId", "type", "parameters"}
  OBVIOUS
<1>4. /\ s["clipId"].kind = "string"
      /\ s["type"].kind = "string"
      /\ s["parameters"].kind = "object"
  BY DEF Id, Word, Str, Arg
<1>5. /\ ~s["parameters"].required
  BY Optionals
<1> HIDE DEF s
<1>6. AllSpeak(s, A1) /\ AllHold(s, A1)
  <2>1. ASSUME NEW f \in A1
        PROVE  DOMAIN f = {"clipId", "type"}
    OBVIOUS
  <2>2. ASSUME NEW f \in A1
        PROVE  /\ f["clipId"] \in Strings
               /\ f["type"] \in Strings
    BY Drawn
  <2> HIDE DEF A1
  <2>3. ASSUME NEW f \in A1 PROVE Speaks(s, f)
    BY <1>3, <1>4, <2>1, <2>2, Kinds DEF Speaks
  <2>4. QED
    BY <1>3, <1>5, <2>1, <2>3 DEF AllSpeak, AllHold
<1>7. AllSpeak(s, A2)
  <2>1. \A v \in {"map"} : KindMatches(v, "object")
    BY Kinds, Drawn
  <2>2. "parameters" \in DOMAIN s /\ \A v \in {"map"} : KindMatches(v, s["parameters"].kind)
    BY <1>3, <1>4, <2>1
  <2>3. QED
    BY <2>2, OptionSpeaks
<1> HIDE DEF A1, A2
<1>8. AllSpeak(s, Join(A1, A2)) /\ AllHold(s, Join(A1, A2))
  BY <1>6, <1>7, JoinSpeaks
<1>9. QED
  BY <1>1, <1>2, <1>8 DEF Spoken

LEMMA RemoveEffectSpoken == Spoken("remove_effect")
<1> DEFINE s == [clipId |-> Id(TRUE), effectId |-> Id(TRUE)]
           A1 == [clipId : {"id"}, effectId : {"id"}]
<1>1. SchemaOf("remove_effect") = s
  BY DEF SchemaOf, ToolOf, RemoveEffectTool, Tool
<1>2. GuiArgs("remove_effect") = A1
  BY ZenonT(60) DEF GuiArgs, GuiClipArgs, GuiEffectArgs, GuiTextArgs, GuiMediaArgs, GuiProjectArgs
<1>3. DOMAIN s = {"clipId", "effectId"}
  OBVIOUS
<1>4. /\ s["clipId"].kind = "string"
      /\ s["effectId"].kind = "string"
  BY DEF Id, Arg
<1> HIDE DEF s
<1>5. AllSpeak(s, A1) /\ AllHold(s, A1)
  <2>1. ASSUME NEW f \in A1
        PROVE  DOMAIN f = {"clipId", "effectId"}
    OBVIOUS
  <2>2. ASSUME NEW f \in A1
        PROVE  /\ f["clipId"] \in Strings
               /\ f["effectId"] \in Strings
    BY Drawn
  <2> HIDE DEF A1
  <2>3. ASSUME NEW f \in A1 PROVE Speaks(s, f)
    BY <1>3, <1>4, <2>1, <2>2, Kinds DEF Speaks
  <2>4. QED
    BY <1>3, <2>1, <2>3 DEF AllSpeak, AllHold
<1> HIDE DEF A1
<1>6. QED
  BY <1>1, <1>2, <1>5 DEF Spoken

LEMMA SetEffectParameterSpoken == Spoken("set_effect_parameter")
<1> DEFINE s == [clipId |-> Id(TRUE), effectId |-> Id(TRUE), parameter |-> Str(TRUE), value
                |-> Num(TRUE, "neg")]
           A1 == [clipId : {"id"}, effectId : {"id"}, parameter : Typed, value : Numbers]
<1>1. SchemaOf("set_effect_parameter") = s
  BY DEF SchemaOf, ToolOf, SetEffectParameterTool, Tool
<1>2. GuiArgs("set_effect_parameter") = A1
  BY ZenonT(60) DEF GuiArgs, GuiClipArgs, GuiEffectArgs, GuiTextArgs, GuiMediaArgs, GuiProjectArgs
<1>3. DOMAIN s = {"clipId", "effectId", "parameter", "value"}
  OBVIOUS
<1>4. /\ s["clipId"].kind = "string"
      /\ s["effectId"].kind = "string"
      /\ s["parameter"].kind = "string"
      /\ s["value"].kind = "number"
  BY DEF Id, Str, Num, Arg
<1> HIDE DEF s
<1>5. AllSpeak(s, A1) /\ AllHold(s, A1)
  <2>1. ASSUME NEW f \in A1
        PROVE  DOMAIN f = {"clipId", "effectId", "parameter", "value"}
    OBVIOUS
  <2>2. ASSUME NEW f \in A1
        PROVE  /\ f["clipId"] \in Strings
               /\ f["effectId"] \in Strings
               /\ f["parameter"] \in Strings
               /\ f["value"] \in Numbers
    BY Drawn
  <2> HIDE DEF A1
  <2>3. ASSUME NEW f \in A1 PROVE Speaks(s, f)
    BY <1>3, <1>4, <2>1, <2>2, Kinds DEF Speaks
  <2>4. QED
    BY <1>3, <2>1, <2>3 DEF AllSpeak, AllHold
<1> HIDE DEF A1
<1>6. QED
  BY <1>1, <1>2, <1>5 DEF Spoken

LEMMA EditCurvePointSpoken == Spoken("edit_curve_point")
<1> DEFINE s == [clipId |-> Id(TRUE), effectId |-> Id(TRUE), channel |-> Word(TRUE, {"w1"}),
                operation |-> Word(TRUE, Words), index |-> WholeNs(FALSE, "zero"), x |->
                Unit(FALSE), y |-> Unit(FALSE)]
           A1 == [clipId : {"id"}, effectId : {"id"}, channel : {"w1", "text"}, operation :
                 Words \cup {"text"}]
           A2 == Optional("index", Unsigned)
           A3 == {Nothing} \cup [x : Numbers, y : Numbers]
<1>1. SchemaOf("edit_curve_point") = s
  BY DEF SchemaOf, ToolOf, EditCurvePointTool, Tool
<1>2. GuiArgs("edit_curve_point") = Join(A1, Join(A2, A3))
  BY ZenonT(60) DEF GuiArgs, GuiClipArgs, GuiEffectArgs, GuiTextArgs, GuiMediaArgs, GuiProjectArgs
<1>3. DOMAIN s = {"clipId", "effectId", "channel", "operation", "index", "x", "y"}
  OBVIOUS
<1>4. /\ s["clipId"].kind = "string"
      /\ s["effectId"].kind = "string"
      /\ s["channel"].kind = "string"
      /\ s["operation"].kind = "string"
      /\ s["index"].kind = "integer"
      /\ s["x"].kind = "number"
      /\ s["y"].kind = "number"
  BY DEF Id, Word, WholeNs, Unit, Str, Num, Arg
<1>5. /\ ~s["index"].required
      /\ ~s["x"].required
      /\ ~s["y"].required
  BY Optionals
<1> HIDE DEF s
<1>6. AllSpeak(s, A1) /\ AllHold(s, A1)
  <2>1. ASSUME NEW f \in A1
        PROVE  DOMAIN f = {"clipId", "effectId", "channel", "operation"}
    OBVIOUS
  <2>2. ASSUME NEW f \in A1
        PROVE  /\ f["clipId"] \in Strings
               /\ f["effectId"] \in Strings
               /\ f["channel"] \in Strings
               /\ f["operation"] \in Strings
    BY Drawn
  <2> HIDE DEF A1
  <2>3. ASSUME NEW f \in A1 PROVE Speaks(s, f)
    BY <1>3, <1>4, <2>1, <2>2, Kinds DEF Speaks
  <2>4. QED
    BY <1>3, <1>5, <2>1, <2>3 DEF AllSpeak, AllHold
<1>7. AllSpeak(s, A2)
  <2>1. \A v \in Unsigned : KindMatches(v, "integer")
    BY Kinds, Drawn
  <2>2. "index" \in DOMAIN s /\ \A v \in Unsigned : KindMatches(v, s["index"].kind)
    BY <1>3, <1>4, <2>1
  <2>3. QED
    BY <2>2, OptionSpeaks
<1>8. AllSpeak(s, A3)
  <2> DEFINE B == [x : Numbers, y : Numbers]
  <2>1. ASSUME NEW f \in B PROVE Speaks(s, f)
    <3>1. DOMAIN f = {"x", "y"} /\ f["x"] \in Numbers /\ f["y"] \in Numbers
      OBVIOUS
    <3>2. QED
      BY <1>3, <1>4, <3>1, Kinds DEF Speaks
  <2>2. Speaks(s, Nothing)
    BY DEF Speaks, Nothing
  <2>3. QED
    BY <2>1, <2>2 DEF AllSpeak
<1> HIDE DEF A1, A2, A3
<1>9. AllSpeak(s, Join(A2, A3))
  BY <1>7, <1>8, JoinSpeaks
<1>10. AllSpeak(s, Join(A1, Join(A2, A3))) /\ AllHold(s, Join(A1, Join(A2, A3)))
  BY <1>6, <1>9, JoinSpeaks
<1>11. QED
  BY <1>1, <1>2, <1>10 DEF Spoken

LEMMA AddTransitionSpoken == Spoken("add_transition")
<1> DEFINE s == [clipId |-> Id(TRUE), kind |-> Word(TRUE, {"w1"}), durationNs |->
                WholeNs(TRUE, "zero")]
           A1 == [clipId : {"id"}, kind : {"w1"}, durationNs : Integers_]
<1>1. SchemaOf("add_transition") = s
  BY DEF SchemaOf, ToolOf, AddTransitionTool, Tool
<1>2. GuiArgs("add_transition") = A1
  BY ZenonT(60) DEF GuiArgs, GuiClipArgs, GuiEffectArgs, GuiTextArgs, GuiMediaArgs, GuiProjectArgs
<1>3. DOMAIN s = {"clipId", "kind", "durationNs"}
  OBVIOUS
<1>4. /\ s["clipId"].kind = "string"
      /\ s["kind"].kind = "string"
      /\ s["durationNs"].kind = "integer"
  BY DEF Id, Word, WholeNs, Str, Arg
<1> HIDE DEF s
<1>5. AllSpeak(s, A1) /\ AllHold(s, A1)
  <2>1. ASSUME NEW f \in A1
        PROVE  DOMAIN f = {"clipId", "kind", "durationNs"}
    OBVIOUS
  <2>2. ASSUME NEW f \in A1
        PROVE  /\ f["clipId"] \in Strings
               /\ f["kind"] \in Strings
               /\ f["durationNs"] \in Integers_
    BY Drawn
  <2> HIDE DEF A1
  <2>3. ASSUME NEW f \in A1 PROVE Speaks(s, f)
    BY <1>3, <1>4, <2>1, <2>2, Kinds DEF Speaks
  <2>4. QED
    BY <1>3, <2>1, <2>3 DEF AllSpeak, AllHold
<1> HIDE DEF A1
<1>6. QED
  BY <1>1, <1>2, <1>5 DEF Spoken

LEMMA AddTextClipSpoken == Spoken("add_text_clip")
<1> DEFINE s == [trackId |-> Id(TRUE), clipId |-> Id(FALSE), timelineStartNs |->
                WholeNs(FALSE, "zero"), durationNs |-> WholeNs(TRUE, "pos"), content |->
                Str(TRUE), fontFamily |-> Str(FALSE), pointSize |-> Num(FALSE, "pos"),
                colorR |-> Unit(FALSE), alignment |-> Word(FALSE, {"w1"}), x |->
                Unit(FALSE)]
           A1 == [trackId : {"id"}, timelineStartNs : Integers_, durationNs : Integers_,
                 content : Typed, fontFamily : {"text", "empty"}, pointSize : Numbers,
                 colorR : Numbers, alignment : {"w1"}, x : {"frac", "huge"}]
<1>1. SchemaOf("add_text_clip") = s
  BY DEF SchemaOf, ToolOf, AddTextClipTool, Tool
<1>2. GuiArgs("add_text_clip") = A1
  BY ZenonT(60) DEF GuiArgs, GuiClipArgs, GuiEffectArgs, GuiTextArgs, GuiMediaArgs, GuiProjectArgs
<1>3. DOMAIN s = {"trackId", "clipId", "timelineStartNs", "durationNs", "content",
                  "fontFamily", "pointSize", "colorR", "alignment", "x"}
  OBVIOUS
<1>4. /\ s["trackId"].kind = "string"
      /\ s["clipId"].kind = "string"
      /\ s["timelineStartNs"].kind = "integer"
      /\ s["durationNs"].kind = "integer"
      /\ s["content"].kind = "string"
      /\ s["fontFamily"].kind = "string"
      /\ s["pointSize"].kind = "number"
      /\ s["colorR"].kind = "number"
      /\ s["alignment"].kind = "string"
      /\ s["x"].kind = "number"
  BY DEF Id, Word, Str, WholeNs, Unit, Num, Arg
<1>5. /\ ~s["clipId"].required
      /\ ~s["timelineStartNs"].required
      /\ ~s["fontFamily"].required
      /\ ~s["pointSize"].required
      /\ ~s["colorR"].required
      /\ ~s["alignment"].required
      /\ ~s["x"].required
  BY Optionals
<1> HIDE DEF s
<1>6. AllSpeak(s, A1) /\ AllHold(s, A1)
  <2>1. ASSUME NEW f \in A1
        PROVE  DOMAIN f = {"trackId", "timelineStartNs", "durationNs", "content",
                          "fontFamily", "pointSize", "colorR", "alignment", "x"}
    OBVIOUS
  <2>2. ASSUME NEW f \in A1
        PROVE  /\ f["trackId"] \in Strings
               /\ f["timelineStartNs"] \in Integers_
               /\ f["durationNs"] \in Integers_
               /\ f["content"] \in Strings
               /\ f["fontFamily"] \in Strings
               /\ f["pointSize"] \in Numbers
               /\ f["colorR"] \in Numbers
               /\ f["alignment"] \in Strings
               /\ f["x"] \in Numbers
    BY Drawn
  <2> HIDE DEF A1
  <2>3. ASSUME NEW f \in A1 PROVE Speaks(s, f)
    BY <1>3, <1>4, <2>1, <2>2, Kinds DEF Speaks
  <2>4. QED
    BY <1>3, <1>5, <2>1, <2>3 DEF AllSpeak, AllHold
<1> HIDE DEF A1
<1>7. QED
  BY <1>1, <1>2, <1>6 DEF Spoken

LEMMA SetTextContentSpoken == Spoken("set_text_content")
<1> DEFINE s == [clipId |-> Id(TRUE), content |-> Str(TRUE)]
           A1 == [clipId : {"id"}, content : Typed]
<1>1. SchemaOf("set_text_content") = s
  BY DEF SchemaOf, ToolOf, SetTextContentTool, Tool
<1>2. GuiArgs("set_text_content") = A1
  BY ZenonT(60) DEF GuiArgs, GuiClipArgs, GuiEffectArgs, GuiTextArgs, GuiMediaArgs, GuiProjectArgs
<1>3. DOMAIN s = {"clipId", "content"}
  OBVIOUS
<1>4. /\ s["clipId"].kind = "string"
      /\ s["content"].kind = "string"
  BY DEF Id, Str, Arg
<1> HIDE DEF s
<1>5. AllSpeak(s, A1) /\ AllHold(s, A1)
  <2>1. ASSUME NEW f \in A1
        PROVE  DOMAIN f = {"clipId", "content"}
    OBVIOUS
  <2>2. ASSUME NEW f \in A1
        PROVE  /\ f["clipId"] \in Strings
               /\ f["content"] \in Strings
    BY Drawn
  <2> HIDE DEF A1
  <2>3. ASSUME NEW f \in A1 PROVE Speaks(s, f)
    BY <1>3, <1>4, <2>1, <2>2, Kinds DEF Speaks
  <2>4. QED
    BY <1>3, <2>1, <2>3 DEF AllSpeak, AllHold
<1> HIDE DEF A1
<1>6. QED
  BY <1>1, <1>2, <1>5 DEF Spoken

LEMMA SetTextStyleSpoken == Spoken("set_text_style")
<1> DEFINE s == [clipId |-> Id(TRUE), fontFamily |-> Str(FALSE), pointSize |-> Num(FALSE,
                "pos"), colorR |-> Unit(FALSE), alignment |-> Word(FALSE, {"w1"}), x |->
                Unit(FALSE)]
           A1 == [clipId : {"id"}]
           A2 == Optional("fontFamily", {"text", "empty"})
           A3 == Optional("pointSize", Numbers)
           A4 == Optional("colorR", Numbers)
           A5 == Optional("alignment", {"w1"})
           A6 == Optional("x", {"frac", "huge"})
<1>1. SchemaOf("set_text_style") = s
  BY DEF SchemaOf, ToolOf, SetTextStyleTool, Tool
<1>2. GuiArgs("set_text_style") = Join(A1, Join(Join(A2, A3), Join(A4, Join(A5, A6))))
  BY ZenonT(60) DEF GuiArgs, GuiClipArgs, GuiEffectArgs, GuiTextArgs, GuiMediaArgs, GuiProjectArgs
<1>3. DOMAIN s = {"clipId", "fontFamily", "pointSize", "colorR", "alignment", "x"}
  OBVIOUS
<1>4. /\ s["clipId"].kind = "string"
      /\ s["fontFamily"].kind = "string"
      /\ s["pointSize"].kind = "number"
      /\ s["colorR"].kind = "number"
      /\ s["alignment"].kind = "string"
      /\ s["x"].kind = "number"
  BY DEF Id, Word, Str, Unit, Num, Arg
<1>5. /\ ~s["fontFamily"].required
      /\ ~s["pointSize"].required
      /\ ~s["colorR"].required
      /\ ~s["alignment"].required
      /\ ~s["x"].required
  BY Optionals
<1> HIDE DEF s
<1>6. AllSpeak(s, A1) /\ AllHold(s, A1)
  <2>1. ASSUME NEW f \in A1
        PROVE  DOMAIN f = {"clipId"}
    OBVIOUS
  <2>2. ASSUME NEW f \in A1
        PROVE  /\ f["clipId"] \in Strings
    BY Drawn
  <2> HIDE DEF A1
  <2>3. ASSUME NEW f \in A1 PROVE Speaks(s, f)
    BY <1>3, <1>4, <2>1, <2>2, Kinds DEF Speaks
  <2>4. QED
    BY <1>3, <1>5, <2>1, <2>3 DEF AllSpeak, AllHold
<1>7. AllSpeak(s, A2)
  <2>1. \A v \in {"text", "empty"} : KindMatches(v, "string")
    BY Kinds, Drawn
  <2>2. "fontFamily" \in DOMAIN s /\ \A v \in {"text", "empty"} : KindMatches(v, s["fontFamily"].kind)
    BY <1>3, <1>4, <2>1
  <2>3. QED
    BY <2>2, OptionSpeaks
<1>8. AllSpeak(s, A3)
  <2>1. \A v \in Numbers : KindMatches(v, "number")
    BY Kinds, Drawn
  <2>2. "pointSize" \in DOMAIN s /\ \A v \in Numbers : KindMatches(v, s["pointSize"].kind)
    BY <1>3, <1>4, <2>1
  <2>3. QED
    BY <2>2, OptionSpeaks
<1>9. AllSpeak(s, A4)
  <2>1. \A v \in Numbers : KindMatches(v, "number")
    BY Kinds, Drawn
  <2>2. "colorR" \in DOMAIN s /\ \A v \in Numbers : KindMatches(v, s["colorR"].kind)
    BY <1>3, <1>4, <2>1
  <2>3. QED
    BY <2>2, OptionSpeaks
<1>10. AllSpeak(s, A5)
  <2>1. \A v \in {"w1"} : KindMatches(v, "string")
    BY Kinds, Drawn
  <2>2. "alignment" \in DOMAIN s /\ \A v \in {"w1"} : KindMatches(v, s["alignment"].kind)
    BY <1>3, <1>4, <2>1
  <2>3. QED
    BY <2>2, OptionSpeaks
<1>11. AllSpeak(s, A6)
  <2>1. \A v \in {"frac", "huge"} : KindMatches(v, "number")
    BY Kinds, Drawn
  <2>2. "x" \in DOMAIN s /\ \A v \in {"frac", "huge"} : KindMatches(v, s["x"].kind)
    BY <1>3, <1>4, <2>1
  <2>3. QED
    BY <2>2, OptionSpeaks
<1> HIDE DEF A1, A2, A3, A4, A5, A6
<1>12. AllSpeak(s, Join(A2, A3))
  BY <1>7, <1>8, JoinSpeaks
<1>13. AllSpeak(s, Join(A5, A6))
  BY <1>10, <1>11, JoinSpeaks
<1>14. AllSpeak(s, Join(A4, Join(A5, A6)))
  BY <1>9, <1>13, JoinSpeaks
<1>15. AllSpeak(s, Join(Join(A2, A3), Join(A4, Join(A5, A6))))
  BY <1>12, <1>14, JoinSpeaks
<1>16. AllSpeak(s, Join(A1, Join(Join(A2, A3), Join(A4, Join(A5, A6))))) /\ AllHold(s, Join(A1, Join(Join(A2, A3), Join(A4, Join(A5, A6)))))
  BY <1>6, <1>15, JoinSpeaks
<1>17. QED
  BY <1>1, <1>2, <1>16 DEF Spoken

LEMMA AddCaptionCueSpoken == Spoken("add_caption_cue")
<1> DEFINE s == [trackId |-> Id(TRUE), clipId |-> Id(FALSE), timelineStartNs |->
                WholeNs(FALSE, "zero"), durationNs |-> WholeNs(TRUE, "pos"), text |->
                Str(TRUE)]
           A1 == [trackId : {"id"}, timelineStartNs : Integers_, durationNs : Integers_,
                 text : Typed]
<1>1. SchemaOf("add_caption_cue") = s
  BY DEF SchemaOf, ToolOf, AddCaptionCueTool, Tool
<1>2. GuiArgs("add_caption_cue") = A1
  BY ZenonT(60) DEF GuiArgs, GuiClipArgs, GuiEffectArgs, GuiTextArgs, GuiMediaArgs, GuiProjectArgs
<1>3. DOMAIN s = {"trackId", "clipId", "timelineStartNs", "durationNs", "text"}
  OBVIOUS
<1>4. /\ s["trackId"].kind = "string"
      /\ s["clipId"].kind = "string"
      /\ s["timelineStartNs"].kind = "integer"
      /\ s["durationNs"].kind = "integer"
      /\ s["text"].kind = "string"
  BY DEF Id, Str, WholeNs, Arg
<1>5. /\ ~s["clipId"].required
      /\ ~s["timelineStartNs"].required
  BY Optionals
<1> HIDE DEF s
<1>6. AllSpeak(s, A1) /\ AllHold(s, A1)
  <2>1. ASSUME NEW f \in A1
        PROVE  DOMAIN f = {"trackId", "timelineStartNs", "durationNs", "text"}
    OBVIOUS
  <2>2. ASSUME NEW f \in A1
        PROVE  /\ f["trackId"] \in Strings
               /\ f["timelineStartNs"] \in Integers_
               /\ f["durationNs"] \in Integers_
               /\ f["text"] \in Strings
    BY Drawn
  <2> HIDE DEF A1
  <2>3. ASSUME NEW f \in A1 PROVE Speaks(s, f)
    BY <1>3, <1>4, <2>1, <2>2, Kinds DEF Speaks
  <2>4. QED
    BY <1>3, <1>5, <2>1, <2>3 DEF AllSpeak, AllHold
<1> HIDE DEF A1
<1>7. QED
  BY <1>1, <1>2, <1>6 DEF Spoken

LEMMA SetCaptionTextSpoken == Spoken("set_caption_text")
<1> DEFINE s == [clipId |-> Id(TRUE), text |-> Str(TRUE)]
           A1 == [clipId : {"id"}, text : Typed]
<1>1. SchemaOf("set_caption_text") = s
  BY DEF SchemaOf, ToolOf, SetCaptionTextTool, Tool
<1>2. GuiArgs("set_caption_text") = A1
  BY ZenonT(60) DEF GuiArgs, GuiClipArgs, GuiEffectArgs, GuiTextArgs, GuiMediaArgs, GuiProjectArgs
<1>3. DOMAIN s = {"clipId", "text"}
  OBVIOUS
<1>4. /\ s["clipId"].kind = "string"
      /\ s["text"].kind = "string"
  BY DEF Id, Str, Arg
<1> HIDE DEF s
<1>5. AllSpeak(s, A1) /\ AllHold(s, A1)
  <2>1. ASSUME NEW f \in A1
        PROVE  DOMAIN f = {"clipId", "text"}
    OBVIOUS
  <2>2. ASSUME NEW f \in A1
        PROVE  /\ f["clipId"] \in Strings
               /\ f["text"] \in Strings
    BY Drawn
  <2> HIDE DEF A1
  <2>3. ASSUME NEW f \in A1 PROVE Speaks(s, f)
    BY <1>3, <1>4, <2>1, <2>2, Kinds DEF Speaks
  <2>4. QED
    BY <1>3, <2>1, <2>3 DEF AllSpeak, AllHold
<1> HIDE DEF A1
<1>6. QED
  BY <1>1, <1>2, <1>5 DEF Spoken

LEMMA RetimeCaptionCueSpoken == Spoken("retime_caption_cue")
<1> DEFINE s == [clipId |-> Id(TRUE), timelineStartNs |-> WholeNs(FALSE, "zero"), durationNs
                |-> WholeNs(FALSE, "pos")]
           A1 == [clipId : {"id"}]
           A2 == Optional("timelineStartNs", Integers_)
           A3 == Optional("durationNs", Integers_)
<1>1. SchemaOf("retime_caption_cue") = s
  BY DEF SchemaOf, ToolOf, RetimeCaptionCueTool, Tool
<1>2. GuiArgs("retime_caption_cue") = Join(A1, Join(A2, A3))
  BY ZenonT(60) DEF GuiArgs, GuiClipArgs, GuiEffectArgs, GuiTextArgs, GuiMediaArgs, GuiProjectArgs
<1>3. DOMAIN s = {"clipId", "timelineStartNs", "durationNs"}
  OBVIOUS
<1>4. /\ s["clipId"].kind = "string"
      /\ s["timelineStartNs"].kind = "integer"
      /\ s["durationNs"].kind = "integer"
  BY DEF Id, WholeNs, Arg
<1>5. /\ ~s["timelineStartNs"].required
      /\ ~s["durationNs"].required
  BY Optionals
<1> HIDE DEF s
<1>6. AllSpeak(s, A1) /\ AllHold(s, A1)
  <2>1. ASSUME NEW f \in A1
        PROVE  DOMAIN f = {"clipId"}
    OBVIOUS
  <2>2. ASSUME NEW f \in A1
        PROVE  /\ f["clipId"] \in Strings
    BY Drawn
  <2> HIDE DEF A1
  <2>3. ASSUME NEW f \in A1 PROVE Speaks(s, f)
    BY <1>3, <1>4, <2>1, <2>2, Kinds DEF Speaks
  <2>4. QED
    BY <1>3, <1>5, <2>1, <2>3 DEF AllSpeak, AllHold
<1>7. AllSpeak(s, A2)
  <2>1. \A v \in Integers_ : KindMatches(v, "integer")
    BY Kinds, Drawn
  <2>2. "timelineStartNs" \in DOMAIN s /\ \A v \in Integers_ : KindMatches(v, s["timelineStartNs"].kind)
    BY <1>3, <1>4, <2>1
  <2>3. QED
    BY <2>2, OptionSpeaks
<1>8. AllSpeak(s, A3)
  <2>1. \A v \in Integers_ : KindMatches(v, "integer")
    BY Kinds, Drawn
  <2>2. "durationNs" \in DOMAIN s /\ \A v \in Integers_ : KindMatches(v, s["durationNs"].kind)
    BY <1>3, <1>4, <2>1
  <2>3. QED
    BY <2>2, OptionSpeaks
<1> HIDE DEF A1, A2, A3
<1>9. AllSpeak(s, Join(A2, A3))
  BY <1>7, <1>8, JoinSpeaks
<1>10. AllSpeak(s, Join(A1, Join(A2, A3))) /\ AllHold(s, Join(A1, Join(A2, A3)))
  BY <1>6, <1>9, JoinSpeaks
<1>11. QED
  BY <1>1, <1>2, <1>10 DEF Spoken

LEMMA TranscribeSpoken == Spoken("transcribe_to_captions")
<1> DEFINE s == [sourceClipId |-> Id(TRUE), captionTrackId |-> Id(TRUE)]
           A1 == [sourceClipId : {"id"}, captionTrackId : {"id"}]
<1>1. SchemaOf("transcribe_to_captions") = s
  BY DEF SchemaOf, ToolOf, TranscribeTool, Tool
<1>2. GuiArgs("transcribe_to_captions") = A1
  BY ZenonT(60) DEF GuiArgs, GuiClipArgs, GuiEffectArgs, GuiTextArgs, GuiMediaArgs, GuiProjectArgs
<1>3. DOMAIN s = {"sourceClipId", "captionTrackId"}
  OBVIOUS
<1>4. /\ s["sourceClipId"].kind = "string"
      /\ s["captionTrackId"].kind = "string"
  BY DEF Id, Arg
<1> HIDE DEF s
<1>5. AllSpeak(s, A1) /\ AllHold(s, A1)
  <2>1. ASSUME NEW f \in A1
        PROVE  DOMAIN f = {"sourceClipId", "captionTrackId"}
    OBVIOUS
  <2>2. ASSUME NEW f \in A1
        PROVE  /\ f["sourceClipId"] \in Strings
               /\ f["captionTrackId"] \in Strings
    BY Drawn
  <2> HIDE DEF A1
  <2>3. ASSUME NEW f \in A1 PROVE Speaks(s, f)
    BY <1>3, <1>4, <2>1, <2>2, Kinds DEF Speaks
  <2>4. QED
    BY <1>3, <2>1, <2>3 DEF AllSpeak, AllHold
<1> HIDE DEF A1
<1>6. QED
  BY <1>1, <1>2, <1>5 DEF Spoken

LEMMA CaptureFrameSpoken == Spoken("capture_frame")
<1> DEFINE s == [outputPath |-> Str(TRUE), positionNs |-> WholeNs(TRUE, "zero")]
           A1 == [outputPath : Typed, positionNs : Integers_]
<1>1. SchemaOf("capture_frame") = s
  BY DEF SchemaOf, ToolOf, CaptureFrameTool, Tool
<1>2. GuiArgs("capture_frame") = A1
  BY ZenonT(60) DEF GuiArgs, GuiClipArgs, GuiEffectArgs, GuiTextArgs, GuiMediaArgs, GuiProjectArgs
<1>3. DOMAIN s = {"outputPath", "positionNs"}
  OBVIOUS
<1>4. /\ s["outputPath"].kind = "string"
      /\ s["positionNs"].kind = "integer"
  BY DEF Str, WholeNs, Arg
<1> HIDE DEF s
<1>5. AllSpeak(s, A1) /\ AllHold(s, A1)
  <2>1. ASSUME NEW f \in A1
        PROVE  DOMAIN f = {"outputPath", "positionNs"}
    OBVIOUS
  <2>2. ASSUME NEW f \in A1
        PROVE  /\ f["outputPath"] \in Strings
               /\ f["positionNs"] \in Integers_
    BY Drawn
  <2> HIDE DEF A1
  <2>3. ASSUME NEW f \in A1 PROVE Speaks(s, f)
    BY <1>3, <1>4, <2>1, <2>2, Kinds DEF Speaks
  <2>4. QED
    BY <1>3, <2>1, <2>3 DEF AllSpeak, AllHold
<1> HIDE DEF A1
<1>6. QED
  BY <1>1, <1>2, <1>5 DEF Spoken

LEMMA MediaImportSpoken == Spoken("media.import")
<1> DEFINE s == [path |-> Path(TRUE)]
           A1 == [path : Typed]
<1>1. SchemaOf("media.import") = s
  BY DEF SchemaOf, ToolOf, MediaImportTool, Tool
<1>2. GuiArgs("media.import") = A1
  BY ZenonT(60) DEF GuiArgs, GuiClipArgs, GuiEffectArgs, GuiTextArgs, GuiMediaArgs, GuiProjectArgs
<1>3. DOMAIN s = {"path"}
  OBVIOUS
<1>4. /\ s["path"].kind = "string"
  BY DEF Path, Str, Arg
<1> HIDE DEF s
<1>5. AllSpeak(s, A1) /\ AllHold(s, A1)
  <2>1. ASSUME NEW f \in A1
        PROVE  DOMAIN f = {"path"}
    OBVIOUS
  <2>2. ASSUME NEW f \in A1
        PROVE  /\ f["path"] \in Strings
    BY Drawn
  <2> HIDE DEF A1
  <2>3. ASSUME NEW f \in A1 PROVE Speaks(s, f)
    BY <1>3, <1>4, <2>1, <2>2, Kinds DEF Speaks
  <2>4. QED
    BY <1>3, <2>1, <2>3 DEF AllSpeak, AllHold
<1> HIDE DEF A1
<1>6. QED
  BY <1>1, <1>2, <1>5 DEF Spoken

LEMMA ProjectOpenSpoken == Spoken("project.open")
<1> DEFINE s == [path |-> Path(TRUE)]
           A1 == [path : Typed]
<1>1. SchemaOf("project.open") = s
  BY DEF SchemaOf, ToolOf, ProjectOpenTool, Tool
<1>2. GuiArgs("project.open") = A1
  BY ZenonT(60) DEF GuiArgs, GuiClipArgs, GuiEffectArgs, GuiTextArgs, GuiMediaArgs, GuiProjectArgs
<1>3. DOMAIN s = {"path"}
  OBVIOUS
<1>4. /\ s["path"].kind = "string"
  BY DEF Path, Str, Arg
<1> HIDE DEF s
<1>5. AllSpeak(s, A1) /\ AllHold(s, A1)
  <2>1. ASSUME NEW f \in A1
        PROVE  DOMAIN f = {"path"}
    OBVIOUS
  <2>2. ASSUME NEW f \in A1
        PROVE  /\ f["path"] \in Strings
    BY Drawn
  <2> HIDE DEF A1
  <2>3. ASSUME NEW f \in A1 PROVE Speaks(s, f)
    BY <1>3, <1>4, <2>1, <2>2, Kinds DEF Speaks
  <2>4. QED
    BY <1>3, <2>1, <2>3 DEF AllSpeak, AllHold
<1> HIDE DEF A1
<1>6. QED
  BY <1>1, <1>2, <1>5 DEF Spoken

LEMMA ProjectCreateSpoken == Spoken("project.create")
<1> DEFINE s == [name |-> Path(TRUE), fps |-> Rate(TRUE), width |-> Range_(TRUE), height |->
                Range_(TRUE), colorSpace |-> Word(FALSE, {"w1"})]
           A1 == [name : Typed, fps : Numbers, width : Unsigned, height : Unsigned]
           A2 == Optional("colorSpace", {"w1", "text"})
<1>1. SchemaOf("project.create") = s
  BY DEF SchemaOf, ToolOf, ProjectCreateTool, Tool
<1>2. GuiArgs("project.create") = Join(A1, A2)
  BY ZenonT(60) DEF GuiArgs, GuiClipArgs, GuiEffectArgs, GuiTextArgs, GuiMediaArgs, GuiProjectArgs
<1>3. DOMAIN s = {"name", "fps", "width", "height", "colorSpace"}
  OBVIOUS
<1>4. /\ s["name"].kind = "string"
      /\ s["fps"].kind = "number"
      /\ s["width"].kind = "integer"
      /\ s["height"].kind = "integer"
      /\ s["colorSpace"].kind = "string"
  BY DEF Path, Word, Range_, Rate, Str, WholeNs, Num, Arg
<1>5. /\ ~s["colorSpace"].required
  BY Optionals
<1> HIDE DEF s
<1>6. AllSpeak(s, A1) /\ AllHold(s, A1)
  <2>1. ASSUME NEW f \in A1
        PROVE  DOMAIN f = {"name", "fps", "width", "height"}
    OBVIOUS
  <2>2. ASSUME NEW f \in A1
        PROVE  /\ f["name"] \in Strings
               /\ f["fps"] \in Numbers
               /\ f["width"] \in Integers_
               /\ f["height"] \in Integers_
    BY Drawn
  <2> HIDE DEF A1
  <2>3. ASSUME NEW f \in A1 PROVE Speaks(s, f)
    BY <1>3, <1>4, <2>1, <2>2, Kinds DEF Speaks
  <2>4. QED
    BY <1>3, <1>5, <2>1, <2>3 DEF AllSpeak, AllHold
<1>7. AllSpeak(s, A2)
  <2>1. \A v \in {"w1", "text"} : KindMatches(v, "string")
    BY Kinds, Drawn
  <2>2. "colorSpace" \in DOMAIN s /\ \A v \in {"w1", "text"} : KindMatches(v, s["colorSpace"].kind)
    BY <1>3, <1>4, <2>1
  <2>3. QED
    BY <2>2, OptionSpeaks
<1> HIDE DEF A1, A2
<1>8. AllSpeak(s, Join(A1, A2)) /\ AllHold(s, Join(A1, A2))
  BY <1>6, <1>7, JoinSpeaks
<1>9. QED
  BY <1>1, <1>2, <1>8 DEF Spoken

LEMMA SetProjectSettingsSpoken == Spoken("project.set_settings")
<1> DEFINE s == [fps |-> Rate(FALSE), width |-> Range_(FALSE), height |-> Range_(FALSE),
                colorSpace |-> Word(FALSE, {"w1"})]
           A1 == Optional("fps", Numbers)
           A2 == Optional("width", Unsigned)
           A3 == Optional("height", Unsigned)
           A4 == Optional("colorSpace", {"w1", "text"})
<1>1. SchemaOf("project.set_settings") = s
  BY DEF SchemaOf, ToolOf, SetProjectSettingsTool, Tool
<1>2. GuiArgs("project.set_settings") = Join(Join(A1, A2), Join(A3, A4))
  BY ZenonT(60) DEF GuiArgs, GuiClipArgs, GuiEffectArgs, GuiTextArgs, GuiMediaArgs, GuiProjectArgs
<1>3. DOMAIN s = {"fps", "width", "height", "colorSpace"}
  OBVIOUS
<1>4. /\ s["fps"].kind = "number"
      /\ s["width"].kind = "integer"
      /\ s["height"].kind = "integer"
      /\ s["colorSpace"].kind = "string"
  BY DEF Word, Range_, Rate, Str, WholeNs, Num, Arg
<1>5. /\ ~s["fps"].required
      /\ ~s["width"].required
      /\ ~s["height"].required
      /\ ~s["colorSpace"].required
  BY Optionals
<1> HIDE DEF s
<1>6. AllSpeak(s, A1)
  <2>1. \A v \in Numbers : KindMatches(v, "number")
    BY Kinds, Drawn
  <2>2. "fps" \in DOMAIN s /\ \A v \in Numbers : KindMatches(v, s["fps"].kind)
    BY <1>3, <1>4, <2>1
  <2>3. QED
    BY <2>2, OptionSpeaks
<1>7. AllSpeak(s, A2)
  <2>1. \A v \in Unsigned : KindMatches(v, "integer")
    BY Kinds, Drawn
  <2>2. "width" \in DOMAIN s /\ \A v \in Unsigned : KindMatches(v, s["width"].kind)
    BY <1>3, <1>4, <2>1
  <2>3. QED
    BY <2>2, OptionSpeaks
<1>8. AllSpeak(s, A3)
  <2>1. \A v \in Unsigned : KindMatches(v, "integer")
    BY Kinds, Drawn
  <2>2. "height" \in DOMAIN s /\ \A v \in Unsigned : KindMatches(v, s["height"].kind)
    BY <1>3, <1>4, <2>1
  <2>3. QED
    BY <2>2, OptionSpeaks
<1>9. AllSpeak(s, A4)
  <2>1. \A v \in {"w1", "text"} : KindMatches(v, "string")
    BY Kinds, Drawn
  <2>2. "colorSpace" \in DOMAIN s /\ \A v \in {"w1", "text"} : KindMatches(v, s["colorSpace"].kind)
    BY <1>3, <1>4, <2>1
  <2>3. QED
    BY <2>2, OptionSpeaks
<1>10. \A A : AllHold(s, A)
  BY <1>3, <1>5 DEF AllHold
<1> HIDE DEF A1, A2, A3, A4
<1>11. AllSpeak(s, Join(A1, A2))
  BY <1>6, <1>7, JoinSpeaks
<1>12. AllSpeak(s, Join(A3, A4))
  BY <1>8, <1>9, JoinSpeaks
<1>13. AllSpeak(s, Join(Join(A1, A2), Join(A3, A4)))
  BY <1>11, <1>12, JoinSpeaks
<1>14. QED
  BY <1>1, <1>2, <1>13, <1>10 DEF Spoken

LEMMA ProjectSaveSpoken == Spoken("project.save")
<1> DEFINE s == [path |-> Path(FALSE)]
           A1 == Optional("path", {"text", "long"})
<1>1. SchemaOf("project.save") = s
  BY DEF SchemaOf, ToolOf, ProjectSaveTool, Tool
<1>2. GuiArgs("project.save") = A1
  BY ZenonT(60) DEF GuiArgs, GuiClipArgs, GuiEffectArgs, GuiTextArgs, GuiMediaArgs, GuiProjectArgs
<1>3. DOMAIN s = {"path"}
  OBVIOUS
<1>4. /\ s["path"].kind = "string"
  BY DEF Path, Str, Arg
<1>5. /\ ~s["path"].required
  BY Optionals
<1> HIDE DEF s
<1>6. AllSpeak(s, A1)
  <2>1. \A v \in {"text", "long"} : KindMatches(v, "string")
    BY Kinds, Drawn
  <2>2. "path" \in DOMAIN s /\ \A v \in {"text", "long"} : KindMatches(v, s["path"].kind)
    BY <1>3, <1>4, <2>1
  <2>3. QED
    BY <2>2, OptionSpeaks
<1>7. \A A : AllHold(s, A)
  BY <1>3, <1>5 DEF AllHold
<1> HIDE DEF A1
<1>8. QED
  BY <1>1, <1>2, <1>6, <1>7 DEF Spoken

LEMMA ExportSpoken == Spoken("export")
<1> DEFINE s == [outputPath |-> [Str(TRUE) EXCEPT !.shortest = 1], format |-> Str(TRUE),
                width |-> Range_(FALSE), codec |-> Word(FALSE, {"w1"}), fps |-> Rate(FALSE),
                bitrateKbps |-> Range_(FALSE), includeAudio |-> Flag, overwrite |-> Flag]
           A1 == [outputPath : Typed, format : {"text", "empty"}, overwrite : {"flag"}]
           A2 == Optional("width", Unsigned)
           A3 == Optional("codec", {"w1", "text"})
           A4 == Optional("fps", Numbers)
           A5 == Optional("bitrateKbps", Unsigned)
           A6 == Optional("includeAudio", {"flag"})
<1>1. SchemaOf("export") = s
  BY DEF SchemaOf, ToolOf, ExportTool, Tool
<1>2. GuiArgs("export") = Join(A1, Join(Join(A2, A3), Join(A4, Join(A5, A6))))
  BY ZenonT(60) DEF GuiArgs, GuiClipArgs, GuiEffectArgs, GuiTextArgs, GuiMediaArgs, GuiProjectArgs
<1>3. DOMAIN s = {"outputPath", "format", "width", "codec", "fps", "bitrateKbps",
                  "includeAudio", "overwrite"}
  OBVIOUS
<1>4. /\ s["outputPath"].kind = "string"
      /\ s["format"].kind = "string"
      /\ s["width"].kind = "integer"
      /\ s["codec"].kind = "string"
      /\ s["fps"].kind = "number"
      /\ s["bitrateKbps"].kind = "integer"
      /\ s["includeAudio"].kind = "boolean"
      /\ s["overwrite"].kind = "boolean"
  BY DEF Word, Str, Range_, Rate, Flag, WholeNs, Num, Arg
<1>5. /\ ~s["width"].required
      /\ ~s["codec"].required
      /\ ~s["fps"].required
      /\ ~s["bitrateKbps"].required
      /\ ~s["includeAudio"].required
      /\ ~s["overwrite"].required
  BY Optionals
<1> HIDE DEF s
<1>6. AllSpeak(s, A1) /\ AllHold(s, A1)
  <2>1. ASSUME NEW f \in A1
        PROVE  DOMAIN f = {"outputPath", "format", "overwrite"}
    OBVIOUS
  <2>2. ASSUME NEW f \in A1
        PROVE  /\ f["outputPath"] \in Strings
               /\ f["format"] \in Strings
               /\ f["overwrite"] = "flag"
    BY Drawn
  <2> HIDE DEF A1
  <2>3. ASSUME NEW f \in A1 PROVE Speaks(s, f)
    BY <1>3, <1>4, <2>1, <2>2, Kinds DEF Speaks
  <2>4. QED
    BY <1>3, <1>5, <2>1, <2>3 DEF AllSpeak, AllHold
<1>7. AllSpeak(s, A2)
  <2>1. \A v \in Unsigned : KindMatches(v, "integer")
    BY Kinds, Drawn
  <2>2. "width" \in DOMAIN s /\ \A v \in Unsigned : KindMatches(v, s["width"].kind)
    BY <1>3, <1>4, <2>1
  <2>3. QED
    BY <2>2, OptionSpeaks
<1>8. AllSpeak(s, A3)
  <2>1. \A v \in {"w1", "text"} : KindMatches(v, "string")
    BY Kinds, Drawn
  <2>2. "codec" \in DOMAIN s /\ \A v \in {"w1", "text"} : KindMatches(v, s["codec"].kind)
    BY <1>3, <1>4, <2>1
  <2>3. QED
    BY <2>2, OptionSpeaks
<1>9. AllSpeak(s, A4)
  <2>1. \A v \in Numbers : KindMatches(v, "number")
    BY Kinds, Drawn
  <2>2. "fps" \in DOMAIN s /\ \A v \in Numbers : KindMatches(v, s["fps"].kind)
    BY <1>3, <1>4, <2>1
  <2>3. QED
    BY <2>2, OptionSpeaks
<1>10. AllSpeak(s, A5)
  <2>1. \A v \in Unsigned : KindMatches(v, "integer")
    BY Kinds, Drawn
  <2>2. "bitrateKbps" \in DOMAIN s /\ \A v \in Unsigned : KindMatches(v, s["bitrateKbps"].kind)
    BY <1>3, <1>4, <2>1
  <2>3. QED
    BY <2>2, OptionSpeaks
<1>11. AllSpeak(s, A6)
  <2>1. \A v \in {"flag"} : KindMatches(v, "boolean")
    BY Kinds, Drawn
  <2>2. "includeAudio" \in DOMAIN s /\ \A v \in {"flag"} : KindMatches(v, s["includeAudio"].kind)
    BY <1>3, <1>4, <2>1
  <2>3. QED
    BY <2>2, OptionSpeaks
<1> HIDE DEF A1, A2, A3, A4, A5, A6
<1>12. AllSpeak(s, Join(A2, A3))
  BY <1>7, <1>8, JoinSpeaks
<1>13. AllSpeak(s, Join(A5, A6))
  BY <1>10, <1>11, JoinSpeaks
<1>14. AllSpeak(s, Join(A4, Join(A5, A6)))
  BY <1>9, <1>13, JoinSpeaks
<1>15. AllSpeak(s, Join(Join(A2, A3), Join(A4, Join(A5, A6))))
  BY <1>12, <1>14, JoinSpeaks
<1>16. AllSpeak(s, Join(A1, Join(Join(A2, A3), Join(A4, Join(A5, A6))))) /\ AllHold(s, Join(A1, Join(Join(A2, A3), Join(A4, Join(A5, A6)))))
  BY <1>6, <1>15, JoinSpeaks
<1>17. QED
  BY <1>1, <1>2, <1>16 DEF Spoken

(* Whatever the user's input: a call of the gateway is not refused as missing,     *)
(* undeclared or of the wrong kind.                                                *)
LEMMA GatewaySpeaks ==
  ASSUME NEW t \in Tools, NEW a \in GuiArgs(t)
  PROVE  Validate(SchemaOf(t), a) \in {"bounds", "fits"}
<1>1. CASE t \in {"media.set_tags", "set_track_muted", "add_marker", "remove_marker", "set_clip_properties",
                  "apply_layout", "set_keyframes", "set_effect_resource", "generate", "timeline.read",
                  "edit.undo"}
  <2>1. GuiArgs(t) = {}
    BY <1>1 DEF GuiArgs, GuiClipArgs, GuiEffectArgs, GuiTextArgs, GuiMediaArgs, GuiProjectArgs
  <2>2. QED
    BY <2>1
<1>2. CASE Spoken(t)
  BY <1>2, Refused DEF Spoken
<1>3. QED
  BY <1>1, <1>2, DeleteClipSpoken, RippleDeleteSpoken, CloseGapSpoken, RemoveCaptionCueSpoken,
     MoveClipSpoken, TrimClipSpoken, RippleTrimSpoken, SplitClipSpoken, ReorderClipsSpoken,
     AddClipSpoken, AddTrackSpoken, RemoveTrackSpoken, ReorderEffectsSpoken,
     AddEffectSpoken, RemoveEffectSpoken, SetEffectParameterSpoken, EditCurvePointSpoken,
     AddTransitionSpoken, AddTextClipSpoken, SetTextContentSpoken, SetTextStyleSpoken,
     AddCaptionCueSpoken, SetCaptionTextSpoken, RetimeCaptionCueSpoken, TranscribeSpoken,
     CaptureFrameSpoken, MediaImportSpoken, ProjectOpenSpoken, ProjectCreateSpoken,
     SetProjectSettingsSpoken, ProjectSaveSpoken, ExportSpoken
     DEF Tools

-----------------------------------------------------------------------------------
SurfaceInv ==
  /\ SurfaceSound
  /\ stage \in {"idle", "sent", "fitting"} => refusal = "none"
  /\ stage \in {"sent", "fitting"} => asked.tool \in Tools
  /\ stage = "sent" /\ asked.from = "gui" => asked.args \in GuiArgs(asked.tool)
  /\ stage = "fitting" => Validate(SchemaOf(asked.tool), asked.args) = "fits"

LEMMA SurfaceStarts == ASSUME SurfaceInit PROVE SurfaceInv
BY DEF SurfaceInit, SurfaceInv, SurfaceSound, GatewaySpeaksTheSchema, HandlersReadWhatFits, NoCall

LEMMA SurfaceKeeps == ASSUME SurfaceInv, [SurfaceNext]_surfaceVars PROVE SurfaceInv'
<1>1. CASE GuiCall
  BY <1>1 DEF GuiCall, SurfaceInv, SurfaceSound, GatewaySpeaksTheSchema, HandlersReadWhatFits
<1>2. CASE ClientCall
  BY <1>2 DEF ClientCall, SurfaceInv, SurfaceSound, GatewaySpeaksTheSchema, HandlersReadWhatFits
<1>3. CASE CheckArguments
  <2> DEFINE rule == Validate(SchemaOf(asked.tool), asked.args)
  <2>1. /\ stage = "sent" /\ asked' = asked
        /\ refusal' = IF rule = "fits" THEN "none" ELSE rule
        /\ stage' = IF rule = "fits" THEN "fitting" ELSE "answered"
    BY <1>3 DEF CheckArguments
  <2>2. asked.from = "gui" => rule \in {"bounds", "fits"}
    BY <2>1, GatewaySpeaks DEF SurfaceInv
  <2>3. rule \in {"missing", "unknown", "type", "bounds", "fits"}
    BY DEF Validate
  <2>4. asked'.from = asked.from /\ asked'.tool = asked.tool /\ asked'.args = asked.args
    BY <2>1
  <2>5. stage' = "fitting" => Validate(SchemaOf(asked'.tool), asked'.args) = "fits"
    BY <2>1
  <2> HIDE DEF rule
  <2>6. QED
    BY <2>5, <2>4, <2>3, <2>2, <2>1 DEF SurfaceInv, SurfaceSound, GatewaySpeaksTheSchema, HandlersReadWhatFits
<1>4. CASE ReadArguments
  <2>1. /\ stage = "fitting" /\ stage' = "answered" /\ asked' = asked
        /\ refusal' = IF ToolOf(asked.tool, asked.args).parses THEN "none" ELSE "handler"
    BY <1>4 DEF ReadArguments
  <2>2. refusal' \in {"none", "handler"}
    BY <2>1
  <2>3. refusal' = "handler" => asked.tool \in LeftToHandler \cup Understated
    <3>1. asked.tool \in Tools /\ Validate(SchemaOf(asked.tool), asked.args) = "fits"
      BY <2>1 DEF SurfaceInv
    <3>2. QED
      BY <2>1, <3>1, HandlersRead
  <2>4. QED
    BY <2>1, <2>2, <2>3 DEF SurfaceInv, SurfaceSound, GatewaySpeaksTheSchema, HandlersReadWhatFits
<1>5. CASE AnswerCall
  BY <1>5 DEF AnswerCall, NoCall, SurfaceInv, SurfaceSound, GatewaySpeaksTheSchema, HandlersReadWhatFits
<1>6. CASE UNCHANGED surfaceVars
  BY <1>6 DEF surfaceVars, SurfaceInv, SurfaceSound, GatewaySpeaksTheSchema, HandlersReadWhatFits
<1>7. QED
  BY <1>1, <1>2, <1>3, <1>4, <1>5, <1>6 DEF SurfaceNext
-----------------------------------------------------------------------------------
(* A call that the declarations let through is one its handler reads, whatever the *)
(* arguments of the client, and what the GUI's gateway builds from any input fits  *)
(* the declaration of the tool it calls (ToolSchema validate(), the handlers of    *)
(* services/*Tools.cpp, GuiToolGateway).                                           *)
THEOREM CallsAreUnderstood == MCSpec => []SurfaceSound
<1>1. MCInit => SurfaceInv
  BY SurfaceStarts DEF MCInit
<1>2. SurfaceInv /\ [MCNext]_mcVars => SurfaceInv'
  <2>1. [MCNext]_mcVars => [SurfaceNext]_surfaceVars
    BY DEF MCNext, mcVars
  <2>2. QED
    BY <2>1, SurfaceKeeps
<1>3. SurfaceInv => SurfaceSound
  BY DEF SurfaceInv
<1>4. QED
  BY <1>1, <1>2, <1>3, PTL DEF MCSpec

-----------------------------------------------------------------------------------
(* The types of all parts. *)

(* The tool surface. *)
LEMMA Ruled ==
  ASSUME NEW schema, NEW a
  PROVE  Validate(schema, a) \in {"missing", "unknown", "type", "bounds", "fits"}
BY DEF Validate

LEMMA SurfaceTypesStart == ASSUME SurfaceInit PROVE SurfaceTypeOK
BY DEF SurfaceInit, NoCall, SurfaceTypeOK, Tools

LEMMA SurfaceTypesStep == ASSUME SurfaceTypeOK, [SurfaceNext]_surfaceVars PROVE SurfaceTypeOK'
<1>1. CASE UNCHANGED surfaceVars
  BY <1>1 DEF surfaceVars, SurfaceTypeOK
<1>2. CASE GuiCall
  <2>1. PICK t \in Tools : \E a : asked' = [from |-> "gui", tool |-> t, args |-> a]
    BY <1>2 DEF GuiCall
  <2>2. stage' = "sent" /\ refusal' = refusal
    BY <1>2 DEF GuiCall
  <2>3. asked'.tool \in Tools /\ asked'.from = "gui"
    BY <2>1
  <2>4. QED
    BY <2>2, <2>3 DEF SurfaceTypeOK
<1>3. CASE ClientCall
  <2>1. PICK t \in Tools : \E a : asked' = [from |-> "client", tool |-> t, args |-> a]
    BY <1>3 DEF ClientCall
  <2>2. stage' = "sent" /\ refusal' = refusal
    BY <1>3 DEF ClientCall
  <2>3. asked'.tool \in Tools /\ asked'.from = "client"
    BY <2>1
  <2>4. QED
    BY <2>2, <2>3 DEF SurfaceTypeOK
<1>4. CASE CheckArguments
  <2> DEFINE rule == Validate(SchemaOf(asked.tool), asked.args)
  <2>1. rule \in {"missing", "unknown", "type", "bounds", "fits"}
    BY Ruled
  <2>2. /\ refusal' = IF rule = "fits" THEN "none" ELSE rule
        /\ stage' = IF rule = "fits" THEN "fitting" ELSE "answered"
        /\ asked' = asked
    BY <1>4 DEF CheckArguments
  <2> HIDE DEF rule
  <2>3. QED
    BY <2>1, <2>2 DEF SurfaceTypeOK
<1>5. CASE ReadArguments
  <2>1. refusal' \in {"none", "handler"} /\ stage' = "answered" /\ asked' = asked
    BY <1>5 DEF ReadArguments
  <2>2. QED
    BY <2>1 DEF SurfaceTypeOK
<1>6. CASE AnswerCall
  <2>1. asked' = NoCall /\ stage' = "idle" /\ refusal' = "none"
    BY <1>6 DEF AnswerCall
  <2>2. QED
    BY <2>1 DEF NoCall, SurfaceTypeOK, Tools
<1>7. QED
  BY <1>1, <1>2, <1>3, <1>4, <1>5, <1>6 DEF SurfaceNext

-----------------------------------------------------------------------------------
(* The chat: a turn that may still add entries has room for two.                   *)
ChatRoom ==
  /\ installed \in {"offline", "hosted", "byok"}
  /\ turn.at \in {"idle", "resolve", "interpret", "execute", "classify", "answered"}
  /\ \E m : pending \subseteq {m}
  /\ Len(transcript) <= MaxEntries
  /\ turn.at \in Asking => Len(transcript) + 2 <= MaxEntries

LEMMA ChatRoomStart == ASSUME ChatInit PROVE ChatRoom
<1>1. turn = NoTurn /\ transcript = <<>> /\ pending = {}
  BY DEF ChatInit
<1>2. installed \in {"offline", "hosted", "byok"}
  BY DEF ChatInit, SelectInterpreter
<1>3. turn.at = "idle"
  BY <1>1 DEF NoTurn
<1>4. Len(transcript) = 0
  BY <1>1
<1>5. QED
  BY <1>1, <1>2, <1>3, <1>4, AgentChatAssumption DEF ChatRoom, Asking

LEMMA ChatRoomStep ==
  ASSUME ChatInv, ChatRoom, [ChatNext]_chatVars
  PROVE  ChatRoom'
<1>1. /\ transcript \in Seq(Entries) /\ Len(transcript) \in Nat /\ MaxEntries \in Nat
      /\ turn = [at |-> turn.at, message |-> turn.message, target |-> turn.target, error |-> turn.error]
  BY AgentChatAssumption DEF ChatInv, ChatRecords
<1>2. \A u, v : Len(Append(transcript, u)) = Len(transcript) + 1 /\ Len(transcript \o <<u, v>>) = Len(transcript) + 2
  BY <1>1
<1>3. CASE Type \/ SignInOrOut \/ RefreshPanel \/ TouchProject \/ UNCHANGED chatVars
  <2>1. UNCHANGED <<installed, turn, pending, transcript>>
    BY <1>3 DEF Type, SignInOrOut, RefreshPanel, TouchProject, chatVars
  <2>2. QED
    BY <2>1 DEF ChatRoom
<1>4. CASE SendDraft
  <2>1. Len(transcript) + 2 <= MaxEntries /\ installed' = installed
    BY <1>4 DEF SendDraft
  <2>2. CASE turn'.at = "resolve" /\ pending' = pending /\ transcript' = transcript
    BY <1>1, <2>1, <2>2 DEF ChatRoom, Asking
  <2>3. CASE turn'.at = "classify" /\ pending' = {line} /\ transcript' = Append(transcript, Entry("system", line))
    <3>1. Len(transcript') = Len(transcript) + 1
      BY <1>2, <2>3
    <3>2. Len(transcript') <= MaxEntries
      BY <1>1, <2>1, <3>1
    <3>3. QED
      BY <2>1, <2>3, <3>2 DEF ChatRoom, Asking
  <2>4. QED
    BY <1>4, <2>2, <2>3 DEF SendDraft, Kept
<1>5. CASE ResolveMentions
  <2>1. /\ turn.at = "resolve" /\ installed' = installed /\ pending' = pending
        /\ \/ turn' = [turn EXCEPT !.at = "interpret"] /\ transcript' = transcript
           \/ \E e : /\ turn' = [turn EXCEPT !.at = "classify", !.error = e]
                     /\ transcript' = Append(transcript, Entry("system", turn.message))
    BY <1>5 DEF ResolveMentions
  <2>2. turn'.at \in {"interpret", "classify"} /\ (turn'.at = "interpret" => transcript' = transcript)
    BY <1>1, <2>1
  <2>3. transcript' = transcript \/ Len(transcript') = Len(transcript) + 1
    BY <1>2, <2>1
  <2>4. Len(transcript) + 2 <= MaxEntries
    BY <2>1 DEF ChatRoom, Asking
  <2>5. Len(transcript') <= MaxEntries /\ (turn'.at = "interpret" => Len(transcript') + 2 <= MaxEntries)
    BY <1>1, <2>2, <2>3, <2>4
  <2>6. QED
    BY <2>1, <2>2, <2>5 DEF ChatRoom, Asking
<1>6. CASE Interpret
  <2>1. /\ turn.at = "interpret" /\ installed' = installed /\ pending' = pending
        /\ \/ /\ transcript' = transcript
              /\ \E t : turn' = [turn EXCEPT !.at = "execute", !.target = t]
           \/ /\ transcript' = transcript \o <<Entry("user", turn.message), Entry("system", turn.message)>>
              /\ \E e : turn' = [turn EXCEPT !.at = "classify", !.error = e]
    BY <1>6 DEF Interpret
  <2>2. Len(transcript) + 2 <= MaxEntries
    BY <2>1 DEF ChatRoom, Asking
  <2>3. CASE transcript' = transcript /\ \E t : turn' = [turn EXCEPT !.at = "execute", !.target = t]
    <3>1. turn'.at = "execute"
      BY <1>1, <2>3
    <3>2. QED
      BY <1>1, <2>1, <2>2, <2>3, <3>1 DEF ChatRoom, Asking
  <2>4. CASE /\ transcript' = transcript \o <<Entry("user", turn.message), Entry("system", turn.message)>>
             /\ \E e : turn' = [turn EXCEPT !.at = "classify", !.error = e]
    <3>1. turn'.at = "classify"
      BY <1>1, <2>4
    <3>2. Len(transcript') = Len(transcript) + 2
      BY <1>2, <2>4
    <3>3. QED
      BY <1>1, <2>1, <2>2, <3>1, <3>2 DEF ChatRoom, Asking
  <2>5. QED
    BY <2>1, <2>3, <2>4
<1>7. CASE ExecuteIntent
  <2>1. turn.at = "execute" /\ installed' = installed
    BY <1>7 DEF ExecuteIntent
  <2>2. \/ turn' = [turn EXCEPT !.at = "classify"]
        \/ \E e : turn' = [turn EXCEPT !.at = "classify", !.error = e]
    BY <1>7 DEF ExecuteIntent, MuteTrack, AddTrack, ImportFile, SaveProject, Succeeds, Fails
  <2>3. \E u, v : transcript' = transcript \o <<u, v>>
    BY <1>7 DEF ExecuteIntent, MuteTrack, AddTrack, ImportFile, SaveProject, Succeeds, Fails
  <2>4. pending' = {} \/ pending' = pending
    BY <1>7 DEF ExecuteIntent, MuteTrack, AddTrack, ImportFile, SaveProject, Succeeds, Fails
  <2>5. turn'.at = "classify"
    BY <1>1, <2>2
  <2>6. Len(transcript') = Len(transcript) + 2
    BY <1>2, <2>3
  <2>7. Len(transcript) + 2 <= MaxEntries
    BY <2>1 DEF ChatRoom, Asking
  <2>8. \E m : pending' \subseteq {m}
    BY <2>4 DEF ChatRoom
  <2>9. QED
    BY <1>1, <2>1, <2>5, <2>6, <2>7, <2>8 DEF ChatRoom, Asking
<1>8. CASE ClassifyAnswer
  <2>1. turn' = [turn EXCEPT !.at = "answered"] /\ UNCHANGED <<installed, pending, transcript>>
    BY <1>8 DEF ClassifyAnswer
  <2>2. turn'.at = "answered"
    BY <1>1, <2>1
  <2>3. QED
    BY <2>1, <2>2 DEF ChatRoom, Asking
<1>9. CASE TurnOver
  <2>1. turn'.at = "idle" /\ UNCHANGED <<installed, pending, transcript>>
    BY <1>9 DEF TurnOver, NoTurn
  <2>2. QED
    BY <2>1 DEF ChatRoom, Asking
<1>10. QED
  BY <1>3, <1>4, <1>5, <1>6, <1>7, <1>8, <1>9 DEF ChatNext

LEMMA ChatTyped == ASSUME ChatInv, ChatRoom PROVE ChatTypeOK
<1>1. Cardinality(pending) <= 1
  <2>1. PICK m : pending \subseteq {m}
    BY DEF ChatRoom
  <2>2. pending = {} \/ pending = {m}
    BY <2>1
  <2>3. Cardinality({}) = 0 /\ Cardinality({m}) = 1
    BY FS_EmptySet, FS_Singleton
  <2>4. QED
    BY <2>2, <2>3
<1>2. QED
  BY <1>1 DEF ChatInv, ChatRecords, ChatRoom, ChatTypeOK
-----------------------------------------------------------------------------------
(* The panels. A clip may be moved to before the start of the timeline, which is   *)
(* then refused (FitsTimeline).                                                    *)
LooseClips == {c \in [lane : Lanes, start : Int, in : 0..Horizon, out : 0..Horizon, look : Looks] : c.in < c.out}
ProjectsOf(T) == [lanes : SUBSET Lanes, clips : [Clips -> T \cup {None}]]
FieldValues == [clip : Clips, value : Looks]
ClipDrags == [kind : {"Move", "TrimStart", "TrimEnd"}, clip : Clips, start : Nat, in : 0..Horizon,
              out : 0..Horizon, delta : Int]

PanelRecords ==
  /\ project \in ProjectsOf(Clip) /\ cached \in ProjectsOf(Clip)
  /\ selectedTrack \in Lanes \cup {None}
  /\ focus \/ fields # None => fields \in FieldValues
  /\ drag = None \/ drag = [kind |-> "Playhead"] \/ drag \in ClipDrags
  /\ playhead \in Nat /\ edits \in 0..MaxEdits

(* The highest of finitely many numbers: the least that is as high as all.         *)
LEMMA HighestOf ==
  ASSUME NEW D, IsFiniteSet(D), NEW P \in SUBSET D, P # {}, NEW E, \A x \in P : E[x] \in Nat
  PROVE  \E x \in P : \A y \in P : E[y] <= E[x]
<1>1. PICK n \in Nat : ExistsBijection(1..n, D)
  BY FS_NatBijection
<1>2. PICK g \in Bijection(1..n, D) : TRUE
  BY <1>1 DEF ExistsBijection
<1>3. \A x \in D : \E k \in 1..n : g[k] = x
  BY <1>2 DEF Bijection, Surjection
<1> DEFINE Under(k, b) == \A i \in 1..k : g[i] \in P => E[g[i]] <= b
           T == {k \in Nat : \E b \in Nat : Under(k, b)}
           Bounds == {b \in Nat : \A x \in P : E[x] <= b}
<1>4. 0 \in T
  OBVIOUS
<1>5. ASSUME NEW k \in 0..n - 1, k \in T PROVE k + 1 \in T
  <2>1. PICK b \in Nat : Under(k, b)
    BY <1>5
  <2>2. \E d \in Nat : Under(k + 1, d)
    <3>1. CASE g[k + 1] \in P /\ E[g[k + 1]] > b
      <4>1. E[g[k + 1]] \in Nat
        BY <3>1
      <4>2. ASSUME NEW i \in 1..k + 1, g[i] \in P PROVE E[g[i]] <= E[g[k + 1]]
        <5>1. E[g[i]] \in Nat /\ (i = k + 1 \/ i \in 1..k)
          BY <4>2
        <5>2. i \in 1..k => E[g[i]] <= b
          BY <2>1, <4>2
        <5>3. QED
          BY <3>1, <4>1, <5>1, <5>2
      <4>3. Under(k + 1, E[g[k + 1]])
        BY <4>2
      <4> HIDE DEF Under
      <4>4. QED
        BY Zenon, <4>1, <4>3
    <3>2. CASE ~(g[k + 1] \in P /\ E[g[k + 1]] > b)
      <4>1. ASSUME NEW i \in 1..k + 1, g[i] \in P PROVE E[g[i]] <= b
        <5>1. E[g[i]] \in Nat /\ (i = k + 1 \/ i \in 1..k)
          BY <4>1
        <5>2. i \in 1..k => E[g[i]] <= b
          BY <2>1, <4>1
        <5>3. i = k + 1 => E[g[i]] <= b
          BY <3>2, <4>1, <5>1
        <5>4. QED
          BY <5>1, <5>2, <5>3
      <4>2. Under(k + 1, b)
        BY <4>1
      <4> HIDE DEF Under
      <4>3. QED
        BY Zenon, <2>1, <4>2
    <3>3. QED
      BY <3>1, <3>2
  <2>3. k + 1 \in Nat
    OBVIOUS
  <2> HIDE DEF Under
  <2>4. QED
    BY Zenon, <2>2, <2>3
<1>6. n \in T
  <2> HIDE DEF T
  <2>1. 0..n \subseteq T
    BY <1>4, <1>5, Climb
  <2>2. QED
    BY <2>1
<1>7. Bounds # {} /\ Bounds \in SUBSET Nat
  <2>1. PICK b \in Nat : \A i \in 1..n : g[i] \in P => E[g[i]] <= b
    BY <1>6
  <2>2. \A x \in P : E[x] <= b
    BY <1>3, <2>1
  <2>3. QED
    BY <2>2
<1>8. PICK m \in Bounds : \A b \in Bounds : m <= b
  <2> HIDE DEF Bounds
  <2>1. QED
    BY <1>7, LeastOf
<1>9. ASSUME \A x \in P : E[x] # m PROVE FALSE
  <2>1. \A x \in P : E[x] \in Nat /\ E[x] <= m - 1
    BY <1>8, <1>9
  <2>2. m - 1 \in Nat
    BY <1>8, <2>1
  <2>3. m - 1 \in Bounds
    BY <2>1, <2>2
  <2>4. QED
    BY <1>8, <2>2, <2>3
<1>10. QED
  BY <1>8, <1>9

LEMMA LengthTyped == ASSUME NEW p \in ProjectsOf(Clip) PROVE LengthOf(p) \in Nat
<1> DEFINE P == Present(p)
           E == [id \in P |-> EndOf(p.clips[id])]
           ends == {EndOf(p.clips[id]) : id \in P}
<1>1. \A id \in P : E[id] \in Nat /\ E[id] = EndOf(p.clips[id])
  <2>1. ASSUME NEW id \in P PROVE E[id] \in Nat /\ E[id] = EndOf(p.clips[id])
    <3>1. p.clips[id] \in Clip
      BY DEF ProjectsOf, Present
    <3>2. EndOf(p.clips[id]) \in Nat
      BY <3>1, PanelsAssumption DEF Clip, EndOf
    <3>3. QED
      BY <3>2
  <2>2. QED
    BY <2>1
<1>2. LengthOf(p) = IF ends = {} THEN 0 ELSE CHOOSE e \in ends : \A f \in ends : f <= e
  BY DEF LengthOf
<1>3. CASE P = {}
  BY <1>2, <1>3
<1>4. CASE P # {}
  <2>1. P \in SUBSET Clips /\ IsFiniteSet(Clips)
    BY PanelsAssumption DEF Present
  <2>2. PICK x \in P : \A y \in P : E[y] <= E[x]
    <3> HIDE DEF P, E
    <3>1. QED
      BY <1>1, <1>4, <2>1, HighestOf
  <2>3. E[x] \in ends /\ \A f \in ends : f <= E[x]
    BY <1>1, <2>2
  <2>4. \A f \in ends : f \in Nat
    BY <1>1
  <2>5. LengthOf(p) \in ends
    <3> HIDE DEF ends, E, P
    <3>1. ends # {}
      BY <2>3
    <3>2. QED
      BY <1>2, <2>3, <3>1
  <2>6. QED
    BY <2>4, <2>5
<1>5. QED
  BY <1>3, <1>4

LEMMA Sought ==
  ASSUME cached \in ProjectsOf(Clip), NEW x \in Int, Seek(x)
  PROVE  playhead' \in Nat
<1>1. LengthOf(cached) \in Nat
  BY LengthTyped
<1>2. QED
  BY <1>1 DEF Seek, Between

-----------------------------------------------------------------------------------
(* Projects with a clip put in, taken out or changed.                              *)
LEMMA WithTyped ==
  ASSUME NEW T, NEW p \in ProjectsOf(T), NEW id \in Clips, NEW c \in T \cup {None}
  PROVE  With(p, id, c) \in ProjectsOf(T)
BY DEF With, ProjectsOf

LEMMA Loosened == ASSUME NEW p \in ProjectsOf(Clip) PROVE p \in ProjectsOf(LooseClips)
<1>1. Clip \subseteq LooseClips
  BY DEF Clip, LooseClips
<1>2. QED
  BY <1>1 DEF ProjectsOf

LEMMA Fitted == ASSUME NEW p \in ProjectsOf(LooseClips), FitsTimeline(p) PROVE p \in ProjectsOf(Clip)
<1>1. ASSUME NEW id \in Clips PROVE p.clips[id] \in Clip \cup {None}
  <2>1. CASE id \in Present(p)
    <3>1. p.clips[id] \in LooseClips /\ p.clips[id].start >= 0
      BY <2>1 DEF ProjectsOf, Present, FitsTimeline
    <3>2. QED
      BY <3>1 DEF Clip, LooseClips
  <2>2. CASE id \notin Present(p)
    BY <2>2 DEF Present
  <2>3. QED
    BY <2>1, <2>2
<1>2. QED
  BY <1>1 DEF ProjectsOf

LEMMA Held ==
  ASSUME NEW p \in ProjectsOf(Clip), NEW id \in Present(p)
  PROVE  /\ id \in Clips /\ p.clips[id] \in Clip
         /\ p.clips[id].lane \in Lanes /\ p.clips[id].start \in Nat /\ p.clips[id].in \in Nat
         /\ p.clips[id].out \in Nat /\ p.clips[id].out <= Horizon /\ p.clips[id].in < p.clips[id].out
         /\ p.clips[id].look \in Looks
<1>1. id \in Clips /\ p.clips[id] \in Clip
  BY DEF ProjectsOf, Present
<1>2. QED
  BY <1>1, PanelsAssumption DEF Clip

LEMMA ClipChanged ==
  ASSUME NEW c \in Clip
  PROVE  /\ \A start \in Int : Moved(c, start) \in LooseClips
         /\ \A look \in Looks : [c EXCEPT !.look = look] \in LooseClips
         /\ \A boundary \in Int : TrimmedStart(c, boundary) \in LooseClips
         /\ \A boundary, source \in Int : c.in + 1 <= source /\ source <= Horizon => TrimmedEnd(c, boundary, source) \in LooseClips
<1>1. /\ c \in [lane : Lanes, start : Nat, in : 0..Horizon, out : 0..Horizon, look : Looks]
      /\ c.in < c.out /\ Horizon \in Nat
  BY PanelsAssumption DEF Clip
<1>2. ASSUME NEW start \in Int PROVE Moved(c, start) \in LooseClips
  BY <1>1 DEF Moved, LooseClips
<1>3. ASSUME NEW look \in Looks PROVE [c EXCEPT !.look = look] \in LooseClips
  BY <1>1 DEF LooseClips
<1>4. ASSUME NEW boundary \in Int PROVE TrimmedStart(c, boundary) \in LooseClips
  <2> DEFINE into == Between(0, c.out - 1, boundary)
             from == IF c.start + into - c.in < 0 THEN 0 ELSE c.start + into - c.in
  <2>1. into \in 0..Horizon /\ into < c.out
    BY <1>1 DEF Between
  <2>2. from \in Int
    BY <1>1, <2>1
  <2>3. TrimmedStart(c, boundary) = [c EXCEPT !.in = into, !.start = from]
    BY DEF TrimmedStart
  <2> HIDE DEF into, from
  <2>4. QED
    BY <1>1, <2>1, <2>2, <2>3 DEF LooseClips
<1>5. ASSUME NEW boundary \in Int, NEW source \in Int, c.in + 1 <= source, source <= Horizon
      PROVE  TrimmedEnd(c, boundary, source) \in LooseClips
  <2> DEFINE upto == Between(c.in + 1, source, boundary)
  <2>1. upto \in 0..Horizon /\ c.in < upto
    BY <1>1, <1>5 DEF Between
  <2>2. TrimmedEnd(c, boundary, source) = [c EXCEPT !.out = upto]
    BY DEF TrimmedEnd
  <2> HIDE DEF upto
  <2>3. QED
    BY <1>1, <2>1, <2>2 DEF LooseClips
<1>6. QED
  BY <1>2, <1>3, <1>4, <1>5

LEMMA ClipCut ==
  ASSUME NEW c \in Clip, NEW at \in Int, NEW cut \in 0..Horizon, c.in < cut, cut < c.out
  PROVE  [c EXCEPT !.out = cut] \in LooseClips /\ [c EXCEPT !.start = at, !.in = cut] \in LooseClips
<1>1. /\ c \in [lane : Lanes, start : Nat, in : 0..Horizon, out : 0..Horizon, look : Looks]
      /\ Horizon \in Nat
  BY PanelsAssumption DEF Clip
<1>2. [c EXCEPT !.out = cut] \in LooseClips
  BY <1>1 DEF LooseClips
<1>3. [c EXCEPT !.start = at, !.in = cut] \in LooseClips
  BY <1>1 DEF LooseClips
<1>4. QED
  BY <1>2, <1>3

LEMMA FreshTyped == ASSUME NEW lane \in Lanes PROVE Fresh(lane) \in Clip
BY PanelsAssumption DEF Fresh, Clip, Looks

LEMMA ShownTyped ==
  ASSUME NEW p \in ProjectsOf(Clip), NEW id \in Clips \cup {None}, Shown(id, p) # None
  PROVE  Shown(id, p) \in FieldValues
<1>1. id # None /\ p.clips[id] # None /\ Shown(id, p) = [clip |-> id, value |-> Coarse(p.clips[id].look)]
  BY DEF Shown
<1>2. id \in Present(p)
  BY <1>1 DEF Present
<1>3. p.clips[id].look \in Looks
  BY <1>2, Held
<1>4. Coarse(p.clips[id].look) \in Looks
  BY <1>3 DEF Coarse, Looks
<1>5. QED
  BY <1>1, <1>2, <1>4 DEF FieldValues, Present

-----------------------------------------------------------------------------------
(* A selection, and an edit: one that is not refused fits.                         *)
FieldsTyped == focus \/ fields # None => fields \in FieldValues

LEMMA SelectTyped ==
  ASSUME PanelRecords, NEW id \in Clips \cup {None}, NEW track, Select(id, track, project)
  PROVE  FieldsTyped' /\ selectedTrack' = track
<1>1. CASE id # selectedClip
  <2>1. fields' = Shown(id, project) /\ focus' = FALSE
    BY <1>1 DEF Select
  <2>2. fields' # None => fields' \in FieldValues
    BY <2>1, ShownTyped DEF PanelRecords
  <2>3. QED
    BY <2>1, <2>2 DEF FieldsTyped, Select
<1>2. CASE id = selectedClip
  BY <1>2 DEF Select, FieldsTyped, PanelRecords
<1>3. QED
  BY <1>1, <1>2

LEMMA ApplyTyped ==
  ASSUME PanelsInv, PanelRecords, NEW p \in ProjectsOf(LooseClips), Apply(p), drag' \in {drag, None}
  PROVE  PanelRecords'
<1>1. CASE FitsTimeline(p)
  <2>1. p \in ProjectsOf(Clip)
    BY <1>1, Fitted
  <2>2. /\ edits < MaxEdits /\ edits' = edits + 1 /\ project' = p /\ ViewLearns(p)
        /\ fields' = Shown(inspected', p) /\ focus' = FALSE /\ playhead' = playhead
    BY <1>1 DEF Apply
  <2>3. cached' = p /\ selectedTrack' = selectedTrack
    BY <2>2 DEF ViewLearns
  <2>4. inspected' \in Clips \cup {None}
    BY <2>2, Learning DEF OneSelection
  <2>5. fields' # None => fields' \in FieldValues
    BY <2>1, <2>2, <2>4, ShownTyped
  <2>6. edits' \in 0..MaxEdits
    BY <2>2, PanelsAssumption DEF PanelRecords
  <2>7. QED
    BY <2>1, <2>2, <2>3, <2>5, <2>6 DEF PanelRecords
<1>2. CASE ~FitsTimeline(p)
  <2>1. UNCHANGED <<project, cached, selectedTrack, playhead, fields, focus, edits>>
    BY <1>2 DEF Apply, inspectorVars
  <2>2. QED
    BY <2>1 DEF PanelRecords
<1>3. QED
  BY <1>1, <1>2

LEMMA PanelTypesStart == ASSUME PanelsInit PROVE PanelRecords
<1>1. PICK id \in Clips : project = [lanes |-> Lanes, clips |-> [k \in Clips |-> IF k = id THEN Fresh(CHOOSE l \in Lanes : TRUE) ELSE None]]
  BY DEF PanelsInit
<1>2. Fresh(CHOOSE l \in Lanes : TRUE) \in Clip
  <2>1. (CHOOSE l \in Lanes : TRUE) \in Lanes
    BY PanelsAssumption
  <2>2. QED
    BY <2>1, FreshTyped
<1>3. project \in ProjectsOf(Clip)
  BY <1>1, <1>2 DEF ProjectsOf
<1>4. /\ cached = project /\ selectedTrack = None /\ drag = None /\ playhead = 0 /\ edits = 0
      /\ fields = None /\ focus = FALSE
  BY DEF PanelsInit
<1>5. QED
  BY <1>3, <1>4, PanelsAssumption DEF PanelRecords

LEMMA PressesTyped ==
  ASSUME PanelsInv, PanelRecords,
         \/ \E id \in Clips, kind \in {"Move", "TrimStart", "TrimEnd"} : PressClip(id, kind)
         \/ \E lane \in Lanes, x \in 0..Horizon : PressLane(lane, x)
         \/ \E x \in 0..Horizon : PressBelow(x) \/ PressRuler(x)
  PROVE  PanelRecords'
<1>1. ASSUME NEW id \in Clips, NEW kind \in {"Move", "TrimStart", "TrimEnd"}, PressClip(id, kind)
      PROVE  PanelRecords'
  <2> DEFINE c == cached.clips[id]
  <2>1. /\ id \in Present(cached) /\ Select(id, c.lane, project)
        /\ drag' = [kind |-> kind, clip |-> id, start |-> c.start, in |-> c.in, out |-> c.out, delta |-> 0]
        /\ UNCHANGED <<project, cached, playhead, edits>>
    BY <1>1 DEF PressClip
  <2>2. c.lane \in Lanes /\ c.start \in Nat /\ c.in \in 0..Horizon /\ c.out \in 0..Horizon
    <3>1. c \in Clip
      BY <2>1, Held DEF PanelRecords
    <3>2. QED
      BY <3>1 DEF Clip
  <2>3. FieldsTyped' /\ selectedTrack' = c.lane
    BY <2>1, SelectTyped
  <2> HIDE DEF c
  <2>4. drag' \in ClipDrags
    BY <2>1, <2>2 DEF ClipDrags
  <2>5. QED
    BY <2>4, <2>3, <2>2, <2>1 DEF PanelRecords, FieldsTyped
<1>2. ASSUME NEW track \in Lanes \cup {None}, NEW x \in 0..Horizon, Select(None, track, project), Seek(x),
             UNCHANGED <<project, cached, drag, edits>>
      PROVE  PanelRecords'
  <2>1. FieldsTyped' /\ selectedTrack' = track
    BY <1>2, SelectTyped
  <2>2. playhead' \in Nat
    BY <1>2, Sought DEF PanelRecords
  <2>3. QED
    BY <1>2, <2>1, <2>2 DEF PanelRecords, FieldsTyped
<1>3. ASSUME NEW lane \in Lanes, NEW x \in 0..Horizon, PressLane(lane, x) PROVE PanelRecords'
  BY <1>2, <1>3 DEF PressLane
<1>4. ASSUME NEW x \in 0..Horizon, PressBelow(x) PROVE PanelRecords'
  BY <1>2, <1>4 DEF PressBelow
<1>5. ASSUME NEW x \in 0..Horizon, PressRuler(x) PROVE PanelRecords'
  <2>1. /\ Seek(x) /\ drag' = [kind |-> "Playhead"]
        /\ UNCHANGED <<project, cached, selectedTrack, fields, focus, edits>>
    BY <1>5 DEF PressRuler, inspectorVars
  <2>2. playhead' \in Nat
    BY <2>1, Sought DEF PanelRecords
  <2>3. QED
    BY <2>1, <2>2 DEF PanelRecords
<1>6. QED
  BY <1>1, <1>3, <1>4, <1>5

LEMMA MoveTyped ==
  ASSUME PanelRecords, NEW x \in 0..Horizon \cup Deltas, MouseMove(x)
  PROVE  PanelRecords'
<1>1. x \in Int
  BY PanelsAssumption DEF Deltas
<1>2. drag # None /\ UNCHANGED <<project, cached, selectedTrack, fields, focus, edits>>
  BY DEF MouseMove, inspectorVars
<1>3. CASE drag.kind = "Playhead"
  <2>1. Seek(x) /\ drag' = drag
    BY <1>3 DEF MouseMove
  <2>2. playhead' \in Nat
    BY <1>1, <2>1, Sought DEF PanelRecords
  <2>3. QED
    BY <1>2, <2>1, <2>2 DEF PanelRecords
<1>4. CASE drag.kind # "Playhead"
  <2>1. drag' = [drag EXCEPT !.delta = x] /\ playhead' = playhead
    BY <1>4 DEF MouseMove
  <2>2. drag \in ClipDrags
    BY <1>2, <1>4 DEF PanelRecords
  <2>3. drag' \in ClipDrags
    BY <1>1, <2>1, <2>2 DEF ClipDrags
  <2>4. QED
    BY <1>2, <2>1, <2>3 DEF PanelRecords
<1>5. QED
  BY <1>3, <1>4

LEMMA ReleaseTyped == ASSUME PanelsInv, PanelRecords, MouseRelease PROVE PanelRecords'
<1>1. drag # None /\ drag' = None
  BY DEF MouseRelease
<1>2. CASE drag.kind = "Playhead" \/ drag.delta = 0 \/ DragRefused(drag) \/ drag.clip \notin Present(project)
  <2>1. UNCHANGED <<project, cached, selectedTrack, playhead, fields, focus, edits>>
    BY <1>2 DEF MouseRelease, inspectorVars
  <2>2. QED
    BY <1>1, <2>1 DEF PanelRecords
<1>3. CASE ~(drag.kind = "Playhead" \/ drag.delta = 0 \/ DragRefused(drag) \/ drag.clip \notin Present(project))
  <2> DEFINE c == project.clips[drag.clip]
             r == DragResult(drag, c)
  <2>1. Apply(With(project, drag.clip, r))
    BY <1>3 DEF MouseRelease
  <2>2. drag \in ClipDrags /\ drag.clip \in Present(project)
    BY <1>1, <1>3 DEF PanelRecords
  <2>3. /\ drag.kind \in {"Move", "TrimStart", "TrimEnd"} /\ drag.start \in Nat /\ drag.in \in Int
        /\ drag.out \in Int /\ drag.out <= Horizon /\ drag.delta \in Int
    BY <2>2, PanelsAssumption DEF ClipDrags
  <2>4. c \in Clip /\ drag.clip \in Clips
    BY <2>2, Held DEF PanelRecords
  <2>5. r \in LooseClips
    <3>1. CASE drag.kind = "Move"
      <4>1. r = Moved(c, drag.start + drag.delta)
        BY <3>1 DEF DragResult
      <4>2. drag.start + drag.delta \in Int
        BY <2>3
      <4> HIDE DEF c, r
      <4>3. QED
        BY <2>4, <4>1, <4>2, ClipChanged
    <3>2. CASE drag.kind = "TrimStart"
      <4>1. r = TrimmedStart(c, drag.in + drag.delta)
        BY <3>2 DEF DragResult
      <4>2. drag.in + drag.delta \in Int
        BY <2>3
      <4> HIDE DEF c, r
      <4>3. QED
        BY <2>4, <4>1, <4>2, ClipChanged
    <3>3. CASE drag.kind = "TrimEnd"
      <4>1. r = TrimmedEnd(c, drag.out + drag.delta, drag.out)
        BY <3>3 DEF DragResult
      <4>2. c.in \in Nat /\ ~(c.in + 1 > drag.out)
        BY <1>3, <2>2, <2>4, <3>3 DEF DragRefused, Clip
      <4>3. drag.out + drag.delta \in Int /\ c.in + 1 <= drag.out
        BY <2>3, <4>2
      <4> HIDE DEF c, r
      <4>4. QED
        BY <2>3, <2>4, <4>1, <4>3, ClipChanged
    <3>4. QED
      BY <2>3, <3>1, <3>2, <3>3
  <2> HIDE DEF c, r
  <2>6. With(project, drag.clip, r) \in ProjectsOf(LooseClips)
    BY <2>4, <2>5, Loosened, WithTyped DEF PanelRecords
  <2>7. QED
    BY <1>1, <2>1, <2>6, ApplyTyped
<1>4. QED
  BY <1>2, <1>3

-----------------------------------------------------------------------------------
LEMMA DeleteTyped == ASSUME PanelsInv, PanelRecords, DeleteClip PROVE PanelRecords'
<1>1. inspected \in Present(project) /\ Apply(With(project, inspected, None)) /\ drag' = drag
  BY DEF DeleteClip
<1>2. With(project, inspected, None) \in ProjectsOf(LooseClips)
  BY <1>1, Held, Loosened, WithTyped DEF PanelRecords
<1>3. QED
  BY <1>1, <1>2, ApplyTyped

LEMMA SplitTyped ==
  ASSUME PanelsInv, PanelRecords, NEW right \in Clips, SplitAtPlayhead(right)
  PROVE  PanelRecords'
<1> DEFINE c == project.clips[inspected]
           cut == c.in + playhead - c.start
           front == [c EXCEPT !.out = cut]
           back == [c EXCEPT !.start = playhead, !.in = cut]
<1>1. /\ inspected \in Present(project) /\ c.start < playhead /\ playhead < EndOf(c) /\ drag' = drag
      /\ Apply(With(With(project, inspected, front), right, back))
  BY DEF SplitAtPlayhead
<1>2. inspected \in Clips /\ c \in Clip
  BY <1>1, Held DEF PanelRecords
<1>3. /\ c \in [lane : Lanes, start : Nat, in : 0..Horizon, out : 0..Horizon, look : Looks]
      /\ c.start \in Nat /\ c.in \in Nat /\ c.out \in Nat /\ c.out <= Horizon /\ playhead \in Nat /\ Horizon \in Nat
  BY <1>2, PanelsAssumption DEF Clip, PanelRecords
<1>4. cut \in 0..Horizon /\ c.in < cut /\ cut < c.out
  BY <1>1, <1>3 DEF EndOf
<1>5. front \in LooseClips /\ back \in LooseClips
  <2>1. playhead \in Int
    BY <1>3
  <2> HIDE DEF cut, c
  <2>2. [c EXCEPT !.out = cut] \in LooseClips /\ [c EXCEPT !.start = playhead, !.in = cut] \in LooseClips
    BY <1>2, <1>4, <2>1, ClipCut, Zenon
  <2>3. QED
    BY <2>2
<1> HIDE DEF front, back
<1>6. With(project, inspected, front) \in ProjectsOf(LooseClips)
  BY <1>2, <1>5, Loosened, WithTyped DEF PanelRecords
<1>7. With(With(project, inspected, front), right, back) \in ProjectsOf(LooseClips)
  BY <1>5, <1>6, WithTyped
<1>8. QED
  BY <1>1, <1>7, ApplyTyped

LEMMA RippleTrimTyped == ASSUME PanelsInv, PanelRecords, RippleTrimToPlayhead PROVE PanelRecords'
<1> DEFINE c == project.clips[inspected]
           r == TrimmedEnd(c, c.in + playhead - c.start, c.out)
<1>1. inspected \in Present(project) /\ drag' = drag /\ Apply(With(project, inspected, r))
  BY DEF RippleTrimToPlayhead
<1>2. /\ inspected \in Clips /\ c \in Clip /\ c.start \in Nat /\ c.in \in Nat /\ c.out \in Nat
      /\ c.out <= Horizon /\ c.in < c.out
  BY <1>1, Held DEF PanelRecords
<1>3. c.in + playhead - c.start \in Int /\ c.in + 1 <= c.out
  BY <1>2 DEF PanelRecords
<1>4. r \in LooseClips
  <2> HIDE DEF c
  <2>1. QED
    BY <1>2, <1>3, ClipChanged
<1> HIDE DEF r
<1>5. With(project, inspected, r) \in ProjectsOf(LooseClips)
  BY <1>2, <1>4, Loosened, WithTyped DEF PanelRecords
<1>6. QED
  BY <1>1, <1>5, ApplyTyped

LEMMA PlaceTyped ==
  ASSUME PanelsInv, PanelRecords, NEW id \in Clips, PlaceAtPlayhead(id, 1)
  PROVE  PanelRecords'
<1> DEFINE r == [lane |-> selectedTrack, start |-> playhead, in |-> 0, out |-> 1, look |-> 0]
<1>1. selectedTrack # None /\ drag' = drag /\ Apply(With(project, id, r))
  BY DEF PlaceAtPlayhead
<1>2. r \in LooseClips
  BY <1>1, PanelsAssumption DEF PanelRecords, LooseClips, Looks
<1> HIDE DEF r
<1>3. With(project, id, r) \in ProjectsOf(LooseClips)
  BY <1>2, Loosened, WithTyped DEF PanelRecords
<1>4. QED
  BY <1>1, <1>3, ApplyTyped

LEMMA LanesTyped ==
  ASSUME NEW p \in ProjectsOf(LooseClips), NEW lanes \in SUBSET Lanes
  PROVE  [p EXCEPT !.lanes = lanes] \in ProjectsOf(LooseClips)
BY DEF ProjectsOf

LEMMA AddLaneTyped ==
  ASSUME PanelsInv, PanelRecords, NEW lane \in Lanes, AddLane(lane)
  PROVE  PanelRecords'
<1> DEFINE more == project.lanes \cup {lane}
<1>1. drag' = drag /\ Apply([project EXCEPT !.lanes = more])
  BY DEF AddLane
<1>2. more \in SUBSET Lanes /\ project \in ProjectsOf(LooseClips)
  BY Loosened DEF PanelRecords, ProjectsOf
<1> HIDE DEF more
<1>3. [project EXCEPT !.lanes = more] \in ProjectsOf(LooseClips)
  BY <1>2, LanesTyped
<1>4. QED
  BY <1>1, <1>3, ApplyTyped

-----------------------------------------------------------------------------------
LEMMA LookTyped ==
  ASSUME NEW p \in ProjectsOf(Clip), NEW id \in Present(p), NEW look \in Looks
  PROVE  /\ With(p, id, [p.clips[id] EXCEPT !.look = look]) \in ProjectsOf(LooseClips)
         /\ [p EXCEPT !.clips[id].look = look] = With(p, id, [p.clips[id] EXCEPT !.look = look])
<1> DEFINE c == p.clips[id]
           r == [c EXCEPT !.look = look]
<1>1. c \in Clip /\ id \in Clips
  BY Held
<1>2. r \in LooseClips
  <2> HIDE DEF c
  <2>1. QED
    BY <1>1, ClipChanged
<1>3. With(p, id, r) \in ProjectsOf(LooseClips)
  <2> HIDE DEF r
  <2>1. QED
    BY <1>1, <1>2, Loosened, WithTyped
<1>4. [p EXCEPT !.clips[id].look = look] = With(p, id, r)
  BY DEF With
<1>5. QED
  BY <1>3, <1>4

LEMMA FieldEditsTyped ==
  ASSUME PanelsInv, PanelRecords, EnterField \/ LeaveField \/ \E value \in Looks : TypeInField(value)
  PROVE  PanelRecords'
<1>1. CASE EnterField
  <2>1. fields # None /\ UNCHANGED <<project, cached, selectedTrack, fields, drag, playhead, edits>>
    BY <1>1 DEF EnterField, graphVars
  <2>2. QED
    BY <2>1 DEF PanelRecords
<1>2. ASSUME NEW value \in Looks, TypeInField(value) PROVE PanelRecords'
  <2>1. /\ focus /\ focus' = focus /\ fields' = [fields EXCEPT !.value = value]
        /\ UNCHANGED <<project, cached, selectedTrack, drag, playhead, edits>>
    BY <1>2 DEF TypeInField, graphVars
  <2>2. fields \in FieldValues
    BY <2>1 DEF PanelRecords
  <2>3. fields' \in FieldValues
    BY <2>1, <2>2 DEF FieldValues
  <2>4. QED
    BY <2>1, <2>3 DEF PanelRecords
<1>3. CASE LeaveField
  <2>1. focus /\ drag' = drag
    BY <1>3 DEF LeaveField
  <2>2. fields.value \in Looks
    <3>1. fields \in FieldValues
      BY <2>1 DEF PanelRecords
    <3>2. QED
      BY <3>1 DEF FieldValues
  <2>3. CASE inspected \in Present(project)
    <3> DEFINE p == [project EXCEPT !.clips[inspected].look = fields.value]
    <3>1. Apply(p)
      BY <1>3, <2>3 DEF LeaveField
    <3>2. p \in ProjectsOf(LooseClips)
      <4>1. project \in ProjectsOf(Clip)
        BY DEF PanelRecords
      <4>2. QED
        BY <2>2, <2>3, <4>1, LookTyped
    <3> HIDE DEF p
    <3>3. QED
      BY <2>1, <3>1, <3>2, ApplyTyped
  <2>4. CASE inspected \notin Present(project)
    <3>1. /\ focus' = FALSE
          /\ UNCHANGED <<project, cached, selectedTrack, playhead, fields, edits>>
      BY <1>3, <2>4 DEF LeaveField
    <3>2. QED
      BY <2>1, <3>1 DEF PanelRecords
  <2>5. QED
    BY <2>3, <2>4
<1>4. QED
  BY <1>1, <1>2, <1>3

(* What an edit of another surface may lead to.                                    *)
LEMMA OthersTyped ==
  ASSUME PanelRecords, NEW p \in OtherProjects
  PROVE  p \in ProjectsOf(LooseClips) /\ FitsTimeline(p)
<1>1. project \in ProjectsOf(Clip) /\ project \in ProjectsOf(LooseClips)
  BY Loosened DEF PanelRecords
<1>2. FitsTimeline(p)
  BY DEF OtherProjects
<1>3. \/ \E id \in Clips : p = With(project, id, None)
      \/ \E id \in Clips, lane \in Lanes : p = With(project, id, Fresh(lane))
      \/ \E id \in Present(project) : p = With(project, id, Moved(project.clips[id], project.clips[id].start + 1))
      \/ \E id \in Present(project) : p = With(project, id, [project.clips[id] EXCEPT !.look = 2])
      \/ \E lanes \in SUBSET Lanes : p = [project EXCEPT !.lanes = lanes]
  BY DEF OtherProjects
<1>4. ASSUME NEW id \in Clips, p = With(project, id, None) PROVE p \in ProjectsOf(LooseClips)
  BY <1>1, <1>4, WithTyped
<1>5. ASSUME NEW id \in Clips, NEW lane \in Lanes, p = With(project, id, Fresh(lane)) PROVE p \in ProjectsOf(LooseClips)
  <2>1. p \in ProjectsOf(Clip)
    BY <1>1, <1>5, FreshTyped, WithTyped
  <2>2. QED
    BY <2>1, Loosened
<1>6. ASSUME NEW id \in Present(project), p = With(project, id, Moved(project.clips[id], project.clips[id].start + 1))
      PROVE  p \in ProjectsOf(LooseClips)
  <2> DEFINE c == project.clips[id]
             r == Moved(c, c.start + 1)
  <2>1. id \in Clips /\ c \in Clip /\ c.start \in Nat
    BY <1>1, Held
  <2>2. r \in LooseClips
    <3> HIDE DEF c
    <3>1. QED
      BY <2>1, ClipChanged
  <2> HIDE DEF r
  <2>3. p = With(project, id, r)
    BY <1>6 DEF r
  <2>4. QED
    BY <1>1, <2>1, <2>2, <2>3, WithTyped
<1>7. ASSUME NEW id \in Present(project), p = With(project, id, [project.clips[id] EXCEPT !.look = 2])
      PROVE  p \in ProjectsOf(LooseClips)
  <2>1. 2 \in Looks
    BY DEF Looks
  <2>2. QED
    BY <1>1, <1>7, <2>1, LookTyped
<1>8. ASSUME NEW lanes \in SUBSET Lanes, p = [project EXCEPT !.lanes = lanes] PROVE p \in ProjectsOf(LooseClips)
  BY <1>1, <1>8, LanesTyped
<1>9. QED
  BY <1>2, <1>3, <1>4, <1>5, <1>6, <1>7, <1>8

LEMMA UndoTyped == ASSUME PanelsInv, PanelRecords, Undo PROVE PanelRecords'
<1>1. PICK p \in OtherProjects : Apply(p)
  BY DEF Undo
<1>2. drag' = drag
  BY DEF Undo
<1>3. p \in ProjectsOf(LooseClips)
  BY OthersTyped
<1>4. QED
  BY <1>1, <1>2, <1>3, ApplyTyped

LEMMA TellingTyped ==
  ASSUME PanelsInv, PanelRecords, EndpointEdits \/ InspectorLearns \/ TimelineLearns
  PROVE  PanelRecords'
<1>1. CASE EndpointEdits
  <2>1. /\ edits < MaxEdits /\ edits' = edits + 1 /\ project' \in OtherProjects
        /\ UNCHANGED <<cached, selectedTrack, drag, playhead, fields, focus>>
    BY <1>1 DEF EndpointEdits, graphVars, inspectorVars
  <2>2. project' \in ProjectsOf(Clip)
    BY <2>1, OthersTyped, Fitted
  <2>3. edits' \in 0..MaxEdits
    BY <2>1, PanelsAssumption DEF PanelRecords
  <2>4. QED
    BY <2>1, <2>2, <2>3 DEF PanelRecords
<1>2. CASE InspectorLearns
  <2>1. /\ fields' = Shown(inspected, project) /\ focus' = FALSE
        /\ UNCHANGED <<project, cached, selectedTrack, drag, playhead, edits>>
    BY <1>2 DEF InspectorLearns, graphVars
  <2>2. inspected \in Clips \cup {None}
    BY DEF PanelsInv, OneSelection
  <2>3. fields' # None => fields' \in FieldValues
    BY <2>1, <2>2, ShownTyped DEF PanelRecords
  <2>4. QED
    BY <2>1, <2>3 DEF PanelRecords
<1>3. CASE TimelineLearns
  <2>1. /\ ViewLearns(project)
        /\ IF inspected' # inspected THEN fields' = Shown(inspected', project) /\ focus' = FALSE
                                     ELSE UNCHANGED <<fields, focus>>
        /\ UNCHANGED <<project, drag, playhead, edits>>
    BY <1>3 DEF TimelineLearns
  <2>2. cached' = project /\ selectedTrack' = selectedTrack
    BY <2>1 DEF ViewLearns
  <2>3. inspected' \in Clips \cup {None}
    BY <2>1, Learning DEF OneSelection
  <2>4. FieldsTyped'
    <3>1. CASE inspected' # inspected
      <4>1. fields' = Shown(inspected', project) /\ focus' = FALSE
        BY <2>1, <3>1
      <4>2. fields' # None => fields' \in FieldValues
        BY <2>3, <4>1, ShownTyped DEF PanelRecords
      <4>3. QED
        BY <4>1, <4>2 DEF FieldsTyped
    <3>2. CASE inspected' = inspected
      BY <2>1, <3>2 DEF FieldsTyped, PanelRecords
    <3>3. QED
      BY <3>1, <3>2
  <2>5. QED
    BY <2>1, <2>2, <2>4 DEF PanelRecords, FieldsTyped
<1>4. QED
  BY <1>1, <1>2, <1>3

LEMMA PanelTypesStep == ASSUME PanelsInv, PanelRecords, [PanelsNext]_panelVars PROVE PanelRecords'
<1>1. CASE PanelsNext
  BY <1>1, PressesTyped, MoveTyped, ReleaseTyped, DeleteTyped, SplitTyped, RippleTrimTyped, PlaceTyped,
     AddLaneTyped, FieldEditsTyped, UndoTyped, TellingTyped DEF PanelsNext
<1>2. CASE UNCHANGED panelVars
  BY <1>2 DEF panelVars, graphVars, inspectorVars, PanelRecords
<1>3. QED
  BY <1>1, <1>2

LEMMA PanelsTyped == ASSUME PanelsInv, PanelRecords PROVE PanelsTypeOK
BY DEF PanelsInv, PanelRecords, ProjectsOf, PanelsTypeOK

-----------------------------------------------------------------------------------
(* The file actions.                                                               *)
FileBounds ==
  /\ \A s \in Surfaces : call[s].at = "none" => call[s] = Resting
  /\ excused \subseteq Versions /\ gestures \in 0..MaxGestures

LEMMA FileBoundsStart == ASSUME FilesInit PROVE FileBounds
<1>1. call = [s \in Surfaces |-> Resting] /\ excused = {} /\ gestures = 0
  BY DEF FilesInit
<1>2. QED
  BY <1>1, FileAssumption DEF FileBounds

LEMMA OnlyOne ==
  ASSUME FileBounds, FileRecords, NEW s \in Surfaces, NEW x, call' = [call EXCEPT ![s] = x], x = Resting \/ x.at # "none"
  PROVE  \A u \in Surfaces : call'[u].at = "none" => call'[u] = Resting
<1>1. DOMAIN call = Surfaces
  BY DEF FileRecords
<1>2. \A u \in Surfaces : call'[u] = IF u = s THEN x ELSE call[u]
  BY <1>1
<1>3. QED
  BY <1>2 DEF FileBounds

LEMMA CallsAsked ==
  ASSUME FileBounds, FileRecords, NEW s \in Surfaces, NEW file, Ask(s, file)
  PROVE  \A u \in Surfaces : call'[u].at = "none" => call'[u] = Resting
<1> DEFINE x == [Resting EXCEPT !.at = "waiting", !.job = Len(jobs) + 1]
<1>1. x.at = "waiting"
  BY DEF Resting
<1>2. call' = [call EXCEPT ![s] = x]
  BY DEF Ask
<1> HIDE DEF x
<1>3. QED
  BY <1>1, <1>2, OnlyOne

LEMMA CallsMade ==
  ASSUME FileBounds, FileRecords, [FilesNext]_fileVars
  PROVE  \A u \in Surfaces : call'[u].at = "none" => call'[u] = Resting
<1>1. "gui" \in Surfaces /\ "mcp" \in Surfaces
  BY DEF Surfaces
<1>2. CASE call' = call
  BY <1>2 DEF FileBounds
<1>3. ASSUME NEW s \in Surfaces, NEW file, Ask(s, file)
      PROVE  \A u \in Surfaces : call'[u].at = "none" => call'[u] = Resting
  BY <1>3, CallsAsked
<1>4. ASSUME NEW s \in Surfaces, Take(s) \/ DeliverReport(s) \/ AnswerSave(s) \/ NotDelivered(s)
      PROVE  \A u \in Surfaces : call'[u].at = "none" => call'[u] = Resting
  <2>1. call[s] \in Calls /\ DOMAIN call = Surfaces
    BY DEF FileRecords
  <2> DEFINE old == call[s]
             taken == [old EXCEPT !.at = "delivering", !.batch = reports, !.count = Len(reports)]
             told == [old EXCEPT !.batch = Tail(@)]
             back == [old EXCEPT !.at = "waiting"]
  <2>2. taken.at = "delivering" /\ told.at = old.at /\ back.at = "waiting"
    BY <2>1 DEF Calls
  <2>3. /\ Take(s) => call' = [call EXCEPT ![s] = taken]
        /\ DeliverReport(s) => call' = [call EXCEPT ![s] = told] /\ old.at = "delivering"
        /\ AnswerSave(s) => call' = [call EXCEPT ![s] = Resting]
        /\ NotDelivered(s) => call' = [call EXCEPT ![s] = Resting] \/ call' = [call EXCEPT ![s] = back]
    BY <2>1 DEF Take, TakeReports, DeliverReport, AnswerSave, NotDelivered
  <2> HIDE DEF taken, told, back, old
  <2>4. CASE Take(s)
    BY <2>2, <2>3, <2>4, OnlyOne
  <2>5. CASE DeliverReport(s)
    BY <2>2, <2>3, <2>5, OnlyOne
  <2>6. CASE AnswerSave(s)
    BY <2>3, <2>6, OnlyOne
  <2>7. CASE NotDelivered(s)
    BY <2>2, <2>3, <2>7, OnlyOne
  <2>8. QED
    BY <1>4, <2>4, <2>5, <2>6, <2>7
<1>5. CASE Endpoint
  <2>1. call' = call \/ \E file : Ask("mcp", file)
    BY <1>5 DEF Endpoint
  <2>2. QED
    BY <1>1, <1>2, <1>3, <2>1
<1>6. CASE Window
  <2>1. call' = call \/ \E file : Ask("gui", file)
    BY <1>6 DEF Window, GuiEdits, MenuSave, Menu, Discard, SaveFirst, Dismiss, Destination, Saved, Replace, SaveOrAsk
  <2>2. QED
    BY <1>1, <1>2, <1>3, <2>1
<1>7. ASSUME NEW i, NEW ended, WorkerEnds(i, ended) PROVE call' = call
  BY <1>7 DEF WorkerEnds
<1>8. CASE UNCHANGED fileVars
  BY <1>2, <1>8 DEF fileVars
<1>9. QED
  BY <1>2, <1>4, <1>5, <1>6, <1>7, <1>8 DEF FilesNext

LEMMA ExcusesMade ==
  ASSUME FileBounds, session.doc \in Versions, session'.doc \in Versions, [FilesNext]_fileVars
  PROVE  excused' \subseteq Versions /\ gestures' \in 0..MaxGestures
<1>1. excused \subseteq Versions /\ gestures \in 0..MaxGestures /\ MaxGestures \in Nat
  BY FileAssumption DEF FileBounds
<1>2. excused' \in {excused, {}, excused \cup {session.doc}, excused \cup {session'.doc}}
      /\ (gestures' = gestures \/ (gestures < MaxGestures /\ gestures' = gestures + 1))
  <2>1. CASE UNCHANGED fileVars
    BY <2>1 DEF fileVars
  <2>2. CASE Window
    BY <2>2 DEF Window, GuiEdits, MenuSave, Menu, Discard, SaveFirst, Dismiss, Destination, Saved, Replace
  <2>3. CASE Endpoint
    BY <2>3 DEF Endpoint, Excuse
  <2>4. ASSUME NEW i, NEW ended, WorkerEnds(i, ended) PROVE excused' = excused /\ gestures' = gestures
    BY <2>4 DEF WorkerEnds
  <2>5. ASSUME NEW s, Take(s) \/ DeliverReport(s) \/ AnswerSave(s) \/ NotDelivered(s)
        PROVE  excused' = excused /\ gestures' = gestures
    BY <2>5 DEF Take, DeliverReport, AnswerSave, NotDelivered
  <2>6. QED
    BY <2>5, <2>4, <2>3, <2>2, <2>1 DEF FilesNext
<1>3. QED
  BY <1>1, <1>2

LEMMA FileBoundsStep ==
  ASSUME FilesInv, FilesInv', FileBounds, [FilesNext]_fileVars
  PROVE  FileBounds'
<1>1. session.doc \in Versions /\ session'.doc \in Versions
  BY DEF FilesInv, FileRecords, Sessions
<1>2. excused' \subseteq Versions /\ gestures' \in 0..MaxGestures
  BY <1>1, ExcusesMade
<1>3. \A u \in Surfaces : call'[u].at = "none" => call'[u] = Resting
  BY CallsMade DEF FilesInv
<1>4. QED
  BY <1>2, <1>3 DEF FileBounds

LEMMA OfJobs ==
  ASSUME NEW s \in Seq(Nat), NEW T, ToSet(s) \subseteq T
  PROVE  s \in Seq(T)
<1>1. \A i \in 1..Len(s) : s[i] \in T
  BY DEF ToSet
<1>2. QED
  BY <1>1

LEMMA FilesTyped == ASSUME FilesInv, FileBounds PROVE FilesTypeOK
<1>1. /\ session \in Sessions /\ stored \in [Files -> Versions \cup {0}]
      /\ jobs \in Seq(SaveJobs) /\ reports \in Seq(Nat) /\ captured \subseteq DOMAIN jobs
      /\ call \in [Surfaces -> Calls] /\ answer \in [Surfaces -> Answers] /\ window \in Windows
      /\ made \in Versions /\ edited \subseteq 1..made
      /\ \A s \in Surfaces : call[s].at # "none" => call[s].job \in DOMAIN jobs
  BY DEF FilesInv, FileRecords
<1>2. DOMAIN jobs = 1..Len(jobs) /\ Len(jobs) \in Nat
  BY <1>1
<1>3. \A x \in Undelivered : x \in DOMAIN jobs
  BY DEF Undelivered, Over
<1>4. ToSet(reports) \cup ToSet(Gui) \cup ToSet(Mcp) = Undelivered
  BY DEF FilesInv, Dealt
<1>5. reports \in Seq(DOMAIN jobs)
  BY <1>1, <1>3, <1>4, OfJobs
<1>6. ASSUME NEW s \in Surfaces
      PROVE  call[s] \in [at : {"none", "waiting", "delivering"}, job : 0..Len(jobs), batch : Seq(DOMAIN jobs), count : Nat]
  <2>1. call[s] \in Calls
    BY <1>1
  <2>2. call[s].batch \in Seq(Nat)
    BY <2>1 DEF Calls
  <2>3. ToSet(call[s].batch) \subseteq DOMAIN jobs
    BY <1>3, <1>4 DEF Surfaces, Gui, Mcp
  <2>4. call[s].batch \in Seq(DOMAIN jobs)
    BY <2>2, <2>3, OfJobs
  <2>5. call[s].job \in 0..Len(jobs)
    <3>1. CASE call[s].at = "none"
      <4>1. call[s] = Resting
        BY <3>1 DEF FileBounds
      <4>2. QED
        BY <1>2, <4>1 DEF Resting
    <3>2. CASE call[s].at # "none"
      BY <1>1, <1>2, <3>2
    <3>3. QED
      BY <3>1, <3>2
  <2>6. QED
    BY <2>1, <2>4, <2>5 DEF Calls
<1>7. edited \subseteq Versions
  <2>1. made \in 1..MaxChanges
    BY <1>1 DEF Versions
  <2>2. \A x \in 1..made : x \in 1..MaxChanges
    BY <2>1, FileAssumption
  <2>3. QED
    BY <1>1, <2>2 DEF Versions
<1>8. call \in [Surfaces -> [at : {"none", "waiting", "delivering"}, job : 0..Len(jobs), batch : Seq(DOMAIN jobs), count : Nat]]
  BY <1>1, <1>6
<1>9. QED
  BY <1>1, <1>5, <1>7, <1>8 DEF FilesTypeOK, FileBounds, Sessions, SaveJobs, Stages, Answers, Windows

-----------------------------------------------------------------------------------
(* The chain of effects.                                                           *)
ChainBounds == untold \in BOOLEAN /\ chainEdits \in 0..MaxChainEdits

LEMMA ChainBoundsStart == ASSUME EffectsInit PROVE ChainBounds
<1>1. untold = FALSE /\ chainEdits = 0
  BY DEF EffectsInit
<1>2. 0 \in 0..MaxChainEdits
  BY EffectsAssumption
<1>3. QED
  BY <1>1, <1>2 DEF ChainBounds

LEMMA ChainBoundsStep == ASSUME ChainBounds, [EffectsNext]_effectVars PROVE ChainBounds'
<1>1. MaxChainEdits \in Nat
  BY EffectsAssumption
<1> DEFINE Counts == chainEdits' = chainEdits \/ (chainEdits < MaxChainEdits /\ chainEdits' = chainEdits + 1)
<1>2. ASSUME NEW c, Commit(c) PROVE Counts
  BY <1>2 DEF Commit
<1>3. ASSUME NEW c, Submit(c) PROVE Counts
  BY <1>2, <1>3 DEF Submit
<1>4. ASSUME UndoEdit \/ RedoEdit PROVE Counts
  BY <1>4 DEF UndoEdit, RedoEdit
<1>5. untold' \in {TRUE, FALSE, untold} /\ Counts
  <2>1. CASE UserEdits
    BY <1>2, <2>1 DEF UserEdits
  <2>2. CASE UserWalks
    BY <1>4, <2>2 DEF UserWalks
  <2>3. ASSUME NEW from, NEW to, MoveEffect(from, to) PROVE untold' = untold /\ Counts
    BY <1>3, <2>3 DEF MoveEffect
  <2>4. ASSUME NEW id, NEW index, PressPoint(id, index) PROVE untold' = untold /\ Counts
    BY <2>4 DEF PressPoint
  <2>5. ASSUME NEW id, NEW index, RemovePoint(id, index) PROVE untold' = untold /\ Counts
    BY <1>3, <2>5 DEF RemovePoint
  <2>6. ASSUME NEW id, PressEmpty(id, 2) PROVE untold' = untold /\ Counts
    BY <2>6 DEF PressEmpty
  <2>7. CASE DragPoint(2)
    BY <2>7 DEF DragPoint
  <2>8. CASE ReleasePoint
    BY <1>3, <2>8 DEF ReleasePoint
  <2>9. CASE EndpointEditsChain
    BY <1>2, <1>4, <2>9 DEF EndpointEditsChain
  <2>10. CASE InspectorIsTold
    BY <2>10 DEF InspectorIsTold
  <2>11. CASE UNCHANGED effectVars
    BY <2>11 DEF effectVars
  <2> HIDE DEF Counts
  <2>12. QED
    BY <2>11, <2>10, <2>9, <2>8, <2>7, <2>6, <2>5, <2>4, <2>3, <2>2, <2>1 DEF EffectsNext
<1>6. untold' \in BOOLEAN
  BY <1>5 DEF ChainBounds
<1>7. chainEdits' \in 0..MaxChainEdits
  BY <1>1, <1>5 DEF ChainBounds
<1>8. QED
  BY <1>6, <1>7 DEF ChainBounds

LEMMA EffectsTyped == ASSUME HistoryInv, EditorsInv, ChainBounds PROVE EffectsTypeOK
<1>1. usedIds \subseteq EffectIds /\ clip.effects \in Seq(Effects) /\ \A i \in 1..Len(clip.effects) : clip.effects[i].id \in usedIds
  BY DEF HistoryInv, Chain
<1>2. \A i \in 1..Len(clip.effects) : clip.effects[i] \in Effects
  BY <1>1
<1>3. \A e \in Effects : e.params \in Params /\ e.resource \in {"", "lut"}
  BY DEF Effects, Params, ParamValues, Coordinates, Resources
<1>4. DOMAIN working = IdsOf(drawn)
  BY DEF EditorsInv
<1>5. gesture # NoGesture => gesture.effect \in DOMAIN working /\ gesture.index \in 1..Len(working[gesture.effect])
  BY DEF EditorsInv, DragKept
<1>6. QED
  BY <1>1, <1>2, <1>3, <1>4, <1>5 DEF EffectsTypeOK, ChainBounds

-----------------------------------------------------------------------------------
(* What the parts' types rest on: their invariants, and what bounds their records.  *)
AppRecords ==
  /\ SurfaceTypeOK /\ ChatInv /\ ChatRoom /\ PanelsInv /\ PanelRecords
  /\ FilesInv /\ FileBounds /\ HistoryInv /\ EditorsInv /\ ChainBounds

(* Every variable of the tool surface, the chat, the panels, the file actions and  *)
(* the chain of effects keeps its type, for any clips, names, files and effects    *)
(* and any bounds (ui/TimelineGraphView.cpp, ui/InspectorPanel.cpp,                *)
(* ui/ProjectFileActions.cpp, agent/AgentOrchestrator.cpp, tools/ToolRegistry.cpp) *)
THEOREM AppIsTyped == MCSpec => []AppTypeOK
<1>1. MCInit => AppRecords
  <2>1. MCInit => SurfaceInit /\ ChatInit /\ PanelsInit /\ FilesInit /\ EffectsInit
    BY DEF MCInit
  <2>2. QED
    BY <2>1, SurfaceTypesStart, ChatStart, ChatRoomStart, PanelsStart, PanelTypesStart, FilesStart,
       FileBoundsStart, EffectsStart, ChainBoundsStart, FileAssumption, EffectsAssumption DEF AppRecords
<1>2. AppRecords /\ [MCNext]_mcVars => AppRecords'
  <2> SUFFICES ASSUME AppRecords, [MCNext]_mcVars PROVE AppRecords'
    OBVIOUS
  <2>1. /\ [SurfaceNext]_surfaceVars /\ [ChatNext]_chatVars /\ [PanelsNext]_panelVars
        /\ [FilesNext]_fileVars /\ [EffectsNext]_effectVars
    BY DEF MCNext, mcVars
  <2>2. SurfaceTypeOK'
    BY <2>1, SurfaceTypesStep DEF AppRecords
  <2>3. ChatInv' /\ ChatRoom'
    BY <2>1, ChatStep, ChatRoomStep DEF AppRecords
  <2>4. PanelsInv' /\ PanelRecords'
    BY <2>1, PanelsStep, PanelTypesStep DEF AppRecords
  <2>5. FilesInv'
    BY <2>1, FilesStep, FileAssumption DEF AppRecords
  <2>6. FileBounds'
    BY <2>1, <2>5, FileBoundsStep DEF AppRecords
  <2>7. HistoryInv' /\ EditorsInv' /\ ChainBounds'
    BY <2>1, EffectsStep, ChainBoundsStep, EffectsAssumption DEF AppRecords
  <2>8. QED
    BY <2>2, <2>3, <2>4, <2>5, <2>6, <2>7 DEF AppRecords
<1>3. AppRecords => AppTypeOK
  BY ChatTyped, PanelsTyped, FilesTyped, EffectsTyped DEF AppRecords, AppTypeOK
<1>4. QED
  BY <1>1, <1>2, <1>3, PTL DEF MCSpec
==================================================================================
