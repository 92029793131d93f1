-------------------------------- MODULE ClipCommands -------------------------------
(***********************************************************************************)
(* The edit commands of core/ClipEditCommands, RippleEditCommands,                *)
(* TrackEditCommands, MarkerEditCommands, TextCaptionEditCommands and             *)
(* ProjectSettingsEditCommands, and three of EffectEditCommands (clip properties, *)
(* layouts, transitions), as EditCommand::apply and ::revert pairs.               *)
(*                                                                                 *)
(* A command object is a record of its constructor arguments with `op`, its name, *)
(* and `cap`, what its last apply() captured.  A call returns the record          *)
(* TimelineEngine expects: ok, project, cmd.                                      *)
(***********************************************************************************)
EXTENDS Timeline

CONSTANTS
  Frame,             \* one frame of the timeline rate, in ticks
  SourceLength,      \* sourceDuration, the length of every media asset
  MaxTracksPerKind   \* core/Track.hpp kMaxTracksPerKind

ASSUME FrameAssumption ==
  Frame \in Nat \ {0} /\ SourceLength \in Nat \ {0} /\ MaxTracksPerKind \in Nat \ {0}

NotApplied == [held |-> FALSE]
Done(p, c) == [ok |-> TRUE, project |-> p, cmd |-> c]
Refused(p, c) == [ok |-> FALSE, project |-> p, cmd |-> c]

CapturingClips(c, p, t) ==
  [c EXCEPT !.cap = [held |-> TRUE, track |-> p.tracks[t].id, clips |-> p.tracks[t].clips]]

(* The tail of every command that rewrites a track: the prior clips are captured, *)
(* and a result that is negative or overlaps is rolled back.                       *)
RewriteTrack(c, p, t, clips) ==
  LET held == CapturingClips(c, p, t) IN
  IF TrackOrdered(clips) /\ \A i \in DOMAIN clips : clips[i].start >= 0
  THEN Done(SetClips(p, t, clips), held)
  ELSE Refused(p, held)

RevertTrack(c, p) ==
  IF c.cap.held /\ c.cap.track \in TrackIds(p)
  THEN Done(SetClips(p, FindTrack(p, c.cap.track), c.cap.clips), c)
  ELSE Refused(p, c)

-----------------------------------------------------------------------------------
(* Adding, deleting and moving clips.                                              *)
ApplyAddClip(c, p) ==
  LET t     == FindTrack(p, c.track)
      fresh == c.clip.asset # NoAsset /\ c.clip.asset \notin ToSet(p.assets)
      q     == [p EXCEPT !.assets = IF fresh THEN Append(@, c.clip.asset) ELSE @]
  IN  IF c.track \notin TrackIds(p)
      THEN Refused(p, c)
      ELSE Done(SetClips(q, t, WithClip(p.tracks[t].clips, c.clip)),
                [c EXCEPT !.cap = [held |-> TRUE, assetAdded |-> fresh]])

RevertAddClip(c, p) ==
  LET t    == FindTrack(p, c.track)
      kept == Without(p.tracks[t].clips,
                      {clip \in ToSet(p.tracks[t].clips) : clip.id = c.clip.id})
      q    == SetClips(p, t, kept)
  IN  IF c.track \notin TrackIds(p)
      THEN Refused(p, c)
      ELSE IF c.cap.held /\ c.cap.assetAdded
           THEN Done([q EXCEPT !.assets = Without(@, {c.clip.asset})],
                     [c EXCEPT !.cap.assetAdded = FALSE])
           ELSE Done(q, c)

ApplyDeleteClip(c, p) ==
  LET at == FindClip(p, c.clip) IN
  IF ClipPlaces(p, c.clip) = {}
  THEN Refused(p, c)
  ELSE Done(SetClips(p, at[1], RemoveAt(p.tracks[at[1]].clips, at[2])),
            [c EXCEPT !.cap = [held |-> TRUE, track |-> p.tracks[at[1]].id,
                               index |-> at[2], clip |-> ClipAt(p, at)]])

RevertDeleteClip(c, p) ==
  LET t     == FindTrack(p, c.cap.track)
      clips == p.tracks[t].clips
  IN  IF c.cap.held /\ c.cap.track \in TrackIds(p)
      THEN Done(SetClips(p, t, InsertAt(clips, Min({c.cap.index, Len(clips) + 1}),
                                        c.cap.clip)), c)
      ELSE Refused(p, c)

ApplyMoveClip(c, p) ==
  LET at == FindClip(p, c.clip) IN
  IF ClipPlaces(p, c.clip) = {} \/ c.start < 0
  THEN Refused(p, c)
  ELSE RewriteTrack(c, p, at[1], MovedClip(p.tracks[at[1]].clips, at[2], c.start))

-----------------------------------------------------------------------------------
(* Trimming, splitting and reordering.                                             *)
OneFrame(speed) == Max({SourceDeltaForTimeline(Frame, speed), 1})

(* Mistake: a start trim that leaves the clip where it starts.                     *)
TrimmedInPlace(clip, edge, boundary) ==
  LET min == OneFrame(clip.speed) IN
  IF edge = "end"
  THEN [clip EXCEPT !.out = Clamp(boundary, clip.in + min, SourceLength)]
  ELSE [clip EXCEPT !.in = Clamp(boundary, 0, clip.out - min)]

(* A trim moves one source boundary, clamped to keep one frame; a start trim      *)
(* moves timelineStart by the SOURCE delta, never below zero.                     *)
TrimmedClip(clip, edge, boundary) ==
  LET min   == OneFrame(clip.speed)
      newIn == Clamp(boundary, 0, clip.out - min)
  IN  IF edge = "end"
      THEN [clip EXCEPT !.out = Clamp(boundary, clip.in + min, SourceLength)]
      ELSE [clip EXCEPT !.in = newIn, !.start = Max({0, @ + newIn - clip.in})]

TrimFits(clip, edge) ==
  LET min == OneFrame(clip.speed) IN
  /\ SourceLength >= min
  /\ IF edge = "end" THEN clip.in + min <= SourceLength ELSE clip.out >= min

ApplyTrimClip(c, p) ==
  LET at   == FindClip(p, c.clip)
      clip == ClipAt(p, at)
  IN  IF ClipPlaces(p, c.clip) = {} \/ ~TrimFits(clip, c.edge)
      THEN Refused(p, c)
      ELSE Done(SetClip(p, at, TrimmedClip(clip, c.edge, c.boundary)),
                [c EXCEPT !.cap = [held |-> TRUE, in |-> clip.in, out |-> clip.out,
                                   start |-> clip.start]])

RevertTrimClip(c, p) ==
  LET at == FindClip(p, c.clip) IN
  IF c.cap.held /\ ClipPlaces(p, c.clip) # {}
  THEN Done(SetClip(p, at, [ClipAt(p, at) EXCEPT !.in = c.cap.in, !.out = c.cap.out,
                                                 !.start = c.cap.start]), c)
  ELSE Refused(p, c)

(* The playhead lies inside the clip and maps to an interior source position; the *)
(* right half loses the transition and starts where the left half ends.           *)
ApplySplitClip(c, p) ==
  LET at     == FindClip(p, c.clip)
      whole  == ClipAt(p, at)
      offset == SourceDeltaForTimeline(c.playhead - whole.start, whole.speed)
      left   == [whole EXCEPT !.out = whole.in + offset]
      right  == [whole EXCEPT !.id = c.right, !.in = whole.in + offset,
                              !.start = End(left), !.trans = 0]
      halves == InsertAt(ReplaceAt(p.tracks[at[1]].clips, at[2], left), at[2] + 1, right)
  IN  IF \/ ClipPlaces(p, c.clip) = {}
         \/ c.playhead <= whole.start \/ c.playhead >= End(whole)
         \/ offset <= 0 \/ offset >= whole.out - whole.in
         \/ ~TrackOrdered(halves)
      THEN Refused(p, [c EXCEPT !.cap = NotApplied])
      ELSE Done(SetClips(p, at[1], halves),
                [c EXCEPT !.cap = [held |-> TRUE, track |-> p.tracks[at[1]].id,
                                   index |-> at[2], clip |-> whole]])

RevertSplitClip(c, p) ==
  LET t     == FindTrack(p, c.cap.track)
      clips == p.tracks[t].clips
  IN  IF c.cap.held /\ c.cap.track \in TrackIds(p) /\ c.cap.index < Len(clips)
      THEN Done(SetClips(p, t, ReplaceAt(RemoveAt(clips, c.cap.index + 1),
                                         c.cap.index, c.cap.clip)), c)
      ELSE Refused(p, c)

(* A reorder is not checked against the neighbours: it packs them contiguously.   *)
ApplyReorderClips(c, p) ==
  LET t     == FindTrack(p, c.track)
      clips == p.tracks[t].clips
  IN  IF c.track \notin TrackIds(p)
      THEN Refused(p, c)
      ELSE IF \/ Len(c.order) # Len(clips)
              \/ \E id \in ToSet(c.order) :
                   Cardinality({i \in DOMAIN c.order : c.order[i] = id})
                     > Cardinality({k \in DOMAIN clips : clips[k].id = id})
           THEN Refused(p, c)
           ELSE Done(IF clips = <<>> THEN p ELSE SetClips(p, t, Repacked(clips, c.order)),
                     CapturingClips(c, p, t))

-----------------------------------------------------------------------------------
(* Ripple edits.                                                                   *)
ApplyRippleDelete(c, p) ==
  LET at    == FindClip(p, c.clip)
      clips == p.tracks[at[1]].clips
  IN  IF ClipPlaces(p, c.clip) = {}
      THEN Refused(p, c)
      ELSE RewriteTrack(c, p, at[1],
             ShiftFrom(RemoveAt(clips, at[2]), at[2], -Duration(ClipAt(p, at))))

ApplyCloseGap(c, p) ==
  LET at    == FindClip(p, c.clip)
      clips == p.tracks[at[1]].clips
      gap   == clips[at[2] + 1].start - End(clips[at[2]])
  IN  IF ClipPlaces(p, c.clip) = {}
      THEN Refused(p, c)
      ELSE IF at[2] = Len(clips)
      THEN Refused(p, c)
      ELSE IF gap <= 0
      THEN Refused(p, c)
      ELSE RewriteTrack(c, p, at[1], ShiftFrom(clips, at[2] + 1, -gap))

(* The amount by which the named clip's edge moves, in source ticks; the one-frame *)
(* minimum is NOT scaled by the clip's speed here.                                 *)
RippleDelta(clip, edge, boundary) ==
  IF edge = "end"
  THEN Clamp(boundary, clip.in + Frame, SourceLength) - clip.out
  ELSE Clamp(boundary, 0, clip.out - Frame) - clip.in

RippleFits(clip, edge) ==
  /\ SourceLength >= Frame
  /\ IF edge = "end" THEN clip.in + Frame <= SourceLength ELSE clip.out >= Frame

(* One target trimmed by delta: an end trim carries the clips after it along.      *)
RippleOne(p, id, edge, delta) ==
  LET at      == FindClip(p, id)
      clip    == ClipAt(p, at)
      trimmed == IF edge = "end"
                 THEN [clip EXCEPT !.out = @ + delta]
                 ELSE [clip EXCEPT !.in = @ + delta, !.start = @ + delta]
      clips   == ShiftFrom(ReplaceAt(p.tracks[at[1]].clips, at[2], trimmed),
                           at[2] + 1, IF edge = "end" THEN delta ELSE 0)
      legal   == IF edge = "end"
                 THEN trimmed.out >= clip.in + Frame /\ trimmed.out <= SourceLength
                 ELSE trimmed.in >= 0 /\ trimmed.in <= clip.out - Frame
  IN  IF ClipPlaces(p, id) = {}
      THEN [ok |-> FALSE, project |-> p]
      ELSE [ok      |-> /\ legal /\ TrackOrdered(clips)
                        /\ \A i \in DOMAIN clips : clips[i].start >= 0,
            project |-> SetClips(p, at[1], clips)]

ApplyRippleTrim(c, p) ==
  LET clip  == ClipAt(p, FindClip(p, c.clip))
      delta == RippleDelta(clip, c.edge, c.boundary)
      held  == [c EXCEPT !.cap = [held |-> TRUE, tracks |-> p.tracks]]
      step(acc, id) == IF acc.ok THEN RippleOne(acc.project, id, c.edge, delta) ELSE acc
      all   == FoldLeft(step, [ok |-> TRUE, project |-> p], RippleTargets(p, c.clip))
  IN  IF ClipPlaces(p, c.clip) = {}
      THEN Refused(p, c)
      ELSE IF RippleFits(clip, c.edge) /\ all.ok
           THEN Done(all.project, held)
           ELSE Refused(p, held)

(* Mistake: revert() restores only the track of the named clip.                    *)
RevertRippleTrimOneTrack(c, p) ==
  LET t == FindClip(p, c.clip)[1] IN
  IF c.cap.held THEN Done([p EXCEPT !.tracks[t] = c.cap.tracks[t]], c) ELSE Refused(p, c)

RevertRippleTrim(c, p) ==
  IF c.cap.held THEN Done([p EXCEPT !.tracks = c.cap.tracks], c) ELSE Refused(p, c)

-----------------------------------------------------------------------------------
(* Clip properties, layouts and transitions.                                       *)

(* A speed change that would push the clip into its neighbour is undone in place  *)
(* and the capture dropped.                                                        *)
ApplySetClipProperties(c, p) ==
  LET at   == FindClip(p, c.clip)
      clip == ClipAt(p, at)
      q    == SetClip(p, at, [clip EXCEPT !.look = c.look, !.speed = c.speed])
  IN  IF ClipPlaces(p, c.clip) = {}
      THEN Refused(p, c)
      ELSE IF TrackOrdered(q.tracks[at[1]].clips)
           THEN Done(q, [c EXCEPT !.cap = [held |-> TRUE, look |-> clip.look,
                                           speed |-> clip.speed]])
           ELSE Refused(p, [c EXCEPT !.cap = NotApplied])

RevertSetClipProperties(c, p) ==
  LET at == FindClip(p, c.clip) IN
  IF c.cap.held /\ ClipPlaces(p, c.clip) # {}
  THEN Done(SetClip(p, at, [ClipAt(p, at) EXCEPT !.look = c.cap.look,
                                                 !.speed = c.cap.speed]), c)
  ELSE Refused(p, c)

(* SetClipPropertyCommand, the inspector's own command: one of the looks, no check. *)
ApplySetClipProperty(c, p) ==
  LET at == FindClip(p, c.clip) IN
  IF ClipPlaces(p, c.clip) = {}
  THEN Refused(p, c)
  ELSE Done(SetClip(p, at, [ClipAt(p, at) EXCEPT !.look = c.look]),
            [c EXCEPT !.cap = [held |-> TRUE, look |-> ClipAt(p, at).look]])

RevertSetClipProperty(c, p) ==
  LET at == FindClip(p, c.clip) IN
  IF c.cap.held /\ ClipPlaces(p, c.clip) # {}
  THEN Done(SetClip(p, at, [ClipAt(p, at) EXCEPT !.look = c.cap.look]), c)
  ELSE Refused(p, c)

(* SetClipTransformsCommand: every clip is located first, then each placement     *)
(* records the transform it overwrites, in order; revert() puts them back in the  *)
(* SAME order.                                                                     *)
Place(acc, placement) ==
  LET at == FindClip(acc.project, placement.clip) IN
  [project |-> SetClip(acc.project, at, [ClipAt(acc.project, at) EXCEPT !.look = placement.look]),
   prior   |-> Append(acc.prior, [clip |-> placement.clip,
                                  look |-> ClipAt(acc.project, at).look])]

ApplySetClipTransforms(c, p) ==
  LET moved == FoldLeft(Place, [project |-> p, prior |-> <<>>], c.placements) IN
  IF c.placements = <<>> \/ \E i \in DOMAIN c.placements :
                               ClipPlaces(p, c.placements[i].clip) = {}
  THEN Refused(p, c)
  ELSE Done(moved.project, [c EXCEPT !.cap = [held |-> TRUE, prior |-> moved.prior]])

RevertSetClipTransforms(c, p) ==
  IF c.cap.held /\ \A i \in DOMAIN c.placements : ClipPlaces(p, c.placements[i].clip) # {}
  THEN Done(FoldLeft(Place, [project |-> p, prior |-> <<>>], c.cap.prior).project, c)
  ELSE Refused(p, c)

ApplySetTransition(c, p) ==
  LET at == FindClip(p, c.clip) IN
  IF ClipPlaces(p, c.clip) = {}
  THEN Refused(p, c)
  ELSE Done(SetClip(p, at, [ClipAt(p, at) EXCEPT !.trans = c.length]),
            [c EXCEPT !.cap = [held |-> TRUE, length |-> ClipAt(p, at).trans]])

RevertSetTransition(c, p) ==
  LET at == FindClip(p, c.clip) IN
  IF c.cap.held /\ ClipPlaces(p, c.clip) # {}
  THEN Done(SetClip(p, at, [ClipAt(p, at) EXCEPT !.trans = c.cap.length]), c)
  ELSE Refused(p, c)

-----------------------------------------------------------------------------------
(* Tracks and markers.                                                             *)

(* A new track goes after the last one of its kind.                                *)
ApplyAddTrack(c, p) ==
  LET ofKind == {t \in DOMAIN p.tracks : p.tracks[t].kind = c.kind}
      slot   == IF ofKind = {} THEN Len(p.tracks) + 1 ELSE Max(ofKind) + 1
  IN  IF c.track \in TrackIds(p) \/ Cardinality(ofKind) >= MaxTracksPerKind
      THEN Refused(p, c)
      ELSE Done([p EXCEPT !.tracks = InsertAt(@, slot,
                   [id |-> c.track, kind |-> c.kind, muted |-> FALSE, clips |-> <<>>])],
                [c EXCEPT !.cap = [held |-> TRUE]])

RevertAddTrack(c, p) ==
  IF c.cap.held /\ c.track \in TrackIds(p)
  THEN Done([p EXCEPT !.tracks = RemoveAt(@, FindTrack(p, c.track))], c)
  ELSE Refused(p, c)

ApplyRemoveTrack(c, p) ==
  LET t == FindTrack(p, c.track) IN
  IF c.track \notin TrackIds(p)
  THEN Refused(p, c)
  ELSE Done([p EXCEPT !.tracks = RemoveAt(@, t)],
            [c EXCEPT !.cap = [held |-> TRUE, index |-> t, removed |-> p.tracks[t]]])

RevertRemoveTrack(c, p) ==
  IF c.cap.held
  THEN Done([p EXCEPT !.tracks = InsertAt(@, Min({c.cap.index, Len(@) + 1}),
                                          c.cap.removed)], c)
  ELSE Refused(p, c)

ApplySetTrackMuted(c, p) ==
  LET t == FindTrack(p, c.track) IN
  IF c.track \notin TrackIds(p)
  THEN Refused(p, c)
  ELSE Done([p EXCEPT !.tracks[t].muted = c.muted],
            [c EXCEPT !.cap = [held |-> TRUE, muted |-> p.tracks[t].muted]])

RevertSetTrackMuted(c, p) ==
  IF c.cap.held /\ c.track \in TrackIds(p)
  THEN Done([p EXCEPT !.tracks[FindTrack(p, c.track)].muted = c.cap.muted], c)
  ELSE Refused(p, c)

ApplyAddMarker(c, p) ==
  IF \E i \in DOMAIN p.markers : p.markers[i].id = c.marker.id
  THEN Refused(p, c)
  ELSE Done([p EXCEPT !.markers = Append(@, c.marker)], [c EXCEPT !.cap = [held |-> TRUE]])

RevertAddMarker(c, p) ==
  LET hits == {i \in DOMAIN p.markers : p.markers[i].id = c.marker.id} IN
  IF c.cap.held /\ hits # {}
  THEN Done([p EXCEPT !.markers = RemoveAt(@, Min(hits))], c)
  ELSE Refused(p, c)

ApplyRemoveMarker(c, p) ==
  LET hits == {i \in DOMAIN p.markers : p.markers[i].id = c.marker} IN
  IF hits = {}
  THEN Refused(p, c)
  ELSE Done([p EXCEPT !.markers = RemoveAt(@, Min(hits))],
            [c EXCEPT !.cap = [held |-> TRUE, index |-> Min(hits),
                               marker |-> p.markers[Min(hits)]]])

RevertRemoveMarker(c, p) ==
  IF c.cap.held
  THEN Done([p EXCEPT !.markers = InsertAt(@, Min({c.cap.index, Len(@) + 1}),
                                           c.cap.marker)], c)
  ELSE Refused(p, c)

-----------------------------------------------------------------------------------
(* Titles, caption cues and the project's settings.                                *)

(* SetTextContentCommand captures the words alone and puts them back whatever      *)
(* style the title has by then.                                                    *)
ApplySetTextContent(c, p) ==
  LET at == FindClip(p, c.clip) IN
  IF ClipPlaces(p, c.clip) # {} /\ IsTextClip(ClipAt(p, at))
  THEN Done(SetClip(p, at, [ClipAt(p, at) EXCEPT !.text.words = c.words]),
            [c EXCEPT !.cap = [held |-> TRUE, words |-> ClipAt(p, at).text.words]])
  ELSE Refused(p, c)

RevertSetTextContent(c, p) ==
  LET at == FindClip(p, c.clip) IN
  IF c.cap.held /\ ClipPlaces(p, c.clip) # {} /\ IsTextClip(ClipAt(p, at))
  THEN Done(SetClip(p, at, [ClipAt(p, at) EXCEPT !.text.words = c.cap.words]), c)
  ELSE Refused(p, c)

(* SetTextStyleCommand captures the whole TextStyle, the words included.           *)
ApplySetTextStyle(c, p) ==
  LET at == FindClip(p, c.clip) IN
  IF /\ ClipPlaces(p, c.clip) # {} /\ IsTextClip(ClipAt(p, at))
     /\ ValidStyle(c.style)
  THEN Done(SetClip(p, at, [ClipAt(p, at) EXCEPT !.text.style = c.style]),
            [c EXCEPT !.cap = [held |-> TRUE, text |-> ClipAt(p, at).text]])
  ELSE Refused(p, c)

RevertSetTextStyle(c, p) ==
  LET at == FindClip(p, c.clip) IN
  IF c.cap.held /\ ClipPlaces(p, c.clip) # {} /\ IsTextClip(ClipAt(p, at))
  THEN Done(SetClip(p, at, [ClipAt(p, at) EXCEPT !.text = c.cap.text]), c)
  ELSE Refused(p, c)

ApplySetCaptionText(c, p) ==
  LET at == FindClip(p, c.clip) IN
  IF ClipPlaces(p, c.clip) # {} /\ IsCaptionCue(ClipAt(p, at)) /\ c.words # ""
  THEN Done(SetClip(p, at, [ClipAt(p, at) EXCEPT !.text.words = c.words]),
            [c EXCEPT !.cap = [held |-> TRUE, words |-> ClipAt(p, at).text.words]])
  ELSE Refused(p, c)

RevertSetCaptionText(c, p) ==
  LET at == FindClip(p, c.clip) IN
  IF c.cap.held /\ ClipPlaces(p, c.clip) # {} /\ IsCaptionCue(ClipAt(p, at))
  THEN Done(SetClip(p, at, [ClipAt(p, at) EXCEPT !.text.words = c.cap.words]), c)
  ELSE Refused(p, c)

(* RetimeCaptionCueCommand: `start` and `length` are sets of at most one value.    *)
(* What is not given stays: of the length, what the cue has on the TIMELINE, and   *)
(* the source span is set to it whatever the speed of the clip.                    *)
ApplyRetimeCaptionCue(c, p) ==
  LET at     == FindClip(p, c.clip)
      cue    == ClipAt(p, at)
      start  == IF c.start = {} THEN cue.start ELSE Max(c.start)
      length == IF c.length = {} THEN Duration(cue) ELSE Max(c.length)
      timed  == [p.tracks[at[1]].clips EXCEPT ![at[2]] = [@ EXCEPT !.in = 0, !.out = length]]
  IN  IF ClipPlaces(p, c.clip) = {}
      THEN Refused(p, c)
      ELSE IF ~IsCaptionCue(cue) \/ start < 0 \/ length <= 0
           THEN Refused(p, c)
           ELSE RewriteTrack(c, p, at[1], MovedClip(timed, at[2], start))

(* SetProjectSettingsCommand: `set` maps the settings that are given to values;    *)
(* all three are captured.                                                         *)
ApplySetProjectSettings(c, p) ==
  IF \E name \in DOMAIN c.set \cap {"fps", "canvas"} : c.set[name] = "malformed"
  THEN Refused(p, c)
  ELSE Done([p EXCEPT !.settings = [name \in DOMAIN @ |->
                                      IF name \in DOMAIN c.set THEN c.set[name] ELSE @[name]]],
            [c EXCEPT !.cap = [held |-> TRUE, settings |-> p.settings]])

RevertSetProjectSettings(c, p) ==
  IF c.cap.held THEN Done([p EXCEPT !.settings = c.cap.settings], c) ELSE Refused(p, c)

-----------------------------------------------------------------------------------
(* The virtual calls: the command's name selects its apply() and revert().         *)
ApplyCommand(c, p) ==
  CASE c.op = "AddClip"           -> ApplyAddClip(c, p)
    [] c.op = "DeleteClip"        -> ApplyDeleteClip(c, p)
    [] c.op = "MoveClip"          -> ApplyMoveClip(c, p)
    [] c.op = "TrimClip"          -> ApplyTrimClip(c, p)
    [] c.op = "SplitClip"         -> ApplySplitClip(c, p)
    [] c.op = "ReorderClips"      -> ApplyReorderClips(c, p)
    [] c.op = "RippleDelete"      -> ApplyRippleDelete(c, p)
    [] c.op = "RippleTrim"        -> ApplyRippleTrim(c, p)
    [] c.op = "CloseGap"          -> ApplyCloseGap(c, p)
    [] c.op = "SetClipProperties" -> ApplySetClipProperties(c, p)
    [] c.op = "SetClipProperty"   -> ApplySetClipProperty(c, p)
    [] c.op = "SetClipTransforms" -> ApplySetClipTransforms(c, p)
    [] c.op = "SetTransition"     -> ApplySetTransition(c, p)
    [] c.op = "AddTrack"          -> ApplyAddTrack(c, p)
    [] c.op = "RemoveTrack"       -> ApplyRemoveTrack(c, p)
    [] c.op = "SetTrackMuted"     -> ApplySetTrackMuted(c, p)
    [] c.op = "AddMarker"         -> ApplyAddMarker(c, p)
    [] c.op = "RemoveMarker"      -> ApplyRemoveMarker(c, p)
    [] c.op = "SetTextContent"    -> ApplySetTextContent(c, p)
    [] c.op = "SetTextStyle"      -> ApplySetTextStyle(c, p)
    [] c.op = "SetCaptionText"    -> ApplySetCaptionText(c, p)
    [] c.op = "RetimeCaptionCue"  -> ApplyRetimeCaptionCue(c, p)
    [] c.op = "SetProjectSettings" -> ApplySetProjectSettings(c, p)

RevertCommand(c, p) ==
  CASE c.op = "AddClip"           -> RevertAddClip(c, p)
    [] c.op = "DeleteClip"        -> RevertDeleteClip(c, p)
    [] c.op = "TrimClip"          -> RevertTrimClip(c, p)
    [] c.op = "SplitClip"         -> RevertSplitClip(c, p)
    [] c.op = "RippleTrim"        -> RevertRippleTrim(c, p)
    [] c.op = "SetClipProperties" -> RevertSetClipProperties(c, p)
    [] c.op = "SetClipProperty"   -> RevertSetClipProperty(c, p)
    [] c.op = "SetClipTransforms" -> RevertSetClipTransforms(c, p)
    [] c.op = "SetTransition"     -> RevertSetTransition(c, p)
    [] c.op = "AddTrack"          -> RevertAddTrack(c, p)
    [] c.op = "RemoveTrack"       -> RevertRemoveTrack(c, p)
    [] c.op = "SetTrackMuted"     -> RevertSetTrackMuted(c, p)
    [] c.op = "AddMarker"         -> RevertAddMarker(c, p)
    [] c.op = "RemoveMarker"      -> RevertRemoveMarker(c, p)
    [] c.op = "SetTextContent"    -> RevertSetTextContent(c, p)
    [] c.op = "SetTextStyle"      -> RevertSetTextStyle(c, p)
    [] c.op = "SetCaptionText"    -> RevertSetCaptionText(c, p)
    [] c.op = "SetProjectSettings" -> RevertSetProjectSettings(c, p)
    [] c.op \in {"MoveClip", "ReorderClips", "RippleDelete", "CloseGap", "RetimeCaptionCue"} ->
         RevertTrack(c, p)
====================================================================================
