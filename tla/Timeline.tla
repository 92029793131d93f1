---------------------------------- MODULE Timeline ---------------------------------
(***********************************************************************************)
(* The document model of core/Project.hpp, Track.hpp and Clip.hpp, and the pure   *)
(* functions the edit commands share.                                              *)
(*                                                                                 *)
(* A project is a record: tracks (a sequence of [id, kind, muted, clips]), assets *)
(* (the media the clips use), groups (clip groups, sequences of clip ids),        *)
(* markers and settings.  A clip is a record                                       *)
(*    id, asset, start, in, out   position on the timeline and in the source,     *)
(*    trans                       length of its transitionIn, 0 for none,         *)
(*    speed                       the playback rate in halves (2 is unit speed),  *)
(*    look                        transform and fades, as one value,              *)
(*    text                        [kind, words, style], what a title or a caption *)
(*                                cue shows; of kind "none" for a media clip.      *)
(* Titles and cues have NoAsset.  Times are whole ticks.  Effects live in         *)
(* EffectEdits.                                                                    *)
(***********************************************************************************)
EXTENDS Integers, Sequences, SequencesExt, FiniteSetsExt

UnitSpeed == 2

(* scaleDuration: to the nearest tick, halves away from zero.                      *)
SourceDeltaForTimeline(delta, speed) == (delta * speed + 1) \div 2
TimelineLengthForSource(span, speed) == (4 * span + speed) \div (2 * speed)

Duration(clip) == TimelineLengthForSource(clip.out - clip.in, clip.speed)
End(clip) == clip.start + Duration(clip)

(* trackOrderedAndNonOverlapping: NEIGHBOURS are ordered by start and overlap by  *)
(* no more than the later one's transition.                                        *)
TrackOrdered(clips) ==
  \A i \in 2..Len(clips) :
    /\ clips[i].start >= clips[i - 1].start
    /\ End(clips[i - 1]) - clips[i].start <= clips[i].trans

(* The nil assetRef.                                                               *)
NoAsset == "nil"

IsTextClip(clip) == clip.text.kind = "title"
IsCaptionCue(clip) == clip.text.kind = "cue"

(* TextStyle::isValid: a size above zero, colours and position in [0, 1].          *)
ValidStyle(style) == style # "malformed"

ValidClip(clip) ==
  /\ clip.out > clip.in /\ clip.speed > 0 /\ clip.trans >= 0
  /\ IsTextClip(clip) => ValidStyle(clip.text.style)
  /\ IsCaptionCue(clip) => clip.text.words # ""

CheckTimelineInvariants(p) ==
  \A t \in DOMAIN p.tracks :
    LET clips == p.tracks[t].clips IN
    /\ \A i \in DOMAIN clips : ValidClip(clips[i]) /\ clips[i].start >= 0
    /\ TrackOrdered(clips)

(* findClip: the places that hold the id, and the first of them in track order.    *)
ClipPlaces(p, id) ==
  {at \in UNION {{t} \X DOMAIN p.tracks[t].clips : t \in DOMAIN p.tracks} :
     p.tracks[at[1]].clips[at[2]].id = id}

FindClip(p, id) ==
  CHOOSE at \in ClipPlaces(p, id) :
    \A b \in ClipPlaces(p, id) : at[1] < b[1] \/ (at[1] = b[1] /\ at[2] <= b[2])

ClipAt(p, at) == p.tracks[at[1]].clips[at[2]]

TrackIds(p) == {p.tracks[t].id : t \in DOMAIN p.tracks}
FindTrack(p, id) == CHOOSE t \in DOMAIN p.tracks : p.tracks[t].id = id
ClipIds(p) == {clip.id : clip \in UNION {ToSet(p.tracks[t].clips) : t \in DOMAIN p.tracks}}

SetClips(p, t, clips) == [p EXCEPT !.tracks[t].clips = clips]
SetClip(p, at, clip) == [p EXCEPT !.tracks[at[1]].clips[at[2]] = clip]

(* The clips from position k on moved by delta.                                    *)
ShiftFrom(clips, k, delta) ==
  [i \in DOMAIN clips |->
     IF i >= k THEN [clips[i] EXCEPT !.start = @ + delta] ELSE clips[i]]

(* One clip given a new start, then std::stable_sort by start: equal starts keep  *)
(* the order they had.                                                             *)
MovedClip(clips, i, start) ==
  LET rest  == RemoveAt(clips, i)
      ahead == {k \in DOMAIN rest :
                  rest[k].start < start \/ (rest[k].start = start /\ k < i)}
  IN  InsertAt(rest, Cardinality(ahead) + 1, [clips[i] EXCEPT !.start = start])

(* AddClipCommand inserts before the first clip that starts strictly later.       *)
WithClip(clips, clip) ==
  LET later == {i \in DOMAIN clips : clips[i].start > clip.start}
  IN  InsertAt(clips, IF later = {} THEN Len(clips) + 1 ELSE Min(later), clip)

(* std::remove_if: the elements that are not among those gone, in their order.     *)
Without(s, gone) ==
  FoldLeft(LAMBDA kept, x : IF x \in gone THEN kept ELSE Append(kept, x), <<>>, s)

(* ReorderClipsCommand packs the clips end to end from the earliest start, each id *)
(* standing for the first clip that has it.                                        *)
Repacked(clips, order) ==
  LET pick == [i \in DOMAIN order |-> clips[Min({k \in DOMAIN clips : clips[k].id = order[i]})]]
      base == Min({clip.start : clip \in ToSet(clips)})
      lead(i) == MapThenSumSet(LAMBDA k : Duration(pick[k]), 1..(i - 1))
  IN  [i \in DOMAIN order |-> [pick[i] EXCEPT !.start = base + lead(i)]]

(* The clips a ripple trim of `id` edits: the clip, then the other members of the *)
(* groups that name it, each once.                                                 *)
AddMember(targets, member) ==
  IF member \in ToSet(targets) THEN targets ELSE Append(targets, member)

AddGroup(targets, group, id) ==
  IF id \in ToSet(group) THEN FoldLeft(AddMember, targets, group) ELSE targets

RippleTargets(p, id) ==
  FoldLeft(LAMBDA targets, group : AddGroup(targets, group, id), <<id>>, p.groups)

Clamp(value, lo, hi) == IF value < lo THEN lo ELSE IF value > hi THEN hi ELSE value
====================================================================================
