-------------------------------- MODULE MCClipEditing ------------------------------
(***********************************************************************************)
(* The timeline engine with the edit commands of ClipCommands, on small           *)
(* timelines.  Ops selects the commands a run offers; Offers builds them from the *)
(* clips and tracks the project shows, the way the tool handlers do.              *)
(***********************************************************************************)
EXTENDS EditPromises

CONSTANTS
  Ops,          \* names of the commands offered
  Ids,          \* clip ids a caller may mint
  Horizon,      \* largest time offered as a position or a boundary
  Speeds,       \* speeds offered, in halves
  Spans,        \* source lengths of the clips offered for adding
  ReuseIds,     \* TRUE: callers also pass ids that are already in the project
  MaxEdits,     \* bound: edits applied since the last reset
  Looks,        \* values of the opacity, gain, transform and fades of a clip
  Starts        \* names of the timelines the run begins with or resets to

VARIABLE edits  \* how many edits were applied since the last reset

Times == 0..Horizon

Edges == {"start", "end"}
Kinds == {"video", "audio", "text", "caption"}
Places == {"v1", "v2", "a1", "t1", "s1"}
KindOf == [v1 |-> "video", v2 |-> "video", a1 |-> "audio", t1 |-> "text", s1 |-> "caption"]

Wordings == {"", "hello"}
Styles == {"small", "large"}
Texts == [kind : {"title", "cue"}, words : Wordings, style : Styles]
NoText == [kind |-> "none", words |-> "", style |-> "small"]

Clip(id, start, in, out, trans, speed) ==
  [id |-> id, asset |-> "media", start |-> start, in |-> in, out |-> out,
   trans |-> trans, speed |-> speed, look |-> "plain", text |-> NoText]

(* A title or a cue as the tools make it: no asset, and a source that starts at 0. *)
Words(id, kind, start, length) ==
  [Clip(id, start, 0, length, 0, 2) EXCEPT
     !.asset = NoAsset, !.text = [kind |-> kind, words |-> "hello", style |-> "small"]]

Track(id, kind, clips) == [id |-> id, kind |-> kind, muted |-> FALSE, clips |-> clips]

Doc(tracks, groups) ==
  [tracks |-> tracks, assets |-> <<>>, groups |-> groups, markers |-> <<>>,
   settings |-> [fps |-> "old", canvas |-> "old", colorSpace |-> "old"]]

Empty == Doc(<<Track("v1", "video", <<>>)>>, <<>>)

(* Two clips that touch, and the second crossfading into the first.                *)
Pair == Doc(<<Track("v1", "video", <<Clip("a", 0, 1, 3, 0, 2), Clip("b", 2, 0, 2, 0, 2)>>)>>, <<>>)
Crossfade ==
  Doc(<<Track("v1", "video", <<Clip("a", 0, 0, 3, 0, 2), Clip("b", 2, 1, 3, 1, 2)>>)>>, <<>>)

(* A clip group across two tracks, and after it a clip that crossfades into it.     *)
Multicam ==
  Doc(<<Track("v1", "video", <<Clip("a", 1, 1, 3, 0, 2)>>),
        Track("a1", "audio", <<Clip("c", 1, 0, 2, 0, 2), Clip("d", 2, 1, 3, 1, 2)>>)>>,
      <<<<"a", "c">>>>)

(* A clip at double speed with one after it.                                       *)
Fast == Doc(<<Track("v1", "video", <<Clip("a", 3, 2, 4, 0, 4), Clip("b", 4, 0, 2, 0, 2)>>)>>, <<>>)

(* A title, and two caption cues that touch.                                       *)
Titled ==
  Doc(<<Track("t1", "text", <<Words("a", "title", 0, 2)>>),
        Track("s1", "caption", <<Words("b", "cue", 0, 2), Words("c", "cue", 2, 2)>>)>>, <<>>)

(* A document a damaged file could hold: the clips overlap.                        *)
Damaged == Doc(<<Track("v1", "video", <<Clip("a", 0, 0, 3, 0, 2), Clip("b", 1, 0, 2, 0, 2)>>)>>, <<>>)

Timelines == [empty |-> Empty, pair |-> Pair, crossfade |-> Crossfade, multicam |-> Multicam,
              fast |-> Fast, titled |-> Titled]

MCInitial == {Damaged} \cup {Timelines[name] : name \in Starts}

-----------------------------------------------------------------------------------
Fresh(p) == IF ReuseIds THEN Ids ELSE Ids \ ClipIds(p)

Orders(p) ==
  {[i \in 1..2 |-> IF i = 1 THEN x ELSE y] : x, y \in ClipIds(p)} \cup {<<x>> : x \in ClipIds(p)}

(* The tool handlers parse the ids they are given and look nothing up, so a        *)
(* command may name a clip or track the project does not hold.                     *)
Named(p) == ClipIds(p) \cup Ids

Offer(ops, fields) == {c @@ [op |-> op, cap |-> NotApplied] : op \in ops \cap Ops, c \in fields}

PlacementOffers(p) ==
       Offer({"AddClip"}, [track : TrackIds(p),
                           clip : {Clip(id, s, 0, n, 0, 2) : id \in Fresh(p), s \in Times, n \in Spans}])
  \cup Offer({"AddClip"}, [track : TrackIds(p) \cap {"t1"},
                           clip : {Words(id, "title", s, n) : id \in Fresh(p), s \in Times, n \in Spans}])
  \cup Offer({"AddClip"}, [track : TrackIds(p) \cap {"s1"},
                           clip : {Words(id, "cue", s, n) : id \in Fresh(p), s \in Times, n \in Spans}])
  \cup Offer({"DeleteClip"}, [clip : Named(p)])
  \cup Offer({"MoveClip"}, [clip : Named(p), start : Times])

TrimOffers(p) ==
       Offer({"TrimClip", "RippleTrim"}, [clip : Named(p), edge : Edges, boundary : Times])
  \cup Offer({"RippleDelete", "CloseGap"}, [clip : Named(p)])
  \cup Offer({"SplitClip"}, [clip : Named(p), playhead : Times, right : Fresh(p)])
  \cup Offer({"ReorderClips"}, [track : TrackIds(p), order : Orders(p)])

(* A layout names clips once unless the run also reuses ids.                       *)
Layouts(p) ==
  {[i \in DOMAIN o |-> [clip |-> o[i], look |-> IF i = 1 THEN "faded" ELSE "plain"]]
     : o \in {o \in Orders(p) : ReuseIds \/ IsInjective(o)}}

LookOffers(p) ==
       Offer({"SetClipProperties"}, [clip : ClipIds(p), look : Looks, speed : Speeds])
  \cup Offer({"SetClipProperty"}, [clip : ClipIds(p), look : Looks])
  \cup Offer({"SetClipTransforms"}, [placements : Layouts(p)])
  \cup Offer({"SetTransition"}, [clip : ClipIds(p), length : 0..2])

(* The tools refuse a call that sets neither a time nor a setting.                 *)
Optional(S) == {{}} \cup {{x} : x \in S}

TextOffers(p) ==
       Offer({"SetTextContent", "SetCaptionText"}, [clip : ClipIds(p), words : Wordings])
  \cup Offer({"SetTextStyle"}, [clip : ClipIds(p), style : Styles])
  \cup {c \in Offer({"RetimeCaptionCue"},
                    [clip : ClipIds(p), start : Optional({1, Horizon}), length : Optional({1, Horizon})]) :
          c.start # {} \/ c.length # {}}

SettingsOffers ==
  Offer({"SetProjectSettings"},
        [set : {[n \in names |-> "new"] : names \in {{"fps"}, {"canvas", "colorSpace"}}}])

TrackOffers(p) ==
       {c \in Offer({"AddTrack"}, [track : Places \ TrackIds(p), kind : Kinds]) :
          c.kind = KindOf[c.track]}
  \cup Offer({"RemoveTrack"}, [track : TrackIds(p)])
  \cup Offer({"SetTrackMuted"}, [track : TrackIds(p), muted : BOOLEAN])

MarkerOffers ==
       Offer({"AddMarker"}, [marker : [id : {"m", "n"}, at : {0}]])
  \cup Offer({"RemoveMarker"}, [marker : {"m", "n"}])

Offers(p) ==
  UNION {PlacementOffers(p), TrimOffers(p), LookOffers(p), TextOffers(p), SettingsOffers,
         TrackOffers(p), MarkerOffers}

-----------------------------------------------------------------------------------
MCInit == Init /\ edits = 0

MCNext ==
  /\ \/ edits < MaxEdits /\ Edit
     \/ Walk
     \/ Load
  /\ edits' = CASE reply'.origin = "Apply" -> edits + 1
                [] reply'.origin = "Reset" -> 0
                [] OTHER -> edits

MCSpec == MCInit /\ [][MCNext]_<<vars, edits>>

-----------------------------------------------------------------------------------
(* The types.                                                                      *)
Clips == [id : Ids \cup {"a", "b", "c", "d"}, asset : {"media", NoAsset}, start : Nat, in : Nat,
          out : Nat, trans : Nat, speed : Nat, look : Looks, text : Texts \cup {NoText}]
Settings == [fps : {"old", "new"}, canvas : {"old", "new"}, colorSpace : {"old", "new"}]
Tracks == [id : Places, kind : Kinds, muted : BOOLEAN, clips : Seq(Clips)]
Markers == [id : {"m", "n"}, at : Nat]

MCProjects == [tracks : Seq(Tracks), assets : Seq({"media"}),
               groups : Seq(Seq(STRING)), markers : Seq(Markers), settings : Settings]

Held == {TRUE}
Captures ==
       {NotApplied, [held |-> TRUE]}
  \cup [held : Held, assetAdded : BOOLEAN]
  \cup [held : Held, track : Places, clips : Seq(Clips)]
  \cup [held : Held, track : Places, index : Nat, clip : Clips]
  \cup [held : Held, in : Nat, out : Nat, start : Nat]
  \cup [held : Held, tracks : Seq(Tracks)]
  \cup [held : Held, look : Looks, speed : Nat]
  \cup [held : Held, look : Looks]
  \cup [held : Held, prior : Seq([clip : STRING, look : Looks])]
  \cup [held : Held, length : Nat]
  \cup [held : Held, index : Nat, removed : Tracks]
  \cup [held : Held, muted : BOOLEAN]
  \cup [held : Held, index : Nat, marker : Markers]
  \cup [held : Held, words : Wordings]
  \cup [held : Held, text : Texts]
  \cup [held : Held, settings : Settings]

MCCommands ==
       [op : {"AddClip"}, track : Places, clip : Clips, cap : Captures]
  \cup [op : {"DeleteClip", "RippleDelete", "CloseGap"}, clip : STRING, cap : Captures]
  \cup [op : {"MoveClip"}, clip : STRING, start : Int, cap : Captures]
  \cup [op : {"TrimClip", "RippleTrim"}, clip : STRING, edge : Edges, boundary : Int, cap : Captures]
  \cup [op : {"SplitClip"}, clip : STRING, playhead : Int, right : STRING, cap : Captures]
  \cup [op : {"ReorderClips"}, track : Places, order : Seq(STRING), cap : Captures]
  \cup [op : {"SetClipProperties"}, clip : STRING, look : Looks, speed : Nat, cap : Captures]
  \cup [op : {"SetClipProperty"}, clip : STRING, look : Looks, cap : Captures]
  \cup [op : {"SetClipTransforms"}, placements : Seq([clip : STRING, look : Looks]), cap : Captures]
  \cup [op : {"SetTransition"}, clip : STRING, length : Nat, cap : Captures]
  \cup [op : {"AddTrack"}, track : Places, kind : Kinds, cap : Captures]
  \cup [op : {"RemoveTrack"}, track : Places, cap : Captures]
  \cup [op : {"SetTrackMuted"}, track : Places, muted : BOOLEAN, cap : Captures]
  \cup [op : {"AddMarker"}, marker : Markers, cap : Captures]
  \cup [op : {"RemoveMarker"}, marker : STRING, cap : Captures]
  \cup [op : {"SetTextContent", "SetCaptionText"}, clip : STRING, words : Wordings, cap : Captures]
  \cup [op : {"SetTextStyle"}, clip : STRING, style : Styles, cap : Captures]
  \cup [op : {"RetimeCaptionCue"}, clip : STRING, start : SUBSET Nat, length : SUBSET Nat, cap : Captures]
  \cup [op : {"SetProjectSettings"}, cap : Captures,
        set : UNION {[names -> {"new"}] : names \in SUBSET {"fps", "canvas", "colorSpace"}}]

====================================================================================
