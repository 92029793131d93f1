-------------------------------- MODULE ToolSurface --------------------------------
(***********************************************************************************)
(* The tool surface: what every tool declares (services/ToolSchema), what its     *)
(* handler still parses for itself (services/*Tools.cpp and the hooks of the      *)
(* application), and the calls the GUI's gateway builds (ui/GuiToolGateway).      *)
(*                                                                                 *)
(* The declaration and the handler are two texts about the same arguments.  The   *)
(* declaration is published and enforced before the handler runs; the handler may *)
(* be stricter only where the vocabulary of the declaration ends.  A value is     *)
(* modelled by the class that a declaration or a handler can tell apart.          *)
(***********************************************************************************)
EXTENDS Naturals, FiniteSets

\* ToolVocabulary: the members of the closed value sets.  Only the number of words
\* that a reader tells apart matters.
Words    == {"w1", "w2", "w3"}
Strings  == {"id", "text", "empty", "long"} \cup Words
Integers_ == {"neg", "zero", "pos", "huge"}         \* huge: above any upper bound
Numbers  == Integers_ \cup {"frac"}                 \* frac: between zero and pos
Arrays   == {"none", "list", "junk"}                \* list: items as they should be
Values   == Strings \cup Numbers \cup Arrays \cup {"flag", "map"}

NumberRank(v) == CASE v = "neg"  -> 0 [] v = "zero" -> 1 [] v = "frac" -> 2
                   [] v = "pos"  -> 3 [] v = "huge" -> 4

-----------------------------------------------------------------------------------
(* ArgSpec: one argument, declared once.  The bounds that do not apply to a kind   *)
(* are inert.                                                                      *)
Arg(kind, required) ==
  [kind |-> kind, required |-> required, words |-> {}, uuid |-> FALSE,
   least |-> "neg", most |-> "huge", shortest |-> 0, bounded |-> FALSE]

Id(required)            == [Arg("string", required) EXCEPT !.uuid = TRUE]
Str(required)           == Arg("string", required)
Path(required)          == [Str(required) EXCEPT !.shortest = 1, !.bounded = TRUE]
Word(required, set)     == [Str(required) EXCEPT !.words = set]
WholeNs(required, least) == [Arg("integer", required) EXCEPT !.least = least]
Range_(required)        == [WholeNs(required, "pos") EXCEPT !.most = "pos"]
Num(required, least)    == [Arg("number", required) EXCEPT !.least = least]
Unit(required)          == [Num(required, "zero") EXCEPT !.most = "pos"]
Rate(required)          == [Num(required, "pos") EXCEPT !.most = "pos"]
Flag                    == Arg("boolean", FALSE)
List(shortest)          == [Arg("array", TRUE) EXCEPT !.shortest = shortest]

(* kindMatches(): an integer argument rejects a fractional number.                 *)
KindMatches(v, kind) ==
  v \in CASE kind = "string"  -> Strings  [] kind = "integer" -> Integers_
          [] kind = "number"  -> Numbers  [] kind = "boolean" -> {"flag"}
          [] kind = "array"   -> Arrays   [] kind = "object"  -> {"map"}

Fits(v, s) ==
  /\ KindMatches(v, s.kind)
  /\ s.words # {} => v \in s.words
  /\ s.uuid => v = "id"
  /\ s.kind \in {"integer", "number"} =>
       NumberRank(s.least) <= NumberRank(v) /\ NumberRank(v) <= NumberRank(s.most)
  /\ s.kind \in {"string", "array"} =>
       /\ s.shortest = 1 => v \notin {"empty", "none"}
       /\ s.bounded => v # "long"

(* ToolSchema::validate(): every required argument, no undeclared one, and each   *)
(* of them within its declaration; "fits" or the rule that refuses the call.       *)
Validate(schema, a) ==
  CASE \E n \in DOMAIN schema : schema[n].required /\ n \notin DOMAIN a -> "missing"
    [] \E n \in DOMAIN a : n \notin DOMAIN schema                       -> "unknown"
    [] OTHER ->
       LET present == DOMAIN a \cap DOMAIN schema IN
       IF \E n \in present : ~KindMatches(a[n], schema[n].kind) THEN "type"
       ELSE IF \E n \in present : ~Fits(a[n], schema[n]) THEN "bounds"
       ELSE "fits"

-----------------------------------------------------------------------------------
(* The readers a handler uses: requireUuid(), requireInt() and requireNumber(),   *)
(* requireString(), and the members it reads only when they are there.             *)
HasId(a, n)      == n \in DOMAIN a /\ a[n] = "id"
HasNumber(a, n)  == n \in DOMAIN a /\ a[n] \in Numbers
HasString(a, n)  == n \in DOMAIN a /\ a[n] \in Strings
HasWord(a, n, s) == n \in DOMAIN a /\ a[n] \in s
HasList(a, n)    == n \in DOMAIN a /\ a[n] \in {"none", "list"}
HasText(a, n)    == HasString(a, n) /\ a[n] # "empty"
Positive(a, n)   == HasNumber(a, n) /\ NumberRank(a[n]) >= 3
Whole(a, n)      == HasNumber(a, n) /\ a[n] # "neg"
Within(a, n)     == HasNumber(a, n) /\ a[n] = "pos"
OptionalId(a, n) == n \in DOMAIN a /\ a[n] \in Strings => a[n] = "id"
OptionalWord(a, n, s) == n \in DOMAIN a /\ a[n] \in Strings => a[n] \in s
UnitOr(a, n)     == n \in DOMAIN a /\ a[n] \in Numbers => a[n] \in {"zero", "frac", "pos"}

(* intOr(): an absent or non-numeric member is the fallback.                       *)
RankOr(a, n, fallback) ==
  IF HasNumber(a, n) THEN NumberRank(a[n]) ELSE NumberRank(fallback)

(* A tool: what it declares, and whether its handler can parse the arguments a.    *)
(* What depends on the project, as whether an id is there, is not a matter of form. *)
Tool(schema, parses) == [schema |-> schema, parses |-> parses]
Nothing == [n \in {} |-> "none"]
Member(n, v)  == [m \in {n} |-> v]
Beside(f, g)  == [n \in DOMAIN f \cup DOMAIN g |-> IF n \in DOMAIN f THEN f[n] ELSE g[n]]

-----------------------------------------------------------------------------------
(* The tools, by the file of their handlers.  Arguments that are declared and read *)
(* alike (centerX and centerY, the four colours) are one argument here.            *)
(* services/TimelineClipTools.cpp                                                  *)
ReadTool(a)        == Tool(Nothing, TRUE)
ProjectInfoTool(a) == Tool(Nothing, TRUE)
MediaListTool(a)   == Tool(Nothing, TRUE)
ListModelsTool(a)  == Tool(Nothing, TRUE)

AddClipTool(a) ==
  Tool([trackId |-> Id(TRUE), assetId |-> Id(TRUE), sourcePath |-> Str(FALSE),
        clipId |-> Id(FALSE), timelineStartNs |-> WholeNs(FALSE, "zero"),
        sourceInNs |-> WholeNs(FALSE, "neg"), sourceOutNs |-> WholeNs(TRUE, "neg"),
        opacity |-> Unit(FALSE), gain |-> Num(FALSE, "zero")],
       /\ HasId(a, "trackId") /\ HasId(a, "assetId") /\ OptionalId(a, "clipId")
       /\ HasNumber(a, "sourceOutNs")
       /\ NumberRank(a.sourceOutNs) > RankOr(a, "sourceInNs", "zero"))

OneClip(a) == Tool([clipId |-> Id(TRUE)], HasId(a, "clipId"))
DeleteClipTool(a)       == OneClip(a)
RippleDeleteTool(a)     == OneClip(a)
CloseGapTool(a)         == OneClip(a)
RemoveCaptionCueTool(a) == OneClip(a)

MoveClipTool(a) ==
  Tool([clipId |-> Id(TRUE), timelineStartNs |-> WholeNs(TRUE, "zero")],
       HasId(a, "clipId") /\ HasNumber(a, "timelineStartNs"))

SetClipPropertiesTool(a) ==
  Tool([clipId |-> Id(TRUE), opacity |-> Unit(FALSE), gain |-> Num(FALSE, "zero"),
        scale |-> Rate(FALSE), flipHorizontal |-> Flag,
        fadeInNs |-> WholeNs(FALSE, "zero"), speed |-> Rate(FALSE)],
       HasId(a, "clipId"))

SetKeyframesTool(a) ==
  Tool([clipId |-> Id(TRUE), property |-> Word(TRUE, {"w1"}), keyframes |-> List(0)],
       HasId(a, "clipId") /\ HasWord(a, "property", {"w1"}) /\ HasList(a, "keyframes"))

ApplyLayoutTool(a) ==
  Tool([clipIds |-> List(1), layout |-> Word(TRUE, {"w1"})],
       HasList(a, "clipIds") /\ HasWord(a, "layout", {"w1"}))

Trim(a) ==
  Tool([clipId |-> Id(TRUE), edge |-> Word(TRUE, {"w1", "w2"}),
        boundaryNs |-> WholeNs(TRUE, "neg"), sourceDurationNs |-> WholeNs(FALSE, "zero")],
       /\ HasId(a, "clipId") /\ HasWord(a, "edge", {"w1", "w2"})
       /\ HasNumber(a, "boundaryNs"))
TrimClipTool(a)   == Trim(a)
RippleTrimTool(a) == Trim(a)

SplitClipTool(a) ==
  Tool([clipId |-> Id(TRUE), playheadNs |-> WholeNs(TRUE, "zero")],
       HasId(a, "clipId") /\ HasNumber(a, "playheadNs"))

Reorder(a, owner) ==
  Tool(Beside(Member(owner, Id(TRUE)), Member("order", List(0))), HasId(a, owner) /\ HasList(a, "order"))
ReorderClipsTool(a)   == Reorder(a, "trackId")
ReorderEffectsTool(a) == Reorder(a, "clipId")
-----------------------------------------------------------------------------------
(* services/TimelineEffectTools.cpp                                                *)
AddEffectTool(a) ==
  Tool([clipId |-> Id(TRUE), type |-> Word(TRUE, {"w1"}), parameters |-> Arg("object", FALSE)],
       HasId(a, "clipId") /\ HasWord(a, "type", {"w1"}))

RemoveEffectTool(a) ==
  Tool([clipId |-> Id(TRUE), effectId |-> Id(TRUE)], HasId(a, "clipId") /\ HasId(a, "effectId"))

SetEffectParameterTool(a) ==
  Tool([clipId |-> Id(TRUE), effectId |-> Id(TRUE), parameter |-> Str(TRUE),
        value |-> Num(TRUE, "neg")],
       /\ HasId(a, "clipId") /\ HasId(a, "effectId")
       /\ HasString(a, "parameter") /\ HasNumber(a, "value"))

SetEffectResourceTool(a) ==
  Tool([clipId |-> Id(TRUE), effectId |-> Id(TRUE), path |-> Str(TRUE)],
       HasId(a, "clipId") /\ HasId(a, "effectId") /\ HasString(a, "path"))

(* The operations are w1 = add, w2 = move and w3 = remove.                         *)
EditCurvePointTool(a) ==
  Tool([clipId |-> Id(TRUE), effectId |-> Id(TRUE), channel |-> Word(TRUE, {"w1"}),
        operation |-> Word(TRUE, Words), index |-> WholeNs(FALSE, "zero"),
        x |-> Unit(FALSE), y |-> Unit(FALSE)],
       /\ HasId(a, "clipId") /\ HasId(a, "effectId")
       /\ HasWord(a, "channel", {"w1"}) /\ HasWord(a, "operation", Words)
       /\ a.operation # "w1" => HasNumber(a, "index")
       /\ a.operation # "w3" => HasNumber(a, "x") /\ HasNumber(a, "y"))

(* Mistake: the declaration lets through a duration its handler refuses.           *)
AnyDurationTool(a) ==
  Tool([clipId |-> Id(TRUE), kind |-> Word(TRUE, {"w1"}), durationNs |-> WholeNs(TRUE, "neg")],
       HasId(a, "clipId") /\ HasWord(a, "kind", {"w1"}) /\ Whole(a, "durationNs"))

AddTransitionTool(a) ==
  Tool([clipId |-> Id(TRUE), kind |-> Word(TRUE, {"w1"}), durationNs |-> WholeNs(TRUE, "zero")],
       HasId(a, "clipId") /\ HasWord(a, "kind", {"w1"}) /\ Whole(a, "durationNs"))
-----------------------------------------------------------------------------------
(* services/TimelineTextTools.cpp.  The style a title ends up with must be valid.  *)
AddTextClipTool(a) ==
  Tool([trackId |-> Id(TRUE), clipId |-> Id(FALSE), timelineStartNs |-> WholeNs(FALSE, "zero"),
        durationNs |-> WholeNs(TRUE, "pos"), content |-> Str(TRUE), fontFamily |-> Str(FALSE),
        pointSize |-> Num(FALSE, "pos"), colorR |-> Unit(FALSE),
        alignment |-> Word(FALSE, {"w1"}), x |-> Unit(FALSE)],
       /\ HasId(a, "trackId") /\ Positive(a, "durationNs") /\ HasString(a, "content")
       /\ OptionalWord(a, "alignment", {"w1"}) /\ OptionalId(a, "clipId")
       /\ RankOr(a, "pointSize", "pos") > 1 /\ UnitOr(a, "colorR") /\ UnitOr(a, "x"))

SetTextContentTool(a) ==
  Tool([clipId |-> Id(TRUE), content |-> Str(TRUE)], HasId(a, "clipId") /\ HasString(a, "content"))

SetTextStyleTool(a) ==
  Tool([clipId |-> Id(TRUE), fontFamily |-> Str(FALSE), pointSize |-> Num(FALSE, "pos"),
        colorR |-> Unit(FALSE), alignment |-> Word(FALSE, {"w1"}), x |-> Unit(FALSE)],
       /\ HasId(a, "clipId") /\ OptionalWord(a, "alignment", {"w1"})
       /\ RankOr(a, "pointSize", "pos") > 1 /\ UnitOr(a, "colorR") /\ UnitOr(a, "x"))

AddCaptionCueTool(a) ==
  Tool([trackId |-> Id(TRUE), clipId |-> Id(FALSE), timelineStartNs |-> WholeNs(FALSE, "zero"),
        durationNs |-> WholeNs(TRUE, "pos"), text |-> Str(TRUE)],
       /\ HasId(a, "trackId") /\ Positive(a, "durationNs") /\ HasText(a, "text")
       /\ OptionalId(a, "clipId"))

(* The command underneath refuses an empty text as an invalid argument.            *)
SetCaptionTextTool(a) ==
  Tool([clipId |-> Id(TRUE), text |-> Str(TRUE)], HasId(a, "clipId") /\ HasText(a, "text"))

RetimeCaptionCueTool(a) ==
  Tool([clipId |-> Id(TRUE), timelineStartNs |-> WholeNs(FALSE, "zero"),
        durationNs |-> WholeNs(FALSE, "pos")],
       /\ HasId(a, "clipId") /\ {"timelineStartNs", "durationNs"} \cap DOMAIN a # {}
       /\ "timelineStartNs" \in DOMAIN a => HasNumber(a, "timelineStartNs")
       /\ "durationNs" \in DOMAIN a => Positive(a, "durationNs"))

(* services/TimelineMarkerTools.cpp                                                *)
AddMarkerTool(a) ==
  Tool([timelineNs |-> WholeNs(TRUE, "neg"), label |-> Str(FALSE), markerId |-> Id(FALSE)],
       Whole(a, "timelineNs") /\ OptionalId(a, "markerId"))

RemoveMarkerTool(a) == Tool([markerId |-> Id(TRUE)], HasId(a, "markerId"))
-----------------------------------------------------------------------------------
(* services/ProjectTools.cpp, MediaTools.cpp and TrackTools.cpp                    *)
ProjectCreateTool(a) ==
  Tool([name |-> Path(TRUE), fps |-> Rate(TRUE), width |-> Range_(TRUE),
        height |-> Range_(TRUE), colorSpace |-> Word(FALSE, {"w1"})],
       /\ HasString(a, "name") /\ Within(a, "fps") /\ Within(a, "width")
       /\ Within(a, "height") /\ OptionalWord(a, "colorSpace", {"w1"}))

ProjectOpenTool(a) == Tool([path |-> Path(TRUE)], HasString(a, "path"))
MediaImportTool(a) == Tool([path |-> Path(TRUE)], HasString(a, "path"))
ProjectSaveTool(a) == Tool([path |-> Path(FALSE)], TRUE)

SetProjectSettingsTool(a) ==
  Tool([fps |-> Rate(FALSE), width |-> Range_(FALSE), height |-> Range_(FALSE),
        colorSpace |-> Word(FALSE, {"w1"})],
       /\ "width" \in DOMAIN a <=> "height" \in DOMAIN a
       /\ {"fps", "width", "colorSpace"} \cap DOMAIN a # {}
       /\ "fps" \in DOMAIN a => Within(a, "fps")
       /\ "width" \in DOMAIN a => Within(a, "width") /\ Within(a, "height")
       /\ "colorSpace" \in DOMAIN a => HasWord(a, "colorSpace", {"w1"}))

MediaSetTagsTool(a) ==
  Tool([assetId |-> Id(TRUE), tags |-> List(0)], HasId(a, "assetId") /\ HasList(a, "tags"))

AddTrackTool(a) == Tool([kind |-> Word(TRUE, {"w1", "w2"})], HasWord(a, "kind", {"w1", "w2"}))
RemoveTrackTool(a) == Tool([trackId |-> Id(TRUE)], HasId(a, "trackId"))

SetTrackMutedTool(a) ==
  Tool([trackId |-> Id(TRUE), muted |-> Arg("boolean", TRUE)],
       HasId(a, "trackId") /\ "muted" \in DOMAIN a /\ a.muted = "flag")

UndoTool(a) == Tool(Nothing, TRUE)
RedoTool(a) == Tool(Nothing, TRUE)
-----------------------------------------------------------------------------------
(* services/GenerationExportTools.cpp with the hooks the application installs.     *)
GenerateTool(a) ==
  Tool([prompt |-> Path(TRUE), model |-> Str(TRUE), mediaType |-> Word(FALSE, {"w1"}),
        sourceAssetId |-> Id(FALSE), targetWidth |-> WholeNs(FALSE, "pos"),
        params |-> Arg("object", FALSE), trackId |-> Id(TRUE),
        framePosition |-> WholeNs(FALSE, "zero"), sourceInTicks |-> WholeNs(FALSE, "zero"),
        sourceOutTicks |-> WholeNs(FALSE, "pos")],
       HasId(a, "trackId"))

TranscribeTool(a) ==
  Tool([sourceClipId |-> Id(TRUE), captionTrackId |-> Id(TRUE)],
       HasId(a, "sourceClipId") /\ HasId(a, "captionTrackId"))

CaptureFrameTool(a) ==
  Tool([outputPath |-> Str(TRUE), positionNs |-> WholeNs(TRUE, "zero")],
       HasText(a, "outputPath") /\ HasNumber(a, "positionNs"))

(* exportRequestFromToolArguments() and ExportCoordinator::validate().             *)
ExportTool(a) ==
  Tool([outputPath |-> [Str(TRUE) EXCEPT !.shortest = 1], format |-> Str(TRUE),
        width |-> Range_(FALSE), codec |-> Word(FALSE, {"w1"}), fps |-> Rate(FALSE),
        bitrateKbps |-> Range_(FALSE), includeAudio |-> Flag, overwrite |-> Flag],
       /\ HasText(a, "outputPath") /\ HasText(a, "format")
       /\ \A n \in {"width", "fps", "bitrateKbps"} : n \in DOMAIN a => Within(a, n)
       /\ "codec" \in DOMAIN a => HasWord(a, "codec", {"w1"})
       /\ \A n \in {"includeAudio", "overwrite"} : n \in DOMAIN a => a[n] = "flag")

-----------------------------------------------------------------------------------
(* makeToolRegistry(): the registered tools.                                       *)
ToolOf(name, a) ==
  CASE name = "timeline.read" -> ReadTool(a)          [] name = "project.info" -> ProjectInfoTool(a)
    [] name = "media.list" -> MediaListTool(a)        [] name = "list_models" -> ListModelsTool(a)
    [] name = "edit.undo" -> UndoTool(a)              [] name = "edit.redo" -> RedoTool(a)
    [] name = "project.create" -> ProjectCreateTool(a) [] name = "project.open" -> ProjectOpenTool(a)
    [] name = "project.save" -> ProjectSaveTool(a)    [] name = "project.set_settings" -> SetProjectSettingsTool(a)
    [] name = "media.import" -> MediaImportTool(a)    [] name = "media.set_tags" -> MediaSetTagsTool(a)
    [] name = "add_track" -> AddTrackTool(a)          [] name = "remove_track" -> RemoveTrackTool(a)
    [] name = "set_track_muted" -> SetTrackMutedTool(a) [] name = "add_marker" -> AddMarkerTool(a)
    [] name = "remove_marker" -> RemoveMarkerTool(a)  [] name = "add_clip" -> AddClipTool(a)
    [] name = "delete_clip" -> DeleteClipTool(a)      [] name = "ripple_delete" -> RippleDeleteTool(a)
    [] name = "close_gap" -> CloseGapTool(a)          [] name = "move_clip" -> MoveClipTool(a)
    [] name = "set_clip_properties" -> SetClipPropertiesTool(a)
    [] name = "apply_layout" -> ApplyLayoutTool(a)
    [] name = "set_keyframes" -> SetKeyframesTool(a)  [] name = "trim_clip" -> TrimClipTool(a)
    [] name = "ripple_trim" -> RippleTrimTool(a)      [] name = "split_clip" -> SplitClipTool(a)
    [] name = "reorder_clips" -> ReorderClipsTool(a)  [] name = "reorder_effects" -> ReorderEffectsTool(a)
    [] name = "add_effect" -> AddEffectTool(a)        [] name = "remove_effect" -> RemoveEffectTool(a)
    [] name = "set_effect_parameter" -> SetEffectParameterTool(a)
    [] name = "set_effect_resource" -> SetEffectResourceTool(a)
    [] name = "edit_curve_point" -> EditCurvePointTool(a) [] name = "add_transition" -> AddTransitionTool(a)
    [] name = "add_text_clip" -> AddTextClipTool(a)   [] name = "set_text_content" -> SetTextContentTool(a)
    [] name = "set_text_style" -> SetTextStyleTool(a) [] name = "add_caption_cue" -> AddCaptionCueTool(a)
    [] name = "set_caption_text" -> SetCaptionTextTool(a) [] name = "retime_caption_cue" -> RetimeCaptionCueTool(a)
    [] name = "remove_caption_cue" -> RemoveCaptionCueTool(a)
    [] name = "generate" -> GenerateTool(a)
    [] name = "transcribe_to_captions" -> TranscribeTool(a)
    [] name = "capture_frame" -> CaptureFrameTool(a)
    [] name = "export" -> ExportTool(a)

(* The tools that take arguments; the others have nothing to get wrong.            *)
Tools ==
  {"project.create", "project.open", "media.import", "project.save", "project.set_settings",
   "media.set_tags", "add_track", "remove_track", "set_track_muted", "add_marker",
   "remove_marker", "add_clip", "delete_clip", "ripple_delete", "close_gap",
   "remove_caption_cue", "move_clip", "set_clip_properties", "apply_layout",
   "set_keyframes", "trim_clip", "ripple_trim", "split_clip", "reorder_clips",
   "reorder_effects", "add_effect", "remove_effect", "set_effect_parameter",
   "set_effect_resource", "edit_curve_point", "add_transition", "add_text_clip",
   "set_text_content", "set_text_style", "add_caption_cue", "set_caption_text",
   "retime_caption_cue", "generate", "transcribe_to_captions", "capture_frame", "export",
   "timeline.read", "edit.undo"}

SchemaOf(name) == ToolOf(name, Nothing).schema
-----------------------------------------------------------------------------------
(* ui/GuiToolGateway.cpp: the argument objects it builds from its C++ parameters.  *)
(* Ids are always well formed there, numbers and strings are what the user typed,  *)
(* enumerations are words of their vocabulary, and an optional member is there or  *)
(* not.                                                                            *)
Typed     == {"text", "empty", "long"}
Unsigned  == {"zero", "pos", "huge"}
Optional(n, set) == {Nothing} \cup {Member(n, v) : v \in set}
Join(S, T) == {Beside(s, t) : s \in S, t \in T}

GuiClipArgs(name) ==
  CASE name \in {"delete_clip", "ripple_delete", "close_gap", "remove_caption_cue"} ->
         [clipId : {"id"}]
    [] name = "move_clip"  -> [clipId : {"id"}, timelineStartNs : Integers_]
    [] name \in {"trim_clip", "ripple_trim"} ->
         [clipId : {"id"}, edge : {"w1", "w2"}, boundaryNs : Integers_,
          sourceDurationNs : Integers_]
    [] name = "split_clip" -> [clipId : {"id"}, playheadNs : Integers_]
    [] name = "reorder_clips"   -> [trackId : {"id"}, order : {"none", "list"}]
    [] name = "add_clip" ->
         Join([trackId : {"id"}, assetId : {"id"}, timelineStartNs : Integers_,
               sourceInNs : Integers_, sourceOutNs : Integers_, opacity : {"frac", "huge"},
               gain : {"neg", "pos"}],
              Join(Optional("sourcePath", {"text", "long"}), Optional("clipId", {"id"})))
    [] name = "add_track"    -> [kind : {"w1", "w2"}]
    [] name = "remove_track" -> [trackId : {"id"}]
    [] OTHER -> {}
GuiEffectArgs(name) ==
  CASE name = "reorder_effects" -> [clipId : {"id"}, order : {"none", "list"}]
    [] name = "add_effect"   ->
         Join([clipId : {"id"}, type : {"w1"}], Optional("parameters", {"map"}))
    [] name = "remove_effect" -> [clipId : {"id"}, effectId : {"id"}]
    [] name = "set_effect_parameter" ->
         [clipId : {"id"}, effectId : {"id"}, parameter : Typed, value : Numbers]
    [] name = "edit_curve_point" ->
         Join([clipId : {"id"}, effectId : {"id"}, channel : {"w1", "text"},
               operation : Words \cup {"text"}],
              Join(Optional("index", Unsigned), {Nothing} \cup [x : Numbers, y : Numbers]))
    [] name = "add_transition" -> [clipId : {"id"}, kind : {"w1"}, durationNs : Integers_]
    [] OTHER -> {}
GuiTextArgs(name) ==
  CASE name = "add_text_clip" ->
         [trackId : {"id"}, timelineStartNs : Integers_, durationNs : Integers_,
          content : Typed, fontFamily : {"text", "empty"}, pointSize : Numbers,
          colorR : Numbers, alignment : {"w1"}, x : {"frac", "huge"}]
    [] name = "set_text_content" -> [clipId : {"id"}, content : Typed]
    [] name = "set_text_style" ->
         Join([clipId : {"id"}],
              Join(Join(Optional("fontFamily", {"text", "empty"}), Optional("pointSize", Numbers)),
                   Join(Optional("colorR", Numbers),
                        Join(Optional("alignment", {"w1"}), Optional("x", {"frac", "huge"})))))
    [] name = "add_caption_cue" ->
         [trackId : {"id"}, timelineStartNs : Integers_, durationNs : Integers_, text : Typed]
    [] name = "set_caption_text" -> [clipId : {"id"}, text : Typed]
    [] name = "retime_caption_cue" ->
         Join([clipId : {"id"}], Join(Optional("timelineStartNs", Integers_),
                                      Optional("durationNs", Integers_)))
    [] OTHER -> {}
GuiMediaArgs(name) ==
  CASE name = "transcribe_to_captions" -> [sourceClipId : {"id"}, captionTrackId : {"id"}]
    [] name = "capture_frame" -> [outputPath : Typed, positionNs : Integers_]
    [] name \in {"media.import", "project.open"} -> [path : Typed]
    [] OTHER -> {}
GuiProjectArgs(name) ==
  CASE name = "project.create" ->
         Join([name : Typed, fps : Numbers, width : Unsigned, height : Unsigned],
              Optional("colorSpace", {"w1", "text"}))
    [] name = "project.set_settings" ->
         Join(Join(Optional("fps", Numbers), Optional("width", Unsigned)),
              Join(Optional("height", Unsigned), Optional("colorSpace", {"w1", "text"})))
    [] name = "project.save" -> Optional("path", {"text", "long"})
    [] name = "export" ->
         Join([outputPath : Typed, format : {"text", "empty"}, overwrite : {"flag"}],
              Join(Join(Optional("width", Unsigned), Optional("codec", {"w1", "text"})),
                   Join(Optional("fps", Numbers),
                        Join(Optional("bitrateKbps", Unsigned), Optional("includeAudio", {"flag"})))))
    [] OTHER -> {}
GuiArgs(name) ==
  UNION {GuiClipArgs(name), GuiEffectArgs(name), GuiTextArgs(name), GuiMediaArgs(name),
         GuiProjectArgs(name)}
-----------------------------------------------------------------------------------
(* What a client may send: an object made from the published declaration, with one *)
(* thing wrong, or nothing.                                                        *)
Sample(s) ==
  CASE s.uuid                    -> "id"    [] s.words # {}       -> "w1"
    [] s.kind = "string"         -> "text"  [] s.kind = "array"   -> "list"
    [] s.kind = "boolean"        -> "flag"  [] s.kind = "object"  -> "map"
    [] s.kind \in {"integer", "number"} -> "pos"

Declared(schema, names) == [n \in names |-> Sample(schema[n])]
Perturbed(a) ==
  {a} \cup {[n \in DOMAIN a \ {m} |-> a[n]] : m \in DOMAIN a}
      \cup {[a EXCEPT ![m] = v] : m \in DOMAIN a, v \in Values}
      \cup {Beside(Member("extra", "text"), a)}

ClientArgs(name) ==
  LET schema   == SchemaOf(name)
      required == {n \in DOMAIN schema : schema[n].required}
  IN Perturbed(Declared(schema, DOMAIN schema)) \cup Perturbed(Declared(schema, required))
-----------------------------------------------------------------------------------
VARIABLES asked,    \* the call on its way: who sent it, the tool, its arguments
          stage,    \* "idle", "sent", "fitting" or "answered"
          refusal   \* "none", the rule of validate() that refused it, or "handler"

surfaceVars == <<asked, stage, refusal>>

NoCall == [from |-> "nobody", tool |-> "timeline.read", args |-> Nothing]

SurfaceInit == asked = NoCall /\ stage = "idle" /\ refusal = "none"

(* A gesture of the user, through one method of GuiToolGateway.                    *)
GuiCall ==
  /\ stage = "idle"
  /\ \E t \in Tools : \E a \in GuiArgs(t) : asked' = [from |-> "gui", tool |-> t, args |-> a]
  /\ stage' = "sent" /\ UNCHANGED refusal

(* A request of an MCP client or of the agent.                                     *)
ClientCall ==
  /\ stage = "idle"
  /\ \E t \in Tools : \E a \in ClientArgs(t) :
       asked' = [from |-> "client", tool |-> t, args |-> a]
  /\ stage' = "sent" /\ UNCHANGED refusal

(* McpToolExecutor::validateArguments(): the declaration, before anything runs.    *)
CheckArguments ==
  /\ stage = "sent"
  /\ LET rule == Validate(SchemaOf(asked.tool), asked.args) IN
     /\ refusal' = IF rule = "fits" THEN "none" ELSE rule
     /\ stage'   = IF rule = "fits" THEN "fitting" ELSE "answered"
  /\ UNCHANGED asked

(* The handler reads the arguments for itself.                                     *)
ReadArguments ==
  /\ stage = "fitting"
  /\ refusal' = IF ToolOf(asked.tool, asked.args).parses THEN "none" ELSE "handler"
  /\ stage' = "answered" /\ UNCHANGED asked

AnswerCall ==
  /\ stage = "answered"
  /\ asked' = NoCall /\ stage' = "idle" /\ refusal' = "none"

SurfaceNext == GuiCall \/ ClientCall \/ CheckArguments \/ ReadArguments \/ AnswerCall

SurfaceTypeOK ==
  /\ asked.tool \in Tools /\ asked.from \in {"nobody", "gui", "client"}
  /\ stage \in {"idle", "sent", "fitting", "answered"}
  /\ refusal \in {"none", "missing", "unknown", "type", "bounds", "handler"}
-----------------------------------------------------------------------------------
(* The rules the declarations leave to the handlers, as the comments beside them    *)
(* and the conformance test list: an order between two arguments, the shape of a    *)
(* list's items, members that come together, at least one of a set, and the state   *)
(* of the file system and of the export vocabulary.                                 *)
LeftToHandler ==
  {"add_clip", "reorder_clips", "reorder_effects", "apply_layout", "set_keyframes",
   "media.set_tags", "edit_curve_point", "project.set_settings", "retime_caption_cue",
   "capture_frame", "export"}

(* Where the handler refuses on a bound the vocabulary could have stated, and no    *)
(* comment says so: a negative marker time and an empty caption text.               *)
Understated == {"add_marker", "add_caption_cue", "set_caption_text"}

(* Nothing the GUI's gateway builds is refused as missing, undeclared or of the     *)
(* wrong kind: the two sides use the same names and the same kinds.                 *)
GatewaySpeaksTheSchema ==
  asked.from = "gui" => refusal \notin {"missing", "unknown", "type"}

(* What a declaration accepts its handler can read, save for the rules above.       *)
HandlersReadWhatFits == refusal = "handler" => asked.tool \in LeftToHandler \cup Understated

SurfaceSound == GatewaySpeaksTheSchema /\ HandlersReadWhatFits

SurfaceSpec == SurfaceInit /\ [][SurfaceNext]_surfaceVars
===================================================================================
