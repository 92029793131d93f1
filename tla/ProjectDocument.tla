------------------------------ MODULE ProjectDocument ------------------------------
(***********************************************************************************)
(* services/ProjectStore: the .palmier document.  Which fields of a project are   *)
(* written, which a reader insists on, what an older document that lacks them     *)
(* means, and which documents openProject() accepts after reading them.           *)
(*                                                                                 *)
(* A project has its own fields and at most one track with at most one clip: the  *)
(* rules of the format are about one object at a time.  A field is "plain" when   *)
(* it has its default and "set" when the user chose something else; the values    *)
(* some rule treats differently have names of their own.  Minor versions stand    *)
(* for versions, because every document so far is of major version 1.             *)
(***********************************************************************************)
EXTENDS Integers, Sequences

CONSTANT
  MaxDocumentEdits  \* bound: edits made; opening leaves room for one

Current == 9        \* SchemaVersion::current() is 1.9
Newer == 10         \* any version isCompatible() refuses

Null == "null"      \* the JSON literal
Illegible == "illegible"  \* JSON of another type, or a name the vocabulary does not know

(* The identity of an imported asset, and the nil one, which a caller may pass too *)
Media == "media"
Nil == "nil"

(* The asset table by what it lists; "plain" is the empty one.                     *)
Listed == [plain |-> {}, media |-> {Media}, twice |-> {Media}, nil |-> {Nil}]

ASSUME DocumentAssumption == MaxDocumentEdits \in Nat \ {0}

VARIABLES
  project,   \* engine_.snapshot()
  file,      \* what the last save wrote; <<>> when there is none
  saved,     \* history variable: the project it wrote
  changes    \* how many edits were made

documentVars == <<project, file, saved, changes>>

-----------------------------------------------------------------------------------
(* The fields of each object, and the minor version that added them.               *)
HeadFields == {"settings", "assets", "tags", "clipGroups", "markers"}
TrackFields == {"kind", "trackName"}
ClipFields ==
  {"asset", "span", "effects", "resourcePath", "transitionIn", "gain", "transform",
   "fades", "speed", "keyframes", "textStyle", "captionText"}

Fields(has) ==
       HeadFields
  \cup (IF "track" \in has THEN TrackFields ELSE {})
  \cup (IF "clip" \in has THEN ClipFields ELSE {})

MinorOf ==
  [trackName |-> 1, clipGroups |-> 1, textStyle |-> 2, captionText |-> 3, tags |-> 4,
   resourcePath |-> 5, transform |-> 6, fades |-> 6, speed |-> 7, keyframes |-> 8, markers |-> 9]

Since(k) == IF k \in DOMAIN MinorOf THEN MinorOf[k] ELSE 0

(* Read tolerantly: absent or null means the default.                              *)
Optional(k) == Since(k) > 0
(* Written as null when the clip has none.                                         *)
Nullable == {"transitionIn", "textStyle", "captionText"}
(* Fields that hold numbers nobody bounds from above; Json::parse() turns a        *)
(* lexeme such as 1e400 into infinity.                                             *)
Unbounded == {"effects", "gain", "keyframes", "textStyle"}
Finite(p) == \A k \in DOMAIN p.fields : p.fields[k] # "infinite"

-----------------------------------------------------------------------------------
(* Writing.                                                                        *)
Omitted(p) == IF "clip" \in p.has /\ p.fields["resourcePath"] = "plain"
              THEN {"resourcePath"} ELSE {}

WriteField(k, v) == IF k \in Nullable /\ v = "plain" THEN Null ELSE v

(* A plausible mistake: the writer forgets a field the reader has a default for.   *)
SerializeWithoutSpeed(p) ==
  [magic |-> TRUE, label |-> p.version, wellFormed |-> Finite(p), has |-> p.has,
   body |-> [k \in Fields(p.has) \ (Omitted(p) \cup {"speed"}) |-> WriteField(k, p.fields[k])]]

(* "inf" is no JSON, so one such number spoils the whole text.                     *)
SerializeProject(p) ==
  [magic |-> TRUE, label |-> p.version, wellFormed |-> Finite(p), has |-> p.has,
   body |-> [k \in Fields(p.has) \ Omitted(p) |-> WriteField(k, p.fields[k])]]

-----------------------------------------------------------------------------------
(* Reading.  A text that is not JSON to its last character is refused as a whole. *)
Parses(d) == d.wellFormed

Present(d, k) == k \in DOMAIN d.body /\ d.body[k] # Null

FieldReads(d, k) ==
  /\ k \in DOMAIN d.body \/ Optional(k)
  /\ Present(d, k) => d.body[k] # Illegible
  /\ k \in DOMAIN d.body /\ d.body[k] = Null => Optional(k) \/ k \in Nullable

(* Keyframes are sorted, and the canvas is cut to 32 bits.                         *)
Decode(v) == IF v \in {"unsorted", "wide"} THEN "set" ELSE v

ReadField(d, k) == IF Present(d, k) THEN Decode(d.body[k]) ELSE "plain"

IsSupported(label) == label <= Current

(* The empty set stands for an error.                                              *)
DeserializeProject(d) ==
  IF /\ Parses(d) /\ d.magic /\ IsSupported(d.label)
     /\ \A k \in Fields(d.has) : FieldReads(d, k)
  THEN {[version |-> d.label, has |-> d.has,
         fields |-> [k \in Fields(d.has) |-> ReadField(d, k)]]}
  ELSE {}

-----------------------------------------------------------------------------------
(* Accepting.                                                                      *)
Has(p, k) == k \in DOMAIN p.fields /\ p.fields[k] # "plain"
IsText(p) == Has(p, "textStyle")
IsCue(p) == Has(p, "captionText")

(* validateClip(), which the engine asks of every edit as well.                    *)
ValidateClip(p) == \A k \in DOMAIN p.fields : p.fields[k] # "invalid"

KindsAgree(p) ==
  "clip" \in p.has =>
    /\ (p.fields["kind"] = "text") = IsText(p)
    /\ (p.fields["kind"] = "caption") = IsCue(p)

Resolves(p) ==
  "clip" \in p.has /\ ~IsText(p) /\ ~IsCue(p) =>
    p.fields["asset"] \in Listed[p.fields["assets"]]

ValidateProject(p) ==
  /\ IsSupported(p.version) /\ ValidateClip(p) /\ KindsAgree(p) /\ Resolves(p)

(* libraryFor(): no nil identity, and none twice.                                  *)
Catalogued(p) == p.fields["assets"] \notin {"twice", "nil"}

Opened(d) == {p \in DeserializeProject(d) : ValidateProject(p) /\ Catalogued(p)}
Opens(d) == Opened(d) # {}

-----------------------------------------------------------------------------------
(* Documents from elsewhere: what the build of a minor version wrote, and the     *)
(* same with one field missing, null, illegible or unusual.                        *)
Kinds == {"video"} \cup {"text", "caption"}
KindSince(kind) == CASE kind = "text" -> 2 [] kind = "caption" -> 3 [] OTHER -> 0

Chosen(k, kind) ==
  CASE k = "assets" -> Media
    [] k = "kind" -> kind
    [] k = "asset" -> IF kind = "video" THEN Media ELSE Nil
    [] k = "textStyle" -> IF kind = "text" THEN "set" ELSE Null
    [] k = "captionText" -> IF kind = "caption" THEN "set" ELSE Null
    [] OTHER -> "set"

WrittenBy(minor, kind, has) ==
  [magic |-> TRUE, label |-> minor, wellFormed |-> TRUE, has |-> has,
   body |-> [k \in {k \in Fields(has) : Since(k) <= minor} |-> Chosen(k, kind)]]

Older == {WrittenBy(m, kind, has) : m \in 0..Newer, kind \in Kinds,
                                    has \in {{}, {"track"}, {"track", "clip"}}}
Honest == {d \in Older : "track" \in d.has => d.label >= KindSince(d.body["kind"])}

Unusual(k) ==
  CASE k = "settings" -> {"wide", "invalid"} [] k = "keyframes" -> {"unsorted"}
    [] k \in {"span", "gain", "speed", "captionText", "textStyle"} -> {"invalid"}
    [] k = "assets" -> {"plain", "twice", "nil"} [] k = "asset" -> {Nil}
    [] k = "kind" -> {"video", "text"}
    [] OTHER -> {}

Without(d, k) == [d EXCEPT !.body = [x \in DOMAIN d.body \ {k} |-> d.body[x]]]
Tampered(d) ==
       {Without(d, k) : k \in DOMAIN d.body}
  \cup {[d EXCEPT !.body[k] = v] : k \in DOMAIN d.body, v \in {Null, Illegible}}
  \cup (UNION {{[d EXCEPT !.body[k] = v] : v \in Unusual(k)} : k \in DOMAIN d.body})
  \cup {[d EXCEPT !.magic = FALSE], [d EXCEPT !.wellFormed = FALSE]}

Foreign ==
  Honest \cup UNION {Tampered(d) : d \in {d \in Honest : d.label = Current /\ "clip" \in d.has}}

-----------------------------------------------------------------------------------
(* The program.  What was open before does not matter to an open, so documents    *)
(* from elsewhere are opened first.                                                *)
BlankProject ==
  [version |-> Current, has |-> {},
   fields |-> [k \in HeadFields |-> IF k = "settings" THEN "set" ELSE "plain"]]

DocumentInit == project = BlankProject /\ file = <<>> /\ saved = <<>> /\ changes = 0

(* A document that is refused leaves the project that is open.                     *)
OpenDocument(d) ==
  /\ IF Opens(d) THEN project' \in Opened(d) ELSE UNCHANGED project
  /\ changes' = IF changes = 0 THEN MaxDocumentEdits - 1 ELSE changes
  /\ file' = <<>> /\ saved' = <<>>

(* The engine undoes an edit that breaks validateClip(); the rest it accepts.      *)
Edited(p) ==
  /\ changes < MaxDocumentEdits /\ ValidateClip(p)
  /\ project' = p /\ changes' = changes + 1
  /\ UNCHANGED <<file, saved>>

AddDocumentTrack(kind) ==
  /\ "track" \notin project.has
  /\ Edited([project EXCEPT
       !.has = @ \cup {"track"},
       !.fields = [k \in Fields({"track"}) |->
                     IF k = "kind" THEN kind
                     ELSE IF k = "trackName" THEN "plain" ELSE project.fields[k]]])

(* The tools that add clips look for the track, and not at its kind.               *)
PlacedClip(content, asset) ==
  [k \in ClipFields |->
     IF k = "asset" THEN asset
     ELSE IF \/ k = "span"
             \/ k = "textStyle" /\ content = "text"
             \/ k = "captionText" /\ content = "caption"
     THEN "set" ELSE "plain"]

(* AddClipCommand: an asset with an identity is entered in the asset table.        *)
AssetsWith(asset) ==
  LET table == project.fields["assets"] IN
  IF asset = Nil \/ asset \in Listed[table] THEN table ELSE Media

AddDocumentClip(content, asset) ==
  /\ "track" \in project.has /\ "clip" \notin project.has
  /\ content # "video" => asset = Nil
  /\ Edited([project EXCEPT
       !.has = @ \cup {"clip"},
       !.fields = [k \in Fields({"track", "clip"}) |->
                     IF k \in ClipFields THEN PlacedClip(content, asset)[k]
                     ELSE IF k = "assets" THEN AssetsWith(asset) ELSE project.fields[k]]])

(* No edit sets the tags, the clip groups or the name of a track, and what the     *)
(* others set may be the default again or too large for the format.                *)
Fixed == {"tags", "clipGroups", "trackName", "kind", "assets", "asset", "settings", "span", "captionText"}
Resettable == {"markers", "speed", "transitionIn", "resourcePath"}

Settable(k) ==
  {v \in {"set", "plain", "infinite", "invalid"} :
     /\ k \notin Fixed /\ (k = "textStyle" => Has(project, k))
     /\ v = "set"      => k # "textStyle"
     /\ v = "plain"    => k \in Resettable
     /\ v = "infinite" => k \in Unbounded
     /\ v = "invalid"  => k = "textStyle"}

SetField(k, v) == v # project.fields[k] /\ Edited([project EXCEPT !.fields[k] = v])

SaveDocument == file' = <<SerializeProject(project)>> /\ saved' = <<project>>
                /\ UNCHANGED <<project, changes>>

DocumentNext ==
  \/ changes = 0 /\ \E d \in Foreign : OpenDocument(d)
  \/ file # <<>> /\ OpenDocument(file[1])
  \/ \E kind \in Kinds : AddDocumentTrack(kind)
  \/ \E content \in Kinds, asset \in {Media, Nil} : AddDocumentClip(content, asset)
  \/ \E k \in DOMAIN project.fields : \E v \in Settable(k) : SetField(k, v)
  \/ SaveDocument

DocumentSpec == DocumentInit /\ [][DocumentNext]_documentVars

-----------------------------------------------------------------------------------
(* The types.                                                                      *)
DocumentTypeOK ==
  /\ project.version \in 0..Current /\ project.has \in {{}, {"track"}, {"track", "clip"}}
  /\ DOMAIN project.fields = Fields(project.has)
  /\ changes \in 0..MaxDocumentEdits
  /\ Len(file) <= 1 /\ Len(saved) = Len(file)

(* ProjectStore.hpp:130-136: what was written reads back as the project that was  *)
(* saved, whatever older document it began as, unless a number in it is infinite.  *)
ReadsBack ==
  saved # <<>> /\ Finite(saved[1]) => DeserializeProject(file[1]) = {saved[1]}

(* Of what the engine accepts, openProject() refuses nothing but these: a clip on *)
(* a track of another kind, a clip of the nil asset, an infinite number.           *)
SoundProjectsReopen ==
  saved # <<>> /\ Finite(saved[1]) /\ KindsAgree(saved[1]) /\ Resolves(saved[1])
    => Opened(file[1]) = {saved[1]}

(* A file this program saved, this program opens.                                  *)
SavedReopens == saved # <<>> => Opens(file[1])

DocumentsSound == DocumentTypeOK /\ ReadsBack /\ SoundProjectsReopen
====================================================================================
