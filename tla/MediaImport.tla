-------------------------------- MODULE MediaImport --------------------------------
(***********************************************************************************)
(* services/MediaImportService on top of the project session: a file on disk      *)
(* becomes an asset of the current media library.  The service outlives every     *)
(* project and remembers, per file, the description of the last asset it made.    *)
(***********************************************************************************)
EXTENDS ProjectSession

CONSTANTS
  Files,        \* canonical locations of media files
  NoAsset,      \* nothing imported, nothing answered
  MaxIds        \* bound: asset ids made in one behaviour

(* What CONSTANT Assets stands for here: an id and the file it was made from.      *)
FileAssets == [id : 1..MaxIds, file : Files]

ASSUME ImportAssumption == MaxIds \in Nat /\ Assets = FileAssets

VARIABLES
  imported,     \* imported_: the asset last registered for each file
  answer,       \* the asset the call that just returned named, if it was an import
  nextId        \* every asset gets a fresh id

importVars == <<sessionVars, imported, answer, nextId>>

NothingImported == [f \in Files |-> NoAsset]

ImportInit ==
  /\ Init
  /\ imported = NothingImported
  /\ answer = NoAsset
  /\ nextId = 1

Registered(f) == {a \in library : a.file = f}

(* import() of a file the library does not list, in one step: calls that meet over *)
(* the probe are in ImportCalls.  The probe may also reject the file or run out of *)
(* time, which changes nothing.                                                    *)
ImportNew(f) ==
  LET a == [id |-> nextId, file |-> f] IN
  /\ nextId <= MaxIds
  /\ Registered(f) = {}
  /\ ImportAsset(a)
  /\ imported' = [imported EXCEPT ![f] = a]
  /\ answer' = a
  /\ nextId' = nextId + 1

(* import() of a file the library lists answers from the cache when it can.        *)
ImportKnown(f) ==
  /\ up
  /\ Registered(f) # {}
  /\ \E a \in Registered(f) :
       answer' = IF imported[f] # NoAsset THEN imported[f] ELSE a
  /\ UNCHANGED <<sessionVars, imported, nextId>>

(* Everything else the program does; the cache is lost with the process.           *)
OtherStep ==
  /\ Next
  /\ imported' = IF up' THEN imported ELSE NothingImported
  /\ answer' = NoAsset
  /\ UNCHANGED nextId

ImportNext == OtherStep \/ \E f \in Files : ImportNew(f) \/ ImportKnown(f)

ImportSpec == ImportInit /\ [][ImportNext]_importVars

-----------------------------------------------------------------------------------
(* Types, and asset ids are handed out once.                                       *)
ImportTypeOK ==
  /\ SessionTypeOK
  /\ \A a \in library : a.id < nextId
  /\ imported \in [Files -> FileAssets \cup {NoAsset}]
  /\ answer \in FileAssets \cup {NoAsset}
  /\ nextId \in 1..(MaxIds + 1)

(* However often a file is imported, in whatever order projects are saved, opened  *)
(* and created, the library lists it once (MediaImportService.hpp:189-192).        *)
OneAssetPerFile == \A a, b \in library : a.file = b.file => a = b

(* Every asset the document uses can be found in the media library                 *)
(* (ProjectSession.hpp:16-19).                                                     *)
LibraryCoversDocument == up => doc.assets \subseteq library

(* What importing promises: one asset for one file, and a library that has *)
(* every asset the document uses.                                          *)
LibrarySound == ImportTypeOK /\ OneAssetPerFile /\ LibraryCoversDocument
====================================================================================
