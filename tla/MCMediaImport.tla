---------------------------- MODULE MCMediaImport ----------------------------
(***************************************************************************)
(* The project session, imports into its library, and the document a save  *)
(* writes.  A behaviour has two paths and two saves and imports nothing,   *)
(* or one path, one save and imports, or is one of the document.           *)
(***************************************************************************)
EXTENDS MediaImport, ProjectDocument

CONSTANTS pathA, pathB
VARIABLE part

MCAssets == FileAssets

MCInit == part \in {"session", "import", "document"} /\ ImportInit /\ DocumentInit

MCNext ==
  /\ UNCHANGED part
  /\ CASE part = "session" ->
           Next /\ revision' <= 3 /\ UNCHANGED <<imported, answer, nextId, documentVars>>
       [] part = "document" -> DocumentNext /\ UNCHANGED importVars
       [] part = "import" ->
           /\ ImportNext /\ UNCHANGED documentVars
           /\ Len(saves') <= 1
           /\ pathB \notin {documentPath'} \cup {saves'[i].path : i \in DOMAIN saves'}

MCSpec == MCInit /\ [][MCNext]_<<part, importVars, documentVars>> /\ Fairness
===============================================================================
